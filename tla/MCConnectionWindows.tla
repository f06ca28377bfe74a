------------------------- MODULE MCConnectionWindows ------------------------
(***************************************************************************)
(* Constants for the model checking of ConnectionWindows.                  *)
(***************************************************************************)
EXTENDS ConnectionWindows

CONSTANTS alpha, beta, old, new   \* new only where contents are to differ

\* The first start of the program saves one profile.
FirstStart == [r \in {alpha, beta} |-> IF r = alpha THEN old ELSE Absent]
=============================================================================
