--------------------------- MODULE MCHostMonitor ---------------------------
(***************************************************************************)
(* Constants for the model checking of HostMonitor.                        *)
(***************************************************************************)
EXTENDS HostMonitor

CONSTANTS l1, l2

\* The first monitor samples often enough for an update to be displaced.
SampleBounds == [t \in {l1, l2} |-> IF t = l1 THEN 2 ELSE 1]
=============================================================================
