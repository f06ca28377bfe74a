--------------------------- MODULE FirstUseTrust ----------------------------
(***************************************************************************)
(* What a host key store promises: a host has no trusted key until one is  *)
(* trusted for it, and then has that key for good.                         *)
(***************************************************************************)
CONSTANTS Hosts, Keys, NoKey

VARIABLE trusted    \* [Hosts -> Keys \cup {NoKey}]

Init == trusted = [h \in Hosts |-> NoKey]

Trust(h, k) ==
    /\ trusted[h] = NoKey
    /\ trusted' = [trusted EXCEPT ![h] = k]

Next == \E h \in Hosts, k \in Keys : Trust(h, k)

Spec == Init /\ [][Next]_trusted
=============================================================================
