------------------------------ MODULE MCKeyFiles ----------------------------
(***************************************************************************)
(* The two files that keep keys, the host keys trusted and the master key  *)
(* of the stored data, checked one beside the other.                       *)
(***************************************************************************)
EXTENDS HostKeyStore, MasterKey

VARIABLE subject    \* which of the two is checked

mcVars == <<vars, keyVars, subject>>

MCInit ==
    /\ subject \in {"hosts", "master"}
    /\ Init
    /\ KeyInit
    /\ subject = "hosts" => reliable
    /\ subject = "master" => \A a, b \in Attempts : attempt[a] = attempt[b]

MCNext ==
    /\ UNCHANGED subject
    /\ \/ subject = "hosts" /\ Next /\ UNCHANGED keyVars
       \/ subject = "master" /\ KeyNext /\ UNCHANGED vars

MCSpec == MCInit /\ [][MCNext]_mcVars
=============================================================================
