------------------------------ MODULE MasterKey -----------------------------
(***************************************************************************)
(* The key that the stored profiles and the history are encrypted with     *)
(* (LoadOrCreateMasterKey in internal/security/keystore.go), from the      *)
(* start of a process to its first write to the database.                  *)
(*                                                                         *)
(* Processes may be killed at any point.  Of the system one of two things  *)
(* is assumed.  It is either reliable: several processes may be started at *)
(* once, a file that has been written can be synced, and there is no power *)
(* failure.  Or syncing may fail and power may be lost, but then one       *)
(* process runs at a time, and what it has left unsynced is written back   *)
(* before the next one starts.                                             *)
(***************************************************************************)
EXTENDS Naturals

CONSTANTS Processes,
          MasterKeys,   \* the keys that may be generated
          Absent,       \* no key file
          Invalid       \* an empty or incomplete file

ASSUME NoMasterKey == Absent \notin MasterKeys /\ Invalid \notin MasterKeys /\ Absent # Invalid

VARIABLES
    reliable,   \* which of the two is assumed
    keyFile,    \* what a reader of the file finds
    synced,     \* what a power failure would leave: "nothing", its "contents" or the "entry"
    encrypted,  \* the keys that rows of the database are encrypted with
    process,    \* where each process is, and the key it has
    removed     \* history: somebody has removed the file

keyVars == <<reliable, keyFile, synced, encrypted, process, removed>>

Places == {"off", "read", "inspect", "create", "write", "sync", "remove", "secure", "syncdir",
           "again", "ready"}
NoProcess == [at |-> "off", key |-> Absent]

KeyTypeOK ==
    /\ reliable \in BOOLEAN
    /\ keyFile \in MasterKeys \cup {Absent, Invalid}
    /\ synced \in {"nothing", "contents", "entry"}
    /\ encrypted \subseteq MasterKeys
    /\ process \in [Processes -> [at : Places, key : MasterKeys \cup {Absent}]]
    /\ removed \in BOOLEAN

KeyInit ==
    /\ reliable \in BOOLEAN
    /\ keyFile = Absent
    /\ synced = "entry"
    /\ encrypted = {}
    /\ process = [p \in Processes |-> NoProcess]
    /\ removed = FALSE

At(p, place) == process[p].at = place
Goes(p, place) == process' = [process EXCEPT ![p].at = place]
Ends(p) == process' = [process EXCEPT ![p] = NoProcess]
Gets(p, key) == process' = [process EXCEPT ![p] = [at |-> "ready", key |-> key]]

-----------------------------------------------------------------------------
Launch(p) ==
    /\ At(p, "off")
    /\ reliable \/ \A o \in Processes : At(o, "off")
    /\ Goes(p, "read")
    /\ synced' = IF reliable THEN synced ELSE "entry"
    /\ UNCHANGED <<reliable, keyFile, encrypted, removed>>

\* readMasterKey, of the file that has been there, or of one that has just been made by
\* another process: it must hold a complete key.
ReadKey(p) ==
    /\ \/ At(p, "read") /\ keyFile = Absent /\ Goes(p, "inspect")
       \/ At(p, "again") /\ keyFile = Absent /\ Ends(p)
       \/ (At(p, "read") \/ At(p, "again")) /\ keyFile = Invalid /\ Ends(p)
       \/ (At(p, "read") \/ At(p, "again")) /\ keyFile \in MasterKeys /\ Gets(p, keyFile)
    /\ UNCHANGED <<reliable, keyFile, synced, encrypted, removed>>

\* Variant: data that has been encrypted is no reason not to make a new key.
InspectNothing(p) ==
    /\ At(p, "inspect")
    /\ \E k \in MasterKeys : process' = [process EXCEPT ![p] = [at |-> "create", key |-> k]]
    /\ UNCHANGED <<reliable, keyFile, synced, encrypted, removed>>

\* Without a key there must be no data; then a key is drawn.  (The code looks for a file
\* that is not empty, and so refuses somewhat earlier, for a database without rows.)
Inspect(p) ==
    /\ At(p, "inspect")
    /\ \/ encrypted # {} /\ Ends(p)
       \/ /\ encrypted = {}
          /\ \E k \in MasterKeys :
                process' = [process EXCEPT ![p] = [at |-> "create", key |-> k]]
    /\ UNCHANGED <<reliable, keyFile, synced, encrypted, removed>>

\* Variant: the file is created, or truncated, without O_EXCL.
CreateOver(p) ==
    /\ At(p, "create")
    /\ keyFile' = Invalid /\ synced' = "nothing" /\ Goes(p, "write")
    /\ UNCHANGED <<reliable, encrypted, removed>>

\* O_EXCL: whoever comes second reads what the first has written.
Create(p) ==
    /\ At(p, "create")
    /\ \/ keyFile = Absent /\ keyFile' = Invalid /\ synced' = "nothing" /\ Goes(p, "write")
       \/ keyFile # Absent /\ Goes(p, "again") /\ UNCHANGED <<keyFile, synced>>
    /\ UNCHANGED <<reliable, encrypted, removed>>

WriteKey(p) ==
    /\ At(p, "write")
    /\ \/ keyFile' = process[p].key /\ Goes(p, "sync")
       \/ keyFile' = keyFile /\ Goes(p, "remove")
    /\ UNCHANGED <<reliable, synced, encrypted, removed>>

SyncFile(p) ==
    /\ At(p, "sync")
    /\ \/ synced' = "contents" /\ Goes(p, "secure")
       \/ ~reliable /\ synced' = synced /\ Goes(p, "remove")
    /\ UNCHANGED <<reliable, keyFile, encrypted, removed>>

\* The error of os.Remove is ignored.
RemoveFile(p) ==
    /\ At(p, "remove")
    /\ keyFile' \in {Absent, keyFile}
    /\ Ends(p)
    /\ UNCHANGED <<reliable, synced, encrypted, removed>>

\* SecurePrivateFile; a failure leaves the new key behind.
Secure(p) ==
    /\ At(p, "secure")
    /\ Goes(p, "syncdir") \/ Ends(p)
    /\ UNCHANGED <<reliable, keyFile, synced, encrypted, removed>>

\* syncDirectory, after which the new key is returned.
SyncDirectory(p) ==
    /\ At(p, "syncdir")
    /\ \/ synced' = "entry" /\ Goes(p, "ready")
       \/ synced' = synced /\ Ends(p)
    /\ UNCHANGED <<reliable, keyFile, encrypted, removed>>

\* Profiles or history are saved.
Encrypt(p) ==
    /\ At(p, "ready")
    /\ encrypted' = encrypted \cup {process[p].key}
    /\ UNCHANGED <<reliable, keyFile, synced, process, removed>>

-----------------------------------------------------------------------------
\* The process ends or is killed.
Kill(p) ==
    /\ ~At(p, "off")
    /\ Ends(p)
    /\ UNCHANGED <<reliable, keyFile, synced, encrypted, removed>>

\* What may be left of the file: it is lost as far as it is not synced, if power fails.
Survivors ==
    {keyFile} \cup {left \in {Absent, Invalid} :
                        ~reliable /\ synced # "entry" /\ (left = Invalid => synced = "nothing")}

PowerFails ==
    /\ ~reliable
    /\ keyFile' \in Survivors
    /\ synced' = "entry"
    /\ process' = [p \in Processes |-> NoProcess]
    /\ UNCHANGED <<reliable, encrypted, removed>>

\* Somebody moves the data away from its key while no process runs.
RemoveByHand ==
    /\ \A p \in Processes : At(p, "off")
    /\ keyFile' = Absent
    /\ synced' = "entry"
    /\ removed' = TRUE
    /\ UNCHANGED <<reliable, encrypted, process>>

KeyNext ==
    \/ \E p \in Processes :
          \/ Launch(p) \/ ReadKey(p) \/ Inspect(p) \/ Create(p) \/ WriteKey(p) \/ SyncFile(p)
          \/ RemoveFile(p) \/ Secure(p) \/ SyncDirectory(p) \/ Encrypt(p) \/ Kill(p)
    \/ PowerFails
    \/ RemoveByHand

KeySpec == KeyInit /\ [][KeyNext]_keyVars

-----------------------------------------------------------------------------
\* Rows are never encrypted with two keys, although processes race to create the key,
\* creations are cut short, and the file is lost or removed.
OneMasterKey == \A j, k \in encrypted : j = k

\* As soon as a row is encrypted its key is in the file for good: no crash, failed
\* creation or power failure takes or replaces it.
KeyKept ==
    encrypted # {} /\ ~removed => Survivors \subseteq encrypted
=============================================================================
