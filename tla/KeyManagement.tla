---------------------------- MODULE KeyManagement ----------------------------
(***************************************************************************)
(* The key-changing flows of main() in src/ntag424_read.c, over several   *)
(* runs of the tool against one card: --provision (lines 1277-1321) and    *)
(* --rotate-key (lines 1323-1376), the key files they read and write, and  *)
(* the final authentication with the counter key (lines 1455-1457).       *)
(*                                                                         *)
(* What outlives a run is the card's key table and the key files on disk. *)
(* Keys are numbers: 0 is the factory all-zero key, and each random_bytes  *)
(* call draws the next unused number.  A session and a secure command are  *)
(* abstracted to their outcome, as SecureMessaging establishes it: a       *)
(* command the host reports as done was executed by the card, and a fault  *)
(* of the link loses the request or the response.                          *)
(*                                                                         *)
(* The card side of ChangeKey (not code of this repository) follows the    *)
(* NTAG 424 DNA behaviour the code relies on: keys are changed only under  *)
(* a session authenticated with key 0, a key other than the authenticated  *)
(* one (Case 2) is accepted when the payload's (new XOR old) XOR current   *)
(* key has the CRC32 of the new key, i.e. when old is the current key, and *)
(* the authenticated key itself (Case 1) expects another payload layout,   *)
(* so the 21-byte Case 2 payload the code always sends fails its padding   *)
(* check.                                                                  *)
(***************************************************************************)
EXTENDS Integers, FiniteSets

CONSTANTS
    KeyNos,      \* key numbers on the card the runs use (0x00..0x0F)
    BadKeyNo,    \* a key number argument above 0x0F
    Paths,       \* key-file paths
    ProvPath,    \* ProvPath[n]: "ntag424_key<n>.hex" (line 1290)
    RotPath,     \* RotPath[n]: "ntag424_key<n>_new.hex" (line 1348)
    MaxRuns,     \* bound on runs of the tool
    MaxFaults,   \* bound on link and disk faults
    DiskFaults   \* whether a key-file write may fail

None == "none"          \* an optional path argument left out
NoFile == -1            \* the path holds no file
Garbage == -2           \* the file holds no parsable key
FactoryKey == 0
Keys == 0 .. MaxRuns    \* the factory key and one fresh key per run

ASSUME KMAssumption ==
    /\ KeyNos \subseteq 0 .. 15 /\ 0 \in KeyNos
    /\ BadKeyNo \in Nat /\ BadKeyNo > 15
    /\ ProvPath \in [KeyNos \cup {BadKeyNo} -> Paths]
    /\ RotPath \in [KeyNos \cup {BadKeyNo} -> Paths]
    /\ None \notin Paths
    /\ MaxRuns \in Nat /\ MaxFaults \in Nat /\ DiskFaults \in BOOLEAN

VARIABLES
    card_keys,       \* the card's key table
    files,           \* the key files on disk
    pc,              \* where main() is in the current run
    key, key_no,     \* the authentication key and its number (argv)
    new_key,         \* new_key / rotate_new_key
    new_key_no,      \* new_key_no / rotate_key_no
    old_key,         \* the old key read from --old-key
    counter_key,     \* counter_key: the key of the final authentication
    counter_key_no,  \* counter_key_no
    changed,         \* this run's ChangeKey was reported OK
    next_key,        \* keys drawn by random_bytes so far
    runs, faults

vars == <<card_keys, files, pc, key, key_no, new_key, new_key_no, old_key,
          counter_key, counter_key_no, changed, next_key, runs, faults>>

FileValues == Keys \cup {NoFile, Garbage}
KeyNoArgs == KeyNos \cup {BadKeyNo}
PathArgs == Paths \cup {None}

\* The keys an operator can still supply: the factory key and every key
\* file that holds a key.
KnownKeys == {FactoryKey} \cup ({files[p] : p \in Paths} \cap Keys)

TypeOK ==
    /\ card_keys \in [KeyNos -> Keys]
    /\ files \in [Paths -> FileValues]
    /\ pc \in {"idle", "provision", "prov_auth", "prov_change",
               "rotate", "rot_new", "rot_auth", "rot_change", "final"}
    /\ key \in Keys /\ key_no \in KeyNos
    /\ new_key \in Keys /\ new_key_no \in KeyNos /\ old_key \in Keys
    /\ counter_key \in Keys /\ counter_key_no \in KeyNos
    /\ changed \in BOOLEAN
    /\ next_key \in 0 .. MaxRuns
    /\ runs \in 0 .. MaxRuns /\ faults \in 0 .. MaxFaults

Init ==
    /\ card_keys = [n \in KeyNos |-> FactoryKey]
    /\ files = [p \in Paths |-> NoFile]
    /\ pc = "idle"
    /\ key = FactoryKey /\ key_no = 0
    /\ new_key = FactoryKey /\ new_key_no = 0 /\ old_key = FactoryKey
    /\ counter_key = FactoryKey /\ counter_key_no = 0
    /\ changed = FALSE
    /\ next_key = 0 /\ runs = 0 /\ faults = 0

\* The run ends at "cleanup:" (line 1492); only the disk and the card remain.
Cleanup == pc' = "idle"

-----------------------------------------------------------------------------
(* Start of a run: the operator's arguments (lines 1032-1103), and the     *)
(* counter key set to the authentication key (lines 1270-1272).  The mode *)
(* is provisioning, rotation or neither; both at once is refused at line   *)
(* 1100 before any state is touched.                                       *)
StartRun ==
    /\ pc = "idle"
    /\ runs < MaxRuns
    /\ \E mode \in {"provision", "rotate", "final"}, k \in KnownKeys, n \in KeyNos :
          /\ pc' = mode
          /\ key' = k /\ key_no' = n
          /\ counter_key' = k /\ counter_key_no' = n
    /\ changed' = FALSE
    /\ runs' = runs + 1
    /\ UNCHANGED <<card_keys, files, new_key, new_key_no, old_key, next_key, faults>>

\* The range check on a key number argument (lines 1278, 1324).
KeyNoInRangeNoCheck(n) == TRUE
KeyNoInRange(n) == n <= 15

\* write_key_hex_file (lines 431-438): fopen("w") truncates the file; a
\* failed fopen returns 0 and leaves the file alone; fprintf and fclose are
\* not checked, so a write that fails after fopen returns 1 with the file
\* truncated.
WriteKeyFile(p, k, next) ==
    \/ /\ files' = [files EXCEPT ![p] = k]
       /\ pc' = next /\ UNCHANGED faults
    \/ /\ DiskFaults /\ faults < MaxFaults
       /\ faults' = faults + 1
       /\ \/ UNCHANGED files /\ Cleanup
          \/ files' = [files EXCEPT ![p] = Garbage] /\ pc' = next

\* read_key_file (lines 238-250): the first non-blank line as 32 hex digits.
ReadKeyFile(p) == files[p]
KeyFileOk(p) == ReadKeyFile(p) \in Keys

-----------------------------------------------------------------------------
(* --provision (lines 1277-1321).                                          *)

ProvBadKeyNo(n) ==
    /\ pc = "provision"
    /\ ~KeyNoInRange(n)
    /\ Cleanup
    /\ UNCHANGED <<card_keys, files, key, key_no, new_key, new_key_no, old_key,
                   counter_key, counter_key_no, changed, next_key, runs, faults>>

\* --provision-key PATH (lines 1282-1288).
ProvLoadKey(n, p) ==
    /\ pc = "provision"
    /\ KeyNoInRange(n)
    /\ \/ /\ KeyFileOk(p)
          /\ new_key' = ReadKeyFile(p) /\ new_key_no' = n
          /\ pc' = "prov_auth"
       \/ /\ ~KeyFileOk(p)
          /\ Cleanup /\ UNCHANGED <<new_key, new_key_no>>
    /\ UNCHANGED <<card_keys, files, key, key_no, old_key, counter_key,
                   counter_key_no, changed, next_key, runs, faults>>

ProvGenerateKeyUnsaved(n, out) ==
    /\ pc = "provision"
    /\ KeyNoInRange(n)
    /\ next_key < MaxRuns
    /\ next_key' = next_key + 1
    /\ new_key' = next_key + 1 /\ new_key_no' = n
    /\ pc' = "prov_auth"
    /\ UNCHANGED <<card_keys, files, key, key_no, old_key, counter_key, counter_key_no,
                   changed, runs, faults>>

\* A fresh key written to --key-out PATH or to ntag424_key<n>.hex
\* (lines 1288-1299), before the card is touched.
ProvGenerateKey(n, out) ==
    /\ pc = "provision"
    /\ KeyNoInRange(n)
    /\ next_key < MaxRuns
    /\ next_key' = next_key + 1
    /\ new_key' = next_key + 1 /\ new_key_no' = n
    /\ WriteKeyFile(IF out = None THEN ProvPath[n] ELSE out, next_key + 1, "prov_auth")
    /\ UNCHANGED <<card_keys, key, key_no, old_key, counter_key, counter_key_no,
                   changed, runs>>

-----------------------------------------------------------------------------
(* Authentication and ChangeKey, as their outcome over the link.           *)

\* authenticate_ev2_first with key/key_no (lines 1301-1307, 1359-1365): it
\* succeeds exactly when the card holds that key, unless a frame is lost.
Authenticate(next) ==
    \/ /\ key = card_keys[key_no]
       /\ pc' = next /\ UNCHANGED faults
    \/ /\ key # card_keys[key_no]
       /\ Cleanup /\ UNCHANGED faults
    \/ /\ faults < MaxFaults /\ faults' = faults + 1
       /\ Cleanup

\* The card's ChangeKey: only under key 0, never on the authenticated key
\* (Case 1 layout expected), and only when old is the current key (CRC32
\* of (new XOR old) XOR current).
ChangeKeyAccepted(t, old) ==
    /\ key_no = 0
    /\ t # key_no
    /\ old = card_keys[t]

\* change_key (lines 916-933) through ssm_cmd_full: the request may be
\* lost; otherwise the card applies or refuses the change, and its answer
\* may be lost.  ssm_cmd_full returns 1 for any 91xx answer whose MAC
\* verifies (lines 728, 761), and the card MACs an application error
\* (spec section 6) or answers it plainly; "changed" is what change_key
\* returned.
SecureChangeKey(t, old, new) ==
    \/ /\ faults < MaxFaults /\ faults' = faults + 1
       /\ UNCHANGED card_keys /\ changed' = FALSE
    \/ /\ card_keys' = IF ChangeKeyAccepted(t, old)
                       THEN [card_keys EXCEPT ![t] = new] ELSE card_keys
       /\ \/ /\ faults < MaxFaults /\ faults' = faults + 1
             /\ changed' = FALSE
          \/ /\ UNCHANGED faults
             /\ changed' \in IF ChangeKeyAccepted(t, old) THEN {TRUE} ELSE BOOLEAN

ProvAuth ==
    /\ pc = "prov_auth"
    /\ Authenticate("prov_change")
    /\ UNCHANGED <<card_keys, files, key, key_no, new_key, new_key_no, old_key,
                   counter_key, counter_key_no, changed, next_key, runs>>

\* ChangeKey(new_key_no, zero old key, new_key) and, when it returns 1, the
\* counter key switched to the new key (lines 1309-1320).
ProvChangeKey ==
    /\ pc = "prov_change"
    /\ SecureChangeKey(new_key_no, FactoryKey, new_key)
    /\ \/ /\ changed'
          /\ pc' = "final"
          /\ counter_key' = new_key /\ counter_key_no' = new_key_no
       \/ /\ ~changed'
          /\ Cleanup /\ UNCHANGED <<counter_key, counter_key_no>>
    /\ UNCHANGED <<files, key, key_no, new_key, new_key_no, old_key, next_key, runs>>

-----------------------------------------------------------------------------
(* --rotate-key (lines 1323-1376).                                          *)

\* The key number check, the required --old-key, and the old key read
\* (lines 1324-1337).
RotLoadOld(n, p) ==
    /\ pc = "rotate"
    /\ \/ /\ ~KeyNoInRange(n)
          /\ Cleanup /\ UNCHANGED <<old_key, new_key_no>>
       \/ /\ KeyNoInRange(n) /\ p = None
          /\ Cleanup /\ UNCHANGED <<old_key, new_key_no>>
       \/ /\ KeyNoInRange(n) /\ p # None /\ ~KeyFileOk(p)
          /\ Cleanup /\ UNCHANGED <<old_key, new_key_no>>
       \/ /\ KeyNoInRange(n) /\ p # None /\ KeyFileOk(p)
          /\ old_key' = ReadKeyFile(p) /\ new_key_no' = n
          /\ pc' = "rot_new"
    /\ UNCHANGED <<card_keys, files, key, key_no, new_key, counter_key,
                   counter_key_no, changed, next_key, runs, faults>>

\* --rotate-new-key PATH (lines 1340-1345).
RotLoadNew(p) ==
    /\ pc = "rot_new"
    /\ \/ /\ KeyFileOk(p)
          /\ new_key' = ReadKeyFile(p) /\ pc' = "rot_auth"
       \/ /\ ~KeyFileOk(p)
          /\ Cleanup /\ UNCHANGED new_key
    /\ UNCHANGED <<card_keys, files, key, key_no, new_key_no, old_key, counter_key,
                   counter_key_no, changed, next_key, runs, faults>>

\* A fresh key written to --new-key-out PATH or ntag424_key<n>_new.hex
\* (lines 1346-1357), before the card is touched.
RotGenerateNew(out) ==
    /\ pc = "rot_new"
    /\ next_key < MaxRuns
    /\ next_key' = next_key + 1
    /\ new_key' = next_key + 1
    /\ WriteKeyFile(IF out = None THEN RotPath[new_key_no] ELSE out, next_key + 1, "rot_auth")
    /\ UNCHANGED <<card_keys, key, key_no, new_key_no, old_key, counter_key,
                   counter_key_no, changed, runs>>

RotAuth ==
    /\ pc = "rot_auth"
    /\ Authenticate("rot_change")
    /\ UNCHANGED <<card_keys, files, key, key_no, new_key, new_key_no, old_key,
                   counter_key, counter_key_no, changed, next_key, runs>>

\* ChangeKey(rotate_key_no, old_key, rotate_new_key) and, when it returns
\* 1, the counter key replaced if it is the rotated one (lines 1367-1375).
RotChangeKey ==
    /\ pc = "rot_change"
    /\ SecureChangeKey(new_key_no, old_key, new_key)
    /\ \/ /\ changed'
          /\ pc' = "final"
          /\ counter_key' = IF new_key_no = counter_key_no THEN new_key ELSE counter_key
       \/ /\ ~changed'
          /\ Cleanup /\ UNCHANGED counter_key
    /\ UNCHANGED <<files, key, key_no, new_key, new_key_no, old_key,
                   counter_key_no, next_key, runs>>

-----------------------------------------------------------------------------
\* The final authentication with the counter key and the secure reads on
\* its session (lines 1455-1491) change neither the card's keys nor the
\* files; the run then ends.
FinalAuth ==
    /\ pc = "final"
    /\ Cleanup
    /\ UNCHANGED <<card_keys, files, key, key_no, new_key, new_key_no, old_key,
                   counter_key, counter_key_no, changed, next_key, runs, faults>>

Next ==
    \/ StartRun
    \/ \E n \in KeyNoArgs : ProvBadKeyNo(n)
    \/ \E n \in KeyNoArgs, p \in Paths : ProvLoadKey(n, p)
    \/ \E n \in KeyNoArgs, out \in PathArgs : ProvGenerateKey(n, out)
    \/ ProvAuth \/ ProvChangeKey
    \/ \E n \in KeyNoArgs, p \in PathArgs : RotLoadOld(n, p)
    \/ \E p \in Paths : RotLoadNew(p)
    \/ \E out \in PathArgs : RotGenerateNew(out)
    \/ RotAuth \/ RotChangeKey
    \/ FinalAuth

Spec == Init /\ [][Next]_vars

-----------------------------------------------------------------------------
(* Properties.                                                             *)

\* The files that hold a key.
StoredKeys == {files[p] : p \in Paths} \cap Keys

\* Whenever a run changes a key on the card, the new key is already in a
\* key file: main writes a generated key (write_key_hex_file, lines 1294,
\* 1352) before ChangeKey, so a lost ChangeKey answer cannot lose it.
KeysWrittenFirst ==
    \A t \in KeyNos : card_keys'[t] # card_keys[t] => card_keys'[t] \in StoredKeys'

\* No step of any run puts on the card a key that is not already in a key
\* file (the write of lines 1294 and 1352 comes before change_key).
WriteBeforeChange == [][KeysWrittenFirst]_vars

\* When main prints "ChangeKey OK" (lines 1310-1314, 1367-1371), the card holds the
\* new key under the changed key number.
ReportedChangeApplied ==
    changed => card_keys[new_key_no] = new_key

\* Every key on the card is one the operator can still supply: the factory
\* key or the content of a key file.  Lost when a provisioning or rotation
\* overwrites the file of the card's current key (lines 1294, 1352) and
\* its ChangeKey then fails.
KeyRecoverable ==
    \A t \in KeyNos : card_keys[t] \in KnownKeys

====
