------------------------ MODULE KeyManagementProofs ------------------------
(***************************************************************************)
(* Proofs, for every set of key numbers, paths and bounds, that the runs  *)
(* of main keep their variables typed and, when key-file writes do not    *)
(* fail, put no key on the card that is not already in a key file.        *)
(***************************************************************************)
EXTENDS KeyManagement, TLAPS

\* While a run holds a new key it is about to put on the card, that key is
\* in a key file: it was read from one, or written to one.
NewKeyStored ==
    pc \in {"prov_auth", "prov_change", "rot_auth", "rot_change"} => new_key \in StoredKeys

IInv ==
    /\ TypeOK
    /\ ~DiskFaults => NewKeyStored

LEMMA InitIInv == Init => IInv
<1> SUFFICES ASSUME Init PROVE IInv
    OBVIOUS
<1>1. TypeOK
    <2>1. card_keys \in [KeyNos -> Keys]
        BY KMAssumption DEF Init, Keys, FactoryKey
    <2>2. files \in [Paths -> FileValues]
        BY DEF Init, FileValues, NoFile
    <2>3. key \in Keys /\ key_no \in KeyNos /\ new_key \in Keys /\ new_key_no \in KeyNos
          /\ old_key \in Keys /\ counter_key \in Keys /\ counter_key_no \in KeyNos
        BY KMAssumption DEF Init, Keys, FactoryKey
    <2>4. next_key \in 0 .. MaxRuns /\ runs \in 0 .. MaxRuns /\ faults \in 0 .. MaxFaults
        BY KMAssumption DEF Init
    <2>5. QED
        BY <2>1, <2>2, <2>3, <2>4 DEF Init, TypeOK
<1>2. ~NewKeyStored => FALSE
    BY DEF Init, NewKeyStored
<1>3. QED
    BY <1>1, <1>2 DEF IInv


\* A key number that passes main's range check is one of the card's.
LEMMA KeyNoChecked ==
    ASSUME NEW n \in KeyNoArgs, KeyNoInRange(n)
    PROVE  n \in KeyNos
BY KMAssumption DEF KeyNoArgs, KeyNoInRange

\* The path a key is written to is a key-file path.
LEMMA OutPath ==
    ASSUME NEW out \in PathArgs, NEW f \in [KeyNos \cup {BadKeyNo} -> Paths],
           NEW n \in KeyNos
    PROVE  (IF out = None THEN f[n] ELSE out) \in Paths
BY DEF PathArgs

\* A write of a fresh key: the file then holds it, or, with disk faults,
\* the file is untouched or holds garbage.
LEMMA WriteKeyFileEffect ==
    ASSUME TypeOK, NEW p \in Paths, NEW k \in Keys, NEW nx,
           WriteKeyFile(p, k, nx)
    PROVE  /\ files' \in [Paths -> FileValues]
           /\ faults' \in 0 .. MaxFaults
           /\ ~DiskFaults => files' = [files EXCEPT ![p] = k] /\ pc' = nx
BY KMAssumption DEF WriteKeyFile, Cleanup, TypeOK, FileValues, Garbage

\* The card's answer to ChangeKey keeps the key table typed.
LEMMA ChangeKeyEffect ==
    ASSUME TypeOK, NEW t \in KeyNos, NEW old, NEW nk \in Keys,
           SecureChangeKey(t, old, nk)
    PROVE  /\ card_keys' \in [KeyNos -> Keys]
           /\ changed' \in BOOLEAN
           /\ faults' \in 0 .. MaxFaults
<1>1. card_keys' \in {card_keys, [card_keys EXCEPT ![t] = nk]}
    BY DEF SecureChangeKey
<1>7. changed' \in BOOLEAN
    BY DEF SecureChangeKey
<1>8. faults' \in 0 .. MaxFaults
    <2>1. faults' = faults \/ (faults < MaxFaults /\ faults' = faults + 1)
        BY DEF SecureChangeKey
    <2>2. QED
        BY <2>1, KMAssumption DEF TypeOK
<1>4. card_keys' \in [KeyNos -> Keys]
    BY <1>1 DEF TypeOK
<1>5. QED
    BY <1>4, <1>7, <1>8

\* Every step of a run keeps the invariant.
LEMMA NextIInv == IInv /\ [Next]_vars => IInv'
<1> SUFFICES ASSUME IInv, [Next]_vars PROVE IInv'
    OBVIOUS
<1> USE KMAssumption
<1>0. TypeOK /\ (~DiskFaults => NewKeyStored)
    BY DEF IInv
<1>1. CASE StartRun
    <2>1. PICK mode \in {"provision", "rotate", "final"}, k \in KnownKeys, n \in KeyNos :
                /\ pc' = mode
                /\ key' = k /\ key_no' = n
                /\ counter_key' = k /\ counter_key_no' = n
        BY <1>1 DEF StartRun
    <2>2. k \in Keys
        BY DEF KnownKeys, Keys, FactoryKey
    <2>3. runs' \in 0 .. MaxRuns
        BY <1>0, <1>1 DEF StartRun, TypeOK
    <2>4. TypeOK'
        BY <1>0, <1>1, <2>1, <2>2, <2>3 DEF StartRun, TypeOK
    <2>5. QED
        BY <1>0, <1>1, <2>1, <2>4 DEF StartRun, IInv, NewKeyStored
<1>2. ASSUME NEW n \in KeyNoArgs, ProvBadKeyNo(n) PROVE IInv'
    BY <1>0, <1>2 DEF ProvBadKeyNo, Cleanup, IInv, TypeOK, NewKeyStored
<1>3. ASSUME NEW n \in KeyNoArgs, NEW p \in Paths, ProvLoadKey(n, p) PROVE IInv'
    <2>1. n \in KeyNos
        BY <1>3, KeyNoChecked DEF ProvLoadKey
    <2>2. CASE KeyFileOk(p)
        <3>1. new_key' = files[p] /\ new_key' \in Keys /\ files' = files
            BY <1>3, <2>2 DEF ProvLoadKey, KeyFileOk, ReadKeyFile
        <3>2. TypeOK'
            BY <1>0, <1>3, <2>1, <2>2, <3>1 DEF ProvLoadKey, KeyFileOk, TypeOK
        <3>3. NewKeyStored'
            BY <3>1 DEF NewKeyStored, StoredKeys
        <3>4. QED
            BY <1>0, <1>3, <3>2, <3>3 DEF ProvLoadKey, IInv
    <2>3. CASE ~KeyFileOk(p)
        BY <1>0, <1>3, <2>3 DEF ProvLoadKey, Cleanup, IInv, TypeOK, NewKeyStored
    <2>4. QED
        BY <2>2, <2>3
<1>4. ASSUME NEW n \in KeyNoArgs, NEW out \in PathArgs, ProvGenerateKey(n, out)
      PROVE IInv'
    <2> DEFINE path == IF out = None THEN ProvPath[n] ELSE out
    <2>1. n \in KeyNos
        BY <1>4, KeyNoChecked DEF ProvGenerateKey
    <2>2. path \in Paths
        BY <2>1, OutPath
    <2>3. next_key + 1 \in Keys /\ next_key' = next_key + 1 /\ new_key' = next_key + 1
        BY <1>0, <1>4 DEF ProvGenerateKey, TypeOK, Keys
    <2>4. /\ files' \in [Paths -> FileValues]
          /\ faults' \in 0 .. MaxFaults
          /\ ~DiskFaults => files' = [files EXCEPT ![path] = next_key + 1] /\ pc' = "prov_auth"
        BY <1>0, <1>4, <2>2, <2>3, WriteKeyFileEffect DEF ProvGenerateKey
    <2>5. pc' \in {"prov_auth", "idle"}
        BY <1>4 DEF ProvGenerateKey, WriteKeyFile, Cleanup
    <2>6. TypeOK'
        BY <1>0, <1>4, <2>1, <2>3, <2>4, <2>5 DEF ProvGenerateKey, TypeOK, Keys
    <2>7. (~DiskFaults => NewKeyStored)'
        BY <1>0, <2>2, <2>3, <2>4 DEF NewKeyStored, StoredKeys, TypeOK
    <2>8. QED
        BY <1>0, <1>4, <2>6, <2>7 DEF ProvGenerateKey, IInv
<1>5. CASE ProvAuth
    BY <1>0, <1>5 DEF ProvAuth, Authenticate, Cleanup, IInv, TypeOK,
       NewKeyStored, StoredKeys
<1>6. CASE ProvChangeKey
    <2>1. /\ card_keys' \in [KeyNos -> Keys]
          /\ changed' \in BOOLEAN
          /\ faults' \in 0 .. MaxFaults
        BY <1>0, <1>6, ChangeKeyEffect DEF ProvChangeKey, TypeOK
    <2>2. pc' \in {"final", "idle"}
        BY <1>6 DEF ProvChangeKey, Cleanup
    <2>3. TypeOK'
        BY <1>0, <1>6, <2>1, <2>2 DEF ProvChangeKey, TypeOK
    <2>4. QED
        BY <2>1, <2>2, <2>3 DEF IInv, NewKeyStored
<1>7. ASSUME NEW n \in KeyNoArgs, NEW p \in PathArgs, RotLoadOld(n, p) PROVE IInv'
    <2>1. CASE KeyNoInRange(n) /\ p # None /\ KeyFileOk(p)
        <3>1. n \in KeyNos
            BY <2>1, KeyNoChecked
        <3>2. p \in Paths
            BY <2>1 DEF PathArgs
        <3>3. old_key' = files[p] /\ files[p] \in Keys /\ new_key_no' = n /\ pc' = "rot_new"
            BY <1>7, <2>1, <3>2 DEF RotLoadOld, KeyFileOk, ReadKeyFile, Cleanup
        <3>4. TypeOK'
            BY <1>0, <1>7, <3>1, <3>3 DEF RotLoadOld, TypeOK
        <3>5. QED
            BY <1>0, <1>7, <3>3, <3>4 DEF RotLoadOld, IInv, NewKeyStored
    <2>2. CASE ~(KeyNoInRange(n) /\ p # None /\ KeyFileOk(p))
        BY <1>0, <1>7, <2>2 DEF RotLoadOld, Cleanup, IInv, TypeOK,
           NewKeyStored
    <2>3. QED
        BY <2>1, <2>2
<1>8. ASSUME NEW p \in Paths, RotLoadNew(p) PROVE IInv'
    <2>1. CASE KeyFileOk(p)
        <3>1. new_key' = files[p] /\ new_key' \in Keys /\ files' = files
            BY <1>8, <2>1 DEF RotLoadNew, KeyFileOk, ReadKeyFile
        <3>2. TypeOK'
            BY <1>0, <1>8, <2>1, <3>1 DEF RotLoadNew, KeyFileOk, TypeOK
        <3>3. NewKeyStored'
            BY <3>1 DEF NewKeyStored, StoredKeys
        <3>4. QED
            BY <1>0, <1>8, <3>2, <3>3 DEF RotLoadNew, IInv
    <2>2. CASE ~KeyFileOk(p)
        BY <1>0, <1>8, <2>2 DEF RotLoadNew, Cleanup, IInv, TypeOK, NewKeyStored
    <2>3. QED
        BY <2>1, <2>2
<1>9. ASSUME NEW out \in PathArgs, RotGenerateNew(out) PROVE IInv'
    <2> DEFINE path == IF out = None THEN RotPath[new_key_no] ELSE out
    <2>1. new_key_no \in KeyNos
        BY <1>0 DEF TypeOK
    <2>2. path \in Paths
        BY <2>1, OutPath
    <2>3. next_key + 1 \in Keys /\ next_key' = next_key + 1 /\ new_key' = next_key + 1
        BY <1>0, <1>9 DEF RotGenerateNew, TypeOK, Keys
    <2>4. /\ files' \in [Paths -> FileValues]
          /\ faults' \in 0 .. MaxFaults
          /\ ~DiskFaults => files' = [files EXCEPT ![path] = next_key + 1] /\ pc' = "rot_auth"
        BY <1>0, <1>9, <2>2, <2>3, WriteKeyFileEffect DEF RotGenerateNew
    <2>5. pc' \in {"rot_auth", "idle"}
        BY <1>9 DEF RotGenerateNew, WriteKeyFile, Cleanup
    <2>6. TypeOK'
        BY <1>0, <1>9, <2>3, <2>4, <2>5 DEF RotGenerateNew, TypeOK, Keys
    <2>7. (~DiskFaults => NewKeyStored)'
        BY <1>0, <2>2, <2>3, <2>4 DEF NewKeyStored, StoredKeys, TypeOK
    <2>8. QED
        BY <1>0, <1>9, <2>6, <2>7 DEF RotGenerateNew, IInv
<1>10. CASE RotAuth
    BY <1>0, <1>10 DEF RotAuth, Authenticate, Cleanup, IInv, TypeOK,
       NewKeyStored, StoredKeys
<1>11. CASE RotChangeKey
    <2>1. /\ card_keys' \in [KeyNos -> Keys]
          /\ changed' \in BOOLEAN
          /\ faults' \in 0 .. MaxFaults
        BY <1>0, <1>11, ChangeKeyEffect DEF RotChangeKey, TypeOK
    <2>2. pc' \in {"final", "idle"}
        BY <1>11 DEF RotChangeKey, Cleanup
    <2>3. TypeOK'
        BY <1>0, <1>11, <2>1, <2>2 DEF RotChangeKey, TypeOK
    <2>4. QED
        BY <2>1, <2>2, <2>3 DEF IInv, NewKeyStored
<1>12. CASE FinalAuth
    BY <1>0, <1>12 DEF FinalAuth, Cleanup, IInv, TypeOK, NewKeyStored
<1>13. CASE UNCHANGED vars
    BY <1>0, <1>13 DEF vars, IInv, TypeOK, NewKeyStored, StoredKeys
<1>14. QED
    BY <1>1, <1>2, <1>3, <1>4, <1>5, <1>6, <1>7, <1>8, <1>9, <1>10, <1>11, <1>12, <1>13
       DEF Next

\* ChangeKey changes at most one key, to the new one.
LEMMA ChangeKeyTarget ==
    ASSUME TypeOK, NEW t \in KeyNos, NEW old, NEW nk \in Keys,
           SecureChangeKey(t, old, nk)
    PROVE  \A u \in KeyNos : card_keys'[u] # card_keys[u] => card_keys'[u] = nk
<1>1. card_keys' \in {card_keys, [card_keys EXCEPT ![t] = nk]}
    BY DEF SecureChangeKey
<1>2. QED
    BY <1>1 DEF TypeOK

\* A step of a run, when key-file writes do not fail, changes a key on the
\* card only to a key that a key file holds.
LEMMA StepWritesFirst ==
    ASSUME IInv, [Next]_vars, ~DiskFaults
    PROVE  KeysWrittenFirst
<1> USE KMAssumption
<1>0. TypeOK /\ NewKeyStored
    BY DEF IInv
<1>1. ASSUME UNCHANGED card_keys PROVE KeysWrittenFirst
    BY <1>1 DEF KeysWrittenFirst
<1>2. ASSUME pc \in {"prov_change", "rot_change"}, UNCHANGED files,
             SecureChangeKey(new_key_no, old_key, new_key)
                \/ SecureChangeKey(new_key_no, FactoryKey, new_key)
      PROVE  KeysWrittenFirst
    <2>1. new_key \in StoredKeys'
        BY <1>0, <1>2 DEF NewKeyStored, StoredKeys
    <2>2. \A u \in KeyNos : card_keys'[u] # card_keys[u] => card_keys'[u] = new_key
        BY <1>0, <1>2, ChangeKeyTarget DEF TypeOK, FactoryKey, Keys
    <2>3. QED
        BY <2>1, <2>2 DEF KeysWrittenFirst
<1>3. CASE ProvChangeKey
    BY <1>2, <1>3 DEF ProvChangeKey
<1>4. CASE RotChangeKey
    BY <1>2, <1>4 DEF RotChangeKey
<1>5. CASE ~ProvChangeKey /\ ~RotChangeKey
    <2>1. UNCHANGED card_keys
        BY <1>5 DEF Next, vars, StartRun, ProvBadKeyNo, ProvLoadKey, ProvGenerateKey,
           ProvAuth, RotLoadOld, RotLoadNew, RotGenerateNew, RotAuth, FinalAuth
    <2>2. QED
        BY <1>1, <2>1
<1>6. QED
    BY <1>3, <1>4, <1>5

\* The ranges main checks keep every variable of a run typed
\* (KeyNoInRange, lines 1278 and 1324).
THEOREM TypeCorrect == Spec => []TypeOK
<1>1. IInv => TypeOK
    BY DEF IInv
<1>2. QED
    BY InitIInv, NextIInv, <1>1, PTL DEF Spec

\* When key-file writes do not fail, main writes every key before it puts
\* it on the card (lines 1294, 1352 before 1310, 1367).
THEOREM WriteBeforeChangeHolds ==
    ASSUME ~DiskFaults
    PROVE  Spec => WriteBeforeChange
<1>1. IInv /\ [Next]_vars => [KeysWrittenFirst]_vars
    BY StepWritesFirst
<1>2. QED
    BY InitIInv, NextIInv, <1>1, PTL DEF Spec, WriteBeforeChange

====
