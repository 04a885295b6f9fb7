--------------------------- MODULE SdmSetupProofs ---------------------------
(***************************************************************************)
(* Proofs about SdmSetup for every value of the constants: type            *)
(* correctness, and that the chunk loop of write_ndef_file_plain leaves    *)
(* the whole template on the card whenever main reports it written.        *)
(***************************************************************************)
EXTENDS SdmSetup, TLAPS

-----------------------------------------------------------------------------
(* Arithmetic of the chunk loop.                                            *)

\* The chunk that starts at a multiple k of m is the only one whose start
\* lies in [k, k + m).
LEMMA ChunkAt ==
    ASSUME NEW k \in Nat, NEW c \in Nat, NEW m \in Nat \ {0},
           k % m = 0, k <= c * m, c * m < k + m
    PROVE  c = k \div m
  <1>1. k = (k \div m) * m
    OBVIOUS
  <1>2. (k \div m) * m <= c * m /\ c * m < ((k \div m) + 1) * m
    BY <1>1
  <1>3. k \div m <= c
    BY <1>2
  <1>4. c < (k \div m) + 1
    BY <1>2
  <1> QED BY <1>3, <1>4

\* The next multiple of m.
LEMMA NextChunk ==
    ASSUME NEW k \in Nat, NEW m \in Nat \ {0}, k % m = 0
    PROVE  (k + m) % m = 0
  <1>1. k = (k \div m) * m
    OBVIOUS
  <1>2. (k + m) \div m = (k \div m) + 1
    BY <1>1
  <1>3. (k + m) % m = (k + m) - ((k + m) \div m) * m
    OBVIOUS
  <1> QED BY <1>1, <1>2, <1>3

\* A byte before the end of the file lies in one of its chunks.
LEMMA ChunkInFile ==
    ASSUME NEW k \in Nat, k < FileSize
    PROVE  k \div ChunkMax \in Chunks
  BY SdmAssumption DEF Chunks

-----------------------------------------------------------------------------
(* The inductive invariant.                                                 *)

\* In the loop, every chunk before offset holds this run's template, and
\* offset is the start of a chunk or the end of the template.
WriteProgress ==
    /\ offset <= NdefLen(url)
    /\ offset % ChunkMax = 0 \/ offset = NdefLen(url)
    /\ \A c \in Chunks : c * ChunkMax < offset => ndef[c] = url

\* Every template on the card passed build_sdm_ndef's checks.
WrittenBuilt == \A c \in Chunks : ndef[c] # Blank => BuildOk(ndef[c])

\* TypeOK alone is not inductive: the bound on offset needs the template to
\* fit the file, which BuildNdef checked; NLEN fits its 16 bits because
\* every template on the card was built; TemplateWrittenWhole needs the
\* loop's progress, and that setupOk only holds between runs.
IInv ==
    /\ TypeOK
    /\ pc \in {"auth", "cfs", "select", "write"} => BuildOk(url)
    /\ pc = "write" => WriteProgress
    /\ setupOk => pc = "idle" /\ NdefHolds(url)
    /\ WrittenBuilt

\* Every template the model can build has at least the 58 bytes of NLEN,
\* header and placeholders, and at most 256.
LEMMA NdefLenBounds ==
    ASSUME NEW u \in Urls, BuildOk(u)
    PROVE  NdefLen(u) \in Nat /\ NdefLen(u) <= 256
  BY SdmAssumption DEF BuildOk, NdefLen, UriLen, SdmUrlLen

LEMMA InitIInv == Init => IInv
  <1> SUFFICES ASSUME Init PROVE IInv
    OBVIOUS
  <1>1. TypeOK
    <2>1. sdm \in [FileNos -> Urls \cup {NoSdm}] /\ ndef \in [Chunks -> Urls \cup {Blank}]
      BY DEF Init
    <2>2. offset \in 0 .. FileSize /\ runs \in 0 .. MaxRuns /\ faults \in 0 .. MaxFaults
      BY SdmAssumption DEF Init
    <2>3. /\ nlen \in Nat /\ nlen < 65536 /\ rdOffset \in Nat /\ rdOffset < 65536
          /\ remaining \in Nat /\ remaining < 65536 /\ total \in Nat
      BY DEF Init
    <2>4. /\ writeFree \in BOOLEAN /\ pastEnd \in PastEnds /\ pc = "idle"
          /\ url \in Urls /\ fileNo \in FileNos /\ sdmKeyNo \in SdmKeyNos
          /\ fsValid \in BOOLEAN /\ setupOk = FALSE
      BY DEF Init
    <2>5. pc \in {"idle", "ndef", "ndefloop", "setup", "build", "auth", "cfs", "select", "write"} /\ setupOk \in BOOLEAN
      BY <2>4
    <2> QED BY <2>1, <2>2, <2>3, <2>4, <2>5 DEF TypeOK
  <1>2. setupOk = FALSE /\ pc = "idle"
    BY DEF Init
  <1>3. WrittenBuilt
    BY DEF Init, WrittenBuilt
  <1> QED BY <1>1, <1>2, <1>3 DEF IInv

\* The steps that only move pc, from a place where setupOk is false.
LEMMA MoveIInv ==
    ASSUME IInv, SdmKeyNoCheck \/ BuildNdef \/ Authenticate
    PROVE  IInv'
  <1>1. UNCHANGED <<sdm, ndef, writeFree, offset, setupOk, faults, Others>>
    BY DEF SdmKeyNoCheck, BuildNdef, Authenticate
  <1>2. pc' \in {"build", "auth", "cfs", "idle"}
    BY DEF SdmKeyNoCheck, BuildNdef, Authenticate, Cleanup
  <1>3. pc' \in {"auth", "cfs"} => BuildOk(url)
    BY DEF SdmKeyNoCheck, BuildNdef, Authenticate, Cleanup, IInv
  <1>4. ~setupOk
    BY DEF SdmKeyNoCheck, BuildNdef, Authenticate, IInv
  <1>5. TypeOK'
    BY <1>1, <1>2 DEF IInv, TypeOK, Others
  <1> QED BY <1>1, <1>2, <1>3, <1>4, <1>5 DEF IInv, Others, WrittenBuilt

LEMMA StartRunIInv ==
    ASSUME IInv, StartRun
    PROVE  IInv'
  <1>1. PICK u \in Urls, f \in FileNos, k \in SdmKeyNos, v \in BOOLEAN :
             url' = u /\ fileNo' = f /\ sdmKeyNo' = k /\ fsValid' = v
    BY DEF StartRun
  <1>2. TypeOK'
    <2>1. /\ UNCHANGED <<sdm, ndef, writeFree, faults, pastEnd, nlen, rdOffset,
                           remaining, total>>
          /\ pc' = "ndef"
      BY DEF StartRun
    <2>2. setupOk' = FALSE /\ offset' = 0 /\ runs' = runs + 1 /\ runs < MaxRuns
      BY Zenon DEF StartRun
    <2>3. offset' \in 0 .. FileSize /\ runs' \in 0 .. MaxRuns
      BY <2>2, SdmAssumption DEF IInv, TypeOK
    <2>4. /\ sdm' \in [FileNos -> Urls \cup {NoSdm}] /\ ndef' \in [Chunks -> Urls \cup {Blank}]
          /\ writeFree' \in BOOLEAN /\ faults' \in 0 .. MaxFaults /\ pastEnd' \in PastEnds
          /\ nlen' \in Nat /\ nlen' < 65536 /\ rdOffset' \in Nat /\ rdOffset' < 65536
          /\ remaining' \in Nat /\ remaining' < 65536 /\ total' \in Nat
      BY <2>1 DEF IInv, TypeOK
    <2>5. /\ pc' \in {"idle", "ndef", "ndefloop", "setup", "build", "auth", "cfs", "select", "write"} /\ setupOk' \in BOOLEAN
          /\ url' \in Urls /\ fileNo' \in FileNos /\ sdmKeyNo' \in SdmKeyNos /\ fsValid' \in BOOLEAN
      BY <1>1, <2>1, <2>2
    <2> QED BY <2>3, <2>4, <2>5 DEF TypeOK
  <1> QED BY <1>2 DEF StartRun, IInv, WrittenBuilt

LEMMA ChangeFileSettingsIInv ==
    ASSUME IInv, ChangeFileSettingsSdm
    PROVE  IInv'
  <1>1. pc' \in {"idle", "select"} /\ UNCHANGED <<ndef, offset, setupOk, url>>
    BY DEF ChangeFileSettingsSdm, Cleanup, Others
  <1>2. sdm' \in [FileNos -> Urls \cup {NoSdm}] /\ writeFree' \in BOOLEAN
    <2>0. fileNo \in FileNos /\ url \in Urls /\ sdm \in [FileNos -> Urls \cup {NoSdm}]
          /\ writeFree \in BOOLEAN
      BY DEF IInv, TypeOK
    <2>1. ApplySettings(fileNo) => sdm' \in [FileNos -> Urls \cup {NoSdm}] /\ writeFree' \in BOOLEAN
      BY <2>0 DEF ApplySettings
    <2>2. UNCHANGED <<sdm, writeFree>> => sdm' \in [FileNos -> Urls \cup {NoSdm}] /\ writeFree' \in BOOLEAN
      BY DEF IInv, TypeOK
    <2> QED BY <2>1, <2>2 DEF ChangeFileSettingsSdm
  <1>3. faults' \in 0 .. MaxFaults
    <2>1. faults' = faults \/ Fault
      BY DEF ChangeFileSettingsSdm
    <2> QED BY <2>1, SdmAssumption DEF Fault, IInv, TypeOK
  <1>4. TypeOK'
    BY <1>1, <1>2, <1>3 DEF ChangeFileSettingsSdm, IInv, TypeOK, Others
  <1> QED BY <1>1, <1>4 DEF ChangeFileSettingsSdm, IInv, WrittenBuilt

LEMMA SelectIInv ==
    ASSUME IInv, SelectNdefFile
    PROVE  IInv'
  <1>1. pc' \in {"idle", "write"} /\ offset' = 0
        /\ UNCHANGED <<sdm, ndef, writeFree, setupOk, Others>>
    BY DEF SelectNdefFile, Cleanup
  <1>2. faults' \in 0 .. MaxFaults
    <2>1. faults' = faults \/ Fault
      BY DEF SelectNdefFile
    <2> QED BY <2>1, SdmAssumption DEF Fault, IInv, TypeOK
  <1>3. TypeOK'
    BY <1>1, <1>2, SdmAssumption DEF IInv, TypeOK, Others
  <1>4. BuildOk(url) /\ NdefLen(url) \in Nat
    BY NdefLenBounds DEF SelectNdefFile, IInv, TypeOK
  <1>5. WriteProgress'
    BY <1>1, <1>4, SdmAssumption DEF WriteProgress, Others, Chunks
  <1> QED BY <1>1, <1>3, <1>4, <1>5 DEF SelectNdefFile, IInv, Others, WrittenBuilt

\* One UpdateBinary: whatever its outcome the chunk index is in the file,
\* and when it succeeds the progress moves to the end of the chunk.
LEMMA WriteChunkIInv ==
    ASSUME IInv, WriteChunk
    PROVE  IInv'
  <1> DEFINE L == NdefLen(url)
             chunk == MinOf(L - offset, ChunkMax)
             written == [ndef EXCEPT ![offset \div ChunkMax] = url]
  <1>1. /\ pc = "write" /\ WriteProgress /\ offset < L /\ ~setupOk
        /\ TypeOK /\ L \in Nat /\ L <= 256
    BY NdefLenBounds DEF WriteChunk, WriteMore, IInv, TypeOK
  <1>2. offset % ChunkMax = 0 /\ offset \in Nat
    BY <1>1 DEF WriteProgress, TypeOK
  <1>3. offset \div ChunkMax \in Chunks
    BY <1>1, <1>2, ChunkInFile, SdmAssumption
  <1>4. written \in [Chunks -> Urls \cup {Blank}]
    BY <1>1, <1>3 DEF TypeOK
  <1>5. chunk \in 1 .. ChunkMax /\ offset + chunk <= L
    BY <1>1, <1>2, SdmAssumption DEF MinOf
  <1>6. UNCHANGED <<sdm, writeFree, setupOk, Others>>
    BY DEF WriteChunk
  <1>7. faults' \in 0 .. MaxFaults
    <2>1. faults' = faults \/ Fault
      BY DEF WriteChunk
    <2> QED BY <2>1, <1>1, SdmAssumption DEF Fault, TypeOK
  <1>10. (ndef' = ndef \/ ndef' = written) => WrittenBuilt'
    <2>1. BuildOk(url)
      BY <1>1 DEF IInv
    <2>2. WrittenBuilt
      BY DEF IInv
    <2> QED BY <2>1, <2>2, <1>1, <1>3 DEF WrittenBuilt, TypeOK
  <1>8. CASE writeFree /\ ndef' = written /\ offset' = offset + chunk /\ pc' = pc
    <2>1. TypeOK'
      BY <1>1, <1>4, <1>5, <1>6, <1>7, <1>8, SdmAssumption DEF TypeOK, Others
    <2>2. offset' % ChunkMax = 0 \/ offset' = L
      <3>1. CASE L - offset < ChunkMax
        BY <1>1, <1>2, <1>8, <3>1 DEF MinOf
      <3>2. CASE ~(L - offset < ChunkMax)
        <4>1. offset' = offset + ChunkMax
          BY <1>8, <3>2 DEF MinOf
        <4> QED BY <4>1, <1>2, NextChunk, SdmAssumption
      <3> QED BY <3>1, <3>2
    <2>3. ASSUME NEW c \in Chunks, c * ChunkMax < offset'
          PROVE  ndef'[c] = url
      <3>1. c \in Nat
        BY SdmAssumption DEF Chunks
      <3>2. CASE c * ChunkMax < offset
        BY <3>2, <1>1, <1>8 DEF WriteProgress, TypeOK
      <3>3. CASE ~(c * ChunkMax < offset)
        <4>1. c = offset \div ChunkMax
          BY <3>1, <3>3, <2>3, <1>2, <1>5, <1>8, ChunkAt, SdmAssumption
        <4> QED BY <4>1, <1>1, <1>3, <1>8 DEF TypeOK
      <3> QED BY <3>2, <3>3
    <2>4. WriteProgress'
      BY <2>2, <2>3, <1>5, <1>6, <1>8 DEF WriteProgress, Others
    <2> QED BY <2>1, <2>4, <1>1, <1>6, <1>8, <1>10 DEF IInv, Others
  <1>9. CASE pc' = "idle" /\ (ndef' = ndef \/ ndef' = written) /\ offset' = offset
    <2>1. TypeOK'
      BY <1>1, <1>4, <1>6, <1>7, <1>9 DEF TypeOK, Others
    <2> QED BY <2>1, <1>1, <1>6, <1>9, <1>10 DEF IInv
  <1> QED BY <1>8, <1>9 DEF WriteChunk, Cleanup

\* The loop ends with offset at the end of the template, so every chunk the
\* message spans is written.
LEMMA WriteDoneIInv ==
    ASSUME IInv, WriteDone
    PROVE  IInv'
  <1>1. pc = "write" /\ WriteProgress /\ ~(offset < NdefLen(url)) /\ TypeOK
    BY DEF WriteDone, WriteMore, IInv
  <1>2. NdefLen(url) \in Nat /\ offset \in Nat
    BY <1>1, NdefLenBounds DEF IInv, TypeOK
  <1>3. ASSUME NEW c \in Chunks, c * ChunkMax < NdefLen(url)
        PROVE  ndef[c] = url
    <2>1. c * ChunkMax < offset
      BY <1>1, <1>2, <1>3, SdmAssumption DEF Chunks
    <2> QED BY <2>1, <1>1 DEF WriteProgress
  <1>4. NdefHolds(url)
    BY <1>3 DEF NdefHolds
  <1>5. UNCHANGED <<sdm, ndef, writeFree, offset, faults, Others>>
          /\ setupOk' = TRUE /\ pc' = "idle"
    BY DEF WriteDone, Cleanup
  <1>6. TypeOK'
    BY <1>1, <1>5 DEF TypeOK, Others
  <1> QED BY <1>4, <1>5, <1>6 DEF IInv, NdefHolds, Others, WrittenBuilt

\* What the card answers, and so what read_binary returns, is a status and
\* a byte count.
LEMMA CardAnswerType ==
    ASSUME NEW off \in Nat, NEW le \in Nat, pastEnd \in {"error", "6C", "short"}
    PROVE  CardAnswer(off, le) \in [sw : {"9000", "6C", "error"}, n : Nat]
  <1>1. LeBytes(le) \in Nat /\ Avail(off) \in Nat
    BY SdmAssumption DEF LeBytes, Avail
  <1> QED BY <1>1 DEF CardAnswer

LEMMA ReadBinaryType ==
    ASSUME NEW off \in Nat, NEW le \in Nat, pastEnd \in {"error", "6C", "short"}
    PROVE  ReadBinary(off, le) \in [sw : {"9000", "6C", "error"}, n : Nat]
  <1>1. CardAnswer(off, le) \in [sw : {"9000", "6C", "error"}, n : Nat]
    BY CardAnswerType
  <1>2. CardAnswer(off, le).n \in Nat
    BY <1>1
  <1>3. CardAnswer(off, CardAnswer(off, le).n) \in [sw : {"9000", "6C", "error"}, n : Nat]
    BY <1>2, CardAnswerType
  <1> QED BY <1>1, <1>3 DEF ReadBinary

\* The NLEN main reads is that of a built template, or BlankNlen.
LEMMA NlenType ==
    ASSUME IInv
    PROVE  NlenOf(ndef[0]) \in Nat /\ NlenOf(ndef[0]) < 65536
  <1>1. 0 \in Chunks /\ ndef[0] \in Urls \cup {Blank}
    BY SdmAssumption DEF Chunks, IInv, TypeOK
  <1>2. CASE ndef[0] = Blank
    BY <1>2, SdmAssumption DEF NlenOf
  <1>3. CASE ndef[0] # Blank
    <2>1. ndef[0] \in Urls /\ BuildOk(ndef[0])
      BY <1>1, <1>3 DEF IInv, WrittenBuilt
    <2>2. NdefLen(ndef[0]) \in Nat /\ NdefLen(ndef[0]) <= 256
      BY <2>1, NdefLenBounds
    <2>3. NdefLen(ndef[0]) >= 2
      BY <2>1, SdmAssumption DEF NdefLen, UriLen, SdmUrlLen
    <2> QED BY <1>3, <2>2, <2>3 DEF NlenOf
  <1> QED BY <1>2, <1>3

\* The steps of the NDEF read touch only its own variables and pc.
LEMMA ReadStartIInv ==
    ASSUME IInv, ReadNdefStart
    PROVE  IInv'
  <1>1. /\ pc = "ndef" /\ pc' \in {"setup", "ndefloop"}
        /\ UNCHANGED <<sdm, ndef, writeFree, offset, setupOk, url, fileNo,
                       sdmKeyNo, fsValid, runs, pastEnd>>
    BY DEF ReadNdefStart
  <1>2. faults' \in 0 .. MaxFaults
    <2>1. faults' = faults \/ Fault
      BY DEF ReadNdefStart
    <2> QED BY <2>1, SdmAssumption DEF Fault, IInv, TypeOK
  <1>3. /\ nlen' \in Nat /\ nlen' < 65536 /\ rdOffset' \in Nat /\ rdOffset' < 65536
        /\ remaining' \in Nat /\ remaining' < 65536 /\ total' \in Nat
    <2>1. \/ UNCHANGED <<nlen, rdOffset, remaining, total>>
          \/ /\ nlen' = NlenOf(ndef[0]) /\ rdOffset' = 2
             /\ remaining' = nlen' /\ total' = 0
      BY DEF ReadNdefStart
    <2> QED BY <2>1, NlenType DEF IInv, TypeOK
  <1>4. TypeOK'
    BY <1>1, <1>2, <1>3 DEF IInv, TypeOK
  <1> QED BY <1>1, <1>4 DEF IInv, WrittenBuilt

LEMMA ReadChunkIInv ==
    ASSUME IInv, ReadNdefChunk
    PROVE  IInv'
  <1> DEFINE a == ReadBinary(rdOffset, ReadChunk(remaining))
  <1>1. /\ pc = "ndefloop" /\ pc' \in {"setup", "ndefloop"}
        /\ UNCHANGED <<sdm, ndef, writeFree, offset, setupOk, nlen, url,
                       fileNo, sdmKeyNo, fsValid, runs, pastEnd>>
    BY DEF ReadNdefChunk
  <1>2. faults' \in 0 .. MaxFaults
    <2>1. faults' = faults \/ Fault
      BY DEF ReadNdefChunk
    <2> QED BY <2>1, SdmAssumption DEF Fault, IInv, TypeOK
  <1>3. a.n \in Nat
    <2>1. rdOffset \in Nat /\ ReadChunk(remaining) \in Nat
          /\ pastEnd \in {"error", "6C", "short"}
      BY SdmAssumption DEF IInv, TypeOK, ReadChunk, MinOf
    <2> QED BY <2>1, ReadBinaryType
  <1>4. /\ rdOffset' \in Nat /\ rdOffset' < 65536 /\ remaining' \in Nat /\ remaining' < 65536
        /\ total' \in Nat
    <2>1. \/ /\ total' = total + a.n
             /\ rdOffset' = (rdOffset + a.n) % 65536
             /\ remaining' = (remaining - a.n) % 65536
          \/ UNCHANGED <<rdOffset, remaining, total>>
      BY DEF ReadNdefChunk
    <2> QED BY <2>1, <1>3 DEF IInv, TypeOK
  <1>5. TypeOK'
    BY <1>1, <1>2, <1>4 DEF IInv, TypeOK
  <1> QED BY <1>1, <1>5 DEF IInv, WrittenBuilt

LEMMA ReadDoneIInv ==
    ASSUME IInv, ReadNdefDone
    PROVE  IInv'
  <1>1. /\ pc = "ndefloop" /\ pc' = "setup"
        /\ UNCHANGED <<sdm, ndef, writeFree, offset, setupOk, faults, Others>>
    BY DEF ReadNdefDone
  <1>2. TypeOK'
    BY <1>1 DEF IInv, TypeOK, Others
  <1> QED BY <1>1, <1>2 DEF IInv, WrittenBuilt

LEMMA NextIInv == IInv /\ [Next]_vars => IInv'
  <1> SUFFICES ASSUME IInv, [Next]_vars PROVE IInv'
    OBVIOUS
  <1>1. CASE StartRun
    BY <1>1, StartRunIInv
  <1>2. CASE SdmKeyNoCheck \/ BuildNdef \/ Authenticate
    BY <1>2, MoveIInv
  <1>3. CASE ChangeFileSettingsSdm
    BY <1>3, ChangeFileSettingsIInv
  <1>4. CASE SelectNdefFile
    BY <1>4, SelectIInv
  <1>5. CASE WriteChunk
    BY <1>5, WriteChunkIInv
  <1>6. CASE WriteDone
    BY <1>6, WriteDoneIInv
  <1>7. CASE UNCHANGED vars
    BY <1>7 DEF vars, IInv, TypeOK, WriteProgress, NdefHolds, WrittenBuilt
  <1>8. CASE ReadNdefStart
    BY <1>8, ReadStartIInv
  <1>9. CASE ReadNdefChunk
    BY <1>9, ReadChunkIInv
  <1>10. CASE ReadNdefDone
    BY <1>10, ReadDoneIInv
  <1> QED BY <1>1, <1>2, <1>3, <1>4, <1>5, <1>6, <1>7, <1>8, <1>9, <1>10 DEF Next

-----------------------------------------------------------------------------
(* Theorems.                                                                *)

\* Every state of every run of the SDM setup has its variables in their
\* types; in particular write_ndef_file_plain's offset never passes the end
\* of the NDEF file.
THEOREM TypeCorrect == Spec => []TypeOK
  <1>1. IInv => TypeOK
    BY DEF IInv
  <1> QED BY InitIInv, NextIInv, <1>1, PTL DEF Spec

\* Whenever main prints "NDEF template written", every chunk of file 0xE104
\* that the template spans holds it, for every chunk size and file size:
\* the loop of write_ndef_file_plain covers the message to its last byte
\* whatever the card and the link did in this and earlier runs.
THEOREM TemplateWrittenWholeHolds == Spec => []TemplateWrittenWhole
  <1>1. IInv => TemplateWrittenWhole
    BY DEF IInv, TemplateWrittenWhole
  <1> QED BY InitIInv, NextIInv, <1>1, PTL DEF Spec

-----------------------------------------------------------------------------
(* The NDEF read stays inside its buffer.                                   *)

\* On a card that answers 6Cxx only past the end of the file, read_binary
\* with Le in 1 .. 255 returns at most Le bytes: after a 6Cxx the second
\* READ BINARY asks for the bytes the card holds, fewer than Le.
LEMMA ReadBinaryWithin ==
    ASSUME ~CardT0, NEW off \in Nat, NEW le \in 1 .. 255,
           pastEnd \in {"error", "6C", "short"}
    PROVE  ReadBinary(off, le).n <= le
  <1>1. Avail(off) \in Nat /\ LeBytes(le) = le
    BY SdmAssumption DEF Avail, LeBytes
  <1>2. CASE le <= Avail(off)
    <2>1. CardAnswer(off, le) = [sw |-> "9000", n |-> le]
      BY <1>1, <1>2 DEF CardAnswer
    <2> QED BY <2>1 DEF ReadBinary
  <1>3. CASE ~(le <= Avail(off)) /\ pastEnd = "6C"
    <2>1. Avail(off) % 256 = Avail(off) /\ Avail(off) < le
      BY <1>1, <1>3
    <2>2. CardAnswer(off, le) = [sw |-> "6C", n |-> Avail(off)]
      BY <1>1, <1>3, <2>1 DEF CardAnswer
    <2>3. CASE Avail(off) = 0
      <3>1. LeBytes(0) = 256 /\ ~(256 <= Avail(off))
        BY <2>3 DEF LeBytes
      <3>2. CardAnswer(off, 0) = [sw |-> "6C", n |-> 0]
        BY <1>3, <2>3, <3>1 DEF CardAnswer
      <3> QED BY <2>2, <2>3, <3>2 DEF ReadBinary
    <2>4. CASE Avail(off) # 0
      <3>1. LeBytes(Avail(off)) = Avail(off)
        BY <2>4, <1>1 DEF LeBytes
      <3>2. CardAnswer(off, Avail(off)).n = Avail(off)
        BY <3>1, <1>1 DEF CardAnswer
      <3>3. ReadBinary(off, le) = CardAnswer(off, Avail(off))
        BY <2>2 DEF ReadBinary
      <3>4. ReadBinary(off, le).n = Avail(off)
        BY <3>2, <3>3
      <3>5. Avail(off) < le
        BY <2>1
      <3> QED BY <1>1, <3>4, <3>5
    <2> QED BY <2>3, <2>4
  <1>4. CASE ~(le <= Avail(off)) /\ pastEnd = "short"
    <2>1. CardAnswer(off, le) = [sw |-> "9000", n |-> Avail(off)]
      BY <1>1, <1>4 DEF CardAnswer
    <2> QED BY <1>1, <1>4, <2>1 DEF ReadBinary
  <1>5. CASE ~(le <= Avail(off)) /\ pastEnd = "error"
    <2>1. CardAnswer(off, le) = [sw |-> "error", n |-> 0]
      BY <1>1, <1>5 DEF CardAnswer
    <2> QED BY <2>1 DEF ReadBinary
  <1> QED BY <1>2, <1>3, <1>4, <1>5

\* In the loop, what was copied and what is left add up to NLEN.
ReadInv ==
    /\ total <= nlen
    /\ pc = "ndefloop" => total + remaining = nlen

LEMMA ReadChunkReadInv ==
    ASSUME ~CardT0, IInv, ReadInv, ReadNdefChunk
    PROVE  ReadInv'
  <1> DEFINE a == ReadBinary(rdOffset, ReadChunk(remaining))
  <1>1. /\ pc = "ndefloop" /\ remaining > 0 /\ total + remaining = nlen
        /\ remaining \in Nat /\ remaining < 65536 /\ total \in Nat /\ nlen \in Nat
        /\ rdOffset \in Nat /\ pastEnd \in {"error", "6C", "short"}
    BY SdmAssumption DEF ReadNdefChunk, ReadInv, IInv, TypeOK
  <1>2. ReadChunk(remaining) \in 1 .. 255 /\ ReadChunk(remaining) <= remaining
    BY <1>1 DEF ReadChunk, MinOf
  <1>3. a.n \in Nat /\ a.n <= remaining
    <2>1. ReadChunk(remaining) \in Nat
      BY <1>2
    <2>2. a.n \in Nat
      BY <1>1, <2>1, ReadBinaryType
    <2>3. a.n <= ReadChunk(remaining)
      <3>1. /\ rdOffset \in Nat /\ ReadChunk(remaining) \in 1 .. 255
            /\ pastEnd \in {"error", "6C", "short"}
        BY <1>1, <1>2
      <3> QED BY <3>1, ReadBinaryWithin, Zenon
    <2>4. \A x \in Nat : x <= ReadChunk(remaining) => x <= remaining
      BY <1>1, <1>2
    <2> QED BY <2>2, <2>3, <2>4, Zenon
  <1>4. UNCHANGED nlen
    BY DEF ReadNdefChunk
  <1>5. CASE total' = total + a.n /\ remaining' = (remaining - a.n) % 65536
    <2>1. remaining' = remaining - a.n
      BY <1>1, <1>3, <1>5
    <2> QED BY <1>1, <1>3, <1>4, <1>5, <2>1 DEF ReadInv
  <1>6. CASE UNCHANGED <<remaining, total>>
    BY <1>1, <1>4, <1>6 DEF ReadInv
  <1> QED BY <1>5, <1>6 DEF ReadNdefChunk

LEMMA NextReadInv ==
    ASSUME ~CardT0
    PROVE  IInv /\ ReadInv /\ [Next]_vars => ReadInv'
  <1> SUFFICES ASSUME IInv, ReadInv, [Next]_vars PROVE ReadInv'
    OBVIOUS
  <1>1. CASE ReadNdefChunk
    BY <1>1, ReadChunkReadInv
  <1>2. CASE ReadNdefStart
    <2>1. CASE UNCHANGED <<nlen, remaining, total>> /\ pc' = "setup"
      BY <2>1 DEF ReadInv
    <2>2. CASE nlen' = NlenOf(ndef[0]) /\ remaining' = nlen' /\ total' = 0
      BY <2>2, NlenType DEF ReadInv
    <2> QED BY <1>2, <2>1, <2>2 DEF ReadNdefStart
  <1>3. CASE \/ StartRun \/ ReadNdefDone \/ SdmKeyNoCheck \/ BuildNdef
             \/ Authenticate \/ ChangeFileSettingsSdm \/ SelectNdefFile
             \/ WriteChunk \/ WriteDone
    <2>1. UNCHANGED <<nlen, total>> /\ pc' # "ndefloop"
      BY <1>3 DEF StartRun, ReadNdefDone, SdmKeyNoCheck, BuildNdef, Authenticate,
                  ChangeFileSettingsSdm, SelectNdefFile, WriteChunk, WriteDone,
                  Cleanup, Others
    <2> QED BY <2>1 DEF ReadInv
  <1>4. CASE UNCHANGED vars
    BY <1>4 DEF vars, ReadInv
  <1> QED BY <1>1, <1>2, <1>3, <1>4 DEF Next

\* On a card that does not answer 6Cxx to every Le but the exact one, the
\* read loop of main (lines 1216-1232) never copies past the calloc(nlen)
\* buffer, for every NLEN the card holds: read_binary returns at most the
\* chunk asked for, and total + remaining stays NLEN.
THEOREM ReadWithinBufferHolds ==
    ASSUME ~CardT0
    PROVE  Spec => []ReadWithinBuffer
  <1>1. Init => ReadInv
    BY DEF Init, ReadInv
  <1>2. ReadInv => ReadWithinBuffer
    BY DEF ReadInv, ReadWithinBuffer
  <1>3. IInv /\ ReadInv /\ [Next]_vars => IInv' /\ ReadInv'
    BY NextIInv, NextReadInv
  <1> QED BY InitIInv, <1>1, <1>2, <1>3, PTL DEF Spec
====
