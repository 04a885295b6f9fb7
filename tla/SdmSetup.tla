------------------------------ MODULE SdmSetup ------------------------------
(***************************************************************************)
(* The SDM setup of main in src/ntag424_read.c (lines 1378-1427): build    *)
(* the NDEF template from a base URL (build_sdm_ndef, lines 264-363),      *)
(* authenticate, ChangeFileSettings on counter_file_no with the           *)
(* template's offsets, then write the template to NDEF file 0xE104 in      *)
(* UpdateBinary chunks of at most 0xFF bytes (write_ndef_file_plain,       *)
(* lines 365-403).  Two pieces of card state must agree: the SDM settings  *)
(* of a file, whose offsets point into a template, and the NDEF file's     *)
(* contents.                                                               *)
(*                                                                         *)
(* A template is named by its base URL; the card's NDEF file is kept per   *)
(* chunk of ChunkMax bytes, each holding the template last written over    *)
(* it.  Any command may fail on the link: lost before the card acts on it, *)
(* or after (its response lost).  Runs of the program follow one another;  *)
(* the card keeps its state between them.                                  *)
(***************************************************************************)
EXTENDS Integers, FiniteSets

CONSTANTS
    Urls,        \* base URLs given with --sdm-url
    UrlLen,      \* strlen of each base URL
    PrefixLen,   \* length of the URI prefix build_sdm_ndef strips from it
    FileNos,     \* counter_file_no values (default 0x02, line 1035)
    NdefFileNo,  \* the file number of NDEF file 0xE104
    SdmKeyNos,   \* --sdm-keyno values
    ChunkMax,    \* the UpdateBinary chunk cap, 0xFF (line 381)
    FileSize,    \* the NDEF file's size on the card, 256 on an NTAG 424
    Refusals,    \* whether the card may refuse ChangeFileSettings
    BlankNlen,   \* the NLEN of an NDEF file no setup has written
    CardT0,      \* the card answers 6Cxx to READ BINARY whenever Le is not
                 \* the number of bytes it holds from the offset
    PastEnds,    \* how cards answer a READ BINARY asking for more bytes than
                 \* the file holds: "error", "6C" (6Cxx, xx the bytes held)
                 \* or "short" (the bytes held, with 9000)
    MaxRuns, MaxFaults

NoSdm == "NoSdm"      \* a file whose SDM is off
Blank == "Blank"      \* a chunk never written by a setup

ASSUME SdmAssumption ==
    /\ UrlLen \in [Urls -> Nat] /\ PrefixLen \in [Urls -> Nat]
    /\ \A u \in Urls : PrefixLen[u] <= UrlLen[u]
    /\ NdefFileNo \in FileNos /\ SdmKeyNos \subseteq Nat
    /\ ChunkMax \in Nat \ {0} /\ FileSize \in Nat /\ FileSize >= 256
    /\ Refusals \in BOOLEAN /\ CardT0 \in BOOLEAN
    /\ PastEnds \subseteq {"error", "6C", "short"} /\ PastEnds # {}
    /\ BlankNlen \in Nat /\ BlankNlen < 65536 /\ MaxRuns \in Nat /\ MaxFaults \in Nat
    /\ NoSdm \notin Urls /\ Blank \notin Urls

Chunks == 0 .. (FileSize - 1) \div ChunkMax
MinOf(a, b) == IF a < b THEN a ELSE b

-----------------------------------------------------------------------------
(* build_sdm_ndef (lines 264-363), by what it computes of the template.   *)

\* The URL is base "?uid=" 14 "&ctr=" 6 "&mac=" 16: 51 bytes more.
SdmUrlLen(u) == UrlLen[u] + 51
UriLen(u) == SdmUrlLen(u) - PrefixLen[u]

\* total_len: NLEN (2), record header (4), prefix code (1), the URI.
NdefLen(u) == 7 + UriLen(u)

\* The checks of lines 273, 297-305: the snprintf fits url[512], the URI
\* and payload fit a short record, the message fits 256 bytes.  The
\* placeholder scan (lines 319-357) succeeds on a base URL without "uid=",
\* "ctr=" or "mac=" of its own, the only URLs this model takes.
BuildOkNoTotal(u) ==
    /\ SdmUrlLen(u) < 512
    /\ UriLen(u) <= 255 /\ 1 + UriLen(u) <= 255
BuildOk(u) ==
    /\ SdmUrlLen(u) < 512
    /\ UriLen(u) <= 255 /\ 1 + UriLen(u) <= 255
    /\ NdefLen(u) <= 256

-----------------------------------------------------------------------------
VARIABLES
    sdm,         \* card: the template each file's SDM offsets were made for
    ndef,        \* card: the template each chunk of file 0xE104 holds
    writeFree,   \* card: file 0xE104's write right is free (0xE)
    pc,          \* the program's place in main
    url, fileNo, sdmKeyNo, fsValid,  \* this run's arguments and fs_info.valid
    offset,      \* write_ndef_file_plain's offset
    setupOk,     \* main printed "NDEF template written" in this run
    runs, faults,
    pastEnd,     \* card: its answer past the end of a file, one of PastEnds
    nlen, rdOffset, remaining, total  \* main's read of the NDEF file

vars == <<sdm, ndef, writeFree, pc, url, fileNo, sdmKeyNo, fsValid, offset,
          setupOk, runs, faults, pastEnd, nlen, rdOffset, remaining, total>>

TypeOK ==
    /\ sdm \in [FileNos -> Urls \cup {NoSdm}]
    /\ ndef \in [Chunks -> Urls \cup {Blank}]
    /\ writeFree \in BOOLEAN
    /\ pc \in {"idle", "ndef", "ndefloop", "setup", "build", "auth", "cfs", "select", "write"}
    /\ url \in Urls /\ fileNo \in FileNos /\ sdmKeyNo \in SdmKeyNos
    /\ fsValid \in BOOLEAN /\ offset \in 0 .. FileSize
    /\ setupOk \in BOOLEAN
    /\ runs \in 0 .. MaxRuns /\ faults \in 0 .. MaxFaults
    /\ pastEnd \in PastEnds
    /\ nlen \in Nat /\ nlen < 65536 /\ rdOffset \in Nat /\ rdOffset < 65536
    /\ remaining \in Nat /\ remaining < 65536 /\ total \in Nat

\* A card with SDM off on every file and a blank NDEF file; its write right
\* on 0xE104 is whatever it was configured with.
Init ==
    /\ sdm = [f \in FileNos |-> NoSdm]
    /\ ndef = [c \in Chunks |-> Blank]
    /\ writeFree \in BOOLEAN /\ pastEnd \in PastEnds
    /\ pc = "idle"
    /\ url \in Urls /\ fileNo \in FileNos /\ sdmKeyNo \in SdmKeyNos
    /\ fsValid \in BOOLEAN
    /\ offset = 0 /\ setupOk = FALSE
    /\ runs = 0 /\ faults = 0
    /\ nlen = 0 /\ rdOffset = 0 /\ remaining = 0 /\ total = 0

\* One more fault of the link, within the bound.
Fault == faults < MaxFaults /\ faults' = faults + 1

\* goto cleanup (line 1492).
Cleanup == pc' = "idle"

\* A run with --sdm-setup: its arguments, and whether the plain
\* GetFileSettings of counter_file_no at lines 1254-1268 filled fs_info.
StartRun ==
    /\ pc = "idle" /\ runs < MaxRuns
    /\ \E u \in Urls, f \in FileNos, k \in SdmKeyNos, v \in BOOLEAN :
          /\ url' = u /\ fileNo' = f /\ sdmKeyNo' = k /\ fsValid' = v
    /\ pc' = "ndef" /\ setupOk' = FALSE /\ offset' = 0
    /\ runs' = runs + 1
    /\ UNCHANGED <<sdm, ndef, writeFree, faults, pastEnd, nlen, rdOffset,
                   remaining, total>>

Others == <<url, fileNo, sdmKeyNo, fsValid, runs, pastEnd, nlen, rdOffset,
            remaining, total>>

-----------------------------------------------------------------------------
(* The read of the NDEF file every run starts with (lines 1177-1247).      *)

\* The NLEN field, the first two bytes of the file, as the template that
\* wrote chunk 0 put it there: record_len = total_len - 2 (lines 301-309).
NlenOf(t) == IF t = Blank THEN BlankNlen ELSE NdefLen(t) - 2

\* The bytes the file holds from off.
Avail(off) == IF off < FileSize THEN FileSize - off ELSE 0

\* A short APDU's Le of 0 asks for 256 bytes.
LeBytes(le) == IF le = 0 THEN 256 ELSE le

\* The card's answer to READ BINARY at off with Le le: the bytes with
\* 9000, a 6Cxx giving the bytes it holds, or another error (6B00, 6282).
CardAnswer(off, le) ==
    LET want == LeBytes(le)
        avail == Avail(off)
    IN  IF CardT0 /\ want # avail THEN [sw |-> "6C", n |-> avail % 256]
        ELSE IF want <= avail THEN [sw |-> "9000", n |-> want]
        ELSE IF pastEnd = "6C" THEN [sw |-> "6C", n |-> avail % 256]
        ELSE IF pastEnd = "short" THEN [sw |-> "9000", n |-> avail]
        ELSE [sw |-> "error", n |-> 0]

\* read_binary (lines 498-520): after a 6Cxx it sends the APDU again once,
\* with Le = xx, and returns what that second answer says.
ReadBinary(off, le) ==
    LET a == CardAnswer(off, le)
    IN  IF a.sw = "6C" THEN CardAnswer(off, a.n) ELSE a

\* The chunk of line 1218.
ReadChunkFull(rem) == 255
ReadChunk(rem) == MinOf(rem, 255)

\* SELECT of the NDEF application and the CC file, READ of the CC, SELECT of
\* the NDEF file and READ of NLEN (lines 1177-1214): a failure of any is
\* only printed, and the run goes on to GetFileSettings.
ReadNdefStart ==
    /\ pc = "ndef"
    /\ \/ /\ Fault /\ pc' = "setup"
          /\ UNCHANGED <<nlen, rdOffset, remaining, total>>
       \/ /\ nlen' = NlenOf(ndef[0]) /\ rdOffset' = 2
          /\ remaining' = nlen' /\ total' = 0
          /\ pc' = "ndefloop" /\ UNCHANGED faults
    /\ UNCHANGED <<sdm, ndef, writeFree, offset, setupOk, url, fileNo,
                   sdmKeyNo, fsValid, runs, pastEnd>>

\* One read_binary of the loop (lines 1217-1232): the bytes go to
\* ndef + total and offset and remaining move by what came back, in
\* uint16_t; a failed read breaks the loop.
ReadNdefChunk ==
    /\ pc = "ndefloop" /\ remaining > 0
    /\ LET a == ReadBinary(rdOffset, ReadChunk(remaining)) IN
       \/ /\ a.sw = "9000"
          /\ total' = total + a.n
          /\ rdOffset' = (rdOffset + a.n) % 65536
          /\ remaining' = (remaining - a.n) % 65536
          /\ UNCHANGED <<pc, faults>>
       \/ /\ a.sw # "9000"
          /\ pc' = "setup" /\ UNCHANGED <<rdOffset, remaining, total, faults>>
       \/ /\ Fault /\ pc' = "setup"
          /\ UNCHANGED <<rdOffset, remaining, total>>
    /\ UNCHANGED <<sdm, ndef, writeFree, offset, setupOk, nlen, url, fileNo,
                   sdmKeyNo, fsValid, runs, pastEnd>>

\* The loop ends with every byte of NLEN read (line 1216).
ReadNdefDone ==
    /\ pc = "ndefloop" /\ remaining = 0
    /\ pc' = "setup"
    /\ UNCHANGED <<sdm, ndef, writeFree, offset, setupOk, faults, Others>>

\* The sdm_key_no range check (lines 1378-1382).
SdmKeyNoCheck ==
    /\ pc = "setup"
    /\ IF sdmKeyNo <= 15 THEN pc' = "build" ELSE Cleanup
    /\ UNCHANGED <<sdm, ndef, writeFree, offset, setupOk, faults, Others>>

\* build_sdm_ndef of the base URL (lines 1384-1388).
BuildNdef ==
    /\ pc = "build"
    /\ IF BuildOk(url) THEN pc' = "auth" ELSE Cleanup
    /\ UNCHANGED <<sdm, ndef, writeFree, offset, setupOk, faults, Others>>

\* authenticate_ev2_first with key / key_no (lines 1394-1401): it fails on
\* a wrong key or a failing link, which SecureMessaging and KeyManagement
\* model; here either outcome may happen.
Authenticate ==
    /\ pc = "auth"
    /\ pc' = "cfs" \/ Cleanup
    /\ UNCHANGED <<sdm, ndef, writeFree, offset, setupOk, faults, Others>>

\* The card taking ChangeFileSettings on file f: the SDM offsets of the
\* template, and AR2 from fs_info or 0xEE (lines 1403-1404), which keeps or
\* frees the write right when f is the NDEF file.
ApplySettings(f) ==
    /\ sdm' = [sdm EXCEPT ![f] = url]
    /\ writeFree' = IF f = NdefFileNo /\ ~fsValid THEN TRUE ELSE writeFree

\* change_file_settings_sdm (lines 1409-1418, 935-985).  Lost on the way
\* in, the card is unchanged; lost on the way back, the card took it; the
\* card may refuse it, and the refusal, a 91xx answer with a valid MAC,
\* makes ssm_cmd_full return 1 (line 728), so main goes on.
ChangeFileSettingsSdm ==
    /\ pc = "cfs"
    /\ \/ /\ Fault /\ Cleanup
          /\ UNCHANGED <<sdm, writeFree>>
       \/ /\ Fault /\ Cleanup
          /\ ApplySettings(fileNo)
       \/ /\ pc' = "select"
          /\ ApplySettings(fileNo)
          /\ UNCHANGED faults
       \/ /\ Refusals /\ pc' = "select"
          /\ UNCHANGED <<sdm, writeFree, faults>>
    /\ UNCHANGED <<ndef, offset, setupOk, Others>>

\* write_ndef_file_plain: select_ndef_app and select_file 0xE104
\* (lines 368-375), either of which may fail.
SelectNdefFile ==
    /\ pc = "select"
    /\ \/ pc' = "write" /\ UNCHANGED faults
       \/ Fault /\ Cleanup
    /\ offset' = 0
    /\ UNCHANGED <<sdm, ndef, writeFree, setupOk, Others>>

\* The loop condition of line 378.
WriteMoreShort(off, len) == off + 1 < len
WriteMore(off, len) == off < len

\* One UpdateBinary of the loop (lines 379-400): the chunk at offset,
\* at most ChunkMax bytes.  Refused by a card whose write right is not
\* free; lost before or after the card wrote it.
WriteChunk ==
    /\ pc = "write" /\ WriteMore(offset, NdefLen(url))
    /\ LET chunk == MinOf(NdefLen(url) - offset, ChunkMax)
           written == [ndef EXCEPT ![offset \div ChunkMax] = url]
       IN \/ /\ writeFree /\ ndef' = written
             /\ offset' = offset + chunk /\ UNCHANGED <<pc, faults>>
          \/ /\ ~writeFree /\ Cleanup
             /\ UNCHANGED <<ndef, offset, faults>>
          \/ /\ Fault /\ Cleanup
             /\ UNCHANGED <<ndef, offset>>
          \/ /\ writeFree /\ Fault /\ Cleanup
             /\ ndef' = written /\ UNCHANGED offset
    /\ UNCHANGED <<sdm, writeFree, setupOk, Others>>

\* The loop ends: write_ndef_file_plain returns 1 and main prints the
\* template written (lines 1421-1427); the GetFileSettings and the read
\* of the SDM counter that follow change nothing on the card.
WriteDone ==
    /\ pc = "write" /\ ~WriteMore(offset, NdefLen(url))
    /\ setupOk' = TRUE /\ Cleanup
    /\ UNCHANGED <<sdm, ndef, writeFree, offset, faults, Others>>

Next ==
    \/ StartRun \/ ReadNdefStart \/ ReadNdefChunk \/ ReadNdefDone \/ SdmKeyNoCheck \/ BuildNdef \/ Authenticate
    \/ ChangeFileSettingsSdm \/ SelectNdefFile \/ WriteChunk \/ WriteDone

\* The steps of a run.  main is one thread whose every call returns:
\* SCardTransmit answers or fails, so a started run is never stuck.
\* Fairness is on the steps with no link fault: a fault may happen, but
\* no run is assumed to be rescued by one.  Starting a run is the user's
\* choice, and is not assumed to happen.
RunStep ==
    \/ ReadNdefStart \/ ReadNdefChunk \/ ReadNdefDone \/ SdmKeyNoCheck
    \/ BuildNdef \/ Authenticate \/ ChangeFileSettingsSdm \/ SelectNdefFile
    \/ WriteChunk \/ WriteDone

Fairness == WF_vars(RunStep /\ UNCHANGED faults)

Spec == Init /\ [][Next]_vars /\ Fairness

-----------------------------------------------------------------------------
(* Properties.                                                             *)

\* The NDEF file holds template u: every chunk the message spans.
NdefHolds(u) == \A c \in Chunks : c * ChunkMax < NdefLen(u) => ndef[c] = u

\* When main reports the template written, the NDEF file holds all of it:
\* the chunk loop covers the message to its last byte, the MAC placeholder,
\* whatever the card did with the settings and whichever file they went to.
TemplateWrittenWhole == setupOk => NdefHolds(url)

\* When main reports the template written, the card mirrors into it: the
\* NDEF file's SDM settings carry this template's offsets and the file holds
\* all of it.  Checked over later runs, lost commands and refusals.
SetupReportedConsistent ==
    setupOk => sdm[NdefFileNo] = url /\ NdefHolds(url)

\* Between runs, every file whose SDM is on has offsets into the NDEF file
\* as it stands: it is the NDEF file and holds the template they came from.
SdmConsistentAtRest ==
    pc = "idle" =>
        \A f \in FileNos : sdm[f] # NoSdm => f = NdefFileNo /\ NdefHolds(sdm[f])

\* The read loop of lines 1216-1232 never copies past the calloc(nlen)
\* buffer: memcpy(ndef + total, tmp, tmp_len) trusts that read_binary
\* returned at most the chunk asked for, which the 6Cxx retry (line 509)
\* asks again with the card's own Le.
ReadWithinBuffer == total <= nlen

\* Every run that started ends at cleanup: neither the NDEF read loop of
\* lines 1216-1232 nor the write loop of line 378 spins forever.  The read
\* loop leaves only when remaining reaches 0 or a read_binary fails; it has
\* no exit for a READ BINARY that succeeds with no bytes.
RunEnds == pc # "idle" ~> pc = "idle"
====
