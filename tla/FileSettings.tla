---------------------------- MODULE FileSettings ----------------------------
(***************************************************************************)
(* The FileSettings codec of src/ntag424_read.c: the ChangeFileSettings   *)
(* payload that change_file_settings_sdm builds (lines 935-985) and the    *)
(* GetFileSettings response that parse_file_settings decodes (lines        *)
(* 800-914), over one SDM setup of main (lines 1409-1445): build, the card *)
(* takes the settings and reports them back, parse.                        *)
(*                                                                         *)
(* Bytes are numbers 0..255 and a buffer is a sequence of them; the        *)
(* printing of parse_file_settings is kept only for the offsets it         *)
(* decodes, the one output of the function that is not in                 *)
(* file_settings_info_t.                                                   *)
(***************************************************************************)
EXTENDS Integers, Sequences, SequencesExt, FiniteSets

CONSTANTS
    CommModes,   \* comm_mode arguments
    ARs,         \* AR1 / AR2 bytes
    OptsSet,     \* SDMOptions bytes
    Metas,       \* SDMMetaRead arguments
    Files,       \* SDMFileRead arguments
    Ctrs,        \* SDMCtrRet arguments
    Offsets,     \* 24-bit offsets
    FileType,    \* the FileType byte the card reports
    FileSize     \* the FileSize the card reports

Bytes == 0 .. 255
U24Max == 2^24 - 1

ASSUME FSAssumption ==
    /\ CommModes \subseteq Bytes /\ ARs \subseteq Bytes /\ OptsSet \subseteq Bytes
    /\ Metas \subseteq Bytes /\ Files \subseteq Bytes /\ Ctrs \subseteq Bytes
    /\ Offsets \subseteq 0 .. U24Max
    /\ FileType \in Bytes /\ FileSize \in 0 .. U24Max

\* A set bit of a byte: (x & b) for a power of two b.
Bit(x, b) == (x \div b) % 2 = 1

\* write_u24_le (lines 409-413) and read_u24_le (lines 405-407); i is the
\* C index of the first byte.
U24(v) == <<v % 256, (v \div 256) % 256, (v \div 65536) % 256>>
ReadU24(d, i) == d[i + 1] + 256 * d[i + 2] + 65536 * d[i + 3]

\* The arguments of change_file_settings_sdm.
Args == [cm : CommModes, ar1 : ARs, ar2 : ARs, opts : OptsSet, meta : Metas,
         file : Files, ctr : Ctrs, uid : Offsets, ctrOff : Offsets,
         macIn : Offsets, mac : Offsets]

\* The tail fields of the settings, in the order of the layout.
FieldOrder == <<"UIDOffset", "SDMReadCtrOffset", "PICCDataOffset", "SDMMACInputOffset",
                "SDMENCOffset", "SDMENCLength", "SDMMACOffset", "SDMReadCtrLimit">>
FieldNames == ToSet(FieldOrder)

-----------------------------------------------------------------------------
(* change_file_settings_sdm (lines 935-979).                              *)

\* SDM_AR: the three nibbles and RFU 0xF (lines 954-957).
SdmAr(a) == (a.meta % 16) * 4096 + (a.file % 16) * 256 + 15 * 16 + (a.ctr % 16)

\* The tail fields the builder writes, with their values (lines 961-979):
\* the conditions test the unmasked meta and file arguments.
Emitted(a) ==
    SelectSeq(<< <<Bit(a.opts, 128) /\ a.meta = 14, "UIDOffset", a.uid>>,
                 <<Bit(a.opts, 64) /\ a.meta = 14, "SDMReadCtrOffset", a.ctrOff>>,
                 <<a.file # 15, "SDMMACInputOffset", a.macIn>>,
                 <<a.file # 15, "SDMMACOffset", a.mac>> >>,
              LAMBDA e : e[1])

Build(a) ==
    <<(a.cm % 4) + 64, a.ar1, a.ar2, a.opts, SdmAr(a) % 256, (SdmAr(a) \div 256) % 256>>
    \o FlattenSeq([k \in DOMAIN Emitted(a) |-> U24(Emitted(a)[k][3])])

-----------------------------------------------------------------------------
(* parse_file_settings (lines 800-914).                                    *)

\* The SDM access-rights word, least significant byte first (lines 831-834).
SdmArOfSwapped(d) == 256 * d[9] + d[10]
SdmArOf(d) == d[9] + 256 * d[10]

\* Which tail fields the parser reads, from SDMOptions and the SDM_AR
\* nibbles (the predicates of lines 857-904).
Present(opts, meta, file) ==
    [f \in FieldNames |->
        CASE f = "UIDOffset" -> Bit(opts, 128) /\ meta = 14
          [] f = "SDMReadCtrOffset" -> Bit(opts, 64) /\ meta = 14
          [] f = "PICCDataOffset" -> meta <= 4
          [] f \in {"SDMMACInputOffset", "SDMMACOffset"} -> file # 15
          [] f \in {"SDMENCOffset", "SDMENCLength"} -> file # 15 /\ Bit(opts, 16)
          [] f = "SDMReadCtrLimit" -> Bit(opts, 32)]

\* The C index where the k-th field of FieldOrder starts when present: each
\* field read advances idx by 3 from 10.
FieldStart(pres, k) == 10 + 3 * Cardinality({j \in 1 .. k - 1 : pres[FieldOrder[j]]})

NoInfo == [valid |-> FALSE]

\* The return value, the info record and the decoded offsets.  Every
\* "if (len < idx + n) return 0" is the one test that the buffer reaches
\* past the last field read, since the fields' presence does not depend
\* on their values; the info filled before a late failure is kept.
Parse(d) ==
    IF Len(d) < 7 THEN [ok |-> FALSE, info |-> NoInfo, fields |-> <<>>]
    ELSE LET base == [valid |-> TRUE, file_option |-> d[2], ar1 |-> d[3], ar2 |-> d[4],
                      file_size |-> ReadU24(d, 4), sdm_enabled |-> Bit(d[2], 64)]
         IN IF ~Bit(d[2], 64) THEN [ok |-> TRUE, info |-> base, fields |-> <<>>]
            ELSE IF Len(d) < 10 THEN [ok |-> FALSE, info |-> base, fields |-> <<>>]
            ELSE LET ar == SdmArOf(d)
                     meta == (ar \div 4096) % 16
                     file == (ar \div 256) % 16
                     pres == Present(d[8], meta, file)
                     info == [valid |-> TRUE, file_option |-> d[2], ar1 |-> d[3],
                              ar2 |-> d[4], file_size |-> ReadU24(d, 4),
                              sdm_enabled |-> TRUE, sdm_options |-> d[8],
                              sdm_meta_read |-> meta, sdm_file_read |-> file,
                              sdm_ctr_ret |-> ar % 16,
                              sdm_read_ctr_enabled |-> Bit(d[8], 64)]
                     read == {k \in 1 .. Len(FieldOrder) : pres[FieldOrder[k]]}
                 IN IF Len(d) < 10 + 3 * Cardinality(read)
                    THEN [ok |-> FALSE, info |-> info, fields |-> <<>>]
                    ELSE [ok |-> TRUE, info |-> info,
                          fields |-> [f \in {FieldOrder[k] : k \in read} |->
                                        LET k == CHOOSE i \in read : FieldOrder[i] = f
                                        IN ReadU24(d, FieldStart(pres, k))]]

-----------------------------------------------------------------------------
(* One SDM setup.                                                          *)

\* The GetFileSettings response of a card that took the settings: FileType,
\* FileOption, AR1, AR2, FileSize, then the SDM part as written.
CardReport(payload) ==
    <<FileType>> \o SubSeq(payload, 1, 3) \o U24(FileSize) \o SubSeq(payload, 4, Len(payload))

VARIABLES args, payload, report, parsed, pc

vars == <<args, payload, report, parsed, pc>>

TypeOK ==
    /\ args \in Args
    /\ payload \in Seq(Bytes) /\ report \in Seq(Bytes)
    /\ pc \in {"build", "card", "parse", "done"}

Init ==
    /\ args \in Args
    /\ payload = <<>> /\ report = <<>>
    /\ parsed = [ok |-> FALSE, info |-> NoInfo, fields |-> <<>>]
    /\ pc = "build"

\* main calls change_file_settings_sdm (lines 1409-1421), which builds the
\* payload and sends it.
ChangeFileSettings ==
    /\ pc = "build"
    /\ payload' = Build(args)
    /\ pc' = "card"
    /\ UNCHANGED <<args, report, parsed>>

\* The card answers the GetFileSettings of line 1430 with its settings.
CardReply ==
    /\ pc = "card"
    /\ report' = CardReport(payload)
    /\ pc' = "parse"
    /\ UNCHANGED <<args, payload, parsed>>

\* parse_file_settings into fs_info (lines 1430-1433).
ParseSettings ==
    /\ pc = "parse"
    /\ parsed' = Parse(report)
    /\ pc' = "done"
    /\ UNCHANGED <<args, payload, report>>

Next == ChangeFileSettings \/ CardReply \/ ParseSettings

Spec == Init /\ [][Next]_vars

-----------------------------------------------------------------------------
(* Properties.                                                             *)

\* The fields Build emits, as the parser names them.
EmittedFields(a) == [f \in {Emitted(a)[k][2] : k \in DOMAIN Emitted(a)} |->
                        (CHOOSE e \in ToSet(Emitted(a)) : e[2] = f)[3]]

\* Round trip of the codec (spec section 8): parsing the settings that
\* change_file_settings_sdm wrote gives back every field it wrote: the
\* file option, access rights, SDM options, the SDM_AR nibbles and exactly
\* the offsets it emitted, each at its value.
RoundTrip ==
    pc = "done" =>
        /\ parsed.ok
        /\ parsed.info.file_option = (args.cm % 4) + 64
        /\ parsed.info.ar1 = args.ar1 /\ parsed.info.ar2 = args.ar2
        /\ parsed.info.sdm_options = args.opts
        /\ parsed.info.sdm_meta_read = args.meta % 16
        /\ parsed.info.sdm_file_read = args.file % 16
        /\ parsed.info.sdm_ctr_ret = args.ctr % 16
        /\ parsed.fields = EmittedFields(args)

=============================================================================
