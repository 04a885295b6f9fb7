# Verification of `ntag424_read` (nfctools)

This directory holds TLA+ models of `src/ntag424_read.c`, TLC configurations that
model-check them on small instances, and TLAPS proofs of their main safety
properties for every value of the constants.

## The system

`ntag424_read` is a single-threaded command-line tool. It drives an NXP NTAG 424 DNA
card through a PC/SC reader. Its parts are:

| Part | Code | Role |
|---|---|---|
| Crypto primitives | `aes_cmac`, `cmac_truncate_8`, `pad_iso9797_m2`, `unpad_iso9797_m2`, `crc32`, `rotate_*` (lines 106-189, 415-429) | byte-level helpers over CommonCrypto AES |
| Transport | `transmit` (72-83), `read_binary` (498-521) | one APDU out, one response and SW1SW2 back; `read_binary` retries a 6Cxx answer once |
| EV2-First authentication | `authenticate_ev2_first` (523-647) | the two-pass mutual authentication; derives KENC/KMAC from RndA and RndB, sets `cmd_ctr = 0` and `authenticated = 1` |
| Secure messaging | `ssm_cmd_full` (649-775), `ssm_session_t` (24-31) | CommMode.Full: encrypt, MAC over (INS, CmdCtr, TI, header, data); verify the response MAC over (SW2, CmdCtr+1, TI, data); advance `cmd_ctr` only on success |
| File settings codec | `parse_file_settings`, `build_sdm_settings_payload` (800-985) | decode and encode the SDM settings of a file |
| NDEF builder | `find_substr`, `build_sdm_ndef` (252-363) | URI record with PICC and MAC placeholders and their offsets |
| ChangeKey | `change_key` (916-933) | the 21-byte payload (new XOR old, version, CRC32) sent through `ssm_cmd_full` |
| Key files | `read_key_file`, `write_key_hex_file` (217-250, 431-438) | a key as 32 hex digits on the first non-blank line |
| Orchestration | `main` (1000-1497) | provisioning (ChangeKey), key rotation, SDM setup, NDEF write, secure reads, with key files on disk |

The parts interact along one path: `main` opens a session with
`authenticate_ev2_first`, then calls the command wrappers, which go through
`ssm_cmd_full` and then `transmit`. The card answers each frame. Nothing runs
concurrently inside the tool. The hard behaviours come from three places:
- the link between the tool and the card: a reader error, a frame lost on the
  RF field, a corrupted frame, or a relay that replays an earlier frame;
- the card's own state, meaning its session and its command counter;
- state that outlives a run: the keys on the card, the key files on disk, and
  the card's SDM settings and NDEF file.

## Modules

### `SecureMessaging` — host, card and link

This module covers the authentication and secure-messaging layer.

**Host state** (`src/ntag424_read.c`):
- `sess` is the caller's `ssm_session_t`. The key pair KENC/KMAC is
  represented by the nonce pair `<<RndA, RndB>>` it is derived from. The
  module also keeps `cmd_ctr` (width `CtrBits`, which is 16 in the code) and
  `authenticated`.
- `hpc` records which `transmit` the host is blocked in.
- `hcur` holds the locals of the call in progress: the key, RndA, RndB and
  the INS.

**Card state** is `card`. It is modelled from the spec (sections 4.D and 4.E),
because the card is not code of this repository.

**Link state** is the pair `req`/`resp`, plus `recorded`, which holds the
responses a relay has seen.

**Host actions**, one per segment of a function between two `transmit` calls:

| Action | Code |
|---|---|
| `AuthStart` | `main`'s `memset` of the session, then part 1 of the handshake sent |
| `AuthPart1` / `AuthPart1Fail` | lines 541-581: the 91AF check, RndA drawn, part 2 sent |
| `AuthPart2` / `AuthPart2Fail` | lines 581-647: the 9100 check, the RndA' check (`RndAVerified`), session keys set, `cmd_ctr = 0` |
| `SsmSend` | lines 649-726: the `!authenticated` early return, the command MAC over INS, counter and key |
| `SsmRecv` / `SsmRecvFail` | lines 726-775: every early return (transport error, SW1 not 91, short response, MAC mismatch), and the counter advance on success |

- Each `Fail` action is the union of that step's early returns. None of them
  changes `sess`.
- `NextCtr` is the `uint16_t` increment taken modulo `2^CtrBits`.
- A MAC is modelled as the record of what it covers (`Mac`). A forged MAC is
  therefore exactly a MAC over different fields.

**Card actions** (`CardAuth1`, `CardAuth2`, `CardSsm`):
- the card draws RndB;
- it checks the key and RndB';
- it executes a command only when the MAC, the counter and its session match;
- otherwise it answers a plain 91xx and ends its session.

**Link actions**, each bounded by `MaxFaults`:

| Action | Effect |
|---|---|
| `LoseRequest`, `LoseResponse` | the host sees a failed `SCardTransmit` |
| `CorruptRequest` | the card's MAC check fails |
| `CorruptResponse` | SW2 and body changed |
| `Replay` | any recorded card response, when `Attacker` is true |

`MCSecureMessaging` instantiates the module with these values:
- two keys, one of them the card's key;
- two INS values and two SW2 values;
- a 2-bit counter, which the fourth command of a session wraps to 0;
- 2 handshakes, 4 commands and 2 link faults.

These bounds reach the following cases:
- a handshake aborted by a second one;
- a response lost after the card executed the command, which is a counter
  desync;
- a replay of a response from an earlier handshake or an earlier command;
- a corrupted frame followed by another command;
- a counter wrap.

### `SecureChannel` — what host and card promise together

`SecureChannel` is the abstract specification of secure messaging. It has
no handshake, no MACs and no link. Its state is two sets of commands, each
named by session key, counter, instruction and SW2:
- `executed` grows by `Execute(e)` only when every earlier command of `e`'s
  session has a lower counter. The card never executes twice at a counter.
- `accepted` grows by `Accept(e)` only when `e` was executed and every
  answer accepted earlier in `e`'s session has a lower counter. The host
  accepts answers in counter order.

`SecureMessaging` instantiates it as `Channel`:
- `executed` is the card's log `clog`;
- `accepted` is `AcceptedAnswers`, the host's log `hlog`, with each accepted
  answer named by the command it answers.

`ChannelSpec == Channel!Spec` is checked as a property of `secure_channel`
and proved in `SecureChannelProofs`.

Replaying an answer the host already accepted leaves `AcceptedAnswers`
unchanged. The refinement therefore allows it as a stutter: a second copy of
a command the host already holds is not a new acceptance. The host accepting
an answer meant for a different command of the same counter is
`CommandAnswered`'s question, not this one (see `session_reuse`).

### `KeyManagement` — key changes across runs

This module covers what `main` does to the card's keys over several runs of
the tool: `--provision` (lines 1277-1321), `--rotate-key` (lines 1323-1376),
the key files they read and write, and the final authentication (1455-1491).

**State.**
- `card_keys` (the card's key table) and `files` (the key files) outlive a run.
- A key is a number. 0 is the factory all-zero key, and each `random_bytes`
  call draws the next unused number (`next_key`).
- A file holds a key, `NoFile`, or `Garbage` (a truncated write).
- `pc` is where `main` is in the current run. `key`/`key_no`, `new_key`/
  `new_key_no`, `old_key`, `counter_key`/`counter_key_no` are `main`'s locals.
  `changed` is what the run's `change_key` returned.

**Actions**, one per segment of `main` between two calls that touch the card
or the disk; every `goto cleanup` is a disjunct leading to `idle`:

| Action | Code |
|---|---|
| `StartRun` | the arguments (1049-1103) and `counter_key = key` (1271-1272) |
| `ProvBadKeyNo`, `ProvLoadKey`, `ProvGenerateKey` | 1278-1299: range check, `--provision-key` read, or a fresh key written to its file |
| `ProvAuth`, `RotAuth` | `authenticate_ev2_first` with `key`/`key_no`: succeeds iff the card holds that key, unless a frame is lost |
| `ProvChangeKey` | 1309-1321: ChangeKey with the zero old key; on success the counter key becomes the new key |
| `RotLoadOld`, `RotLoadNew`, `RotGenerateNew` | 1324-1357 |
| `RotChangeKey` | 1367-1376: on success the counter key is replaced when it is the rotated one |
| `FinalAuth` | 1455-1491: the final session changes no key or file |

- `WriteKeyFile` is `write_key_hex_file`. `fopen` may fail, which leaves the
  file alone and makes `main` stop. `fprintf`/`fclose` may fail, which
  truncates the file, but the function still returns 1. Both failures happen
  only when `DiskFaults` is TRUE.
- `SecureChangeKey` is `change_key` through `ssm_cmd_full`. The request or the
  answer may be lost. `ssm_cmd_full` returns 1 for every 91xx whose MAC
  verifies (line 728), so a refusal is reported as success when the card MACs
  its error, and as failure otherwise.
- The card side (`ChangeKeyAccepted`, not code of this repository) follows the
  NTAG 424 DNA rules the code relies on:
  - only a key-0 session may change keys;
  - the session's own key expects the Case 1 layout, so the Case 2 payload
    the code always builds is refused;
  - another key is changed iff the payload's old key is the card's current
    key (the CRC32 check).

`MCKeyManagement` uses key numbers 0 and 1 plus the out-of-range 16, the
default file names of each, three runs and one lost frame. Three runs reach a
provisioning followed by a re-provisioning or a rotation, with a fault.

### `FileSettings` — the SDM settings codec

This module covers `change_file_settings_sdm`'s payload (lines 935-979) and
`parse_file_settings` (800-914), composed as in one SDM setup of `main`:
1. `ChangeFileSettings` builds the payload (lines 1409-1421).
2. `CardReply` is the card's GetFileSettings answer: FileType, the first
   three payload bytes, FileSize, then the SDM part as written. It is
   modelled from the spec.
3. `ParseSettings` parses that answer into `fs_info` (1430-1433).

How the code maps to the model:
- Bytes are numbers. Offsets are 24-bit little-endian (`U24`, `ReadU24`).
- `Emitted` lists the fields the builder writes, with the code's conditions
  on the unmasked `sdm_meta`/`sdm_file` arguments.
- `Present` is the parser's predicate table, in layout order.
- `FieldStart` is the parser's running `idx`.
- Every `if (len < idx + n) return 0` of the parser becomes one test, on the
  end of the last field read. Which fields are present depends only on
  SDMOptions and the SDM_AR nibbles, never on earlier field values, so the
  earlier tests are implied by the last one.

### `SdmSetup` — SDM settings and the NDEF template across runs

`--sdm-setup` (lines 1378-1427) changes two pieces of card state that must
agree. A file's SDM settings hold offsets into a template. File 0xE104 holds
the bytes those offsets point into. `main` does these steps in order:
1. checks `--sdm-keyno` (`SdmKeyNoCheck`);
2. builds the template (`BuildNdef`);
3. authenticates (`Authenticate`);
4. sends ChangeFileSettings for `counter_file_no` (`ChangeFileSettingsSdm`);
5. writes the template (`SelectNdefFile`, then `WriteChunk` for each
   UpdateBinary of at most 0xFF bytes, then `WriteDone` when the loop ends).

How the code maps to the model:
- A template is named by its base URL. `NdefLen` is `build_sdm_ndef`'s
  `total_len`: 7 bytes of NLEN and header, plus the URL with its 51 bytes of
  placeholders, minus the stripped prefix. `BuildOk` is its length checks.
- The card's NDEF file is a function from chunk index to the template last
  written there. `sdm` maps each file to the template its offsets were built
  for. Both persist between runs.
- Every command may be lost before the card acts on it or after (`Fault`,
  bounded by `MaxFaults`). A lost response to ChangeFileSettings or to an
  UpdateBinary leaves the change on the card while `main` gives up.
- The card may refuse ChangeFileSettings (`Refusals`). Per spec section 6 the
  refusal carries a valid MAC, so `ssm_cmd_full` returns 1 and `main` goes on.
- `writeFree` is the file's write right. UpdateBinary fails when it is not
  free. ChangeFileSettings on the NDEF file sets AR2 to 0xEE (free) when the
  first GetFileSettings failed, and otherwise keeps the card's AR2 (lines
  1403-1404).

Every run first reads the NDEF file (lines 1177-1247), before any
`--sdm-setup` step:
- `ReadNdefStart` stands for the SELECTs, the CC read and the READ of NLEN.
  A failure of any of them is only printed, and the run goes on. NLEN is
  what the template on chunk 0 wrote there (`NlenOf`: `record_len`, lines
  302-310), or `BlankNlen` for a file no setup wrote.
- `ReadNdefChunk` is one turn of the loop. It asks `read_binary` for
  `min(remaining, 0xFF)` bytes (`ReadChunk`), then adds the bytes that came
  back to `total`, `offset` and `remaining`. `offset` and `remaining` are
  `uint16_t` (`% 65536`). A failed read breaks the loop.
- `ReadNdefDone` is the loop's exit.

`ReadBinary` is `read_binary`: after a 6Cxx answer it sends the APDU once
more with Le = xx and returns the second answer. `CardAnswer` is the card:
- it sends the bytes asked for when the file holds them;
- past the end of the file it answers in a fixed way per card (`pastEnd`,
  chosen at `Init` from `PastEnds`): an error, 6Cxx with the bytes it holds,
  or those bytes with 9000;
- a T0-strict card (`CardT0`) answers 6Cxx to every Le but the exact one.

**Fairness.** `main` is one thread, and every call it makes returns:
`SCardTransmit` answers or fails. So `Spec` puts weak fairness on the steps
of a started run that involve no link fault (`Fairness`). A fault may
happen, but no run is assumed to be rescued by one. Starting a run is the
user's choice and is not assumed.

`MCSdmSetup` uses three base URLs: the default `https://example.com/tap` (a
73-byte template, one chunk), one whose template is exactly 256 bytes (two
chunks, the second one byte long, holding the last byte of the MAC
placeholder), and one a byte too long. It runs three times with one lost
frame. These bounds reach a complete setup after a failed one, and the
second UpdateBinary. The blank file's NLEN is 300, larger than the file,
so the read loop reaches the end of the file. The cards answer an error or
6Cxx past the end, and are not T0-strict. The other two kinds of card break
the read properties: `sdm_read_spin` below, and the hazard at line 509.

## Runs

| Run | Config | Expect | Shows |
|---|---|---|---|
| `secure_channel` | `MCSecureMessaging.cfg` | pass (216383 states) | see the properties below |
| `session_reuse` | `MCSecureMessagingReuse.cfg` | violation | see below |
| `write_before_change` | `MCKeyManagementWrites.cfg` | pass (220249 states) | `TypeOK`, `WriteBeforeChange` |
| `unsaved_key` | `MCKeyManagementUnsaved.cfg` | violation | `WriteBeforeChange` with disk faults |
| `key_loss` | `MCKeyManagementKeyLoss.cfg` | violation | `KeyRecoverable` |
| `change_misreported` | `MCKeyManagementMisreport.cfg` | violation | `ReportedChangeApplied` |
| `file_settings_roundtrip` | `MCFileSettings.cfg` | pass (11520 states) | `RoundTrip` |
| `file_settings_gap` | `MCFileSettingsAll.cfg` | violation | `RoundTrip` for every SDMMetaRead |
| `sdm_setup` | `MCSdmSetup.cfg` | pass (61062 states) | `TypeOK`, `TemplateWrittenWhole`, `ReadWithinBuffer` |
| `sdm_read_spin` | `MCSdmSetupSpin.cfg` | violation | `RunEnds` on a card that answers 9000 with no bytes past the end |
| `sdm_partial_setup` | `MCSdmSetupPartial.cfg` | violation | `SdmConsistentAtRest` |
| `sdm_wrong_file` | `MCSdmSetupWrongFile.cfg` | violation | `SetupReportedConsistent` with `counter_file_no` 3 |

The properties of `secure_channel`:
- `TypeOK`. It also shows that the modular increment keeps `cmd_ctr` in range.
- `SessionAgreement`: whenever the host holds an authenticated session, the
  card holds the same keys. Part-2 responses replayed from another handshake
  are rejected by the RndA' check at line 595.
- `ResponseAuthentic`: every response the host accepted was produced by the
  card, for the same session key and counter, with the same SW2 and body.
- `CtrInStep`: while both sides are in the same session, the card's counter is
  the host's counter or one ahead. The "one ahead" case is a lost response.
- `ChannelSpec`: host, card and link implement `SecureChannel`. The card
  executes each counter of a session at most once, in increasing order. The
  host accepts only answers to executed commands, in counter order. With the
  counter left out of the response MAC check (`ResponseMacOkNoCtr`), TLC
  breaks it.

`session_reuse` checks `CommandAnswered`: every response the host accepts
answers the command it sent. TLC finds this trace:
1. the host sends command A;
2. the card executes A;
3. the response is lost;
4. `ssm_cmd_full` returns 0 and leaves the session authenticated, with the
   counter unchanged;
5. the host sends command B on the same session, as `main` does at line 1480
   after a failed secure GetFileSettings;
6. a replay of A's response is accepted as B's answer, because it carries the
   same key and counter.

This is recorded as a finding. The spec (sections 4.E, 5 and 9) says a failed
session must be discarded.

Deadlock is not checked. The tool is a one-shot process: once its bounded
commands are done it exits, and the model stops with it.

The key-management runs:
- `write_before_change` checks two things, with a working disk. `TypeOK`
  shows that the range checks at lines 1278 and 1324 keep every key number
  given with `--new-keyno` or `--rotate-keyno` in range (TLAPS proves it
  with disk faults too). `WriteBeforeChange`: every key a step puts on the
  card is already in a key file. This also holds when the ChangeKey answer
  is lost and the tool reports failure. That key 0 is never changed is not
  checked: it follows from the card's rule in `ChangeKeyAccepted`, a
  refusal of the Case 2 payload for the session's own key, whatever `main`
  does.
- `unsaved_key` (finding): `write_key_hex_file` ignores `fprintf`/`fclose`
  errors. A truncated file is reported as written, and the key then goes to
  the card.
- `key_loss` (finding): a second `--provision` of key n overwrites
  `ntag424_key<n>.hex`, which holds the card's current key. ChangeKey with the
  zero old key is then refused, and no file holds the card's key any more.
  The same happens when rotation's `--old-key` names the default new-key file.
- `change_misreported` (finding): `main` prints "ChangeKey OK" and switches
  the counter key when the card refused the change with a MAC'd 91xx error.
  `ssm_cmd_full` never checks SW2, and spec section 6 says such errors are
  MAC-authenticated. The run uses no link faults, so this needs only a
  refused change (for example a re-provisioning).

The file-settings runs check `RoundTrip`, the round trip of spec section 8.
Parsing what the builder wrote must give back the file option, the access
rights, SDMOptions, the three SDM_AR nibbles, and exactly the offsets the
builder emitted, each at its value.
- `file_settings_roundtrip` uses `main`'s own arguments (0xC1, 0x0E). It also
  covers:
  - every combination of UID and counter mirroring and the ASCII bit;
  - SDMMetaRead 5, 14 and 15;
  - SDMFileRead 0, 1 and 15 (15 means no MAC);
  - offsets of one and of three significant bytes, so the little-endian
    order matters.
- `file_settings_gap` (finding) adds SDMMetaRead 0..4, bit 0x10 (encrypted
  file data) and bit 0x20 (counter limit). For these, the builder omits
  PICCDataOffset, the SDMENC fields or the limit, while the parser, like the
  card's layout, requires them. The spec's Build has the same omission, so
  its round-trip statement fails for these inputs. `main` never passes them.

Deadlock is not checked in these runs either: the operator stops running the
tool after `MaxRuns` runs.

The SDM-setup runs ask whether the card mirrors into the template `main`
wrote.
- `TemplateWrittenWhole`: a reported write leaves every chunk the template
  spans on the card. `sdm_setup` checks it with lost frames, card refusals,
  a write right that is not free, `counter_file_no` 2 or 3, and earlier
  failed runs.
- `SetupReportedConsistent`: when `main` prints "NDEF template written", the
  NDEF file's SDM settings are this template's and the file holds all of it.
  It is broken by `sdm_wrong_file` below. With card refusals it also fails: a refused ChangeFileSettings comes back
  with a valid MAC, `ssm_cmd_full` returns 1 (line 728, as in
  `change_misreported`), and `main` writes the template over the old settings.
- `sdm_partial_setup` (finding): between runs, `SdmConsistentAtRest` asks
  that every file with SDM on is the NDEF file and holds its template. TLC
  breaks it in five steps: the ChangeFileSettings response is lost after the
  card took it, and `main` exits with the settings pointing into a blank file.
  A refused UpdateBinary has the same effect.
- `sdm_wrong_file` (finding): with `counter_file_no` 3, the settings go to
  file 3 and the template to 0xE104. The setup is reported done, yet file 3's
  offsets point into a file that does not hold the template.

- `ReadWithinBuffer`: the read loop never copies more than NLEN bytes into
  `calloc(nlen)` (`total <= nlen`). `sdm_setup` checks it on a blank file
  whose NLEN exceeds the file, on cards that answer 6Cxx only past the end.
  With `CardT0 = TRUE` TLC breaks it in two runs: the second run's loop
  asks for 71 bytes at offset 2 of the 73-byte template, the card answers
  6C FE, and the retry of `read_binary` (line 509) returns 254 bytes, which
  line 1228 copies into the 71-byte buffer. No run keeps this card, since
  the NTAG 424's READ BINARY is not T0-strict; the hazard at line 509
  records it. Outside the model, the same unchecked copy (line 518) also
  overflows the 4-byte `nlen_bytes` buffer of the NLEN read.
- `sdm_read_spin` (finding): `RunEnds` says every started run comes back to
  `cleanup` (`pc # "idle" ~> pc = "idle"`) under the fairness above. On a
  card that answers a read past the end with the bytes it holds and 9000
  (`PastEnds = {"short"}`), TLC breaks it: on a blank file of NLEN 300 the
  loop reads 254 bytes, then every read at offset 256 returns 0 bytes with
  9000, and the loop of line 1216, which has no exit for an empty read,
  spins forever. The only other loop, the write loop, always advances by a
  chunk of at least one byte.

In the SDM-setup runs deadlock is not checked either, for the same reason:
after `MaxRuns` runs the system stops.

**Mutants.** Each property of a passing run is broken by a plausible bug in
the code it is about:

| Mutant | Breaks |
|---|---|
| a counter increment without the wrap | `TypeOK` |
| no RndA' check | `SessionAgreement` |
| a response MAC that does not bind the counter | `ResponseAuthentic` |
| a counter advanced on a failed command | `CtrInStep` |
| no key-number range check | `TypeOK` (KeyManagement) |
| a generated key not written before ChangeKey | `WriteBeforeChange` |
| SDM_AR read most significant byte first | `RoundTrip` |
| no `total_len > 256` check in `build_sdm_ndef` | `TypeOK` (SdmSetup) |
| the write loop stopping one byte early (`offset + 1 < len`) | `TemplateWrittenWhole` |
| the read loop asking for 255 bytes whatever remains | `ReadWithinBuffer` |

## Proofs

### `SecureMessagingProofs`

TLAPS proves these results for all keys, commands, SW2 values, counter widths
and bounds:
- `THEOREM TypeCorrect == Spec => []TypeOK`
- `THEOREM SessionAgreementHolds == Spec => []SessionAgreement`
- `THEOREM ResponseAuthenticHolds == Spec => []ResponseAuthentic`

**Assumptions.** The proofs use `ConstAssumption`: the card key is one of the
keys, and the bounds are naturals. They also use `CtrModAssumption`: `2^CtrBits`
is a positive natural. This second assumption is stated separately because the
provers do not handle `^`. TLC evaluates both assumptions on every run.

**Inductive invariant.** Neither property is inductive on its own.
`SessionAgreement` depends on the card's key matching a Part-2 response the
host could still receive, and that could be a replayed one. The strengthening
`IInv` adds four conjuncts:
- `LinkDiscipline`: there is one call in flight; a Part-2 request carries the
  host's current nonces; the host holds no session while it is in a handshake.
- `NonceBound`: the nonce counter is bounded by the number of handshakes. This
  keeps nonces inside `Nonces`.
- `FreshRndA`: the host's current RndA, and the RndA of every recorded Part-2
  response, are at most the last nonce drawn. The RndA of a new handshake is
  therefore newer than any response a relay holds.
- `HandshakeBinding`: while the host waits in part 2, any Part-2 response
  carrying its RndA implies that the card holds `<<RndA, RndB>>`.

**Proof structure.**
- `InitIInv` proves that `Init` implies `IInv`.
- `NextIInv` proves that every step preserves `IInv`. It has one step per action
  (17 cases), each split into the conjuncts the action can disturb.
- The lemmas `ResponseFields`, `RequestFields`, `FrameTypes` and `NextCtrType`
  state what a frame's type says about its fields, and that `NextCtr` stays in
  range.
- TLC also checked `IInv` as an invariant of `secure_channel`.

**Response authenticity.** `ResponseAuthentic` is not inductive with `IInv`
alone: a recorded response that a relay replays later must still be one the
card produced. `MacsFromCard` states this for every recorded response and the
one in flight: a secure response carries a MAC whose session key, counter,
body and SW2 match an entry of the card's log `clog`, at `NextCtr` of the
entry's counter.
- `NextCtrInjective`: `NextCtr` is injective on `0 .. 2^CtrBits - 1`.
- `MacsKept`: a response covered by the log stays covered when the log grows.
- `NextMacs`: every step preserves `MacsFromCard`, given `IInv`.
- `NextAuthentic`: every step preserves `ResponseAuthentic`, given `IInv` and
  `MacsFromCard`. The host accepts a response only if the MAC it checks
  matches, so the response is one the log covers.
- TLC also checked `MacsFromCard` as an invariant of `secure_channel`.

### `KeyManagementProofs`

TLAPS proves these results for all sets of key numbers and paths and all
bounds, from `KMAssumption`. That assumption says the key numbers lie in
0..15 and include 0, the bad key number is above 15, the default-path
functions map to paths, and the bounds are naturals.
- `THEOREM TypeCorrect == Spec => []TypeOK`
- `THEOREM WriteBeforeChangeHolds`: under `~DiskFaults`,
  `Spec => WriteBeforeChange`.

**Inductive invariant.** `IInv` is `TypeOK /\ (~DiskFaults => NewKeyStored)`. `NewKeyStored` says that from authentication to ChangeKey
the run's new key is in a key file. `WriteBeforeChange` is an action
property, and it follows from `NewKeyStored`: only the two ChangeKey actions
change the card, they change at most the target key, and they change it to
`new_key` (`ChangeKeyTarget`). They leave the files alone.

**Lemmas.**
- `KeyNoChecked`: a key number that passes the range check is one of the
  card's.
- `OutPath`: a default or given output path is a path.
- `WriteKeyFileEffect` and `ChangeKeyEffect` state what a key-file write and
  the card's ChangeKey answer can do.
- `NextIInv` has one step per action, and a case split on each early return.

### `SdmSetupProofs`

TLAPS proves these results for every set of URLs and lengths, every chunk
cap, every file size of at least 256 and all bounds, from `SdmAssumption`:
- `THEOREM TypeCorrect == Spec => []TypeOK`. In particular the write loop's
  offset never passes the end of the file.
- `THEOREM TemplateWrittenWholeHolds == Spec => []TemplateWrittenWhole`.
- `THEOREM ReadWithinBufferHolds`: under `~CardT0`,
  `Spec => []ReadWithinBuffer`, for every NLEN, file size and past-end
  behaviour. `ReadInv` strengthens the property by adding that in the loop
  `total + remaining = nlen`. `ReadBinaryWithin` shows that `read_binary`
  with Le in 1..255 returns at most Le bytes on such a card. Both
  `remaining -= n` and `offset += n` then stay below 65536 without wrapping.

**Inductive invariant.** `TypeOK` alone is not inductive. `IInv` adds three
facts:
- from authentication on, the URL passed `BuildOk`, so the template fits the
  file;
- in the loop, `WriteProgress` holds: `offset` is at most the template's
  length, it is a multiple of the chunk cap or the end of the template, and
  every chunk before it holds the template;
- `setupOk` holds only between runs, with the template whole on the card;
- `WrittenBuilt`: every template on the card passed `build_sdm_ndef`'s
  checks, so the NLEN the next run reads fits in 16 bits.

**Lemmas.**
- `ChunkAt` and `NextChunk` are the loop's arithmetic. The chunk starting
  at a multiple `k` of the cap is the only one whose start lies in
  `[k, k + cap)`, and `k + cap` is again a multiple.
- `ChunkInFile` and `NdefLenBounds` keep the chunk index in the file.
- There is one lemma per action (`StartRunIInv`, `MoveIInv`,
  `ChangeFileSettingsIInv`, `SelectIInv`, `WriteChunkIInv`, `WriteDoneIInv`).
  `NextIInv` combines them. `ReadStartIInv`, `ReadChunkIInv` and
  `ReadDoneIInv` cover the NDEF read, with `CardAnswerType`,
  `ReadBinaryType` and `NlenType` for the values it reads.

### `SecureMessagingCtrProofs`

TLAPS proves, for every counter width, key set, command set and bound:
- `THEOREM CtrInStepHolds`: under `NoWrap` (`MaxCmds < 2^CtrBits`),
  `Spec => []CtrInStep`. Whenever the host's session is open and the card
  holds the same session key, the card's counter is the host's `cmd_ctr` or
  one ahead of it. The link may lose, corrupt and replay frames.

**Why the hypothesis.** `NoWrap` says one session sends fewer secure
commands than `cmd_ctr` has values. The tool sends a handful of commands on a
`uint16_t` counter. Without `NoWrap` the property is false: after a lap, a
relay replays a response recorded one lap earlier, and its MAC is valid for
the current counter (line 739). `main` sends at most two secure commands
on a session, so the tool never comes near this, and it is not listed as a
hazard. `secure_channel` runs with
`MaxCmds = 4 = 2^CtrBits`, one step past what the theorem covers, and
`CtrInStep` still holds there.

**Inductive invariant.** `CtrInStep` compares counters modulo `2^CtrBits`.
TLAPS cannot reason about that comparison as it stands. `CtrInv` restates the
counters without the wrap and adds what a step needs:
- `CtrIssued`: the card's counter plus any secure request in flight is at
  most the number of commands sent. Under `NoWrap`, this keeps both counters
  below `2^CtrBits`, so `NextCtr(c) = c + 1`.
- `CtrExecutedBelow`: every logged command of the card's current session
  has a counter below the card's counter. When the host accepts a response,
  `MacsFromCard` and `NextCtrInjective` give a logged command at the host's
  counter. That command puts the card strictly ahead, so the card is exactly
  one ahead and the host catches up.
- `CtrShared`: the unwrapped form of `CtrInStep`.
- `CtrFreshSession`: while the host waits in Part 2, a card session with the
  host's nonces is at counter 0. `AuthPart2` then opens a session that
  starts level with the card.
- `KeysFresh`: no nonce the card or its log holds is newer than the last one
  drawn. While a handshake is pending, no logged command uses the card's
  RndB. A session opened by `CardAuth2` therefore starts with an empty log
  for its key, and a Part-1 step gives the host a RndA that no card session
  uses.
- `ReqOfHost`: a secure request in flight carries the host's key and
  counter, and the host is in a session while it waits.

TLC checked `CtrInv` as an invariant on the `secure_channel` instance with
`MaxCmds = 3`, before the proof was written.

**Proof structure.**
- `InitCtrInv` proves that `Init` implies `CtrInv`.
- `NextCtrInv` has one step per action, each split into the conjuncts the
  action can disturb. It uses `IInv` and `MacsFromCard` from
  `SecureMessagingProofs`, and their preservation (`NextIInv`, `NextMacs`).
- `CtrInvImplies` derives `CtrInStep`.

### `SecureChannelProofs`

TLAPS proves, for every counter width, key set, command set and bound:
- `THEOREM ChannelRefinement`: under `NoWrap`, `Spec => ChannelSpec`. Host,
  card and link implement `SecureChannel`.

`NoWrap` is needed for the same reason as in `CtrInStepHolds`. Past one lap
the host's counter comes back to values it has accepted, so the answers of
a session are no longer accepted in counter order.

**Inductive invariant.** The proof uses `IInv`, `MacsFromCard` and `CtrInv`
from the modules above, and adds `AcceptInv`, which TLC checked before the
proof:
- `ExecutedBelowSent`: every logged command has a counter below the number
  of commands sent. With `NoWrap`, an accepted answer's counter + 1 then
  does not wrap.
- `AcceptedKeysOld`: every accepted answer's key, and the session's key,
  has a RndA no newer than the last nonce. In part 2, the host's new RndA is
  newer than every accepted key. A session opened by `AuthPart2` therefore
  has no accepted answers yet.
- `AcceptedBelow`: the open session's accepted answers all have counters
  below `cmd_ctr`.

**Proof structure.**
- `SsmRecvFacts`: an answer that `ssm_cmd_full` accepts is the card's log
  entry at the host's counter (`MacsFromCard`, `NextCtrInjective`), and
  `cmd_ctr + 1` does not wrap.
- `NextAcceptInv`: every step preserves `AcceptInv`, with one step per
  action.
- `ChannelStep`: every step maps to a `SecureChannel` step or a stutter.
  - A successful `CardSsm` is `Execute`; its guard is `CtrExecutedBelow`.
  - `SsmRecv` is `Accept`; its guards are `SsmRecvFacts` and `AcceptedBelow`.
  - Every other step leaves both logs alone (`ChannelStutter`).
- The initial state maps to `Channel!Init`. The theorem then follows by
  PTL from the four invariants.

### What is only model-checked

`CtrInStep` is proved only within one lap of the counter (see above),
because it is false beyond. TLC finds the wrap replay with `CtrBits = 2`,
`MaxCmds = 6`, `MaxAuth = 1` and `MaxFaults = 1`.

`RoundTrip` (`FileSettings`) is checked by TLC only. `Build` concatenates
the emitted fields with `SelectSeq` and `FlattenSeq`, and `Parse` locates
them by counting the present fields with `Cardinality` and `CHOOSE`. Both
library operators are recursive functions over the sequence. Relating the
byte positions they produce needs induction over that data, which the
provers cannot instantiate. The property also holds only for arguments in
`MCFileSettings`'s sets: `file_settings_gap` shows that it fails for others.

The violated properties (`CommandAnswered`, `KeyRecoverable`,
`ReportedChangeApplied`, and `WriteBeforeChange` with disk faults) are shown
by TLC's counterexamples. The provers also cannot handle:
- liveness, because ENABLED and fairness are out of reach. `RunEnds` is
  therefore left to TLC, which shows it violated (`sdm_read_spin`);
- what recursive definitions compute for every input.
These stay with TLC.

## Not modelled (yet)

- **Crypto primitives, and the padding/CRC helpers.** The session model
  abstracts them. A reference check of the padding and CRC32 is planned.
- **Plain ISO commands other than READ BINARY.** The spec puts the 6Cxx
  retry in the transport for every command, but the code has it only in
  `read_binary`, which `SdmSetup` models. The CC and NLEN reads are kept
  only by their outcome.
- **Plain commands interleaved with secure ones.** After the SDM setup,
  `main` reads the settings back with GetFileSettings (lines 1429-1445). This
  changes nothing on the card, so `SdmSetup` ends the run there.
- **Predictable keys.** `random_bytes` falls back to `rand()` without a seed
  when `/dev/urandom` cannot be opened. Keys are abstract in the model.
- **The NDEF builder's bytes.** `SdmSetup` keeps its length checks. The
  layout and the placeholder scan are pure, and a check of the offsets
  against the spec's example (section 8, vector 4) is planned.
- **Reader enumeration, hex parsing and printing.** These are pure I/O.
- **TI (transaction identifier).** It is omitted: it is constant within a
  session and bound to the keys, which the model already tracks.
