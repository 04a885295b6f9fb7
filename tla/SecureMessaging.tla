--------------------------- MODULE SecureMessaging ---------------------------
(***************************************************************************)
(* The EV2 secure channel of ntag424_read.c: the host side of             *)
(* authenticate_ev2_first and ssm_cmd_full, operating on one              *)
(* ssm_session_t, against the card's side of the protocol (spec 4.D, 4.E) *)
(* over a PC/SC link that can lose, corrupt or replay frames.            *)
(*                                                                         *)
(* Data abstraction.  AES and CMAC are taken as perfect: the session keys *)
(* KENC/KMAC derived from (K, RndA, RndB) are represented by the pair of  *)
(* nonces <<RndA, RndB>> of the handshake that produced them, a           *)
(* ciphertext under K by its plaintext tagged with K, and a MAC by the    *)
(* record of the fields it covers.  TI is left out: it is constant per    *)
(* session and the session key already tells sessions apart.  A response  *)
(* body is the INS of the command whose execution produced it.            *)
(***************************************************************************)
EXTENDS Naturals, FiniteSets

CONSTANTS
    Keys,        \* AES-128 keys the caller may authenticate with
    CardKey,     \* the key the card holds under the key number used
    Cmds,        \* INS codes the callers send through ssm_cmd_full
    Sw2s,        \* SW2 values of a MACed 91xx response (00 = success)
    CtrBits,     \* width of ssm_session_t.cmd_ctr (uint16_t: 16)
    MaxAuth,     \* bound on EV2-First handshakes started
    MaxCmds,     \* bound on secure-messaging commands sent
    MaxFaults,   \* bound on link faults
    Attacker     \* whether the link may answer with a recorded response

ASSUME ConstAssumption ==
    /\ CardKey \in Keys
    /\ Cmds # {} /\ Sw2s # {}
    /\ CtrBits \in Nat \ {0}
    /\ MaxAuth \in Nat /\ MaxCmds \in Nat /\ MaxFaults \in Nat
    /\ Attacker \in BOOLEAN

CtrMod == 2 ^ CtrBits

\* 2^w is a positive natural; stated for the provers, which do not expand ^.
ASSUME CtrModAssumption == CtrMod \in Nat \ {0}

\* A handshake nonce (RndA or RndB); 0 stands for the zeroed buffer.
Nonces == 0 .. 2 * MaxAuth
\* Session keys KENC/KMAC, named by the nonces they were derived from.
SessionKeys == Nonces \X Nonces
NoKey == <<0, 0>>
\* The INS slot of a host call that is not a secure-messaging command.
NoIns == "none"

(* Frames on the link.  Field "type" tells the kinds apart.                *)
Auth1Req == [type |-> "auth1"]
Auth1Resp(b) == [type |-> "auth1r", rndB |-> b]              \* 91AF, 16 bytes
Auth2Req(a, b, k) == [type |-> "auth2", rndA |-> a, rndB |-> b, key |-> k]
Auth2Resp(a, k) == [type |-> "auth2r", rndA |-> a, key |-> k] \* 9100, 32 bytes
ErrResp == [type |-> "err"]                                 \* 91xx, no MAC
SmReq(i, c, sk, ok) == [type |-> "sm", ins |-> i, ctr |-> c, sk |-> sk, intact |-> ok]
Mac(sk, c, s, b) == [sk |-> sk, ctr |-> c, sw2 |-> s, body |-> b]
SmResp(s, b, m) == [type |-> "smr", sw2 |-> s, body |-> b, mac |-> m]
NoMsg == [type |-> "none"]
TransportError == [type |-> "terr"]

Responses ==
    [type : {"auth1r"}, rndB : Nonces]
    \cup [type : {"auth2r"}, rndA : Nonces, key : Keys]
    \cup {ErrResp}
    \cup [type : {"smr"}, sw2 : Sw2s, body : Cmds,
          mac : [sk : SessionKeys, ctr : 0 .. CtrMod - 1, sw2 : Sw2s, body : Cmds]]
Requests ==
    {Auth1Req}
    \cup [type : {"auth2"}, rndA : Nonces, rndB : Nonces, key : Keys]
    \cup [type : {"sm"}, ins : Cmds, ctr : 0 .. CtrMod - 1, sk : SessionKeys,
          intact : BOOLEAN]

VARIABLES
    sess,      \* the caller's ssm_session_t
    hpc,       \* which transmit the host is blocked in
    hcur,      \* locals of the host call in progress
    card,      \* the card's secure-messaging state
    req,       \* request frame on the link
    resp,      \* response frame on the link
    fresh,     \* nonces drawn so far (RndA by the host, RndB by the card)
    nAuth,     \* handshakes started
    nCmds,     \* secure-messaging commands sent
    faults,    \* link faults so far
    recorded,  \* card responses seen on the link (what a replay can reuse)
    hlog,      \* responses the host accepted, with the command it sent
    clog       \* commands the card executed

vars == <<sess, hpc, hcur, card, req, resp, fresh, nAuth, nCmds, faults,
          recorded, hlog, clog>>

ZeroSession == [authenticated |-> FALSE, sk |-> NoKey, ctr |-> 0]
\* Mutant: the counter kept in a wider integer, never truncated to 16 bits.
NextCtrUnwrapped(c) == c + 1
NextCtr(c) == (c + 1) % CtrMod

Accepted == [sk : SessionKeys, ctr : 0 .. CtrMod - 1, ins : Cmds, sw2 : Sw2s, body : Cmds]
Executed == [sk : SessionKeys, ctr : 0 .. CtrMod - 1, ins : Cmds, sw2 : Sw2s]

TypeOK ==
    /\ sess \in [authenticated : BOOLEAN, sk : SessionKeys, ctr : 0 .. CtrMod - 1]
    /\ hpc \in {"idle", "auth1", "auth2", "sm"}
    /\ hcur \in [key : Keys, rndA : Nonces, rndB : Nonces, ins : Cmds \cup {NoIns}]
    /\ card \in [auth : BOOLEAN, sk : SessionKeys, ctr : 0 .. CtrMod - 1, rndB : Nonces]
    /\ req \in Requests \cup {NoMsg}
    /\ resp \in Responses \cup {NoMsg, TransportError}
    /\ fresh \in Nonces
    /\ nAuth \in 0 .. MaxAuth
    /\ nCmds \in 0 .. MaxCmds
    /\ faults \in 0 .. MaxFaults
    /\ recorded \subseteq Responses
    /\ hlog \subseteq Accepted
    /\ clog \subseteq Executed

Init ==
    /\ sess = ZeroSession
    /\ hpc = "idle"
    /\ hcur = [key |-> CardKey, rndA |-> 0, rndB |-> 0, ins |-> NoIns]
    /\ card = [auth |-> FALSE, sk |-> NoKey, ctr |-> 0, rndB |-> 0]
    /\ req = NoMsg
    /\ resp = NoMsg
    /\ fresh = 0
    /\ nAuth = 0
    /\ nCmds = 0
    /\ faults = 0
    /\ recorded = {}
    /\ hlog = {}
    /\ clog = {}
-----------------------------------------------------------------------------
(* Host: authenticate_ev2_first.  Its caller hands it a freshly zeroed    *)
(* ssm_session_t (memset before every call in main), which is written     *)
(* only when the whole handshake succeeds.                                 *)

\* Zero the caller's session and send part 1, 90 71 00 00 02 KeyNo 00 00.
AuthStart(k) ==
    /\ hpc = "idle"
    /\ nAuth < MaxAuth
    /\ sess' = ZeroSession
    /\ hcur' = [key |-> k, rndA |-> 0, rndB |-> 0, ins |-> NoIns]
    /\ req' = Auth1Req
    /\ hpc' = "auth1"
    /\ nAuth' = nAuth + 1
    /\ UNCHANGED <<card, resp, fresh, nCmds, faults, recorded, hlog, clog>>

\* Part 1 answered with SW 91AF and 16 bytes: decrypt RndB, draw RndA,
\* send part 2, 90 AF 00 00 20 E(K, RndA || RndB') 00.
AuthPart1 ==
    /\ hpc = "auth1"
    /\ resp.type = "auth1r"
    /\ fresh' = fresh + 1
    /\ hcur' = [hcur EXCEPT !.rndA = fresh + 1, !.rndB = resp.rndB]
    /\ req' = Auth2Req(fresh + 1, resp.rndB, hcur.key)
    /\ resp' = NoMsg
    /\ hpc' = "auth2"
    /\ UNCHANGED <<sess, card, nAuth, nCmds, faults, recorded, hlog, clog>>

\* Transport error, or a status word or length other than 91AF/16: return 0.
AuthPart1Fail ==
    /\ hpc = "auth1"
    /\ resp # NoMsg
    /\ resp.type # "auth1r"
    /\ resp' = NoMsg
    /\ hpc' = "idle"
    /\ UNCHANGED <<sess, hcur, card, req, fresh, nAuth, nCmds, faults,
                   recorded, hlog, clog>>

\* Mutant: the RndA comparison of line 595 left out.
RndAVerifiedNoRndACheck(r) ==
    /\ r.type = "auth2r"
    /\ r.key = hcur.key

\* The part 2 answer is SW 9100 with 32 bytes whose decryption under K
\* holds RndA rotated by one byte (the checks of lines 582 and 595).
RndAVerified(r) ==
    /\ r.type = "auth2r"
    /\ r.key = hcur.key
    /\ r.rndA = hcur.rndA

\* Derive KENC/KMAC from RndA and RndB, cmd_ctr := 0, authenticated := 1.
AuthPart2 ==
    /\ hpc = "auth2"
    /\ resp # NoMsg
    /\ RndAVerified(resp)
    /\ sess' = [authenticated |-> TRUE, sk |-> <<hcur.rndA, hcur.rndB>>, ctr |-> 0]
    /\ resp' = NoMsg
    /\ hpc' = "idle"
    /\ UNCHANGED <<hcur, card, req, fresh, nAuth, nCmds, faults, recorded, hlog, clog>>

\* Any other answer to part 2: return 0, the session stays zeroed.
AuthPart2Fail ==
    /\ hpc = "auth2"
    /\ resp # NoMsg
    /\ ~RndAVerified(resp)
    /\ resp' = NoMsg
    /\ hpc' = "idle"
    /\ UNCHANGED <<sess, hcur, card, req, fresh, nAuth, nCmds, faults,
                   recorded, hlog, clog>>

-----------------------------------------------------------------------------
(* Host: ssm_cmd_full.  With no session it returns 0 before transmitting  *)
(* (line 653), which changes nothing and is not an action.  The Lc bound  *)
(* of line 703 is never reached by the commands of this tool (at most 41  *)
(* bytes).                                                                 *)

\* Encrypt the data under IVC, MAC INS || CmdCtr || TI || header || data
\* with KMAC and send it with the truncated MAC.
SsmSend(i) ==
    /\ hpc = "idle"
    /\ sess.authenticated
    /\ nCmds < MaxCmds
    /\ req' = SmReq(i, sess.ctr, sess.sk, TRUE)
    /\ hcur' = [hcur EXCEPT !.ins = i]
    /\ hpc' = "sm"
    /\ nCmds' = nCmds + 1
    /\ UNCHANGED <<sess, card, resp, fresh, nAuth, faults, recorded, hlog, clog>>

\* Mutant: the response MAC input built without CmdCtr+1.
ResponseMacOkNoCtr(r) ==
    /\ r.type = "smr"
    /\ r.mac.sk = sess.sk /\ r.mac.sw2 = r.sw2 /\ r.mac.body = r.body

\* The response passes: SW1 = 91, at least 8 bytes, and the trailing 8 are
\* Truncate8(CMAC(KMAC, SW2 || CmdCtr+1 || TI || C)).
ResponseMacOk(r) ==
    /\ r.type = "smr"
    /\ r.mac = Mac(sess.sk, NextCtr(sess.ctr), r.sw2, r.body)

\* Decrypt and unpad C under IVR, then cmd_ctr := cmd_ctr + 1 (16-bit wrap).
SsmRecv ==
    /\ hpc = "sm"
    /\ resp # NoMsg
    /\ ResponseMacOk(resp)
    /\ sess' = [sess EXCEPT !.ctr = NextCtr(sess.ctr)]
    /\ hlog' = hlog \cup {[sk |-> sess.sk, ctr |-> sess.ctr, ins |-> hcur.ins,
                           sw2 |-> resp.sw2, body |-> resp.body]}
    /\ resp' = NoMsg
    /\ hpc' = "idle"
    /\ UNCHANGED <<hcur, card, req, fresh, nAuth, nCmds, faults, recorded, clog>>

\* Mutant: cmd_ctr advanced on every exchange, verified or not.
SsmRecvFailAdvances ==
    /\ hpc = "sm"
    /\ resp # NoMsg
    /\ ~ResponseMacOk(resp)
    /\ sess' = [sess EXCEPT !.ctr = NextCtr(sess.ctr)]
    /\ resp' = NoMsg
    /\ hpc' = "idle"
    /\ UNCHANGED <<hcur, card, req, fresh, nAuth, nCmds, faults,
                   recorded, hlog, clog>>

\* Transport error, SW1 # 91, fewer than 8 bytes or a MAC mismatch:
\* return 0 and leave the session as it was, authenticated included.
SsmRecvFail ==
    /\ hpc = "sm"
    /\ resp # NoMsg
    /\ ~ResponseMacOk(resp)
    /\ resp' = NoMsg
    /\ hpc' = "idle"
    /\ UNCHANGED <<sess, hcur, card, req, fresh, nAuth, nCmds, faults,
                   recorded, hlog, clog>>

Host ==
    \/ \E k \in Keys : AuthStart(k)
    \/ AuthPart1 \/ AuthPart1Fail \/ AuthPart2 \/ AuthPart2Fail
    \/ \E i \in Cmds : SsmSend(i)
    \/ SsmRecv \/ SsmRecvFail

-----------------------------------------------------------------------------
(* The card (spec 4.D and 4.E, the peer of this code).  Any                *)
(* AuthenticateEV2First aborts the running session; a command that fails  *)
(* its MAC check, or arrives with no session, is answered with a plain    *)
(* 91xx error and ends the session.                                        *)

\* Answer part 1 with E(K, RndB) for a fresh RndB.
CardAuth1 ==
    /\ req = Auth1Req
    /\ fresh' = fresh + 1
    /\ card' = [card EXCEPT !.auth = FALSE, !.rndB = fresh + 1]
    /\ resp' = Auth1Resp(fresh + 1)
    /\ req' = NoMsg
    /\ recorded' = recorded \cup {resp'}
    /\ UNCHANGED <<sess, hpc, hcur, nAuth, nCmds, faults, hlog, clog>>

\* Check RndB' under the card's key; on success open the session and
\* answer E(K, TI || RndA').
CardAuth2 ==
    /\ req.type = "auth2"
    /\ \/ /\ card.rndB # 0 /\ req.rndB = card.rndB /\ req.key = CardKey
          /\ card' = [auth |-> TRUE, sk |-> <<req.rndA, req.rndB>>, ctr |-> 0, rndB |-> 0]
          /\ resp' = Auth2Resp(req.rndA, CardKey)
       \/ /\ ~(card.rndB # 0 /\ req.rndB = card.rndB /\ req.key = CardKey)
          /\ card' = [card EXCEPT !.auth = FALSE, !.rndB = 0]
          /\ resp' = ErrResp
    /\ req' = NoMsg
    /\ recorded' = recorded \cup {resp'}
    /\ UNCHANGED <<sess, hpc, hcur, fresh, nAuth, nCmds, faults, hlog, clog>>

\* Verify the command MAC against the card's own counter; execute, advance
\* the counter and answer with a MACed response of any SW2.
CardSsm ==
    /\ req.type = "sm"
    /\ \/ /\ card.auth /\ req.intact /\ req.sk = card.sk /\ req.ctr = card.ctr
          /\ \E s \in Sw2s :
                /\ resp' = SmResp(s, req.ins, Mac(card.sk, NextCtr(card.ctr), s, req.ins))
                /\ clog' = clog \cup {[sk |-> card.sk, ctr |-> card.ctr,
                                       ins |-> req.ins, sw2 |-> s]}
          /\ card' = [card EXCEPT !.ctr = NextCtr(card.ctr)]
       \/ /\ ~(card.auth /\ req.intact /\ req.sk = card.sk /\ req.ctr = card.ctr)
          /\ card' = [card EXCEPT !.auth = FALSE]
          /\ resp' = ErrResp
          /\ UNCHANGED clog
    /\ req' = NoMsg
    /\ recorded' = recorded \cup {resp'}
    /\ UNCHANGED <<sess, hpc, hcur, fresh, nAuth, nCmds, faults, hlog>>

Card == CardAuth1 \/ CardAuth2 \/ CardSsm

-----------------------------------------------------------------------------
(* The link under SCardTransmit.  A lost frame surfaces to the host as a  *)
(* transport error; whether the card saw the request decides whether its  *)
(* state moved.  The attacker variant answers an intercepted request with *)
(* a response recorded earlier.                                            *)

LoseRequest ==
    /\ faults < MaxFaults
    /\ req # NoMsg
    /\ req' = NoMsg
    /\ resp' = TransportError
    /\ faults' = faults + 1
    /\ UNCHANGED <<sess, hpc, hcur, card, fresh, nAuth, nCmds, recorded, hlog, clog>>

LoseResponse ==
    /\ faults < MaxFaults
    /\ resp \notin {NoMsg, TransportError}
    /\ resp' = TransportError
    /\ faults' = faults + 1
    /\ UNCHANGED <<sess, hpc, hcur, card, req, fresh, nAuth, nCmds, recorded, hlog, clog>>

CorruptRequest ==
    /\ faults < MaxFaults
    /\ req.type = "sm"
    /\ req.intact
    /\ req' = [req EXCEPT !.intact = FALSE]
    /\ faults' = faults + 1
    /\ UNCHANGED <<sess, hpc, hcur, card, resp, fresh, nAuth, nCmds, recorded, hlog, clog>>

\* A bit error in SW2 or in the response body.
CorruptResponse ==
    /\ faults < MaxFaults
    /\ resp.type = "smr"
    /\ \E s \in Sw2s, b \in Cmds :
          /\ <<s, b>> # <<resp.sw2, resp.body>>
          /\ resp' = [resp EXCEPT !.sw2 = s, !.body = b]
    /\ faults' = faults + 1
    /\ UNCHANGED <<sess, hpc, hcur, card, req, fresh, nAuth, nCmds, recorded, hlog, clog>>

Replay ==
    /\ Attacker
    /\ faults < MaxFaults
    /\ req # NoMsg
    /\ \E r \in recorded : resp' = r
    /\ req' = NoMsg
    /\ faults' = faults + 1
    /\ UNCHANGED <<sess, hpc, hcur, card, fresh, nAuth, nCmds, recorded, hlog, clog>>

Link == LoseRequest \/ LoseResponse \/ CorruptRequest \/ CorruptResponse \/ Replay

Next == Host \/ Card \/ Link

Spec == Init /\ [][Next]_vars


-----------------------------------------------------------------------------
(* Properties.                                                             *)

\* Mutual authentication (authenticate_ev2_first, the RndA check of line
\* 595): whenever the caller's session is marked authenticated, the card
\* holds a session under the same KENC/KMAC, so a replayed answer from an
\* earlier handshake never yields a session the card does not share.
SessionAgreement ==
    sess.authenticated => card.sk = sess.sk

\* Response authentication (ssm_cmd_full, lines 735-761): every response
\* the host accepted was produced by the card in the host's session, at the
\* host's counter, with the status word and body the host acted on.
ResponseAuthentic ==
    \A h \in hlog :
        [sk |-> h.sk, ctr |-> h.ctr, ins |-> h.body, sw2 |-> h.sw2] \in clog

\* Counter discipline (cmd_ctr advanced only at line 773, after the MAC
\* check): while host and card share a live session, the card's counter
\* equals the host's, or is one ahead when the last response was lost; the
\* host is never ahead.
CtrInStep ==
    (sess.authenticated /\ card.auth /\ card.sk = sess.sk)
        => card.ctr \in {sess.ctr, NextCtr(sess.ctr)}

\* Spec 4.E and 5: peers agree on the CmdCtr sequence, and a session whose
\* response was abandoned must be discarded, so an accepted response always
\* answers the command the host sent in that exchange.
CommandAnswered ==
    \A h \in hlog : h.body = h.ins

\* The answers the host accepted, named as SecureChannel names a command.
AcceptedAnswers ==
    {[sk |-> h.sk, ctr |-> h.ctr, ins |-> h.body, sw2 |-> h.sw2] : h \in hlog}

Channel == INSTANCE SecureChannel WITH
    Entries <- Executed, executed <- clog, accepted <- AcceptedAnswers

\* Host and card implement SecureChannel over the lossy, replaying link:
\* the card's CmdCtr check and increment mean it never executes twice at a
\* counter of a session, and ssm_cmd_full's MAC check over CmdCtr+1 (lines
\* 745-761) with the increment of line 773 means the host accepts only
\* answers the card produced, in counter order, each at most once.
ChannelSpec == Channel!Spec
-----------------------------------------------------------------------------
(* Inductive strengthening of TypeOK and SessionAgreement, used by the    *)
(* proofs in SecureMessagingProofs.                                        *)

\* One call in flight at a time: a request is on the link only while the
\* host waits for its answer, and it is the request of the host's own step.
LinkDiscipline ==
    /\ hpc = "idle" => req = NoMsg /\ resp = NoMsg
    /\ req # NoMsg => resp = NoMsg
    /\ req = Auth1Req => hpc = "auth1"
    /\ req.type = "auth2" =>
          hpc = "auth2" /\ req.rndA = hcur.rndA /\ req.rndB = hcur.rndB
    /\ hpc \in {"auth1", "auth2"} => ~sess.authenticated
    /\ hpc = "sm" => hcur.ins \in Cmds

\* Each handshake draws at most two nonces, one on each side.
NonceBound ==
    fresh + (IF hpc = "auth1" THEN 1 ELSE 0) + (IF req = Auth1Req THEN 1 ELSE 0)
        <= 2 * nAuth

\* No RndA on the link or in the host's hands is newer than the last drawn.
FreshRndA ==
    /\ hcur.rndA <= fresh
    /\ \A r \in recorded \cup {resp} : r.type = "auth2r" => r.rndA <= fresh

\* During part 2, an answer carrying the host's RndA exists only once the
\* card has opened the session of this very handshake.
HandshakeBinding ==
    hpc = "auth2" =>
        \A r \in recorded \cup {resp} :
            (r.type = "auth2r" /\ r.rndA = hcur.rndA)
                => card.sk = <<hcur.rndA, hcur.rndB>>

\* Every MACed response on the link or recorded by it carries the MAC of a
\* command the card executed: its session key, the counter after it, and
\* the status word and body the card sent.  A corrupted or replayed frame
\* keeps the MAC it was sent with.  Used by the proof of ResponseAuthentic.
MacsFromCard ==
    \A r \in recorded \cup {resp} :
        r.type = "smr" =>
            \E e \in clog : /\ e.sk = r.mac.sk /\ NextCtr(e.ctr) = r.mac.ctr
                           /\ e.ins = r.mac.body /\ e.sw2 = r.mac.sw2

IInv ==
    /\ TypeOK
    /\ LinkDiscipline
    /\ NonceBound
    /\ FreshRndA
    /\ HandshakeBinding
    /\ SessionAgreement

=============================================================================
