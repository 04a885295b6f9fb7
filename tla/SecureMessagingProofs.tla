------------------------ MODULE SecureMessagingProofs ------------------------
(***************************************************************************)
(* Proofs about SecureMessaging, for every value of its constants: type   *)
(* correctness, and mutual authentication of the EV2-First handshake.     *)
(* Both rest on the inductive invariant IInv of SecureMessaging.           *)
(***************************************************************************)
EXTENDS SecureMessaging, TLAPS

\* The next counter value stays in the counter's range.
LEMMA NextCtrType ==
    ASSUME NEW c \in 0 .. CtrMod - 1
    PROVE  NextCtr(c) \in 0 .. CtrMod - 1
BY CtrModAssumption DEF NextCtr

\* The initial state satisfies the inductive invariant.
LEMMA InitIInv == Init => IInv
BY ConstAssumption, CtrModAssumption
DEF Init, IInv, TypeOK, LinkDiscipline, NonceBound, FreshRndA,
    HandshakeBinding, SessionAgreement, ZeroSession, NoKey, SessionKeys,
    Nonces, Requests, Responses, NoMsg, Auth1Req, Accepted, Executed, NoIns
\* What a frame's "type" field says about its other fields.
LEMMA ResponseFields ==
    ASSUME NEW r \in Responses \cup {NoMsg, TransportError}
    PROVE  /\ r.type = "auth1r" => r = Auth1Resp(r.rndB) /\ r.rndB \in Nonces
           /\ r.type = "auth2r" =>
                 r = Auth2Resp(r.rndA, r.key) /\ r.rndA \in Nonces /\ r.key \in Keys
           /\ r.type = "smr" =>
                 /\ r = SmResp(r.sw2, r.body, r.mac)
                 /\ r.sw2 \in Sw2s /\ r.body \in Cmds
                 /\ r.mac \in [sk : SessionKeys, ctr : 0 .. CtrMod - 1, sw2 : Sw2s, body : Cmds]
BY DEF Responses, NoMsg, TransportError, ErrResp, Auth1Resp, Auth2Resp, SmResp

LEMMA RequestFields ==
    ASSUME NEW q \in Requests \cup {NoMsg}
    PROVE  /\ q.type = "auth1" => q = Auth1Req
           /\ q.type = "auth2" =>
                 q = Auth2Req(q.rndA, q.rndB, q.key)
                 /\ q.rndA \in Nonces /\ q.rndB \in Nonces /\ q.key \in Keys
           /\ q.type = "sm" =>
                 /\ q = SmReq(q.ins, q.ctr, q.sk, q.intact)
                 /\ q.ins \in Cmds /\ q.ctr \in 0 .. CtrMod - 1
                 /\ q.sk \in SessionKeys /\ q.intact \in BOOLEAN
           /\ q.type \in {"auth1", "auth2", "sm", "none"}
BY DEF Requests, NoMsg, Auth1Req, Auth2Req, SmReq

\* Frames are told apart by their "type" field.
LEMMA FrameTypes ==
    /\ Auth1Req.type = "auth1" /\ NoMsg.type = "none"
    /\ TransportError.type = "terr" /\ ErrResp.type = "err"
    /\ \A r : r.type # "auth1" => r # Auth1Req
    /\ \A r : r.type # "none" => r # NoMsg
BY DEF Auth1Req, NoMsg, TransportError, ErrResp

\* Every step of Next keeps the inductive invariant: one step per action of
\* the host, the card and the link, each split into the conjuncts of IInv.
LEMMA NextIInv == IInv /\ [Next]_vars => IInv'
<1> SUFFICES ASSUME IInv, [Next]_vars PROVE IInv'
    OBVIOUS
<1> USE ConstAssumption, CtrModAssumption DEF IInv
<1>1. ASSUME NEW k \in Keys, AuthStart(k) PROVE IInv'
    <2> USE <1>1 DEF AuthStart
    <2>1. TypeOK'
        BY DEF TypeOK, ZeroSession, NoKey, SessionKeys, Nonces, Requests, Auth1Req
    <2>2. LinkDiscipline'
        BY DEF LinkDiscipline, ZeroSession, Auth1Req, NoMsg
    <2>3. NonceBound'
        <3>1. fresh <= 2 * nAuth
            BY FrameTypes DEF TypeOK, Nonces, LinkDiscipline, NonceBound
        <3>2. QED
            BY <3>1, FrameTypes DEF TypeOK, Nonces, NonceBound
    <2>4. FreshRndA'
        BY DEF TypeOK, FreshRndA, Nonces
    <2>5. HandshakeBinding' /\ SessionAgreement'
        BY DEF HandshakeBinding, SessionAgreement, ZeroSession
    <2>6. QED
        BY <2>1, <2>2, <2>3, <2>4, <2>5
<1>2. CASE AuthPart1
    <2> USE <1>2 DEF AuthPart1
    <2>1. req = NoMsg
        BY DEF TypeOK, LinkDiscipline, NoMsg
    <2>2. resp.rndB \in Nonces
        BY ResponseFields DEF TypeOK
    <2>3. fresh + 1 \in Nonces /\ fresh + 1 <= 2 * nAuth
        BY <2>1 DEF TypeOK, NonceBound, Nonces, NoMsg, Auth1Req
    <2>4. TypeOK'
        BY <2>2, <2>3 DEF TypeOK, Requests, Auth2Req, NoMsg
    <2>a. req'.type = "auth2" /\ req' # NoMsg /\ req' # Auth1Req
        BY FrameTypes DEF Auth2Req
    <2>5. LinkDiscipline'
        BY <2>a DEF TypeOK, LinkDiscipline, Auth2Req
    <2>6. NonceBound'
        BY <2>3, <2>a DEF TypeOK, Nonces, NonceBound
    <2>b. hcur'.rndA = fresh + 1 /\ hcur'.rndB = resp.rndB
        BY DEF TypeOK
    <2>7. FreshRndA'
        <3>1. hcur'.rndA <= fresh'
            BY <2>b DEF TypeOK, Nonces
        <3>2. ASSUME NEW r \in recorded, r.type = "auth2r" PROVE r.rndA <= fresh'
            <4>1. r.rndA \in Nonces /\ r.rndA <= fresh
                BY <3>2, ResponseFields DEF TypeOK, FreshRndA
            <4>2. QED
                BY <4>1 DEF TypeOK, Nonces
        <3>3. QED
            BY <3>1, <3>2, FrameTypes DEF FreshRndA
    <2>c. HandshakeBinding'
        BY <2>b, FrameTypes DEF TypeOK, Nonces, FreshRndA, HandshakeBinding
    <2>8. SessionAgreement'
        BY DEF SessionAgreement
    <2>9. QED
        BY <2>4, <2>5, <2>6, <2>7, <2>c, <2>8
<1>3. CASE AuthPart1Fail
    <2> USE <1>3 DEF AuthPart1Fail
    <2>1. req = NoMsg
        BY DEF TypeOK, LinkDiscipline
    <2>2. TypeOK'
        BY DEF TypeOK, NoMsg
    <2>3. LinkDiscipline'
        BY <2>1, FrameTypes DEF LinkDiscipline
    <2>4. NonceBound'
        BY <2>1, FrameTypes DEF TypeOK, Nonces, NonceBound
    <2>5. FreshRndA' /\ HandshakeBinding' /\ SessionAgreement'
        BY FrameTypes DEF FreshRndA, HandshakeBinding, SessionAgreement
    <2>6. QED
        BY <2>2, <2>3, <2>4, <2>5
<1>4. CASE AuthPart2
    <2> USE <1>4 DEF AuthPart2, RndAVerified
    <2>1. req = NoMsg
        BY DEF TypeOK, LinkDiscipline
    <2>2. TypeOK'
        BY DEF TypeOK, SessionKeys, Nonces, NoMsg
    <2>3. LinkDiscipline'
        BY <2>1 DEF LinkDiscipline, NoMsg
    <2>4. NonceBound' /\ FreshRndA' /\ HandshakeBinding'
        BY <2>1 DEF NonceBound, FreshRndA, HandshakeBinding, NoMsg, Auth1Req
    <2>5. SessionAgreement'
        BY DEF HandshakeBinding, SessionAgreement
    <2>6. QED
        BY <2>2, <2>3, <2>4, <2>5
<1>5. CASE AuthPart2Fail
    <2> USE <1>5 DEF AuthPart2Fail
    <2>1. req = NoMsg
        BY DEF TypeOK, LinkDiscipline
    <2>2. TypeOK' /\ LinkDiscipline'
        BY <2>1 DEF TypeOK, LinkDiscipline, NoMsg
    <2>3. NonceBound'
        BY <2>1 DEF TypeOK, NonceBound, NoMsg, Auth1Req
    <2>4. FreshRndA' /\ HandshakeBinding' /\ SessionAgreement'
        BY DEF FreshRndA, HandshakeBinding, SessionAgreement, NoMsg
    <2>5. QED
        BY <2>2, <2>3, <2>4
<1>6. ASSUME NEW i \in Cmds, SsmSend(i) PROVE IInv'
    <2> USE <1>6 DEF SsmSend
    <2>1. TypeOK'
        BY DEF TypeOK, Requests, SmReq
    <2>2. LinkDiscipline'
        BY DEF LinkDiscipline, SmReq, NoMsg, Auth1Req
    <2>3. NonceBound'
        BY DEF LinkDiscipline, NonceBound, SmReq, NoMsg, Auth1Req
    <2>4. FreshRndA' /\ HandshakeBinding' /\ SessionAgreement'
        BY DEF FreshRndA, HandshakeBinding, SessionAgreement
    <2>5. QED
        BY <2>1, <2>2, <2>3, <2>4
<1>7. CASE SsmRecv
    <2> USE <1>7 DEF SsmRecv, ResponseMacOk
    <2>1. req = NoMsg
        BY DEF TypeOK, LinkDiscipline
    <2>2. resp.sw2 \in Sw2s /\ resp.body \in Cmds
        BY ResponseFields DEF TypeOK
    <2>3. NextCtr(sess.ctr) \in 0 .. CtrMod - 1
        BY NextCtrType DEF TypeOK
    <2>4. TypeOK'
        BY <2>2, <2>3 DEF TypeOK, LinkDiscipline, Accepted, NoMsg
    <2>5. LinkDiscipline'
        BY <2>1 DEF LinkDiscipline, NoMsg
    <2>6. NonceBound' /\ FreshRndA' /\ HandshakeBinding' /\ SessionAgreement'
        BY <2>1 DEF NonceBound, FreshRndA, HandshakeBinding, SessionAgreement, NoMsg
    <2>7. QED
        BY <2>4, <2>5, <2>6
<1>8. CASE SsmRecvFail
    <2> USE <1>8 DEF SsmRecvFail
    <2>1. req = NoMsg
        BY DEF TypeOK, LinkDiscipline
    <2>2. TypeOK' /\ LinkDiscipline'
        BY <2>1 DEF TypeOK, LinkDiscipline, NoMsg
    <2>3. NonceBound' /\ FreshRndA' /\ HandshakeBinding' /\ SessionAgreement'
        BY <2>1 DEF NonceBound, FreshRndA, HandshakeBinding, SessionAgreement, NoMsg
    <2>4. QED
        BY <2>2, <2>3
<1>9. CASE CardAuth1
    <2> USE <1>9 DEF CardAuth1
    <2>1. hpc = "auth1" /\ resp = NoMsg
        BY FrameTypes DEF LinkDiscipline
    <2>2. fresh + 1 \in Nonces /\ fresh + 2 <= 2 * nAuth
        BY <2>1 DEF TypeOK, Nonces, NonceBound
    <2>3. TypeOK'
        <3>1. card' \in [auth : BOOLEAN, sk : SessionKeys, ctr : 0 .. CtrMod - 1, rndB : Nonces]
            BY <2>2 DEF TypeOK
        <3>2. resp' \in Responses
            BY <2>2 DEF Responses, Auth1Resp
        <3>3. QED
            BY <2>2, <3>1, <3>2 DEF TypeOK, NoMsg
    <2>4. LinkDiscipline'
        BY <2>1, FrameTypes DEF LinkDiscipline
    <2>5. NonceBound'
        BY <2>1, <2>2, FrameTypes DEF TypeOK, Nonces, NonceBound
    <2>6. FreshRndA'
        <3>1. ASSUME NEW r \in recorded, r.type = "auth2r" PROVE r.rndA <= fresh'
            <4>1. r.rndA \in Nonces /\ r.rndA <= fresh
                BY <3>1, ResponseFields DEF TypeOK, FreshRndA
            <4>2. QED
                BY <4>1 DEF TypeOK, Nonces
        <3>2. hcur.rndA <= fresh'
            BY DEF TypeOK, Nonces, FreshRndA
        <3>3. QED
            BY <3>1, <3>2 DEF FreshRndA, Auth1Resp
    <2>7. HandshakeBinding' /\ SessionAgreement'
        BY <2>1 DEF TypeOK, HandshakeBinding, SessionAgreement
    <2>8. QED
        BY <2>3, <2>4, <2>5, <2>6, <2>7
<1>10. CASE CardAuth2
    <2> USE <1>10 DEF CardAuth2
    <2>1. /\ hpc = "auth2" /\ req.rndA = hcur.rndA /\ req.rndB = hcur.rndB
          /\ ~sess.authenticated /\ resp = NoMsg
          /\ req.rndA \in Nonces /\ req.rndB \in Nonces /\ req.key \in Keys
          /\ req # Auth1Req
        BY RequestFields, FrameTypes DEF TypeOK, LinkDiscipline
    <2>2. CASE /\ card.rndB # 0 /\ req.rndB = card.rndB /\ req.key = CardKey
               /\ card' = [auth |-> TRUE, sk |-> <<req.rndA, req.rndB>>, ctr |-> 0, rndB |-> 0]
               /\ resp' = Auth2Resp(req.rndA, CardKey)
        <3>1. TypeOK'
            BY <2>1, <2>2 DEF TypeOK, SessionKeys, Nonces, Responses, Auth2Resp, NoMsg
        <3>2. LinkDiscipline' /\ NonceBound'
            BY <2>1, FrameTypes DEF LinkDiscipline, NonceBound
        <3>3. FreshRndA'
            BY <2>1, <2>2 DEF FreshRndA, Auth2Resp
        <3>4. HandshakeBinding' /\ SessionAgreement'
            BY <2>1, <2>2 DEF HandshakeBinding, SessionAgreement
        <3>5. QED
            BY <3>1, <3>2, <3>3, <3>4
    <2>3. CASE /\ ~(card.rndB # 0 /\ req.rndB = card.rndB /\ req.key = CardKey)
               /\ card' = [card EXCEPT !.auth = FALSE, !.rndB = 0]
               /\ resp' = ErrResp
        <3>1. TypeOK'
            <4>1. card' \in [auth : BOOLEAN, sk : SessionKeys, ctr : 0 .. CtrMod - 1, rndB : Nonces]
                <5>1. card' = [auth |-> FALSE, sk |-> card.sk, ctr |-> card.ctr, rndB |-> 0]
                    BY <2>3 DEF TypeOK
                <5>2. 0 \in Nonces
                    BY DEF Nonces
                <5>3. QED
                    BY <5>1, <5>2 DEF TypeOK
            <4>2. resp' \in Responses
                BY <2>3 DEF Responses, ErrResp
            <4>3. QED
                BY <4>1, <4>2 DEF TypeOK, NoMsg
        <3>2. LinkDiscipline' /\ NonceBound'
            BY <2>1, FrameTypes DEF LinkDiscipline, NonceBound
        <3>3. card'.sk = card.sk
            BY <2>3 DEF TypeOK
        <3>4. FreshRndA' /\ HandshakeBinding' /\ SessionAgreement'
            BY <2>1, <2>3, <3>3, FrameTypes DEF FreshRndA, HandshakeBinding, SessionAgreement
        <3>5. QED
            BY <3>1, <3>2, <3>4
    <2>4. QED
        BY <2>2, <2>3
<1>11. CASE CardSsm
    <2> USE <1>11 DEF CardSsm
    <2>1. /\ hpc # "idle" /\ resp = NoMsg /\ req # Auth1Req
          /\ req.ins \in Cmds /\ req.ctr \in 0 .. CtrMod - 1
          /\ req.sk \in SessionKeys /\ req.intact \in BOOLEAN
        BY RequestFields, FrameTypes DEF TypeOK, LinkDiscipline
    <2>2. NextCtr(card.ctr) \in 0 .. CtrMod - 1
        BY NextCtrType DEF TypeOK
    <2>3. card'.sk = card.sk /\ card'.rndB = card.rndB
        BY DEF TypeOK
    <2>4. resp'.type \in {"smr", "err"}
        BY FrameTypes DEF SmResp
    <2>5. TypeOK'
        <3>1. card' \in [auth : BOOLEAN, sk : SessionKeys, ctr : 0 .. CtrMod - 1, rndB : Nonces]
            BY <2>2 DEF TypeOK
        <3>2. resp' \in Responses /\ clog' \subseteq Executed
            <4>1. CASE /\ card.auth /\ req.intact /\ req.sk = card.sk /\ req.ctr = card.ctr
                       /\ \E s \in Sw2s :
                             /\ resp' = SmResp(s, req.ins, Mac(card.sk, NextCtr(card.ctr), s, req.ins))
                             /\ clog' = clog \cup {[sk |-> card.sk, ctr |-> card.ctr,
                                                    ins |-> req.ins, sw2 |-> s]}
                <5>1. PICK s \in Sw2s :
                             /\ resp' = SmResp(s, req.ins, Mac(card.sk, NextCtr(card.ctr), s, req.ins))
                             /\ clog' = clog \cup {[sk |-> card.sk, ctr |-> card.ctr,
                                                    ins |-> req.ins, sw2 |-> s]}
                    BY <4>1
                <5>2. resp' \in Responses
                    BY <5>1, <2>1, <2>2 DEF TypeOK, Responses, SmResp, Mac
                <5>3. clog' \subseteq Executed
                    BY <5>1, <2>1 DEF TypeOK, Executed
                <5>4. QED
                    BY <5>2, <5>3
            <4>2. CASE /\ ~(card.auth /\ req.intact /\ req.sk = card.sk /\ req.ctr = card.ctr)
                       /\ resp' = ErrResp /\ UNCHANGED clog
                BY <4>2 DEF TypeOK, Responses, ErrResp
            <4>3. QED
                BY <4>1, <4>2
        <3>3. QED
            BY <3>1, <3>2 DEF TypeOK, NoMsg
    <2>6. LinkDiscipline' /\ NonceBound'
        BY <2>1, FrameTypes DEF LinkDiscipline, NonceBound
    <2>7. FreshRndA' /\ HandshakeBinding' /\ SessionAgreement'
        BY <2>3, <2>4 DEF FreshRndA, HandshakeBinding, SessionAgreement
    <2>8. QED
        BY <2>5, <2>6, <2>7
<1>12. CASE LoseRequest
    <2> USE <1>12 DEF LoseRequest
    <2>1. hpc # "idle" /\ resp = NoMsg
        BY DEF LinkDiscipline
    <2>2. TypeOK' /\ LinkDiscipline'
        BY <2>1, FrameTypes DEF TypeOK, LinkDiscipline
    <2>3. NonceBound'
        BY FrameTypes DEF TypeOK, Nonces, NonceBound
    <2>4. FreshRndA' /\ HandshakeBinding' /\ SessionAgreement'
        BY FrameTypes DEF FreshRndA, HandshakeBinding, SessionAgreement
    <2>5. QED
        BY <2>2, <2>3, <2>4
<1>13. CASE LoseResponse
    <2> USE <1>13 DEF LoseResponse
    <2>1. hpc # "idle"
        BY DEF LinkDiscipline
    <2>2. TypeOK' /\ LinkDiscipline' /\ NonceBound'
        BY <2>1, FrameTypes DEF TypeOK, LinkDiscipline, NonceBound
    <2>3. FreshRndA' /\ HandshakeBinding' /\ SessionAgreement'
        BY FrameTypes DEF FreshRndA, HandshakeBinding, SessionAgreement
    <2>4. QED
        BY <2>2, <2>3
<1>14. CASE CorruptRequest
    <2> USE <1>14 DEF CorruptRequest
    <2>1. req' \in Requests /\ req'.type = "sm" /\ req # Auth1Req /\ req' # Auth1Req
          /\ req' # NoMsg /\ req # NoMsg
        <3>1. req \in [type : {"sm"}, ins : Cmds, ctr : 0 .. CtrMod - 1,
                       sk : SessionKeys, intact : BOOLEAN]
            BY FrameTypes DEF TypeOK, Requests, NoMsg, Auth1Req
        <3>2. QED
            BY <3>1, FrameTypes DEF Requests
    <2>2. TypeOK'
        BY <2>1 DEF TypeOK
    <2>3. LinkDiscipline'
        BY <2>1 DEF LinkDiscipline
    <2>6. NonceBound'
        BY <2>1 DEF NonceBound
    <2>4. FreshRndA' /\ HandshakeBinding' /\ SessionAgreement'
        BY DEF FreshRndA, HandshakeBinding, SessionAgreement
    <2>5. QED
        BY <2>2, <2>3, <2>6, <2>4
<1>15. CASE CorruptResponse
    <2> USE <1>15 DEF CorruptResponse
    <2>1. resp' \in Responses /\ resp'.type = "smr"
        <3>1. resp \in [type : {"smr"}, sw2 : Sw2s, body : Cmds,
                        mac : [sk : SessionKeys, ctr : 0 .. CtrMod - 1, sw2 : Sw2s, body : Cmds]]
            BY FrameTypes DEF TypeOK, Responses, ErrResp, NoMsg, TransportError
        <3>2. QED
            BY <3>1 DEF Responses
    <2>2. TypeOK' /\ LinkDiscipline' /\ NonceBound'
        BY <2>1, FrameTypes DEF TypeOK, LinkDiscipline, NonceBound
    <2>3. FreshRndA' /\ HandshakeBinding' /\ SessionAgreement'
        BY <2>1 DEF FreshRndA, HandshakeBinding, SessionAgreement
    <2>4. QED
        BY <2>2, <2>3
<1>16. CASE Replay
    <2> USE <1>16 DEF Replay
    <2>1. hpc # "idle" /\ resp = NoMsg
        BY DEF LinkDiscipline
    <2>2. TypeOK' /\ LinkDiscipline'
        BY <2>1, FrameTypes DEF TypeOK, LinkDiscipline
    <2>3. NonceBound'
        BY FrameTypes DEF TypeOK, Nonces, NonceBound
    <2>4. FreshRndA' /\ HandshakeBinding' /\ SessionAgreement'
        BY DEF FreshRndA, HandshakeBinding, SessionAgreement
    <2>5. QED
        BY <2>2, <2>3, <2>4
<1>17. CASE UNCHANGED vars
    BY <1>17 DEF vars, TypeOK, LinkDiscipline, NonceBound, FreshRndA,
                 HandshakeBinding, SessionAgreement
<1>18. QED
    BY <1>1, <1>2, <1>3, <1>4, <1>5, <1>6, <1>7, <1>8, <1>9, <1>10, <1>11,
       <1>12, <1>13, <1>14, <1>15, <1>16, <1>17
    DEF Next, Host, Card, Link

\* Every state ssm_cmd_full, authenticate_ev2_first and the card can reach
\* keeps each variable in its type, for every width of cmd_ctr and every bound.
THEOREM TypeCorrect == Spec => []TypeOK
<1>1. IInv => TypeOK
    BY DEF IInv
<1>2. QED
    BY InitIInv, NextIInv, <1>1, PTL DEF Spec

\* Whenever authenticate_ev2_first has left sess.authenticated set, the card
\* holds the same session keys: a replayed or corrupted handshake response is
\* never accepted (the RndA' check at line 595), over a lossy, replaying link.
THEOREM SessionAgreementHolds == Spec => []SessionAgreement
<1>1. IInv => SessionAgreement
    BY DEF IInv
<1>2. QED
    BY InitIInv, NextIInv, <1>1, PTL DEF Spec
-----------------------------------------------------------------------------
(* Response authentication.                                                 *)

\* cmd_ctr + 1 with the 16-bit wrap tells counters apart: two counters in
\* range with the same successor are equal.
LEMMA NextCtrInjective ==
    ASSUME NEW c \in 0 .. CtrMod - 1, NEW d \in 0 .. CtrMod - 1,
           NextCtr(c) = NextCtr(d)
    PROVE  c = d
<1>1. CASE c = CtrMod - 1 /\ d = CtrMod - 1
    BY <1>1
<1>2. CASE c # CtrMod - 1 /\ d # CtrMod - 1
    BY <1>2, CtrModAssumption DEF NextCtr
<1>3. CASE c = CtrMod - 1 /\ d # CtrMod - 1
    <2>1. NextCtr(c) = 0 /\ NextCtr(d) = d + 1
        BY <1>3, CtrModAssumption DEF NextCtr
    <2>2. d + 1 # 0
        BY CtrModAssumption
    <2>3. QED
        BY <2>1, <2>2
<1>4. CASE c # CtrMod - 1 /\ d = CtrMod - 1
    <2>1. NextCtr(d) = 0 /\ NextCtr(c) = c + 1
        BY <1>4, CtrModAssumption DEF NextCtr
    <2>2. c + 1 # 0
        BY CtrModAssumption
    <2>3. QED
        BY <2>1, <2>2
<1>5. QED
    BY <1>1, <1>2, <1>3, <1>4

\* A response whose MAC is one the card computed for an executed command.
MacCovered(r, log) ==
    \E e \in log : /\ e.sk = r.mac.sk /\ NextCtr(e.ctr) = r.mac.ctr
                  /\ e.ins = r.mac.body /\ e.sw2 = r.mac.sw2

\* MacsFromCard survives a step that only adds to clog and records at most
\* the new response, when that response, if MACed, is covered.
LEMMA MacsKept ==
    ASSUME MacsFromCard, clog \subseteq clog', recorded' \subseteq recorded \cup {resp'},
           resp'.type = "smr" => MacCovered(resp', clog')
    PROVE  MacsFromCard'
<1> SUFFICES ASSUME NEW r \in recorded' \cup {resp'}, r.type = "smr"
             PROVE  MacCovered(r, clog')
    BY DEF MacsFromCard, MacCovered
<1>1. CASE r = resp'
    BY <1>1
<1>2. CASE r \in recorded
    <2>1. MacCovered(r, clog)
        BY <1>2 DEF MacsFromCard, MacCovered
    <2>2. QED
        BY <2>1 DEF MacCovered
<1>3. QED
    BY <1>1, <1>2

\* Every step keeps the MACs on the link the card's: only the card makes a
\* MACed response, logging the command it executed, and a corrupted or
\* replayed frame keeps the MAC it had.
LEMMA NextMacs == IInv /\ MacsFromCard /\ [Next]_vars => MacsFromCard'
<1> SUFFICES ASSUME IInv, MacsFromCard, [Next]_vars PROVE MacsFromCard'
    OBVIOUS
<1>0. resp.type = "smr" => MacCovered(resp, clog)
    BY DEF MacsFromCard, MacCovered
<1>1. CASE UNCHANGED <<resp, recorded, clog>>
    BY <1>0, <1>1, MacsKept
<1>2. CASE resp' \in {NoMsg, TransportError} /\ UNCHANGED <<recorded, clog>>
    BY <1>2, MacsKept DEF NoMsg, TransportError
<1>3. CASE \E k \in Keys : AuthStart(k)
    BY <1>3, <1>1 DEF AuthStart
<1>4. CASE AuthPart1 \/ AuthPart1Fail \/ AuthPart2 \/ AuthPart2Fail \/ SsmRecv \/ SsmRecvFail
    BY <1>4, <1>2 DEF AuthPart1, AuthPart1Fail, AuthPart2, AuthPart2Fail, SsmRecv, SsmRecvFail
<1>5. CASE \E i \in Cmds : SsmSend(i)
    BY <1>5, <1>1 DEF SsmSend
<1>6. CASE CardAuth1 \/ CardAuth2
    <2>1. resp'.type # "smr" /\ UNCHANGED clog /\ recorded' = recorded \cup {resp'}
        BY <1>6 DEF CardAuth1, CardAuth2, Auth1Resp, Auth2Resp, ErrResp
    <2>2. QED
        BY <2>1, MacsKept
<1>7. CASE CardSsm
    <2>1. recorded' = recorded \cup {resp'}
        BY <1>7 DEF CardSsm
    <2>2. CASE card.auth /\ req.intact /\ req.sk = card.sk /\ req.ctr = card.ctr
        <3>1. PICK sw \in Sw2s :
                /\ resp' = SmResp(sw, req.ins, Mac(card.sk, NextCtr(card.ctr), sw, req.ins))
                /\ clog' = clog \cup {[sk |-> card.sk, ctr |-> card.ctr, ins |-> req.ins, sw2 |-> sw]}
            BY <1>7, <2>2 DEF CardSsm
        <3>2. MacCovered(resp', clog')
            <4>1. [sk |-> card.sk, ctr |-> card.ctr, ins |-> req.ins, sw2 |-> sw] \in clog'
                BY <3>1
            <4>2. resp'.mac = [sk |-> card.sk, ctr |-> NextCtr(card.ctr), sw2 |-> sw,
                               body |-> req.ins]
                BY <3>1 DEF SmResp, Mac
            <4>3. QED
                BY <4>1, <4>2 DEF MacCovered
        <3>3. QED
            BY <2>1, <3>1, <3>2, MacsKept
    <2>3. CASE ~(card.auth /\ req.intact /\ req.sk = card.sk /\ req.ctr = card.ctr)
        <3>1. resp' = ErrResp /\ UNCHANGED clog
            BY <1>7, <2>3 DEF CardSsm
        <3>2. QED
            BY <2>1, <3>1, MacsKept DEF ErrResp
    <2>4. QED
        BY <2>2, <2>3
<1>8. CASE LoseRequest \/ LoseResponse
    BY <1>8, <1>2 DEF LoseRequest, LoseResponse
<1>9. CASE CorruptRequest
    BY <1>9, <1>1 DEF CorruptRequest
<1>10. CASE CorruptResponse
    <2>1. resp.type = "smr" /\ resp = SmResp(resp.sw2, resp.body, resp.mac)
        BY <1>10, ResponseFields DEF CorruptResponse, IInv, TypeOK
    <2>2. PICK sw \in Sw2s, b \in Cmds : resp' = [resp EXCEPT !.sw2 = sw, !.body = b]
        BY <1>10 DEF CorruptResponse
    <2>3. resp'.type = "smr" /\ resp'.mac = resp.mac
        BY <2>1, <2>2 DEF SmResp
    <2>4. MacCovered(resp', clog)
        BY <2>1, <2>3, <1>0 DEF MacCovered
    <2>5. QED
        BY <1>10, <2>4, MacsKept DEF CorruptResponse
<1>11. CASE Replay
    <2>1. PICK r \in recorded : resp' = r
        BY <1>11 DEF Replay
    <2>2. r.type = "smr" => MacCovered(r, clog)
        BY DEF MacsFromCard, MacCovered
    <2>3. QED
        BY <1>11, <2>1, <2>2, MacsKept DEF Replay
<1>12. CASE UNCHANGED vars
    BY <1>12, <1>1 DEF vars
<1>13. QED
    BY <1>3, <1>4, <1>5, <1>6, <1>7, <1>8, <1>9, <1>10, <1>11, <1>12
    DEF Next, Host, Card, Link

\* Only SsmRecv adds to hlog, and it accepts a response only when its MAC
\* is the one for the host's key and counter: by MacsFromCard the card
\* executed that very command, and NextCtrInjective pins its counter.
LEMMA NextAuthentic ==
    IInv /\ MacsFromCard /\ ResponseAuthentic /\ [Next]_vars => ResponseAuthentic'
<1> SUFFICES ASSUME IInv, MacsFromCard, ResponseAuthentic, [Next]_vars
             PROVE  ResponseAuthentic'
    OBVIOUS
<1>1. clog \subseteq clog'
    BY DEF Next, Host, Card, Link, AuthStart, AuthPart1, AuthPart1Fail, AuthPart2,
           AuthPart2Fail, SsmSend, SsmRecv, SsmRecvFail, CardAuth1, CardAuth2, CardSsm,
           LoseRequest, LoseResponse, CorruptRequest, CorruptResponse, Replay, vars
<1>2. CASE SsmRecv
    <2>1. /\ resp.type = "smr"
          /\ resp.mac = Mac(sess.sk, NextCtr(sess.ctr), resp.sw2, resp.body)
          /\ hlog' = hlog \cup {[sk |-> sess.sk, ctr |-> sess.ctr, ins |-> hcur.ins,
                                 sw2 |-> resp.sw2, body |-> resp.body]}
          /\ clog' = clog
        BY <1>2 DEF SsmRecv, ResponseMacOk
    <2>2. PICK e \in clog : /\ e.sk = sess.sk /\ NextCtr(e.ctr) = NextCtr(sess.ctr)
                            /\ e.ins = resp.body /\ e.sw2 = resp.sw2
        BY <2>1 DEF MacsFromCard, Mac
    <2>3. e \in Executed /\ sess.ctr \in 0 .. CtrMod - 1
        BY DEF IInv, TypeOK
    <2>4. e.ctr = sess.ctr
        BY <2>2, <2>3, NextCtrInjective DEF Executed
    <2>5. e = [sk |-> sess.sk, ctr |-> sess.ctr, ins |-> resp.body, sw2 |-> resp.sw2]
        BY <2>2, <2>3, <2>4 DEF Executed
    <2>6. ASSUME NEW h \in hlog'
          PROVE  [sk |-> h.sk, ctr |-> h.ctr, ins |-> h.body, sw2 |-> h.sw2] \in clog'
        <3>1. CASE h \in hlog
            BY <3>1, <2>1 DEF ResponseAuthentic
        <3>2. CASE h = [sk |-> sess.sk, ctr |-> sess.ctr, ins |-> hcur.ins,
                        sw2 |-> resp.sw2, body |-> resp.body]
            <4>1. [sk |-> h.sk, ctr |-> h.ctr, ins |-> h.body, sw2 |-> h.sw2] = e
                BY <3>2, <2>5
            <4>2. QED
                BY <4>1, <2>1
        <3>3. QED
            BY <3>1, <3>2, <2>1
    <2>7. QED
        BY <2>6 DEF ResponseAuthentic
<1>3. CASE ~SsmRecv
    <2>1. hlog' = hlog
        BY <1>3 DEF Next, Host, Card, Link, AuthStart, AuthPart1, AuthPart1Fail,
               AuthPart2, AuthPart2Fail, SsmSend, SsmRecvFail, CardAuth1, CardAuth2,
               CardSsm, LoseRequest, LoseResponse, CorruptRequest, CorruptResponse,
               Replay, vars
    <2>2. QED
        BY <1>1, <2>1 DEF ResponseAuthentic
<1>4. QED
    BY <1>2, <1>3

\* Every response ssm_cmd_full accepts (the MAC check of lines 735-761 over
\* SW2, CmdCtr+1, TI and the body) was produced by the card for the host's
\* session at the host's counter, with the status word and body the host
\* acts on, over a link that loses, corrupts and replays frames, for every
\* width of cmd_ctr.
THEOREM ResponseAuthenticHolds == Spec => []ResponseAuthentic
<1>1. Init => MacsFromCard /\ ResponseAuthentic
    BY DEF Init, MacsFromCard, ResponseAuthentic, NoMsg
<1>2. IInv /\ MacsFromCard /\ ResponseAuthentic /\ [Next]_vars
        => (IInv /\ MacsFromCard /\ ResponseAuthentic)'
    BY NextIInv, NextMacs, NextAuthentic
<1>3. QED
    BY InitIInv, <1>1, <1>2, PTL DEF Spec
=============
