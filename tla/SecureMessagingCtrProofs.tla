---------------------- MODULE SecureMessagingCtrProofs ----------------------
(***************************************************************************)
(* Counter discipline of ssm_cmd_full: while host and card share a        *)
(* session, the card's CmdCtr is the host's cmd_ctr or one ahead of it,    *)
(* for every counter width, as long as fewer commands are sent than the    *)
(* counter has values.  Past one lap (line 739) a recorded response can be *)
(* replayed for a counter value it matches again, and the property fails. *)
(***************************************************************************)
EXTENDS SecureMessagingProofs

\* Fewer secure-messaging commands than cmd_ctr has values: a run of main
\* sends a handful of commands on a uint16_t counter.
NoWrap == MaxCmds < CtrMod

\* The strengthening CtrInStep needs, without the modular wrap.
CtrInv ==
    \* every command the card executed came from a request the host sent
    /\ card.ctr + (IF req.type = "sm" THEN 1 ELSE 0) <= nCmds
    \* the card executed each counter value of its session once, below ctr
    /\ \A e \in clog : e.sk = card.sk => e.ctr < card.ctr
    \* CtrInStep, counted without the wrap
    /\ (sess.authenticated /\ card.auth /\ card.sk = sess.sk)
          => card.ctr \in {sess.ctr, sess.ctr + 1}
    \* a session the card opened for this handshake has executed nothing
    /\ (hpc = "auth2" /\ card.auth /\ card.sk = <<hcur.rndA, hcur.rndB>>)
          => card.ctr = 0
    \* the card's pending RndB names no session commands ran under
    /\ card.rndB # 0 => \A e \in clog : e.sk[2] # card.rndB
    /\ \A e \in clog : e.sk[2] <= fresh
    /\ card.sk[1] <= fresh /\ card.sk[2] <= fresh /\ card.rndB <= fresh
    /\ card.auth => card.rndB = 0
    \* a command on the link is the host's, at the host's counter
    /\ req.type = "sm" => hpc = "sm" /\ req.sk = sess.sk /\ req.ctr = sess.ctr
    /\ hpc = "sm" => sess.authenticated

\* The conjuncts one at a time, for the steps.
CtrIssued == card.ctr + (IF req.type = "sm" THEN 1 ELSE 0) <= nCmds
CtrExecutedBelow == \A e \in clog : e.sk = card.sk => e.ctr < card.ctr
CtrShared ==
    (sess.authenticated /\ card.auth /\ card.sk = sess.sk)
        => card.ctr \in {sess.ctr, sess.ctr + 1}
CtrFreshSession ==
    (hpc = "auth2" /\ card.auth /\ card.sk = <<hcur.rndA, hcur.rndB>>) => card.ctr = 0
KeysFresh ==
    /\ card.rndB # 0 => \A e \in clog : e.sk[2] # card.rndB
    /\ \A e \in clog : e.sk[2] <= fresh
    /\ card.sk[1] <= fresh /\ card.sk[2] <= fresh /\ card.rndB <= fresh
    /\ card.auth => card.rndB = 0
ReqOfHost ==
    /\ req.type = "sm" => hpc = "sm" /\ req.sk = sess.sk /\ req.ctr = sess.ctr
    /\ hpc = "sm" => sess.authenticated

LEMMA CtrInvSplit ==
    CtrInv = (CtrIssued /\ CtrExecutedBelow /\ CtrShared /\ CtrFreshSession
              /\ KeysFresh /\ ReqOfHost)
BY DEF CtrInv, CtrIssued, CtrExecutedBelow, CtrShared, CtrFreshSession,
       KeysFresh, ReqOfHost

LEMMA InitCtrInv == Init => CtrInv
BY DEF Init, CtrInv, NoMsg, ZeroSession, NoKey

\* The counter facts a step preserves: one step per action, one per
\* conjunct the action can disturb.
LEMMA NextCtrInv ==
    ASSUME NoWrap
    PROVE  IInv /\ MacsFromCard /\ CtrInv /\ [Next]_vars => CtrInv'
<1> SUFFICES ASSUME IInv, IInv', MacsFromCard, CtrInv, [Next]_vars
             PROVE  CtrIssued' /\ CtrExecutedBelow' /\ CtrShared' /\ CtrFreshSession'
                    /\ KeysFresh' /\ ReqOfHost'
    BY NextIInv DEF CtrInv, CtrIssued, CtrExecutedBelow, CtrShared, CtrFreshSession,
                    KeysFresh, ReqOfHost
<1> USE ConstAssumption, CtrModAssumption
<1>0. /\ CtrIssued /\ CtrExecutedBelow /\ CtrShared /\ CtrFreshSession
      /\ KeysFresh /\ ReqOfHost /\ TypeOK /\ TypeOK' /\ LinkDiscipline
      /\ FreshRndA /\ HandshakeBinding
    BY CtrInvSplit DEF IInv
<1>a. card.ctr \in Nat /\ nCmds \in Nat /\ fresh \in Nat /\ sess.ctr \in Nat
    BY <1>0 DEF TypeOK, Nonces
<1>1. ASSUME NEW k \in Keys, AuthStart(k)
      PROVE  CtrIssued' /\ CtrExecutedBelow' /\ CtrShared' /\ CtrFreshSession'
             /\ KeysFresh' /\ ReqOfHost'
    <2> USE <1>1 DEF AuthStart
    <2>1. req = NoMsg
        BY <1>0 DEF LinkDiscipline
    <2>2. CtrIssued'
        BY <1>0, <1>a, <2>1, FrameTypes DEF CtrIssued, Auth1Req
    <2>3. CtrShared' /\ CtrFreshSession' /\ ReqOfHost'
        BY FrameTypes DEF CtrShared, CtrFreshSession, ReqOfHost, ZeroSession
    <2>4. CtrExecutedBelow' /\ KeysFresh'
        BY <1>0 DEF CtrExecutedBelow, KeysFresh
    <2>5. QED
        BY <2>2, <2>3, <2>4
<1>2. CASE AuthPart1
    <2> USE <1>2 DEF AuthPart1
    <2>1. req = NoMsg
        BY <1>0 DEF LinkDiscipline, NoMsg
    <2>2. CtrIssued'
        BY <1>0, <1>a, <2>1, FrameTypes DEF CtrIssued, Auth2Req
    <2>3. card.sk[1] < hcur'.rndA
        BY <1>0, <1>a DEF KeysFresh, TypeOK, SessionKeys, Nonces
    <2>4. CtrFreshSession'
        BY <2>3, <1>a DEF CtrFreshSession
    <2>5. KeysFresh'
        <3>1. \A e \in clog : e.sk[2] <= fresh + 1
            BY <1>0, <1>a DEF KeysFresh, TypeOK, Executed, SessionKeys, Nonces
        <3>2. card.sk[1] <= fresh + 1 /\ card.sk[2] <= fresh + 1 /\ card.rndB <= fresh + 1
            BY <1>0, <1>a DEF KeysFresh, TypeOK, SessionKeys, Nonces
        <3>3. QED
            BY <1>0, <3>1, <3>2 DEF KeysFresh
    <2>6. CtrShared' /\ CtrExecutedBelow' /\ ReqOfHost'
        BY <1>0, FrameTypes DEF CtrShared, CtrExecutedBelow, ReqOfHost, Auth2Req
    <2>7. QED
        BY <2>2, <2>4, <2>5, <2>6
<1>3. CASE AuthPart1Fail \/ AuthPart2Fail
    <2> USE <1>3 DEF AuthPart1Fail, AuthPart2Fail
    <2>1. req.type # "sm"
        BY <1>0 DEF ReqOfHost
    <2>2. QED
        BY <1>0, <2>1 DEF CtrIssued, CtrExecutedBelow, CtrShared, CtrFreshSession,
                          KeysFresh, ReqOfHost
<1>4. CASE AuthPart2
    <2> USE <1>4 DEF AuthPart2, RndAVerified
    <2>1. req.type # "sm"
        BY <1>0 DEF ReqOfHost
    <2>2. card.sk = <<hcur.rndA, hcur.rndB>>
        BY <1>0 DEF HandshakeBinding
    <2>3. card.auth => card.ctr = 0
        BY <1>0, <2>2 DEF CtrFreshSession
    <2>4. CtrShared'
        BY <2>2, <2>3 DEF CtrShared
    <2>5. QED
        BY <1>0, <2>1, <2>4 DEF CtrIssued, CtrExecutedBelow, CtrFreshSession,
                                KeysFresh, ReqOfHost
<1>5. ASSUME NEW i \in Cmds, SsmSend(i)
      PROVE  CtrIssued' /\ CtrExecutedBelow' /\ CtrShared' /\ CtrFreshSession'
             /\ KeysFresh' /\ ReqOfHost'
    <2> USE <1>5 DEF SsmSend
    <2>1. req = NoMsg
        BY <1>0 DEF LinkDiscipline
    <2>2. req'.type = "sm" /\ req'.sk = sess.sk /\ req'.ctr = sess.ctr
        BY DEF SmReq
    <2>3. CtrIssued'
        BY <1>0, <1>a, <2>1, <2>2, FrameTypes DEF CtrIssued
    <2>4. ReqOfHost'
        BY <2>2 DEF ReqOfHost
    <2>5. QED
        BY <1>0, <2>3, <2>4 DEF CtrExecutedBelow, CtrShared, CtrFreshSession, KeysFresh
<1>6. CASE SsmRecv
    <2> USE <1>6 DEF SsmRecv
    <2>1. req = NoMsg
        BY <1>0, FrameTypes DEF LinkDiscipline
    <2>2. sess.authenticated
        BY <1>0 DEF ReqOfHost
    <2>3. CtrShared'
        <3> SUFFICES ASSUME card.auth, card.sk = sess.sk
                     PROVE  card.ctr \in {sess'.ctr, sess'.ctr + 1}
            BY DEF CtrShared
        <3>1. resp.type = "smr" /\ resp.mac.sk = sess.sk
              /\ resp.mac.ctr = NextCtr(sess.ctr)
            BY DEF ResponseMacOk, Mac
        <3>2. PICK e \in clog : e.sk = sess.sk /\ NextCtr(e.ctr) = NextCtr(sess.ctr)
            BY <3>1 DEF MacsFromCard
        <3>3. e.ctr \in 0 .. CtrMod - 1 /\ sess.ctr \in 0 .. CtrMod - 1
            BY <1>0 DEF TypeOK, Executed
        <3>4. e.ctr = sess.ctr
            BY <3>2, <3>3, NextCtrInjective
        <3>5. sess.ctr < card.ctr
            BY <1>0, <3>2, <3>4 DEF CtrExecutedBelow
        <3>6. card.ctr = sess.ctr + 1
            BY <1>0, <1>a, <2>2, <3>5 DEF CtrShared
        <3>7. card.ctr < CtrMod
            BY <1>0, <1>a, <2>1, FrameTypes DEF CtrIssued, TypeOK, NoWrap
        <3>8. sess'.ctr = sess.ctr + 1
            BY <1>a, <3>6, <3>7 DEF TypeOK, NextCtr
        <3>9. QED
            BY <3>6, <3>8
    <2>4. QED
        BY <1>0, <2>1, <2>3, FrameTypes
        DEF CtrIssued, CtrExecutedBelow, CtrFreshSession, KeysFresh, ReqOfHost
<1>7. CASE SsmRecvFail
    <2> USE <1>7 DEF SsmRecvFail
    <2>1. req = NoMsg
        BY <1>0, FrameTypes DEF LinkDiscipline
    <2>2. QED
        BY <1>0, <2>1, FrameTypes
        DEF CtrIssued, CtrExecutedBelow, CtrShared, CtrFreshSession, KeysFresh, ReqOfHost
<1>8. CASE CardAuth1
    <2> USE <1>8 DEF CardAuth1
    <2>1. req.type # "sm" /\ req'.type # "sm"
        BY FrameTypes DEF Auth1Req
    <2>2. /\ card'.auth = FALSE /\ card'.rndB = fresh + 1
          /\ card'.sk = card.sk /\ card'.ctr = card.ctr
        BY <1>0 DEF TypeOK
    <2>3. CtrIssued' /\ CtrExecutedBelow' /\ CtrShared' /\ CtrFreshSession'
          /\ ReqOfHost'
        BY <1>0, <2>1, <2>2 DEF CtrIssued, CtrExecutedBelow, CtrShared,
                                CtrFreshSession, ReqOfHost
    <2>4. \A e \in clog : e.sk[2] <= fresh /\ e.sk[2] \in Nat
        BY <1>0 DEF KeysFresh, TypeOK, Executed, SessionKeys, Nonces
    <2>5. card.sk[1] <= fresh + 1 /\ card.sk[2] <= fresh + 1
        BY <1>0, <1>a DEF KeysFresh, TypeOK, SessionKeys, Nonces
    <2>6. \A e \in clog : e.sk[2] # fresh + 1 /\ e.sk[2] <= fresh + 1
        BY <1>a, <2>4
    <2>7. KeysFresh'
        BY <1>a, <2>2, <2>5, <2>6, <1>8 DEF KeysFresh
    <2>8. QED
        BY <2>3, <2>7
<1>9. CASE CardAuth2
    <2> USE <1>9 DEF CardAuth2
    <2>1. /\ hpc = "auth2" /\ ~sess.authenticated
          /\ req.rndA = hcur.rndA /\ req.rndB = hcur.rndB
        BY <1>0 DEF LinkDiscipline
    <2>2. req'.type # "sm" /\ req.type # "sm"
        BY FrameTypes
    <2>3. CASE card.rndB # 0 /\ req.rndB = card.rndB /\ req.key = CardKey
        <3>1. card' = [auth |-> TRUE, sk |-> <<req.rndA, req.rndB>>, ctr |-> 0, rndB |-> 0]
            BY <2>3
        <3>2. CtrExecutedBelow'
            <4>1. \A e \in clog : e.sk[2] # card.rndB
                BY <1>0, <2>3 DEF KeysFresh
            <4>2. QED
                BY <3>1, <4>1, <2>3 DEF CtrExecutedBelow
        <3>3. hcur.rndA <= fresh /\ card.rndB <= fresh
            BY <1>0 DEF FreshRndA, KeysFresh
        <3>4. KeysFresh'
            BY <1>0, <1>a, <3>1, <3>3, <2>1, <2>3 DEF KeysFresh
        <3>5. QED
            BY <1>0, <1>a, <2>1, <2>2, <3>1, <3>2, <3>4
            DEF CtrIssued, CtrShared, CtrFreshSession, ReqOfHost
    <2>4. CASE ~(card.rndB # 0 /\ req.rndB = card.rndB /\ req.key = CardKey)
        <3>1. /\ card'.auth = FALSE /\ card'.rndB = 0
              /\ card'.sk = card.sk /\ card'.ctr = card.ctr
            BY <1>0, <2>4 DEF TypeOK
        <3>2. QED
            BY <1>0, <1>a, <2>2, <3>1
            DEF CtrIssued, CtrExecutedBelow, CtrShared, CtrFreshSession, KeysFresh,
                ReqOfHost
    <2>5. QED
        BY <2>3, <2>4
<1>10. CASE CardSsm
    <2> USE <1>10 DEF CardSsm
    <2>1. /\ hpc = "sm" /\ sess.authenticated
          /\ req.sk = sess.sk /\ req.ctr = sess.ctr
        BY <1>0 DEF ReqOfHost
    <2>2. req'.type # "sm" /\ hpc # "auth2"
        BY <2>1, FrameTypes
    <2>3. card.ctr + 1 <= nCmds
        BY <1>0 DEF CtrIssued
    <2>4. CASE card.auth /\ req.intact /\ req.sk = card.sk /\ req.ctr = card.ctr
        <3>1. PICK sw \in Sw2s :
                clog' = clog \cup {[sk |-> card.sk, ctr |-> card.ctr,
                                    ins |-> req.ins, sw2 |-> sw]}
            BY <2>4
        <3>2. card.ctr + 1 < CtrMod
            BY <1>0, <1>a, <2>3 DEF TypeOK, NoWrap
        <3>3. NextCtr(card.ctr) = card.ctr + 1
            BY <1>a, <3>2 DEF NextCtr
        <3>4. /\ card'.ctr = card.ctr + 1 /\ card'.auth = card.auth
              /\ card'.sk = card.sk /\ card'.rndB = card.rndB
            BY <1>0, <2>4, <3>3 DEF TypeOK
        <3>5. CtrExecutedBelow'
            <4>1. \A e \in clog : e.sk = card.sk => e.ctr < card.ctr + 1
                BY <1>0, <1>a DEF CtrExecutedBelow, TypeOK, Executed
            <4>2. QED
                BY <1>a, <3>1, <3>4, <4>1 DEF CtrExecutedBelow
        <3>6. CtrShared'
            BY <2>1, <2>4, <3>4 DEF CtrShared
        <3>7. KeysFresh'
            <4>1. card.rndB = 0 /\ card.sk[2] <= fresh
                BY <1>0, <2>4 DEF KeysFresh
            <4>2. QED
                BY <1>0, <3>1, <3>4, <4>1 DEF KeysFresh
        <3>8. CtrIssued'
            <4>1. nCmds' = nCmds
                OBVIOUS
            <4>2. QED
                BY <1>a, <2>2, <2>3, <3>4, <4>1 DEF CtrIssued
        <3>9. CtrFreshSession' /\ ReqOfHost'
            BY <2>1, <2>2 DEF CtrFreshSession, ReqOfHost
        <3>10. QED
            BY <3>5, <3>6, <3>7, <3>8, <3>9
    <2>5. CASE ~(card.auth /\ req.intact /\ req.sk = card.sk /\ req.ctr = card.ctr)
        <3>1. /\ card'.ctr = card.ctr /\ card'.auth = FALSE
              /\ card'.sk = card.sk /\ card'.rndB = card.rndB
            BY <1>0, <2>5 DEF TypeOK
        <3>2. QED
            BY <1>0, <1>a, <2>1, <2>2, <2>3, <2>5, <3>1
            DEF CtrIssued, CtrExecutedBelow, CtrShared, CtrFreshSession, KeysFresh,
                ReqOfHost
    <2>6. QED
        BY <2>4, <2>5
<1>11. CASE LoseRequest \/ Replay
    <2>1. /\ req' = NoMsg
          /\ UNCHANGED <<sess, hpc, hcur, card, fresh, nCmds, clog>>
        BY <1>11 DEF LoseRequest, Replay
    <2>2. req'.type # "sm"
        BY <2>1, FrameTypes
    <2>3. card.ctr <= nCmds
        BY <1>0, <1>a DEF CtrIssued
    <2>4. CtrIssued'
        BY <1>a, <2>1, <2>2, <2>3 DEF CtrIssued
    <2>5. QED
        BY <1>0, <2>1, <2>2, <2>4
        DEF CtrExecutedBelow, CtrShared, CtrFreshSession, KeysFresh, ReqOfHost
<1>12. CASE CorruptRequest
    <2> USE <1>12 DEF CorruptRequest
    <2>1. req = SmReq(req.ins, req.ctr, req.sk, req.intact)
        BY <1>0, RequestFields DEF TypeOK
    <2>2. req'.type = req.type /\ req'.sk = req.sk /\ req'.ctr = req.ctr
        BY <2>1 DEF SmReq
    <2>3. QED
        BY <1>0, <2>2
        DEF CtrIssued, CtrExecutedBelow, CtrShared, CtrFreshSession, KeysFresh, ReqOfHost
<1>13. CASE LoseResponse \/ CorruptResponse \/ UNCHANGED vars
    <2> USE <1>13 DEF LoseResponse, CorruptResponse, vars
    <2>1. QED
        BY <1>0
        DEF CtrIssued, CtrExecutedBelow, CtrShared, CtrFreshSession, KeysFresh, ReqOfHost
<1>14. QED
    BY <1>1, <1>2, <1>3, <1>4, <1>5, <1>6, <1>7, <1>8, <1>9, <1>10, <1>11, <1>12, <1>13
    DEF Next, Host, Card, Link

\* Below one lap of the counter, the unwrapped step is ssm_cmd_full's
\* cmd_ctr + 1 modulo 2^16.
LEMMA CtrInvImplies ==
    ASSUME NoWrap, IInv, CtrInv
    PROVE  CtrInStep
<1> SUFFICES ASSUME sess.authenticated, card.auth, card.sk = sess.sk,
                    card.ctr = sess.ctr + 1
             PROVE  card.ctr = NextCtr(sess.ctr)
    BY DEF CtrInStep, CtrInv
<1>1. card.ctr <= nCmds /\ nCmds \in 0 .. MaxCmds /\ sess.ctr \in Nat
    BY FrameTypes, ConstAssumption DEF CtrInv, IInv, TypeOK
<1>2. sess.ctr + 1 < CtrMod
    BY <1>1, ConstAssumption, CtrModAssumption DEF NoWrap
<1>3. QED
    BY <1>1, <1>2, CtrModAssumption DEF NextCtr

\* Whenever ssm_cmd_full's session is open and the card holds the same
\* session key, the card's counter is the host's cmd_ctr or one past it
\* (a command executed whose response was lost, corrupted or replaced by a
\* replay), over a lossy link with an attacker, as long as fewer commands
\* are sent than cmd_ctr has values.
THEOREM CtrInStepHolds ==
    ASSUME NoWrap
    PROVE  Spec => []CtrInStep
<1>1. Init => IInv /\ MacsFromCard /\ CtrInv
    <2>1. Init => MacsFromCard
        BY DEF Init, MacsFromCard, NoMsg
    <2>2. QED
        BY <2>1, InitIInv, InitCtrInv
<1>2. (IInv /\ MacsFromCard /\ CtrInv) /\ [Next]_vars
        => (IInv /\ MacsFromCard /\ CtrInv)'
    BY NextIInv, NextMacs, NextCtrInv
<1>3. IInv /\ MacsFromCard /\ CtrInv => CtrInStep
    BY CtrInvImplies
<1>4. QED
    BY <1>1, <1>2, <1>3, PTL DEF Spec
====
