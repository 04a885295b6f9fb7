------------------------- MODULE SecureChannelProofs -------------------------
(***************************************************************************)
(* Host and card implement SecureChannel: the refinement of ChannelSpec,  *)
(* for every counter width, under the same one-lap bound as CtrInStep.    *)
(***************************************************************************)
EXTENDS SecureMessagingCtrProofs, TLAPS

\* What the host's log keeps: every executed command is below the number of
\* commands sent, every accepted answer's key is at most the last nonce,
\* a handshake in part 2 has a RndA newer than every accepted key, and the
\* open session's accepted answers are below cmd_ctr.
ExecutedBelowSent == \A e \in clog : e.ctr < nCmds
AcceptedKeysOld ==
    /\ \A h \in hlog : h.sk[1] <= fresh
    /\ sess.sk[1] <= fresh
    /\ hpc = "auth2" => \A h \in hlog : h.sk[1] < hcur.rndA
AcceptedBelow ==
    sess.authenticated => \A h \in hlog : h.sk = sess.sk => h.ctr < sess.ctr

AcceptInv == ExecutedBelowSent /\ AcceptedKeysOld /\ AcceptedBelow

\* The numeric ranges the steps below need.
LEMMA AcceptTypes ==
    ASSUME IInv
    PROVE  /\ fresh \in Nat /\ nCmds \in Nat /\ sess.ctr \in Nat /\ card.ctr \in Nat
           /\ hcur.rndA \in Nat /\ sess.sk[1] \in Nat
           /\ \A h \in hlog : h.sk[1] \in Nat /\ h.ctr \in Nat
           /\ \A e \in clog : e.ctr \in Nat
BY DEF IInv, TypeOK, Nonces, SessionKeys, Accepted, Executed

LEMMA InitAcceptInv == Init => AcceptInv
BY DEF Init, AcceptInv, ExecutedBelowSent, AcceptedKeysOld, AcceptedBelow,
       ZeroSession, NoKey

\* An answer ssm_cmd_full accepts is the card's log entry at the host's
\* counter, and below one lap cmd_ctr + 1 does not wrap.
LEMMA SsmRecvFacts ==
    ASSUME NoWrap, IInv, MacsFromCard, CtrInv, AcceptInv, SsmRecv
    PROVE  /\ sess.authenticated
           /\ sess'.ctr = sess.ctr + 1 /\ sess'.sk = sess.sk
           /\ sess'.authenticated = sess.authenticated
           /\ [sk |-> sess.sk, ctr |-> sess.ctr, ins |-> resp.body, sw2 |-> resp.sw2]
                \in clog
<1> USE ConstAssumption, CtrModAssumption
<1>1. /\ resp.type = "smr"
      /\ resp.mac = Mac(sess.sk, NextCtr(sess.ctr), resp.sw2, resp.body)
      /\ hpc = "sm"
    BY DEF SsmRecv, ResponseMacOk
<1>2. PICK e \in clog : /\ e.sk = sess.sk /\ NextCtr(e.ctr) = NextCtr(sess.ctr)
                        /\ e.ins = resp.body /\ e.sw2 = resp.sw2
    BY <1>1 DEF MacsFromCard, Mac
<1>3. e \in Executed /\ sess.ctr \in 0 .. CtrMod - 1
    BY DEF IInv, TypeOK
<1>4. e.ctr = sess.ctr
    BY <1>2, <1>3, NextCtrInjective DEF Executed
<1>5. e = [sk |-> sess.sk, ctr |-> sess.ctr, ins |-> resp.body, sw2 |-> resp.sw2]
    BY <1>2, <1>3, <1>4 DEF Executed
<1>6. sess.ctr + 1 < CtrMod
    <2>1. e.ctr < nCmds /\ nCmds \in 0 .. MaxCmds
        BY DEF AcceptInv, ExecutedBelowSent, IInv, TypeOK
    <2>2. QED
        BY <1>3, <1>4, <2>1 DEF NoWrap
<1>7. sess.authenticated
    BY <1>1 DEF CtrInv
<1>8. sess' = [sess EXCEPT !.ctr = NextCtr(sess.ctr)]
    BY DEF SsmRecv
<1>9. NextCtr(sess.ctr) = sess.ctr + 1
    BY <1>3, <1>6 DEF NextCtr
<1>10. QED
    BY <1>5, <1>7, <1>8, <1>9 DEF IInv, TypeOK

\* Every step keeps AcceptInv: one step per action.
LEMMA NextAcceptInv ==
    ASSUME NoWrap
    PROVE  IInv /\ MacsFromCard /\ CtrInv /\ AcceptInv /\ [Next]_vars => AcceptInv'
<1> SUFFICES ASSUME IInv, MacsFromCard, CtrInv, AcceptInv, [Next]_vars
             PROVE  ExecutedBelowSent' /\ AcceptedKeysOld' /\ AcceptedBelow'
    BY DEF AcceptInv
<1> USE ConstAssumption, CtrModAssumption
<1>0. /\ ExecutedBelowSent /\ AcceptedKeysOld /\ AcceptedBelow
      /\ CtrIssued /\ ReqOfHost /\ TypeOK /\ LinkDiscipline /\ FreshRndA
    BY CtrInvSplit DEF AcceptInv, IInv
<1>a. /\ fresh \in Nat /\ nCmds \in Nat /\ sess.ctr \in Nat /\ card.ctr \in Nat
      /\ hcur.rndA \in Nat /\ sess.sk[1] \in Nat
      /\ \A h \in hlog : h.sk[1] \in Nat /\ h.ctr \in Nat
      /\ \A e \in clog : e.ctr \in Nat
    BY AcceptTypes
<1>1. ASSUME NEW k \in Keys, AuthStart(k)
      PROVE  ExecutedBelowSent' /\ AcceptedKeysOld' /\ AcceptedBelow'
    <2> USE <1>1 DEF AuthStart
    <2>1. sess'.sk[1] = 0 /\ ~sess'.authenticated
        BY DEF ZeroSession, NoKey
    <2>2. QED
        BY <1>0, <1>a, <2>1 DEF ExecutedBelowSent, AcceptedKeysOld, AcceptedBelow
<1>2. CASE AuthPart1
    <2> USE <1>2 DEF AuthPart1
    <2>1. hcur'.rndA = fresh + 1
        BY <1>0 DEF TypeOK
    <2>2. \A h \in hlog : h.sk[1] <= fresh + 1 /\ h.sk[1] < fresh + 1
        BY <1>0, <1>a DEF AcceptedKeysOld
    <2>3. sess.sk[1] <= fresh + 1
        BY <1>0, <1>a DEF AcceptedKeysOld
    <2>4. QED
        BY <1>0, <2>1, <2>2, <2>3 DEF ExecutedBelowSent, AcceptedKeysOld, AcceptedBelow
<1>3. CASE AuthPart1Fail \/ AuthPart2Fail \/ SsmRecvFail
    <2>1. /\ hpc' = "idle"
          /\ UNCHANGED <<sess, hcur, fresh, nCmds, hlog, clog>>
        BY <1>3 DEF AuthPart1Fail, AuthPart2Fail, SsmRecvFail
    <2>2. QED
        BY <1>0, <2>1 DEF ExecutedBelowSent, AcceptedKeysOld, AcceptedBelow
<1>4. CASE AuthPart2
    <2> USE <1>4 DEF AuthPart2
    <2>1. sess'.sk = <<hcur.rndA, hcur.rndB>> /\ sess'.sk[1] = hcur.rndA
        OBVIOUS
    <2>2. \A h \in hlog : h.sk # sess'.sk
        BY <1>0, <1>a, <2>1 DEF AcceptedKeysOld
    <2>3. hcur.rndA <= fresh
        BY <1>0 DEF FreshRndA
    <2>4. QED
        BY <1>0, <2>1, <2>2, <2>3 DEF ExecutedBelowSent, AcceptedKeysOld, AcceptedBelow
<1>5. ASSUME NEW i \in Cmds, SsmSend(i)
      PROVE  ExecutedBelowSent' /\ AcceptedKeysOld' /\ AcceptedBelow'
    <2> USE <1>5 DEF SsmSend
    <2>1. \A e \in clog : e.ctr < nCmds + 1
        BY <1>0, <1>a DEF ExecutedBelowSent
    <2>2. QED
        BY <1>0, <2>1 DEF ExecutedBelowSent, AcceptedKeysOld, AcceptedBelow
<1>6. CASE SsmRecv
    <2>1. /\ sess.authenticated
          /\ sess'.ctr = sess.ctr + 1 /\ sess'.sk = sess.sk
          /\ sess'.authenticated = sess.authenticated
        BY <1>6, SsmRecvFacts
    <2>2. /\ hlog' = hlog \cup {[sk |-> sess.sk, ctr |-> sess.ctr, ins |-> hcur.ins,
                                 sw2 |-> resp.sw2, body |-> resp.body]}
          /\ hpc' = "idle"
          /\ UNCHANGED <<hcur, fresh, nCmds, clog>>
        BY <1>6 DEF SsmRecv
    <2>3. AcceptedBelow'
        <3>1. \A h \in hlog : h.sk = sess.sk => h.ctr < sess.ctr + 1
            BY <1>0, <1>a, <2>1 DEF AcceptedBelow
        <3>2. sess.ctr < sess.ctr + 1
            BY <1>a
        <3>3. QED
            BY <2>1, <2>2, <3>1, <3>2 DEF AcceptedBelow
    <2>4. AcceptedKeysOld'
        BY <1>0, <2>1, <2>2 DEF AcceptedKeysOld
    <2>5. QED
        BY <1>0, <2>2, <2>3, <2>4 DEF ExecutedBelowSent
<1>7. CASE CardAuth1
    <2>1. /\ fresh' = fresh + 1
          /\ UNCHANGED <<sess, hpc, hcur, nCmds, hlog, clog>>
        BY <1>7 DEF CardAuth1
    <2>2. \A h \in hlog : h.sk[1] <= fresh + 1
        BY <1>0, <1>a DEF AcceptedKeysOld
    <2>3. sess.sk[1] <= fresh + 1
        BY <1>0, <1>a DEF AcceptedKeysOld
    <2>4. QED
        BY <1>0, <2>1, <2>2, <2>3 DEF ExecutedBelowSent, AcceptedKeysOld, AcceptedBelow
<1>8. CASE CardSsm
    <2>1. UNCHANGED <<sess, hpc, hcur, fresh, nCmds, hlog>>
        BY <1>8 DEF CardSsm
    <2>2. card.ctr < nCmds
        <3>1. req.type = "sm"
            BY <1>8 DEF CardSsm
        <3>2. QED
            BY <1>0, <1>a, <3>1 DEF CtrIssued
    <2>3. \E sw \in Sw2s : clog' \subseteq clog \cup {[sk |-> card.sk, ctr |-> card.ctr,
                                                     ins |-> req.ins, sw2 |-> sw]}
        BY <1>8 DEF CardSsm
    <2>4. ExecutedBelowSent'
        BY <1>0, <2>1, <2>2, <2>3 DEF ExecutedBelowSent
    <2>5. QED
        BY <1>0, <2>1, <2>4 DEF AcceptedKeysOld, AcceptedBelow
<1>9. CASE CardAuth2 \/ Link \/ UNCHANGED vars
    <2>1. UNCHANGED <<sess, hpc, hcur, fresh, nCmds, hlog, clog>>
        BY <1>9 DEF CardAuth2, Link, LoseRequest, LoseResponse, CorruptRequest,
                    CorruptResponse, Replay, vars
    <2>2. QED
        BY <1>0, <2>1 DEF ExecutedBelowSent, AcceptedKeysOld, AcceptedBelow
<1>10. QED
    BY <1>1, <1>2, <1>3, <1>4, <1>5, <1>6, <1>7, <1>8, <1>9 DEF Next, Host, Card

\* A step that leaves the card's log and the host's log alone is a stutter
\* of SecureChannel.
LEMMA ChannelStutter ==
    UNCHANGED <<clog, hlog>> => [Channel!Next]_Channel!avars
BY DEF Channel!avars, AcceptedAnswers

\* Every step of host, card and link is a SecureChannel step or a stutter:
\* the card's successful CmdCtr check is Execute, an answer ssm_cmd_full
\* accepts is Accept, and every other step leaves both logs alone.
LEMMA ChannelStep ==
    ASSUME NoWrap
    PROVE  IInv /\ MacsFromCard /\ CtrInv /\ AcceptInv /\ [Next]_vars
              => [Channel!Next]_Channel!avars
<1> SUFFICES ASSUME IInv, MacsFromCard, CtrInv, AcceptInv, [Next]_vars
             PROVE  [Channel!Next]_Channel!avars
    OBVIOUS
<1> USE ConstAssumption, CtrModAssumption
<1>1. CASE CardSsm /\ clog' # clog
    <2>1. PICK sw \in Sw2s :
            /\ clog' = clog \cup {[sk |-> card.sk, ctr |-> card.ctr,
                                   ins |-> req.ins, sw2 |-> sw]}
            /\ UNCHANGED hlog
        BY <1>1 DEF CardSsm
    <2>2. [sk |-> card.sk, ctr |-> card.ctr, ins |-> req.ins, sw2 |-> sw] \in Executed
        <3>1. TypeOK'
            BY NextIInv DEF IInv
        <3>2. QED
            BY <2>1, <3>1 DEF TypeOK
    <2>3. Channel!Below(clog, [sk |-> card.sk, ctr |-> card.ctr,
                               ins |-> req.ins, sw2 |-> sw])
        BY CtrInvSplit DEF CtrExecutedBelow, Channel!Below
    <2>4. AcceptedAnswers' = AcceptedAnswers
        BY <2>1 DEF AcceptedAnswers
    <2>5. QED
        BY <2>1, <2>2, <2>3, <2>4 DEF Channel!Next, Channel!Execute
<1>2. CASE SsmRecv
    <2> DEFINE a == [sk |-> sess.sk, ctr |-> sess.ctr, ins |-> resp.body, sw2 |-> resp.sw2]
    <2>1. sess.authenticated /\ a \in clog
        BY <1>2, SsmRecvFacts
    <2>2. a \in Executed
        BY <2>1 DEF IInv, TypeOK
    <2>3. /\ hlog' = hlog \cup {[sk |-> sess.sk, ctr |-> sess.ctr, ins |-> hcur.ins,
                                 sw2 |-> resp.sw2, body |-> resp.body]}
          /\ clog' = clog
        BY <1>2 DEF SsmRecv
    <2>4. AcceptedAnswers' = AcceptedAnswers \cup {a}
        <3> DEFINE nh == [sk |-> sess.sk, ctr |-> sess.ctr, ins |-> hcur.ins,
                          sw2 |-> resp.sw2, body |-> resp.body]
                   Proj(h) == [sk |-> h.sk, ctr |-> h.ctr, ins |-> h.body, sw2 |-> h.sw2]
        <3>1. Proj(nh) = a
            OBVIOUS
        <3>2. AcceptedAnswers' = {Proj(h) : h \in hlog \cup {nh}}
            BY <2>3 DEF AcceptedAnswers
        <3>3. {Proj(h) : h \in hlog \cup {nh}} = {Proj(h) : h \in hlog} \cup {Proj(nh)}
            OBVIOUS
        <3>4. QED
            BY <3>1, <3>2, <3>3 DEF AcceptedAnswers
    <2>5. Channel!Below(AcceptedAnswers, a)
        BY <2>1 DEF AcceptInv, AcceptedBelow, AcceptedAnswers, Channel!Below
    <2>6. QED
        BY <2>1, <2>2, <2>3, <2>4, <2>5 DEF Channel!Next, Channel!Accept
<1>3. CASE CardSsm /\ clog' = clog
    BY <1>3, ChannelStutter DEF CardSsm
<1>4. CASE \/ \E k \in Keys : AuthStart(k)
           \/ AuthPart1 \/ AuthPart1Fail \/ AuthPart2 \/ AuthPart2Fail
           \/ \E i \in Cmds : SsmSend(i)
           \/ SsmRecvFail \/ CardAuth1 \/ CardAuth2 \/ Link \/ UNCHANGED vars
    <2>1. UNCHANGED <<clog, hlog>>
        BY <1>4 DEF AuthStart, AuthPart1, AuthPart1Fail, AuthPart2, AuthPart2Fail,
                    SsmSend, SsmRecvFail, CardAuth1, CardAuth2, Link, LoseRequest,
                    LoseResponse, CorruptRequest, CorruptResponse, Replay, vars
    <2>2. QED
        BY <2>1, ChannelStutter
<1>5. QED
    BY <1>1, <1>2, <1>3, <1>4 DEF Next, Host, Card

\* Host and card implement SecureChannel (ChannelSpec): over a link that
\* loses, corrupts and replays frames, the card executes each session's
\* commands at strictly increasing CmdCtr values, and ssm_cmd_full accepts
\* only answers to executed commands, in counter order, for every counter
\* width, as long as fewer commands are sent than cmd_ctr has values.
THEOREM ChannelRefinement ==
    ASSUME NoWrap
    PROVE  Spec => ChannelSpec
<1>1. Init => IInv /\ MacsFromCard /\ CtrInv /\ AcceptInv /\ Channel!Init
    <2>1. Init => MacsFromCard
        BY DEF Init, MacsFromCard, NoMsg
    <2>2. Init => Channel!Init
        BY DEF Init, Channel!Init, AcceptedAnswers
    <2>3. QED
        BY <2>1, <2>2, InitIInv, InitCtrInv, InitAcceptInv
<1>2. IInv /\ MacsFromCard /\ CtrInv /\ AcceptInv /\ [Next]_vars
        => (IInv /\ MacsFromCard /\ CtrInv /\ AcceptInv)'
    BY NextIInv, NextMacs, NextCtrInv, NextAcceptInv
<1>3. QED
    BY <1>1, <1>2, ChannelStep, PTL DEF Spec, ChannelSpec, Channel!Spec
====
