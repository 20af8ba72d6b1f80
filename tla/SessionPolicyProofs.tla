------------------------ MODULE SessionPolicyProofs ------------------------
(***************************************************************************)
(* Proofs about SessionPolicy, for every number of sessions, clients and   *)
(* hosts, every set of configurations and any number of saves.             *)
(*                                                                         *)
(* A send is authorised because the sender holds the policy mutex since    *)
(* its check (SenderHolds) and the accept thread publishes only when nobody *)
(* does.                                                                   *)
(***************************************************************************)
EXTENDS SessionPolicy, TLAPS

USE ConfigAssumption

\* What a step may do to the published policy keeps its type.
LEMMA RefreshedType ==
    ASSUME NEW p \in Policy, NEW l \in Configs \cup {Broken}
    PROVE  Refreshed(p, l) \in Policy
<1>1. CASE l = Broken
  BY <1>1 DEF Refreshed, Policy
<1>2. CASE l # Broken
  <2>1. l \in Configs /\ l.enrolled \in SUBSET Clients
    BY <1>2 DEF Config
  <2>2. Published(l) \in Policy
    BY <2>1 DEF Published, Policy
  <2> QED
    BY <1>2, <2>2 DEF Refreshed
<1> QED
  BY <1>1, <1>2

LEMMA ClosedType == Closed \in Session
BY DEF Closed, Session

\* The init state has the types.
LEMMA InitType == Init => TypeOK
<1> SUFFICES ASSUME Init PROVE TypeOK
  OBVIOUS
<1>1. Published(Boot) \in Policy
  BY DEF Published, Policy, Config
<1>2. sess \in [Sessions -> Session]
  BY ClosedType DEF Init
<1>3. policy \in Policy
  BY <1>1 DEF Init
<1>4. stopping \in BOOLEAN
  BY DEF Init
<1>5. disk \in Configs /\ loaded \in Configs /\ saves \in 0..MaxSaves
  BY DEF Init
<1> QED
  BY <1>2, <1>3, <1>4, <1>5 DEF Init, TypeOK

\* Session steps other than CheckTarget and Send replace one session record.
LEMMA SessionType ==
    ASSUME TypeOK, NEW s \in Sessions,
           Handshake(s) \/ Admit(s) \/ Check(s) \/ Adopt(s) \/ Authorise(s)
               \/ Poll(s) \/ Request(s) \/ CheckTarget(s) \/ Send(s) \/ Accept(s)
    PROVE  sess' \in [Sessions -> Session]
<1> USE ClosedType
<1>0. sess[s] \in Session /\ policy.config \in Configs
  BY DEF TypeOK, Policy
<1>1. ASSUME NEW pc \in {"check", "adopt", "authorise", "poll", "request", "dispatch", "sending"}
      PROVE  [sess[s] EXCEPT !.pc = pc] \in Session
  BY <1>0 DEF Session
<1>2. CASE Handshake(s)
  <2>1. ASSUME NEW k \in sess[s].snap.enrolled
        PROVE  [sess[s] EXCEPT !.pc = "admit", !.client = k] \in Session
    <3>1. k \in Clients
      BY <1>0 DEF Session, Config
    <3> QED
      BY <1>0, <3>1 DEF Session
  <2> QED
    BY <1>2, <2>1 DEF Handshake, Close, TypeOK
<1>3. CASE Admit(s)
  BY <1>3, <1>1 DEF Admit, Goto, Close, TypeOK
<1>4. CASE Check(s)
  BY <1>4, <1>1 DEF Check, Goto, Close, TypeOK
<1>5. CASE Adopt(s)
  <2>1. [sess[s] EXCEPT !.pc = "authorise", !.snap = policy.config] \in Session
    BY <1>0 DEF Session
  <2> QED
    BY <1>5, <2>1 DEF Adopt, Close, TypeOK
<1>6. CASE Authorise(s)
  BY <1>6, <1>1 DEF Authorise, Goto, Close, TypeOK
<1>7. CASE Poll(s)
  BY <1>7, <1>1 DEF Poll, Goto, Close, TypeOK
<1>8. CASE Request(s)
  <2>1. ASSUME NEW hs \in SUBSET policy.config.acl[sess[s].client],
               sess[s].client \in policy.clients
        PROVE  [sess[s] EXCEPT !.pc = "dispatch", !.todo = hs] \in Session
    <3>1. hs \subseteq Hosts
      BY <1>0, <2>1 DEF Config, TypeOK, Policy
    <3> QED
      BY <1>0, <3>1 DEF Session
  <2> QED
    BY <1>8, <1>1, <2>1 DEF Request, Goto, Close, TypeOK
<1>9. CASE CheckTarget(s)
  <2>1. ASSUME NEW h \in sess[s].todo
        PROVE  [sess[s] EXCEPT !.pc = "sending", !.host = h] \in Session
    BY <1>0 DEF Session
  <2> QED
    BY <1>9, <2>1 DEF CheckTarget, Close, TypeOK
<1>10. CASE Send(s)
  <2> DEFINE left == sess[s].todo \ {sess[s].host}
             w == [sess[s] EXCEPT !.todo = left, !.host = NoHost]
  <2>1. /\ [w EXCEPT !.pc = "dispatch"] \in Session
        /\ [w EXCEPT !.pc = "check"] \in Session
    BY <1>0 DEF Session
  <2> QED
    BY <1>10, <2>1 DEF Send, Close, TypeOK
<1>11. CASE Accept(s)
  <2>1. [Closed EXCEPT !.pc = "handshake", !.snap = policy.config] \in Session
    BY <1>0 DEF Session, Closed
  <2> QED
    BY <1>11, <2>1 DEF Accept, TypeOK
<1> QED
  BY <1>2, <1>3, <1>4, <1>5, <1>6, <1>7, <1>8, <1>9, <1>10, <1>11

LEMMA TypeStep == TypeOK /\ [Next]_vars => TypeOK'
<1> SUFFICES ASSUME TypeOK, [Next]_vars PROVE TypeOK'
  OBVIOUS
<1>1. CASE Save
  BY <1>1 DEF Save, TypeOK
<1>2. CASE RequestStop
  BY <1>2 DEF RequestStop, TypeOK
<1>3. CASE AcceptorStep
  <2>1. CASE SkipRefresh
    BY <2>1 DEF SkipRefresh, TypeOK
  <2>2. CASE Load
    BY <2>2 DEF Load, TypeOK
  <2>3. CASE Publish
    BY <2>3, RefreshedType DEF Publish, TypeOK
  <2>4. CASE AcceptNothing
    BY <2>4 DEF AcceptNothing, TypeOK
  <2>5. CASE LeaveLoop
    BY <2>5 DEF LeaveLoop, TypeOK
  <2>6. CASE Join
    BY <2>6 DEF Join, TypeOK
  <2> QED
    BY <1>3, <2>1, <2>2, <2>3, <2>4, <2>5, <2>6 DEF AcceptorStep
<1>4. ASSUME NEW s \in Sessions, Accept(s)
      PROVE  TypeOK'
  BY <1>4, SessionType DEF Accept, TypeOK
<1>5. ASSUME NEW s \in Sessions, SessionStep(s)
      PROVE  TypeOK'
  <2>1. sess' \in [Sessions -> Session]
    BY <1>5, SessionType DEF SessionStep
  <2>2. UNCHANGED <<disk, saves, policy, acceptor, loaded, stopping>>
    BY <1>5 DEF SessionStep, Handshake, Admit, Check, Adopt, Authorise, Poll,
                Request, CheckTarget, Send, OthersUnchanged
  <2>3. holder' \in {holder, s, Nobody}
    BY <1>5 DEF SessionStep, Handshake, Admit, Check, Adopt, Authorise, Poll,
                Request, CheckTarget, Send, OthersUnchanged
  <2> QED
    BY <2>1, <2>2, <2>3 DEF TypeOK
<1>6. CASE UNCHANGED vars
  BY <1>6 DEF vars, TypeOK
<1> QED
  BY <1>1, <1>2, <1>3, <1>4, <1>5, <1>6 DEF Next

\* Every variable of SessionPolicy keeps its type: what is published, adopted
\* and loaded is always a whole configuration, never part of one.
THEOREM PolicyTypes == Safe => []TypeOK
<1>1. Init => TypeOK
  BY InitType
<1>2. TypeOK /\ [Next]_vars => TypeOK'
  BY TypeStep
<1> QED
  BY <1>1, <1>2, PTL DEF Safe

-----------------------------------------------------------------------------
\* A step of one session that neither takes nor drops the mutex leaves the
\* senders as they were.
LEMMA QuietSession ==
    ASSUME TypeOK, SenderHolds, SendAuthorised, NEW s \in Sessions,
           NEW w \in Session, sess' = [sess EXCEPT ![s] = w],
           sess[s].pc # "sending", w.pc # "sending",
           UNCHANGED <<policy, holder>>
    PROVE  (SenderHolds /\ SendAuthorised)'
<1>1. \A r \in Sessions : sess'[r].pc = "sending" <=> sess[r].pc = "sending"
  BY DEF TypeOK
<1>2. \A r \in Sessions : sess'[r].pc = "sending" => sess'[r] = sess[r]
  BY <1>1 DEF TypeOK
<1>3. SenderHolds'
  BY <1>1 DEF SenderHolds
<1>4. SendAuthorised'
  BY <1>1, <1>2 DEF SendAuthorised, MaySend
<1> QED
  BY <1>3, <1>4

LEMMA SendInvStep ==
    ASSUME TypeOK, SenderHolds, SendAuthorised, [Next]_vars
    PROVE  (SenderHolds /\ SendAuthorised)'
<1>1. CASE UNCHANGED <<policy, holder, sess>>
  BY <1>1 DEF SenderHolds, SendAuthorised, MaySend
<1>2. CASE Publish
  <2>1. \A s \in Sessions : sess[s].pc # "sending"
    BY <1>2 DEF Publish, SenderHolds
  <2> QED
    BY <1>2, <2>1 DEF Publish, SenderHolds, SendAuthorised
<1>3. ASSUME NEW s \in Sessions, Accept(s)
      PROVE  (SenderHolds /\ SendAuthorised)'
  <2>1. CASE sess' = sess
    BY <1>1, <1>3, <2>1 DEF Accept
  <2>2. CASE sess' # sess
    <3> DEFINE w == [Closed EXCEPT !.pc = "handshake", !.snap = policy.config]
    <3>1. w \in Session /\ w.pc = "handshake"
      BY ClosedType DEF Session, Closed, TypeOK, Policy
    <3>2. sess[s].pc = "closed" /\ sess' = [sess EXCEPT ![s] = w]
      BY <1>3, <2>2 DEF Accept
    <3> HIDE DEF w
    <3> QED
      BY <1>3, <3>1, <3>2, QuietSession DEF Accept
  <2> QED
    BY <2>1, <2>2
<1>4. ASSUME NEW s \in Sessions,
             Handshake(s) \/ Admit(s) \/ Check(s) \/ Adopt(s) \/ Authorise(s)
                 \/ Poll(s) \/ Request(s)
      PROVE  (SenderHolds /\ SendAuthorised)'
  <2> DEFINE w == sess'[s]
  <2>1. sess' \in [Sessions -> Session]
    BY <1>4, SessionType
  <2>2. /\ sess[s].pc # "sending"
        /\ UNCHANGED <<policy, holder>>
    BY <1>4 DEF Handshake, Admit, Check, Adopt, Authorise, Poll, Request,
                OthersUnchanged
  <2>3. \A r \in Sessions \ {s} : sess'[r] = sess[r]
    BY <1>4 DEF Handshake, Admit, Check, Adopt, Authorise, Poll, Request, Goto,
                Close, TypeOK
  <2>4. sess[s] \in Session
    BY DEF TypeOK
  <2>5. w.pc # "sending"
    <3>1. CASE Close(s)
      BY <3>1 DEF Close, Closed, TypeOK
    <3>2. ASSUME NEW pc \in {"check", "adopt", "poll", "request"}, Goto(s, pc)
          PROVE  w.pc # "sending"
      BY <3>2, <2>4 DEF Goto, TypeOK, Session
    <3>3. CASE Handshake(s)
      <4>1. ASSUME NEW k \in sess[s].snap.enrolled,
                   sess' = [sess EXCEPT ![s] = [@ EXCEPT !.pc = "admit", !.client = k]]
            PROVE  w.pc # "sending"
        BY <4>1, <2>4 DEF TypeOK, Session
      <4> QED
        BY <3>1, <3>3, <4>1 DEF Handshake
    <3>4. CASE Adopt(s)
      BY <1>4, <2>4, <3>1, <3>4 DEF Adopt, TypeOK, Session
    <3>5. CASE Request(s)
      BY <1>4, <2>4, <3>1, <3>2, <3>5 DEF Request, TypeOK, Session
    <3> QED
      BY <1>4, <3>1, <3>2, <3>3, <3>4, <3>5 DEF Admit, Check, Authorise, Poll
  <2>6. sess' = [sess EXCEPT ![s] = w]
    BY <2>1, <2>3 DEF TypeOK
  <2> QED
    BY <2>1, <2>2, <2>5, <2>6, QuietSession
<1>5. ASSUME NEW s \in Sessions, CheckTarget(s)
      PROVE  (SenderHolds /\ SendAuthorised)'
  <2>1. PICK h \in sess[s].todo :
            IF ~stopping /\ MaySend(s, h)
            THEN /\ sess' = [sess EXCEPT ![s] = [@ EXCEPT !.pc = "sending", !.host = h]]
                 /\ holder' = s
            ELSE Close(s) /\ UNCHANGED holder
    BY <1>5 DEF CheckTarget
  <2>2. sess[s] \in Session /\ sess[s].pc = "dispatch" /\ holder = Nobody
        /\ UNCHANGED policy
    BY <1>5 DEF CheckTarget, TypeOK
  <2>3. \A r \in Sessions : sess[r].pc # "sending"
    BY <2>2 DEF SenderHolds
  <2>4. CASE ~stopping /\ MaySend(s, h)
    <3>1. sess' = [sess EXCEPT ![s] = [@ EXCEPT !.pc = "sending", !.host = h]]
          /\ holder' = s
      BY <2>1, <2>4
    <3>2. sess'[s].pc = "sending" /\ sess'[s].host = h
          /\ sess'[s].snap = sess[s].snap /\ sess'[s].client = sess[s].client
      BY <3>1, <2>2 DEF TypeOK, Session
    <3>3. \A r \in Sessions \ {s} : sess'[r] = sess[r]
      BY <3>1 DEF TypeOK
    <3>4. SenderHolds'
      BY <3>1, <3>2, <3>3, <2>3 DEF SenderHolds
    <3>5. SendAuthorised'
      BY <3>2, <3>3, <2>2, <2>3, <2>4 DEF SendAuthorised, MaySend
    <3> QED
      BY <3>4, <3>5
  <2>5. CASE ~(~stopping /\ MaySend(s, h))
    <3>1. sess' = [sess EXCEPT ![s] = Closed] /\ holder' = holder
      BY <2>1, <2>5 DEF Close
    <3>2. Closed.pc # "sending"
      BY DEF Closed
    <3> QED
      BY <3>1, <3>2, <2>2, ClosedType, QuietSession
  <2> QED
    BY <2>4, <2>5
<1>6. ASSUME NEW s \in Sessions, Send(s)
      PROVE  (SenderHolds /\ SendAuthorised)'
  <2>1. sess[s] \in Session /\ sess[s].pc = "sending" /\ holder = s
        /\ holder' = Nobody
    BY <1>6 DEF Send, TypeOK, SenderHolds
  <2>2. \A r \in Sessions \ {s} : sess[r].pc # "sending"
    BY <2>1 DEF SenderHolds
  <2>3. sess'[s].pc # "sending" /\ \A r \in Sessions \ {s} : sess'[r] = sess[r]
    <3> DEFINE left == sess[s].todo \ {sess[s].host}
               w == [sess[s] EXCEPT !.todo = left, !.host = NoHost]
    <3>1. [w EXCEPT !.pc = "dispatch"].pc = "dispatch"
          /\ [w EXCEPT !.pc = "check"].pc = "check" /\ Closed.pc = "closed"
      BY <2>1 DEF Session, Closed
    <3>2. PICK v \in {[w EXCEPT !.pc = "dispatch"], [w EXCEPT !.pc = "check"], Closed} :
              sess' = [sess EXCEPT ![s] = v]
      BY <1>6 DEF Send, Close
    <3>3. v.pc # "sending"
      BY <3>1, <3>2
    <3> QED
      BY <3>2, <3>3 DEF TypeOK
  <2>4. \A r \in Sessions : sess'[r].pc # "sending"
    BY <2>2, <2>3
  <2> QED
    BY <2>1, <2>4 DEF SenderHolds, SendAuthorised
<1>7. CASE Save \/ RequestStop \/ SkipRefresh \/ Load \/ AcceptNothing
           \/ LeaveLoop \/ Join \/ UNCHANGED vars
  BY <1>1, <1>7 DEF Save, RequestStop, SkipRefresh, Load, AcceptNothing,
                    LeaveLoop, Join, vars
<1> QED
  BY <1>2, <1>3, <1>4, <1>5, <1>6, <1>7 DEF Next, AcceptorStep, SessionStep

\* No packet is ever sent to a host the published policy does not allow the
\* client, or to another target than the published one: for any number of
\* sessions and any sequence of saves, reloads, failures and stops.
THEOREM SendsAreAuthorised == Safe => []SendAuthorised
<1>1. Init => SenderHolds /\ SendAuthorised
  BY DEF Init, Closed, SenderHolds, SendAuthorised
<1>2. TypeOK /\ SenderHolds /\ SendAuthorised /\ [Next]_vars
          => (SenderHolds /\ SendAuthorised)'
  BY SendInvStep
<1> QED
  BY <1>1, <1>2, InitType, TypeStep, PTL DEF Safe

=============================================================================
