--------------------------- MODULE ApprovalsProofs ---------------------------
(***************************************************************************)
(* Theorems about Approvals, for any chats, actions, capacity and bounds.  *)
(***************************************************************************)
EXTENDS Approvals, TLAPS, SequenceTheorems, FiniteSetTheorems

\* The sequences built by the steps are sequences over the same sets.
LEMMA SeqClosure ==
    ASSUME NEW S
    PROVE  /\ <<>> \in Seq(S) /\ Len(<<>>) = 0
           /\ \A s \in Seq(S), x \in S :
                  Append(s, x) \in Seq(S) /\ Len(Append(s, x)) = Len(s) + 1
           /\ \A s \in Seq(S) : Len(s) \in Nat
           /\ \A s, t \in Seq(S) : s \o t \in Seq(S)
           /\ \A s \in Seq(S) : s # <<>> =>
                  /\ Head(s) \in S /\ Tail(s) \in Seq(S)
                  /\ Len(s) > 0 /\ Len(Tail(s)) = Len(s) - 1
BY HeadTailProperties, AppendProperties, ConcatProperties, EmptySeq

LEMMA UnfetchedType ==
    ASSUME TypeTelegram
    PROVE  Unfetched \in Seq(Updates)
BY SubSeqProperties DEF TypeTelegram, Unfetched

\* A handler that returns while its update is in the inbox keeps the types.
LEMMA ReturnType ==
    ASSUME TypeTelegram, tgInbox # <<>>, Return, UNCHANGED sent
    PROVE  TypeTelegram' /\ Current \in Updates
BY SeqClosure DEF TypeTelegram, Return, Current

LEMMA UpdateFields ==
    ASSUME NEW u \in Updates
    PROVE  u.chat \in Chats /\ u.act \in Actions
BY DEF Updates

LEMMA PostType ==
    ASSUME TypeSync, SyncCap \in Nat, NEW r \in Reports, Post(r)
    PROVE  TypeSync'
BY SeqClosure DEF TypeSync, Post

\* The invariant the theorems rest on.  A busy goroutine works on a click of
\* an authorized chat, whose action it has claimed and, before "post", not
\* settled; every other claimed action is settled.
BusyInv ==
    tgPc # "idle" =>
        /\ tgInbox # <<>>
        /\ Current.kind = "click"
        /\ Authorized(Current.chat)
        /\ Current.act \in Handled \cap executed
        /\ outcome[Current.act] = (IF tgPc = "exec" THEN "none" ELSE "ok")
ClaimInv ==
    /\ \A a \in Actions \ executed : outcome[a] = "none"
    /\ \A a \in executed :
           outcome[a] = "none" => tgPc = "exec" /\ Current.act = a

LEMMA TypeStep ==
    ASSUME ApprovalsAssumption, TypeOK, BusyInv, [Next]_vars
    PROVE  TypeOK'
<1> USE ApprovalsAssumption
<1>1. ASSUME NEW a \in Actions, Propose(a) PROVE TypeOK'
  <2>1. TypeTeam' 
    BY <1>1 DEF TypeOK, TypeTeam, Propose
  <2> QED BY <2>1, <1>1 DEF TypeOK, TypeTelegram, TypeClaims, TypeSlack, TypeSync, Propose, tgVars, claims, slVars, syncVars
<1>2. ASSUME NEW u \in Updates, UserSends(u) PROVE TypeOK'
  <2>1. TypeTelegram' 
    BY <1>2, SeqClosure DEF TypeOK, TypeTelegram, UserSends
  <2> QED BY <2>1, <1>2 DEF TypeOK, TypeTeam, TypeClaims, TypeSlack, TypeSync, UserSends, claims, slVars, syncVars
<1>3. CASE Poll
  <2>1. TypeTelegram' 
    BY <1>3, SeqClosure, UnfetchedType DEF TypeOK, TypeTelegram, Poll
  <2> QED BY <2>1, <1>3 DEF TypeOK, TypeTeam, TypeClaims, TypeSlack, TypeSync, Poll, claims, slVars, syncVars
<1>4. CASE TgDiscard
  <2>1. TypeTelegram' 
    BY <1>4, ReturnType DEF TypeOK, TgDiscard
  <2> QED BY <2>1, <1>4 DEF TypeOK, TypeTeam, TypeClaims, TypeSlack, TypeSync, TgDiscard, claims, slVars, syncVars
<1>5. CASE TgJoin
  <2>1. TypeTelegram' /\ Current \in Updates
    BY <1>5, ReturnType DEF TypeOK, TgJoin
  <2>2. TypeTeam'
    BY <2>1, <1>5, UpdateFields DEF TypeOK, TypeTeam, TgJoin, Chats
  <2> QED BY <2>1, <2>2, <1>5 DEF TypeOK, TypeClaims, TypeSlack, TypeSync, TgJoin, claims, slVars, syncVars
<1>6. CASE TgLeave
  <2>1. TypeTelegram' /\ Current \in Updates
    BY <1>6, ReturnType DEF TypeOK, TgLeave, Takes
  <2>2. TypeTeam'
    BY <1>6, <2>1 DEF TypeOK, TypeTeam, TgLeave
  <2> QED
    BY <2>1, <2>2, <1>6
    DEF TypeOK, TypeClaims, TypeSlack, TypeSync, TgLeave, claims, slVars, syncVars
<1>7. CASE TgRemove
  <2>1. TypeTelegram' /\ Current \in Updates
    BY <1>7, ReturnType DEF TypeOK, TgRemove, Takes
  <2>2. TypeTeam'
    BY <1>7, <2>1 DEF TypeOK, TypeTeam, TgRemove
  <2> QED
    BY <2>1, <2>2, <1>7
    DEF TypeOK, TypeClaims, TypeSlack, TypeSync, TgRemove, claims, slVars, syncVars
<1>8. CASE TgAsk
  <2>1. TypeTelegram' /\ Current \in Updates
    BY <1>8, ReturnType DEF TypeOK, TgAsk, Takes
  <2>2. TypeTeam'
    BY <1>8, <2>1, UpdateFields DEF TypeOK, TypeTeam, TgAsk
  <2> QED
    BY <2>1, <2>2, <1>8
    DEF TypeOK, TypeClaims, TypeSlack, TypeSync, TgAsk, claims, slVars, syncVars
<1>9. CASE TgAlready
  <2>1. TypeTelegram' /\ Current \in Updates
    BY <1>9, ReturnType DEF TypeOK, TgAlready, Takes
  <2>2. TypeClaims'
    BY <1>9, <2>1, UpdateFields DEF TypeOK, TypeClaims, TgAlready
  <2> QED
    BY <2>1, <2>2, <1>9
    DEF TypeOK, TypeTeam, TypeSlack, TypeSync, TgAlready, slVars, syncVars
<1>10. CASE TgVoid
  <2>1. TypeTelegram' /\ Current \in Updates
    BY <1>10, ReturnType DEF TypeOK, TgVoid, Takes
  <2>2. TypeClaims'
    BY <1>10, <2>1, UpdateFields DEF TypeOK, TypeClaims, TgVoid, Outcomes
  <2> QED
    BY <2>1, <2>2, <1>10
    DEF TypeOK, TypeTeam, TypeSlack, TypeSync, TgVoid, slVars, syncVars
<1>11. CASE TgClaim
  <2>1. TypeTelegram' /\ Current \in Updates
    BY <1>11, SeqClosure DEF TypeOK, TypeTelegram, TgClaim, Takes, Current, tgVars
  <2>2. TypeClaims'
    BY <1>11, <2>1, UpdateFields DEF TypeOK, TypeClaims, TgClaim
  <2> QED
    BY <2>1, <2>2, <1>11
    DEF TypeOK, TypeTeam, TypeSlack, TypeSync, TgClaim, slVars, syncVars
<1>12. CASE TgSucceed
  <2>1. TypeTelegram' /\ Current \in Updates
    BY <1>12, SeqClosure DEF TypeOK, TypeTelegram, TgSucceed, BusyInv, Current, tgVars
  <2>2. TypeClaims'
    BY <1>12, <2>1, UpdateFields DEF TypeOK, TypeClaims, TgSucceed, Outcomes
  <2> QED
    BY <2>1, <2>2, <1>12
    DEF TypeOK, TypeTeam, TypeSlack, TypeSync, TgSucceed, slVars, syncVars
<1>13. CASE TgFail
  <2>1. TypeTelegram' /\ Current \in Updates
    BY <1>13, ReturnType DEF TypeOK, TgFail, BusyInv
  <2>2. TypeClaims'
    BY <1>13, <2>1, UpdateFields DEF TypeOK, TypeClaims, TgFail, Outcomes
  <2> QED
    BY <2>1, <2>2, <1>13
    DEF TypeOK, TypeTeam, TypeSlack, TypeSync, TgFail, slVars, syncVars
<1>14. CASE TgPost
  <2>1. TypeTelegram' /\ Current \in Updates
    BY <1>14, ReturnType DEF TypeOK, TgPost, BusyInv
  <2>2. TypeSync'
    BY <1>14, <2>1, UpdateFields, PostType DEF TypeOK, TgPost, Reports
  <2> QED
    BY <2>1, <2>2, <1>14
    DEF TypeOK, TypeTeam, TypeClaims, TypeSlack, TgPost, claims, slVars
<1>15. ASSUME NEW e \in Events, SlackSends(e) PROVE TypeOK'
  <2>1. TypeSlack'
    BY <1>15, SeqClosure DEF TypeOK, TypeSlack, SlackSends
  <2> QED
    BY <2>1, <1>15
    DEF TypeOK, TypeTeam, TypeTelegram, TypeClaims, TypeSync, SlackSends, tgVars, claims, syncVars
<1>16. CASE SlAsk
  <2>1. TypeSlack' /\ Head(slInbox) \in Events
    BY <1>16, SeqClosure DEF TypeOK, TypeSlack, SlAsk, SlTakes
  <2>2. TypeTeam'
    BY <1>16, <2>1 DEF TypeOK, TypeTeam, SlAsk, Events
  <2> QED
    BY <2>1, <2>2, <1>16
    DEF TypeOK, TypeTelegram, TypeClaims, TypeSync, SlAsk, tgVars, claims, syncVars
<1>17. CASE SlClick
  <2> DEFINE e == Head(slInbox)
  <2>0. e \in Events /\ Tail(slInbox) \in Seq(Events)
    BY <1>17, SeqClosure DEF TypeOK, TypeSlack, SlClick, SlTakes
  <2>1. e.act \in Actions
    BY <2>0 DEF Events
  <2>2. slRuns' = slRuns \/ slRuns' = [slRuns EXCEPT ![e.act] = @ + 1]
    BY <1>17 DEF SlClick
  <2>3. slRuns' \in [Actions -> Nat]
    BY <2>1, <2>2 DEF TypeOK, TypeSlack
  <2>4. /\ slSent' = slSent
        /\ \/ slPc' = "post" /\ slInbox' = slInbox
           \/ slPc' = "idle" /\ slInbox' = Tail(slInbox)
    BY <1>17 DEF SlClick, SlTakes
  <2>5. slInbox # <<>>
    BY <1>17 DEF SlClick, SlTakes
  <2>6. TypeSlack'
    BY <2>0, <2>3, <2>4, <2>5 DEF TypeOK, TypeSlack
  <2> QED
    BY <2>6, <1>17
    DEF TypeOK, TypeTeam, TypeTelegram, TypeClaims, TypeSync, SlClick, tgVars, claims, syncVars
<1>18. CASE SlPost
  <2>1. TypeSlack' /\ Head(slInbox) \in Events
    BY <1>18, SeqClosure DEF TypeOK, TypeSlack, SlPost
  <2>2. TypeSync'
    BY <1>18, <2>1, PostType DEF TypeOK, SlPost, Reports, Events
  <2> QED
    BY <2>1, <2>2, <1>18
    DEF TypeOK, TypeTeam, TypeTelegram, TypeClaims, SlPost, tgVars, claims
<1>19. CASE SyncTake
  <2>1. TypeSync'
    BY <1>19, SeqClosure DEF TypeOK, TypeSync, SyncTake
  <2> QED
    BY <2>1, <1>19
    DEF TypeOK, TypeTeam, TypeTelegram, TypeClaims, TypeSlack, SyncTake, tgVars, claims, slVars
<1>20. CASE SyncRelay
  <2>1. TypeSync'
    BY <1>20, SeqClosure DEF TypeOK, TypeSync, SyncRelay
  <2> QED
    BY <2>1, <1>20
    DEF TypeOK, TypeTeam, TypeTelegram, TypeClaims, TypeSlack, SyncRelay, tgVars, claims, slVars
<1>21. CASE Crash
  BY <1>21, SeqClosure
  DEF TypeOK, TypeTeam, TypeTelegram, TypeClaims, TypeSlack, TypeSync, Crash,
      Outcomes
<1>22. CASE UNCHANGED vars
  BY <1>22
  DEF TypeOK, TypeTeam, TypeTelegram, TypeClaims, TypeSlack, TypeSync, vars,
      tgVars, claims, slVars, syncVars
<1> QED
  BY <1>1, <1>2, <1>3, <1>4, <1>5, <1>6, <1>7, <1>8, <1>9, <1>10, <1>11,
     <1>12, <1>13, <1>14, <1>15, <1>16, <1>17, <1>18, <1>19, <1>20, <1>21,
     <1>22
  DEF Next, TgHandle, SlHandle, Relay

\* More updates behind it do not change the one at the head of the inbox.
LEMMA HeadKept ==
    ASSUME NEW S, NEW s \in Seq(S), NEW t \in Seq(S), s # <<>>
    PROVE  s \o t # <<>> /\ Head(s \o t) = Head(s)
BY ConcatProperties, HeadTailProperties, EmptySeq

\* The invariant of the claims is inductive, and AtMostOnce with it.
Core == BusyInv /\ ClaimInv /\ AtMostOnce

LEMMA CoreStep ==
    ASSUME ApprovalsAssumption, TypeOK, Core, [Next]_vars
    PROVE  Core'
<1> USE ApprovalsAssumption
<1>0. ASSUME UNCHANGED <<members, tgPc, tgInbox, executed, outcome, tgRuns,
                         crashes>>
      PROVE  Core'
  BY <1>0 DEF Core, BusyInv, ClaimInv, AtMostOnce, Current, Authorized
<1>1. ASSUME tgPc = "idle", tgPc' = "idle",
             UNCHANGED <<executed, outcome, tgRuns, crashes>>
      PROVE  Core'
  BY <1>1 DEF Core, BusyInv, ClaimInv, AtMostOnce
<1>2. CASE Poll
  <2>1. Unfetched \in Seq(Updates) /\ tgInbox \in Seq(Updates)
    BY UnfetchedType DEF TypeOK, TypeTelegram
  <2>2. tgInbox # <<>> => tgInbox' # <<>> /\ Current' = Current
    BY <2>1, <1>2, HeadKept DEF Poll, Current
  <2> QED
    BY <2>2, <1>2
    DEF Poll, Core, BusyInv, ClaimInv, AtMostOnce, Authorized, claims, Current
<1>3. CASE TgDiscard \/ TgJoin \/ TgLeave \/ TgRemove \/ TgAsk
  BY <1>3, <1>1
  DEF TgDiscard, TgJoin, TgLeave, TgRemove, TgAsk, Takes, Return, claims
<1>4. CASE TgAlready
  BY <1>4, <1>1 DEF TgAlready, Takes, Return
<1>5. ASSUME tgPc # "idle" \/ tgInbox # <<>>
      PROVE  Current \in Updates /\ Current.act \in Actions
  BY <1>5, SeqClosure, UpdateFields
  DEF TypeOK, TypeTelegram, Core, BusyInv, Current
<1>6. CASE TgVoid
  <2>1. Current.act \in Actions
    BY <1>5, <1>6 DEF TgVoid, Takes
  <2>2. /\ tgPc = "idle" /\ tgPc' = "idle"
        /\ executed' = executed \cup {Current.act}
        /\ outcome' = [outcome EXCEPT ![Current.act] = "void"]
        /\ outcome[Current.act] = "none"
        /\ UNCHANGED <<tgRuns, crashes>>
    BY <2>1, <1>6 DEF TgVoid, Takes, Return, Core, ClaimInv
  <2>3. ClaimInv'
    BY <2>1, <2>2 DEF Core, ClaimInv, TypeOK, TypeClaims
  <2>4. AtMostOnce'
    BY <2>1, <2>2 DEF Core, AtMostOnce, TypeOK, TypeClaims
  <2> QED
    BY <2>2, <2>3, <2>4 DEF Core, BusyInv
<1>7. CASE TgClaim
  <2>1. Current.act \in Actions
    BY <1>5, <1>7 DEF TgClaim, Takes
  <2>2. outcome[Current.act] = "none"
    BY <2>1, <1>7 DEF TgClaim, Core, ClaimInv
  <2>3. BusyInv'
    BY <2>2, <1>7 DEF TgClaim, Takes, BusyInv, Authorized, Current, tgVars
  <2>4. ClaimInv'
    BY <2>1, <1>7 DEF TgClaim, Takes, Core, ClaimInv, Current, tgVars
  <2> QED
    BY <2>3, <2>4, <1>7 DEF TgClaim, Core, AtMostOnce
<1>8. CASE TgSucceed
  <2>1. Current.act \in Actions /\ Current' = Current
    BY <1>5, <1>8 DEF TgSucceed, Current, tgVars
  <2>2. BusyInv'
    BY <2>1, <1>8
    DEF TgSucceed, Core, BusyInv, Authorized, TypeOK, TypeClaims, tgVars
  <2>3. ClaimInv'
    BY <2>1, <1>8
    DEF TgSucceed, Core, BusyInv, ClaimInv, TypeOK, TypeClaims
  <2>4. AtMostOnce'
    BY <2>1, <1>8
    DEF TgSucceed, Core, BusyInv, AtMostOnce, TypeOK, TypeClaims
  <2> QED
    BY <2>2, <2>3, <2>4 DEF Core
<1>9. CASE TgFail
  <2>1. Current.act \in Actions
    BY <1>5, <1>9 DEF TgFail
  <2>2. ClaimInv'
    BY <2>1, <1>9
    DEF TgFail, Core, BusyInv, ClaimInv, TypeOK, TypeClaims
  <2>3. AtMostOnce'
    BY <2>1, <1>9
    DEF TgFail, Core, BusyInv, AtMostOnce, TypeOK, TypeClaims
  <2> QED
    BY <2>2, <2>3, <1>9 DEF Core, BusyInv, TgFail, Return
<1>10. CASE TgPost
  BY <1>10 DEF TgPost, Return, Core, BusyInv, ClaimInv, AtMostOnce, claims
<1>11. CASE Crash
  BY <1>11 DEF Crash, Core, BusyInv, ClaimInv, AtMostOnce, TypeOK, TypeClaims
<1>12. CASE \/ \E a \in Actions : Propose(a)
            \/ \E u \in Updates : UserSends(u)
            \/ \E e \in Events : SlackSends(e)
            \/ SlHandle \/ Relay \/ UNCHANGED vars
  BY <1>12, <1>0
  DEF Propose, UserSends, SlackSends, SlHandle, SlAsk, SlClick, SlPost, Relay,
      SyncTake, SyncRelay, vars, tgVars, claims
<1> QED
  BY <1>2, <1>3, <1>4, <1>6, <1>7, <1>8, <1>9, <1>10, <1>11, <1>12
  DEF Next, TgHandle

LEMMA InitInv ==
    ASSUME ApprovalsAssumption, Init
    PROVE  TypeOK /\ Core
<1>1. TypeOK
  BY SeqClosure
  DEF ApprovalsAssumption, Init, TypeOK, TypeTeam, TypeTelegram, TypeClaims,
      TypeSlack, TypeSync, Outcomes
<1> QED
  BY <1>1 DEF Init, Core, BusyInv, ClaimInv, AtMostOnce

LEMMA Invariant == Spec => [](TypeOK /\ Core)
<1>1. TypeOK /\ Core /\ [Next]_vars => (TypeOK /\ Core)'
  BY TypeStep, CoreStep, ApprovalsAssumption DEF Core
<1> QED
  BY <1>1, InitInv, ApprovalsAssumption, PTL DEF Spec

\* Every variable keeps its type; the channel never exceeds its capacity.
THEOREM TypeCorrect == Spec => []TypeOK
BY Invariant, PTL

\* First-approver-wins (telegram.go:682-690): one run of an action's
\* operation in each life of the process.
THEOREM FirstApproverWins == Spec => []AtMostOnce
<1>1. TypeOK /\ Core => AtMostOnce
  BY DEF Core
<1> QED
  BY <1>1, Invariant, PTL

\* The approver of a running operation is authorized (telegram.go:678).
THEOREM ApproverAuthorized == Spec => []ExecutionAuthorized
<1>1. TypeOK /\ Core => ExecutionAuthorized
  BY DEF Core, BusyInv, ExecutionAuthorized
<1> QED
  BY <1>1, Invariant, PTL

\* Being told "already" never comes before an outcome.
LEMMA ToldStep ==
    ASSUME ApprovalsAssumption, TypeOK, Core, AlreadyMeansSettled, [Next]_vars
    PROVE  AlreadyMeansSettled'
<1>0. ASSUME UNCHANGED <<outcome, toldAlready>> PROVE AlreadyMeansSettled'
  BY <1>0 DEF AlreadyMeansSettled
<1>1. CASE TgAlready
  <2>1. outcome[Current.act] # "none"
    BY <1>1 DEF TgAlready, Takes, Core, ClaimInv
  <2> QED
    BY <2>1, <1>1 DEF TgAlready, AlreadyMeansSettled
<1>2. ASSUME NEW o \in {"ok", "err", "void"},
             outcome' = [outcome EXCEPT ![Current.act] = o],
             UNCHANGED toldAlready
      PROVE  AlreadyMeansSettled'
  BY <1>2 DEF AlreadyMeansSettled, TypeOK, TypeClaims
<1>3. CASE TgVoid \/ TgSucceed \/ TgFail
  BY <1>3, <1>2 DEF TgVoid, TgSucceed, TgFail
<1>4. CASE Crash
  BY <1>4 DEF Crash, AlreadyMeansSettled
<1>5. CASE \/ \E a \in Actions : Propose(a)
           \/ \E u \in Updates : UserSends(u)
           \/ \E e \in Events : SlackSends(e)
           \/ Poll \/ TgDiscard \/ TgJoin \/ TgLeave \/ TgRemove \/ TgAsk
           \/ TgClaim \/ TgPost \/ SlHandle \/ Relay \/ UNCHANGED vars
  BY <1>5, <1>0
  DEF Propose, UserSends, SlackSends, Poll, TgDiscard, TgJoin, TgLeave,
      TgRemove, TgAsk, TgClaim, TgPost, SlHandle, SlAsk, SlClick, SlPost,
      Relay, SyncTake, SyncRelay, vars, claims
<1> QED
  BY <1>1, <1>3, <1>4, <1>5 DEF Next, TgHandle

\* "Already executed by a teammate" (telegram.go:685) is only said of an action
\* that has an outcome.
THEOREM AlreadyIsSettled == Spec => []AlreadyMeansSettled
<1>1. Init => AlreadyMeansSettled
  BY DEF Init, AlreadyMeansSettled
<1>2. TypeOK /\ Core /\ AlreadyMeansSettled /\ [Next]_vars => AlreadyMeansSettled'
  BY ToldStep, ApprovalsAssumption
<1> QED
  BY <1>1, <1>2, Invariant, PTL DEF Spec

(***************************************************************************)
(* The reports.                                                            *)
(***************************************************************************)

\* What an append and a hand-over do to a queue seen as a concatenation.
LEMMA QueueLemma ==
    ASSUME NEW S, NEW d \in Seq(S), NEW h \in Seq(S), NEW q \in Seq(S)
    PROVE  /\ \A r \in S : d \o h \o Append(q, r) = Append(d \o h \o q, r)
           /\ h = <<>> /\ q # <<>> =>
                  d \o <<Head(q)>> \o Tail(q) = d \o h \o q
           /\ h # <<>> /\ Len(h) <= 1 =>
                  Append(d, Head(h)) \o <<>> \o q = d \o h \o q
<1>1. ASSUME NEW r \in S PROVE d \o h \o Append(q, r) = Append(d \o h \o q, r)
  <2>1. Append(q, r) = q \o <<r>> /\ <<r>> \in Seq(S)
    BY AppendIsConcat
  <2>2. d \o h \in Seq(S) /\ d \o h \o q \in Seq(S)
    BY ConcatProperties
  <2>3. Append(d \o h \o q, r) = (d \o h \o q) \o <<r>>
    BY <2>2, AppendIsConcat
  <2> QED
    BY <2>1, <2>2, <2>3, ConcatAssociative
<1>2. ASSUME h = <<>>, q # <<>>
      PROVE  d \o <<Head(q)>> \o Tail(q) = d \o h \o q
  <2>1. Head(q) \in S /\ Tail(q) \in Seq(S) /\ <<Head(q)>> \in Seq(S)
    BY <1>2, HeadTailProperties
  <2>2. q = <<Head(q)>> \o Tail(q)
    <3>1. /\ Len(q) \in Nat \ {0} /\ Len(Tail(q)) = Len(q) - 1
          /\ \A i \in 1..Len(Tail(q)) : Tail(q)[i] = q[i + 1]
          /\ Head(q) = q[1]
      BY <1>2, HeadTailProperties, EmptySeq
    <3>2. /\ <<Head(q)>> \o Tail(q) \in Seq(S)
          /\ Len(<<Head(q)>> \o Tail(q)) = 1 + Len(Tail(q))
          /\ \A i \in 1..(1 + Len(Tail(q))) :
                 (<<Head(q)>> \o Tail(q))[i] =
                     IF i <= 1 THEN <<Head(q)>>[i] ELSE Tail(q)[i - 1]
      BY <2>1, ConcatProperties
    <3> QED
      BY <3>1, <3>2, SeqEqual
  <2> QED
    BY <1>2, <2>1, <2>2, ConcatAssociative, ConcatEmptySeq
<1>3. ASSUME h # <<>>, Len(h) <= 1
      PROVE  Append(d, Head(h)) \o <<>> \o q = d \o h \o q
  <2>0. Len(h) \in Nat /\ Len(h) # 0
    BY <1>3, EmptySeq
  <2>1. Head(h) \in S /\ Len(h) = 1 /\ Head(h) = h[1]
    <3>1. Len(h) = 1
      <4> \A n \in Nat : n # 0 /\ n <= 1 => n = 1
        OBVIOUS
      <4> QED
        BY <1>3, <2>0
    <3> QED
      BY <1>3, <3>1, HeadTailProperties
  <2>2. h = <<Head(h)>>
    BY <2>1, SeqEqual
  <2>3. Append(d, Head(h)) = d \o <<Head(h)>> /\ Append(d, Head(h)) \in Seq(S)
    BY <2>1, AppendIsConcat, AppendProperties
  <2> QED
    BY <2>2, <2>3, ConcatEmptySeq
<1> QED
  BY <1>1, <1>2, <1>3

LEMMA FifoStep ==
    ASSUME ApprovalsAssumption, TypeOK, Core, ReportsFifo, [Next]_vars
    PROVE  ReportsFifo'
<1>0. relayed \in Seq(Reports) /\ syncing \in Seq(Reports)
      /\ channel \in Seq(Reports) /\ Len(syncing) <= 1
  BY DEF TypeOK, TypeSync
<1>1. ASSUME NEW r \in Reports, Post(r) PROVE ReportsFifo'
  <2>1. relayed \o syncing \o Append(channel, r)
            = Append(relayed \o syncing \o channel, r)
    BY <1>0, <1>1, QueueLemma
  <2> QED
    BY <2>1, <1>1 DEF Post, ReportsFifo
<1>2. CASE TgPost
  <2>1. Current \in Updates
    BY <1>2, SeqClosure DEF TgPost, Core, BusyInv, TypeOK, TypeTelegram, Current
  <2>2. [from |-> "Telegram", act |-> Current.act] \in Reports
    BY <2>1, UpdateFields DEF Reports
  <2> QED
    BY <2>2, <1>1, <1>2 DEF TgPost
<1>3. CASE SlPost
  <2>1. Head(slInbox) \in Events
    BY <1>3, SeqClosure DEF SlPost, TypeOK, TypeSlack
  <2>2. [from |-> "Slack", act |-> Head(slInbox).act] \in Reports
    BY <2>1 DEF Reports, Events
  <2> QED
    BY <2>2, <1>1, <1>3 DEF SlPost
<1>4. CASE SyncTake
  BY <1>0, <1>4, QueueLemma DEF SyncTake, ReportsFifo
<1>5. CASE SyncRelay
  <2>1. Append(relayed, Head(syncing)) \o <<>> \o channel
            = relayed \o syncing \o channel
    <3>1. syncing # <<>>
      BY <1>5 DEF SyncRelay
    <3> HIDE DEF Reports
    <3> QED
      BY <1>0, <3>1, QueueLemma
  <2> QED
    BY <2>1, <1>5 DEF SyncRelay, ReportsFifo
<1>6. CASE Crash
  BY <1>6, SeqClosure, ConcatEmptySeq DEF Crash, ReportsFifo
<1>7. ASSUME UNCHANGED syncVars PROVE ReportsFifo'
  BY <1>7 DEF syncVars, ReportsFifo
<1> QED
  BY <1>2, <1>3, <1>4, <1>5, <1>6, <1>7
  DEF Next, TgHandle, SlHandle, Relay, vars, Propose, UserSends, Poll,
      TgDiscard, TgJoin, TgLeave, TgRemove, TgAsk, TgAlready, TgVoid, TgClaim,
      TgSucceed, TgFail, SlackSends, SlAsk, SlClick

\* Reports are relayed in the order they were posted, none lost or doubled
\* (main.go:264-274).
THEOREM ReportsInOrder == Spec => []ReportsFifo
<1>1. Init => ReportsFifo
  BY ConcatEmptySeq, EmptySeq DEF Init, ReportsFifo
<1>2. (TypeOK /\ Core) /\ ReportsFifo /\ [Next]_vars => ReportsFifo'
  BY FifoStep, ApprovalsAssumption
<1> QED
  BY <1>1, <1>2, Invariant, PTL DEF Spec

LEMMA OccursAppend ==
    ASSUME NEW S, NEW s \in Seq(S), NEW x \in S, NEW y
    PROVE  Occurs(y, Append(s, x)) <=> Occurs(y, s) \/ y = x
<1>1. /\ DOMAIN Append(s, x) = 1..(Len(s) + 1) /\ DOMAIN s = 1..Len(s)
      /\ Len(s) \in Nat
      /\ \A i \in 1..Len(s) : Append(s, x)[i] = s[i]
      /\ Append(s, x)[Len(s) + 1] = x
  BY AppendProperties, LenProperties
<1> QED
  BY <1>1 DEF Occurs

LEMMA ReportStep ==
    ASSUME ApprovalsAssumption, TypeOK, Core, ReportIffSucceeded, [Next]_vars
    PROVE  ReportIffSucceeded'
<1> DEFINE tg(a) == [from |-> "Telegram", act |-> a]
<1>0. posted \in Seq(Reports)
  BY DEF TypeOK, TypeSync
<1>1. ASSUME \/ tgPc = "idle" /\ tgPc' = "idle"
             \/ UNCHANGED <<tgPc, Current>>,
             UNCHANGED <<outcome, posted>>
      PROVE  ReportIffSucceeded'
  BY <1>1 DEF ReportIffSucceeded, Busy
<1>2. CASE Poll
  <2>1. Unfetched \in Seq(Updates) /\ tgInbox \in Seq(Updates)
    BY UnfetchedType DEF TypeOK, TypeTelegram
  <2>2. tgPc # "idle" => Current' = Current
    BY <2>1, <1>2, HeadKept DEF Poll, Current, Core, BusyInv
  <2> QED
    BY <2>2, <1>2 DEF Poll, ReportIffSucceeded, Busy, claims, syncVars
<1>3. CASE TgDiscard \/ TgJoin \/ TgLeave \/ TgRemove \/ TgAsk \/ TgAlready
  BY <1>3, <1>1
  DEF TgDiscard, TgJoin, TgLeave, TgRemove, TgAsk, TgAlready, Takes, Return,
      claims, syncVars
<1>4. ASSUME tgPc # "idle" \/ tgInbox # <<>>
      PROVE  Current.act \in Actions
  BY <1>4, SeqClosure, UpdateFields
  DEF TypeOK, TypeTelegram, Core, BusyInv, Current
<1>5. CASE TgVoid
  <2>1. Current.act \in Actions
    BY <1>4, <1>5 DEF TgVoid, Takes
  <2>2. /\ tgPc = "idle" /\ tgPc' = "idle" /\ posted' = posted
        /\ outcome[Current.act] = "none"
        /\ outcome' = [outcome EXCEPT ![Current.act] = "void"]
    BY <1>5, <2>1 DEF TgVoid, Takes, Return, syncVars, Core, ClaimInv
  <2> QED
    BY <2>1, <2>2 DEF ReportIffSucceeded, Busy, TypeOK, TypeClaims
<1>6. CASE TgClaim
  <2>1. Current.act \in Actions /\ outcome[Current.act] = "none"
    BY <1>4, <1>6 DEF TgClaim, Takes, Core, ClaimInv
  <2>2. /\ tgPc = "idle" /\ Current' = Current
        /\ outcome' = outcome /\ posted' = posted
    BY <1>6 DEF TgClaim, Takes, Current, tgVars, syncVars
  <2> QED
    BY <2>1, <2>2 DEF ReportIffSucceeded, Busy
<1>7. CASE TgSucceed
  <2>1. /\ tgPc = "exec" /\ tgPc' = "post" /\ Current' = Current
        /\ posted' = posted
        /\ outcome' = [outcome EXCEPT ![Current.act] = "ok"]
        /\ Current.act \in Actions /\ outcome[Current.act] = "none"
    BY <1>4, <1>7 DEF TgSucceed, Current, tgVars, syncVars, Core, BusyInv
  <2> QED
    BY <2>1 DEF ReportIffSucceeded, Busy, TypeOK, TypeClaims
<1>8. CASE TgFail
  <2>1. /\ tgPc = "exec" /\ tgPc' = "idle" /\ posted' = posted
        /\ outcome' = [outcome EXCEPT ![Current.act] = "err"]
        /\ Current.act \in Actions /\ outcome[Current.act] = "none"
    BY <1>4, <1>8 DEF TgFail, Return, syncVars, Core, BusyInv
  <2> QED
    BY <2>1 DEF ReportIffSucceeded, Busy, TypeOK, TypeClaims
<1>9. CASE TgPost
  <2>1. /\ tgPc = "post" /\ tgPc' = "idle" /\ outcome' = outcome
        /\ Current.act \in Actions /\ outcome[Current.act] = "ok"
        /\ posted' = Append(posted, tg(Current.act))
    BY <1>4, <1>9 DEF TgPost, Post, Return, claims, Core, BusyInv
  <2>2. tg(Current.act) \in Reports
    BY <2>1 DEF Reports
  <2>3. \A a \in Actions : Occurs(tg(a), posted')
                               <=> Occurs(tg(a), posted) \/ a = Current.act
    BY <1>0, <2>1, <2>2, OccursAppend
  <2> QED
    BY <2>1, <2>3 DEF ReportIffSucceeded, Busy
<1>10. CASE SlPost
  <2>1. PICK r \in Reports : r.from = "Slack" /\ posted' = Append(posted, r)
    <3>1. Head(slInbox) \in Events
      BY <1>10, SeqClosure DEF SlPost, TypeOK, TypeSlack
    <3>2. [from |-> "Slack", act |-> Head(slInbox).act] \in Reports
      BY <3>1 DEF Reports, Events
    <3> QED
      BY <3>2, <1>10 DEF SlPost, Post
  <2>2. \A a \in Actions : Occurs(tg(a), posted') <=> Occurs(tg(a), posted)
    <3>1. \A a \in Actions : tg(a) # r
      BY <2>1
    <3> QED
      BY <1>0, <2>1, <3>1, OccursAppend
  <2>3. UNCHANGED <<tgPc, Current, outcome>>
    BY <1>10 DEF SlPost, tgVars, claims, Current
  <2> QED
    BY <2>2, <2>3 DEF ReportIffSucceeded, Busy
<1>11. CASE Crash
  BY <1>11 DEF Crash, ReportIffSucceeded, Busy, Occurs
<1>12. CASE \/ \E a \in Actions : Propose(a)
            \/ \E u \in Updates : UserSends(u)
            \/ \E e \in Events : SlackSends(e)
            \/ SlAsk \/ SlClick \/ Relay \/ UNCHANGED vars
  BY <1>12, <1>1
  DEF Propose, UserSends, SlackSends, SlAsk, SlClick, Relay, SyncTake,
      SyncRelay, vars, tgVars, claims, syncVars, Current
<1> QED
  BY <1>2, <1>3, <1>5, <1>6, <1>7, <1>8, <1>9, <1>10, <1>11, <1>12
  DEF Next, TgHandle, SlHandle

\* Slack hears of a Telegram approval exactly when its operation succeeded
\* (telegram.go:700-701 and its siblings).
THEOREM ReportsMatchOutcomes == Spec => []ReportIffSucceeded
<1>1. Init => ReportIffSucceeded
  BY DEF Init, ReportIffSucceeded, Busy, Occurs
<1>2. (TypeOK /\ Core) /\ ReportIffSucceeded /\ [Next]_vars
          => ReportIffSucceeded'
  BY ReportStep, ApprovalsAssumption
<1> QED
  BY <1>1, <1>2, Invariant, PTL DEF Spec

(***************************************************************************)
(* The refinement of ActionLedger.                                         *)
(***************************************************************************)

LEMMA SettledValues ==
    /\ Settled["none"] = "open" /\ Settled["ok"] = "done"
    /\ Settled["err"] = "failed" /\ Settled["void"] = "void"
    /\ \A o \in Outcomes : Settled[o] # "running"
BY DEF Settled, Outcomes

LEMMA LedgerStep ==
    ASSUME ApprovalsAssumption, TypeOK, Core, [Next]_vars
    PROVE  [Ledger!Next]_LedgerOf
<1> DEFINE Same == UNCHANGED LedgerOf
<1>1. ASSUME \/ tgPc # "exec" /\ tgPc' # "exec"
             \/ UNCHANGED <<tgPc, Current>>,
             UNCHANGED outcome
      PROVE  Same
  BY <1>1 DEF LedgerOf
<1>2. CASE Poll
  <2>1. Unfetched \in Seq(Updates) /\ tgInbox \in Seq(Updates)
    BY UnfetchedType DEF TypeOK, TypeTelegram
  <2>2. tgPc = "exec" => Current' = Current
    BY <2>1, <1>2, HeadKept DEF Poll, Current, Core, BusyInv
  <2> QED
    BY <2>2, <1>2 DEF Poll, LedgerOf, claims
<1>3. CASE TgDiscard \/ TgJoin \/ TgLeave \/ TgRemove \/ TgAsk \/ TgAlready
           \/ TgPost
  BY <1>3, <1>1
  DEF TgDiscard, TgJoin, TgLeave, TgRemove, TgAsk, TgAlready, TgPost, Takes,
      Return, claims
<1>4. ASSUME tgPc # "idle" \/ tgInbox # <<>>
      PROVE  Current.act \in Actions
  BY <1>4, SeqClosure, UpdateFields
  DEF TypeOK, TypeTelegram, Core, BusyInv, Current
<1>5. ASSUME tgPc = "idle"
      PROVE  \A b \in Actions : LedgerOf[b] # "running"
  BY <1>5, SettledValues DEF LedgerOf, TypeOK, TypeClaims
<1>6. CASE TgVoid
  <2>1. /\ Current.act \in Actions /\ outcome[Current.act] = "none"
        /\ tgPc = "idle" /\ tgPc' = "idle"
        /\ outcome' = [outcome EXCEPT ![Current.act] = "void"]
    BY <1>4, <1>6 DEF TgVoid, Takes, Return, Core, ClaimInv
  <2>2. Ledger!Move(Current.act, "open", "void")
    BY <2>1, SettledValues DEF LedgerOf, Ledger!Move, TypeOK, TypeClaims
  <2> QED
    BY <2>1, <2>2, <1>5 DEF Ledger!Next, Ledger!Waive
<1>7. CASE TgClaim
  <2>1. /\ Current.act \in Actions /\ outcome[Current.act] = "none"
        /\ tgPc = "idle" /\ tgPc' = "exec"
        /\ UNCHANGED <<outcome, Current>>
    BY <1>4, <1>7 DEF TgClaim, Takes, Core, ClaimInv, Current, tgVars
  <2>2. Ledger!Move(Current.act, "open", "running")
    BY <2>1, SettledValues DEF LedgerOf, Ledger!Move
  <2> QED
    BY <2>1, <2>2, <1>5 DEF Ledger!Next, Ledger!Claim
<1>8. CASE TgSucceed
  <2>1. /\ Current.act \in Actions /\ tgPc = "exec" /\ tgPc' = "post"
        /\ outcome' = [outcome EXCEPT ![Current.act] = "ok"]
    BY <1>4, <1>8 DEF TgSucceed
  <2>2. Ledger!Move(Current.act, "running", "done")
    BY <2>1, SettledValues DEF LedgerOf, Ledger!Move, TypeOK, TypeClaims
  <2> QED
    BY <2>1, <2>2 DEF Ledger!Next, Ledger!Settle
<1>9. CASE TgFail
  <2>1. /\ Current.act \in Actions /\ tgPc = "exec" /\ tgPc' = "idle"
        /\ outcome' = [outcome EXCEPT ![Current.act] = "err"]
    BY <1>4, <1>9 DEF TgFail, Return
  <2>2. Ledger!Move(Current.act, "running", "failed")
    BY <2>1, SettledValues DEF LedgerOf, Ledger!Move, TypeOK, TypeClaims
  <2> QED
    BY <2>1, <2>2 DEF Ledger!Next, Ledger!Settle
<1>10. CASE Crash
  BY <1>10, SettledValues DEF Crash, LedgerOf, Ledger!Next, Ledger!Restart
<1>11. CASE \/ \E a \in Actions : Propose(a)
            \/ \E u \in Updates : UserSends(u)
            \/ \E e \in Events : SlackSends(e)
            \/ SlHandle \/ Relay \/ UNCHANGED vars
  BY <1>11, <1>1
  DEF Propose, UserSends, SlackSends, SlHandle, SlAsk, SlClick, SlPost, Relay,
      SyncTake, SyncRelay, vars, tgVars, claims, Current
<1> QED
  BY <1>2, <1>3, <1>6, <1>7, <1>8, <1>9, <1>10, <1>11 DEF Next, TgHandle

\* The approvals implement the ledger: one action runs at a time, an action
\* settles once, only a restart opens it again (telegram.go:682-690).
THEOREM ImplementsLedger == Spec => LedgerSpec
<1>1. Init => Ledger!Init
  BY SettledValues DEF Init, LedgerOf, Ledger!Init
<1>2. (TypeOK /\ Core) /\ [Next]_vars => [Ledger!Next]_LedgerOf
  BY LedgerStep, ApprovalsAssumption
<1> QED
  BY <1>1, <1>2, Invariant, PTL DEF Spec, LedgerSpec, Ledger!Spec

(***************************************************************************)
(* The order of updates, and the clicks behind the operations.             *)
(***************************************************************************)

SuffixOf(s, t) ==
    /\ Len(s) <= Len(t)
    /\ s = SubSeq(t, Len(t) - Len(s) + 1, Len(t))

\* Position i of s, counted from the end, is position j of t.
Aligned(s, t) ==
    \A i \in 1..Len(s), j \in 1..Len(t) : j - i = Len(t) - Len(s) => s[i] = t[j]

LEMMA SuffixPointwise ==
    ASSUME NEW S, NEW s \in Seq(S), NEW t \in Seq(S), Len(s) <= Len(t)
    PROVE  SuffixOf(s, t) <=> Aligned(s, t)
<1> DEFINE m == Len(t) - Len(s) + 1
           u == SubSeq(t, m, Len(t))
<1>1. Len(s) \in Nat /\ Len(t) \in Nat
  BY LenProperties
<1>2. m \in 1..Len(t) + 1 /\ Len(t) - m + 1 = Len(s)
  BY <1>1
<1>3. \A i \in m..Len(t) : t[i] \in S
  BY <1>2, ElementOfSeq
<1>4. /\ u \in Seq(S)
      /\ Len(u) = Len(s)
      /\ \A i \in 1..Len(t) - m + 1 : u[i] = t[m + i - 1]
  <2>1. m \in Int /\ Len(t) \in Int
    BY <1>1, <1>2
  <2>2. /\ SubSeq(t, m, Len(t)) \in Seq(S)
        /\ Len(SubSeq(t, m, Len(t))) = IF m <= Len(t) THEN Len(t) - m + 1 ELSE 0
        /\ \A i \in 1..Len(t) - m + 1 : SubSeq(t, m, Len(t))[i] = t[m + i - 1]
    BY <2>1, <1>3, SubSeqProperties
  <2> QED
    BY <2>2, <1>1, <1>2
<1>5. ASSUME NEW i \in 1..Len(s), NEW j \in 1..Len(t), j - i = Len(t) - Len(s)
      PROVE  u[i] = t[j]
  <2>1. u[i] = t[m + i - 1]
    BY <1>2, <1>4
  <2>2. m + i - 1 = j
    BY <1>1, <1>5
  <2> QED
    BY <2>1, <2>2
<1>6. \A i \in 1..Len(s) : \E j \in 1..Len(t) : j - i = Len(t) - Len(s)
  <2> SUFFICES ASSUME NEW i \in 1..Len(s)
               PROVE  \E j \in 1..Len(t) : j - i = Len(t) - Len(s)
    OBVIOUS
  <2> DEFINE j == Len(t) - Len(s) + i
  <2>1. j \in 1..Len(t) /\ j - i = Len(t) - Len(s)
    BY <1>1
  <2> HIDE DEF j
  <2> QED
    BY <2>1
<1>7. s = u <=> \A i \in 1..Len(s) : s[i] = u[i]
  BY <1>4, SeqEqual
<1>8. SuffixOf(s, t) <=> s = u
  BY DEF SuffixOf
<1> HIDE DEF u, m
<1>9. Aligned(s, t) <=> \A i \in 1..Len(s) : s[i] = u[i]
  BY <1>5, <1>6 DEF Aligned
<1> QED
  BY <1>7, <1>8, <1>9

\* Both grow by the same element.
LEMMA SuffixAppend ==
    ASSUME NEW S, NEW s \in Seq(S), NEW t \in Seq(S), NEW e \in S, SuffixOf(s, t)
    PROVE  SuffixOf(Append(s, e), Append(t, e))
<1>1. Len(s) \in Nat /\ Len(t) \in Nat /\ Len(s) <= Len(t) /\ Aligned(s, t)
  BY SuffixPointwise, LenProperties DEF SuffixOf
<1>2. /\ Append(s, e) \in Seq(S) /\ Len(Append(s, e)) = Len(s) + 1
      /\ \A i \in 1..Len(s) : Append(s, e)[i] = s[i]
      /\ Append(s, e)[Len(s) + 1] = e
      /\ Append(t, e) \in Seq(S) /\ Len(Append(t, e)) = Len(t) + 1
      /\ \A i \in 1..Len(t) : Append(t, e)[i] = t[i]
      /\ Append(t, e)[Len(t) + 1] = e
  BY AppendProperties
<1>3. ASSUME NEW i \in 1..Len(s) + 1, NEW j \in 1..Len(t) + 1,
             j - i = Len(t) + 1 - (Len(s) + 1)
      PROVE  Append(s, e)[i] = Append(t, e)[j]
  <2>1. \/ i = Len(s) + 1 /\ j = Len(t) + 1
        \/ i \in 1..Len(s) /\ j \in 1..Len(t) /\ j - i = Len(t) - Len(s)
    BY <1>1, <1>3
  <2>2. CASE i = Len(s) + 1 /\ j = Len(t) + 1
    BY <1>2, <2>2
  <2>3. CASE i \in 1..Len(s) /\ j \in 1..Len(t) /\ j - i = Len(t) - Len(s)
    BY <1>1, <1>2, <2>3 DEF Aligned
  <2> QED
    BY <2>1, <2>2, <2>3
<1>4. Aligned(Append(s, e), Append(t, e))
  BY <1>2, <1>3 DEF Aligned
<1>5. Len(Append(s, e)) <= Len(Append(t, e))
  BY <1>1, <1>2
<1> QED
  BY <1>2, <1>4, <1>5, SuffixPointwise

\* A suffix of a suffix.
LEMMA SuffixDrop ==
    ASSUME NEW S, NEW s \in Seq(S), NEW t \in Seq(S), NEW k \in Nat,
           k <= Len(s), SuffixOf(s, t)
    PROVE  SuffixOf(SubSeq(s, k + 1, Len(s)), t)
<1> DEFINE u == SubSeq(s, k + 1, Len(s))
<1>1. Len(s) \in Nat /\ Len(t) \in Nat /\ Len(s) <= Len(t) /\ Aligned(s, t)
  BY SuffixPointwise, LenProperties DEF SuffixOf
<1>2. /\ u \in Seq(S)
      /\ Len(u) = Len(s) - k
      /\ \A i \in 1..Len(s) - (k + 1) + 1 : u[i] = s[k + 1 + i - 1]
  <2>1. k + 1 \in Int /\ Len(s) \in Int /\ \A i \in k + 1..Len(s) : s[i] \in S
    <3>1. k + 1 \in Int /\ Len(s) \in Int /\ \A i \in k + 1..Len(s) : i \in 1..Len(s)
      BY <1>1
    <3> QED
      BY <3>1, ElementOfSeq
  <2>2. /\ SubSeq(s, k + 1, Len(s)) \in Seq(S)
        /\ Len(SubSeq(s, k + 1, Len(s))) =
               IF k + 1 <= Len(s) THEN Len(s) - (k + 1) + 1 ELSE 0
        /\ \A i \in 1..Len(s) - (k + 1) + 1 :
               SubSeq(s, k + 1, Len(s))[i] = s[k + 1 + i - 1]
    BY <2>1, SubSeqProperties
  <2>3. (IF k + 1 <= Len(s) THEN Len(s) - (k + 1) + 1 ELSE 0) = Len(s) - k
    BY <1>1
  <2> QED
    BY <2>2, <2>3
<1> HIDE DEF u
<1>3. ASSUME NEW i \in 1..Len(u), NEW j \in 1..Len(t), j - i = Len(t) - Len(u)
      PROVE  u[i] = t[j]
  <2>1. \A n, l \in Nat : \A x \in 1..n - k, y \in 1..l :
            y - x = l - (n - k) =>
                /\ x \in 1..n - (k + 1) + 1
                /\ k + 1 + x - 1 \in 1..n
                /\ y - (k + 1 + x - 1) = l - n
    OBVIOUS
  <2>4. /\ i \in 1..Len(s) - (k + 1) + 1
        /\ k + 1 + i - 1 \in 1..Len(s)
        /\ j - (k + 1 + i - 1) = Len(t) - Len(s)
    <3>1. i \in 1..Len(s) - k /\ j - i = Len(t) - (Len(s) - k)
      BY <1>2, <1>3
    <3> QED
      BY <1>1, <2>1, <3>1
  <2>2. u[i] = s[k + 1 + i - 1]
    BY <1>2, <2>4
  <2>3. s[k + 1 + i - 1] = t[j]
    BY <1>1, <2>4 DEF Aligned
  <2> QED
    BY <2>2, <2>3
<1>4. Len(u) <= Len(t)
  BY <1>1, <1>2
<1>5. SuffixOf(u, t)
  BY <1>2, <1>3, <1>4, SuffixPointwise DEF Aligned
<1> QED
  BY <1>5 DEF u

LEMMA SuffixTail ==
    ASSUME NEW S, NEW s \in Seq(S), NEW t \in Seq(S), s # <<>>, SuffixOf(s, t)
    PROVE  SuffixOf(Tail(s), t)
<1>1. Tail(s) = SubSeq(s, 2, Len(s))
  BY TailIsSubSeq
<1>2. Len(s) \in Nat /\ Len(s) # 0
  BY EmptySeq, LenProperties
<1>3. 1 \in Nat /\ 1 <= Len(s) /\ 1 + 1 = 2
  BY <1>2
<1>4. SuffixOf(SubSeq(s, 1 + 1, Len(s)), t)
  BY <1>3, SuffixDrop
<1> QED
  BY <1>1, <1>3, <1>4

LEMMA SuffixEnds ==
    ASSUME NEW S, NEW t \in Seq(S)
    PROVE  SuffixOf(<<>>, t) /\ SuffixOf(t, t)
<1>1. <<>> \in Seq(S) /\ Len(<<>>) = 0 /\ Len(t) \in Nat
  BY SeqClosure
<1>2. Aligned(<<>>, t) /\ Aligned(t, t)
  BY <1>1 DEF Aligned
<1>3. Len(<<>>) <= Len(t) /\ Len(t) <= Len(t)
  BY <1>1
<1>4. SuffixOf(t, t)
  BY <1>2, <1>3, SuffixPointwise
<1>5. SuffixOf(<<>>, t)
  BY <1>1, <1>2, <1>3, SuffixPointwise
<1> QED
  BY <1>4, <1>5

\* Everything received in this life, and what the next call will fetch.
Seen == handled \o tgInbox \o Unfetched

\* What Telegram holds is the end of what was sent: after a crash all of it comes
\* again.
OrderInv ==
    /\ SuffixOf(tgServer, sent)
    /\ SuffixOf(Seen, sent)
    /\ crashes = 0 => Seen = sent

LEMMA SeenType ==
    ASSUME TypeOK
    PROVE  /\ handled \in Seq(Updates) /\ tgInbox \in Seq(Updates)
           /\ Unfetched \in Seq(Updates) /\ handled \o tgInbox \in Seq(Updates)
           /\ Seen \in Seq(Updates) /\ sent \in Seq(Updates)
BY UnfetchedType, ConcatProperties DEF TypeOK, TypeTelegram, Seen

\* Sequences in a row may be joined from either end.
LEMMA Joined ==
    ASSUME NEW d \in Seq(Updates), NEW q \in Seq(Updates), NEW e \in Seq(Updates)
    PROVE  d \o (q \o e) = (d \o q) \o e
BY ConcatAssociative

\* What is fetched goes to the end of the inbox.
LEMMA Regrouped ==
    ASSUME NEW S, NEW d \in Seq(S), NEW h \in Seq(S), NEW q \in Seq(S)
    PROVE  d \o (h \o q) \o <<>> = d \o h \o q
<1>1. h \o q \in Seq(S) /\ d \o (h \o q) \in Seq(S)
  BY ConcatProperties
<1> QED
  BY <1>1, ConcatAssociative, ConcatEmptySeq

\* A handler that returns moves its update from the inbox to the handled ones.
LEMMA SeenReturns ==
    ASSUME TypeOK, tgInbox # <<>>, Return
    PROVE  Seen' = Seen /\ UNCHANGED tgServer
<1>1. /\ handled \in Seq(Updates) /\ tgInbox \in Seq(Updates)
      /\ <<Head(tgInbox)>> \in Seq(Updates) /\ Tail(tgInbox) \in Seq(Updates)
      /\ Head(tgInbox) \in Updates
  BY SeenType, HeadTailProperties
<1>2. handled \o <<Head(tgInbox)>> \o Tail(tgInbox) = handled \o tgInbox
  <2>1. <<>> \in Seq(Updates) /\ handled \o <<>> = handled
    BY <1>1, ConcatEmptySeq, SeqClosure
  <2>2. handled \o <<Head(tgInbox)>> \o Tail(tgInbox) = handled \o <<>> \o tgInbox
    BY <1>1, <2>1, QueueLemma
  <2> QED
    BY <2>1, <2>2
<1>3. Append(handled, Head(tgInbox)) = handled \o <<Head(tgInbox)>>
  BY <1>1, AppendIsConcat
<1>4. handled' \o tgInbox' = handled \o tgInbox
  BY <1>2, <1>3 DEF Return, Current
<1> QED
  BY <1>4 DEF Return, Seen, Unfetched

LEMMA OrderStep ==
    ASSUME ApprovalsAssumption, TypeOK, Core, OrderInv, [Next]_vars
    PROVE  OrderInv'
<1>0. ASSUME UNCHANGED <<tgServer, sent, crashes>>, Seen' = Seen PROVE OrderInv'
  BY <1>0 DEF OrderInv
<1>1. ASSUME UNCHANGED <<tgVars, sent, crashes>> PROVE OrderInv'
  BY <1>0, <1>1 DEF Seen, Unfetched, tgVars
<1>2. ASSUME NEW u \in Updates, UserSends(u) PROVE OrderInv'
  <2>1. /\ tgServer \in Seq(Updates) /\ tgFetched \in Nat
        /\ tgFetched <= Len(tgServer)
    BY DEF TypeOK, TypeTelegram
  <2>2. Unfetched' = Append(Unfetched, u)
    <3> DEFINE k == tgFetched
    <3>1. /\ tgServer' = Append(tgServer, u) /\ tgServer' \in Seq(Updates)
          /\ Len(tgServer') = Len(tgServer) + 1
          /\ tgFetched' = k /\ Len(tgServer) \in Nat
      BY <1>2, <2>1, AppendProperties, LenProperties DEF UserSends
    <3>2. SuffixOf(Unfetched, tgServer)
      BY <2>1, SuffixEnds, SuffixDrop DEF Unfetched
    <3>3. SuffixOf(Append(Unfetched, u), tgServer')
      BY <2>1, <3>1, <3>2, SeenType, SuffixAppend
    <3>4. SuffixOf(Unfetched', tgServer')
      <4>1. SuffixOf(tgServer', tgServer') /\ k <= Len(tgServer')
        <5>1. k <= Len(tgServer')
          BY <2>1, <3>1
        <5> QED
          BY <3>1, <5>1, SuffixEnds
      <4>2. SuffixOf(SubSeq(tgServer', k + 1, Len(tgServer')), tgServer')
        BY <2>1, <3>1, <4>1, SuffixDrop
      <4> QED
        BY <3>1, <4>2 DEF Unfetched
    <3>5. Len(Unfetched') = Len(Append(Unfetched, u))
      <4>1. Len(Unfetched) = Len(tgServer) - k
        <5>1. \A i \in k + 1..Len(tgServer) : tgServer[i] \in Updates
          BY <2>1, <3>1, ElementOfSeq
        <5>2. Len(Unfetched) = IF k + 1 <= Len(tgServer)
                               THEN Len(tgServer) - (k + 1) + 1 ELSE 0
          BY <2>1, <3>1, <5>1, SubSeqProperties DEF Unfetched
        <5> QED
          BY <2>1, <3>1, <5>2
      <4>2. Len(Unfetched') = Len(tgServer') - k
        <5>1. \A i \in k + 1..Len(tgServer') : tgServer'[i] \in Updates
          BY <2>1, <3>1, ElementOfSeq
        <5>2. Len(Unfetched') = IF k + 1 <= Len(tgServer')
                                THEN Len(tgServer') - (k + 1) + 1 ELSE 0
          BY <2>1, <3>1, <5>1, SubSeqProperties DEF Unfetched
        <5> QED
          BY <2>1, <3>1, <5>2
      <4>3. Len(Append(Unfetched, u)) = Len(Unfetched) + 1
        BY SeenType, AppendProperties
      <4> QED
        BY <2>1, <3>1, <4>1, <4>2, <4>3
    <3> QED
      BY <3>3, <3>4, <3>5 DEF SuffixOf
  <2>3. Seen' = Append(Seen, u)
    <3>1. Append(Unfetched, u) = Unfetched \o <<u>> /\ <<u>> \in Seq(Updates)
      BY SeenType, AppendIsConcat
    <3>2. Append(Seen, u) = Seen \o <<u>>
      BY SeenType, AppendIsConcat
    <3>3. (handled \o tgInbox) \o (Unfetched \o <<u>>)
              = ((handled \o tgInbox) \o Unfetched) \o <<u>>
      <4>1. /\ handled \o tgInbox \in Seq(Updates)
            /\ Unfetched \in Seq(Updates) /\ <<u>> \in Seq(Updates)
        BY <3>1, SeenType
      <4> QED
        BY <4>1, Joined
    <3> QED
      BY <1>2, <2>2, <3>1, <3>2, <3>3 DEF UserSends, Seen
  <2>4. /\ tgServer' = Append(tgServer, u) /\ sent' = Append(sent, u)
        /\ UNCHANGED crashes
    BY <1>2 DEF UserSends
  <2>5. SuffixOf(tgServer', sent') /\ SuffixOf(Seen', sent')
    BY <2>1, <2>3, <2>4, SeenType, SuffixAppend DEF OrderInv
  <2> QED
    BY <2>3, <2>4, <2>5 DEF OrderInv
<1>3. CASE Poll
  <2>1. /\ tgServer \in Seq(Updates) /\ tgFetched \in Nat
        /\ tgFetched <= Len(tgServer)
    BY DEF TypeOK, TypeTelegram
  <2>2. SuffixOf(tgServer', sent')
    BY <1>3, <2>1, SeenType, SuffixDrop DEF Poll, OrderInv, Unfetched
  <2>3. Unfetched' = <<>>
    <3>1. Len(Unfetched) \in Nat
      BY SeenType, LenProperties
    <3>2. Unfetched' = SubSeq(Unfetched, Len(Unfetched) + 1, Len(Unfetched))
      BY <1>3 DEF Poll, Unfetched
    <3> QED
      BY <3>1, <3>2, SubSeqEmpty
  <2>4. Seen' = Seen
    <3>1. handled \o (tgInbox \o Unfetched) \o <<>> = handled \o tgInbox \o Unfetched
      BY SeenType, Regrouped
    <3> QED
      BY <1>3, <2>3, <3>1 DEF Poll, Seen
  <2> QED
    BY <1>3, <2>2, <2>4 DEF Poll, OrderInv
<1>4. ASSUME tgInbox # <<>>, Return, UNCHANGED <<sent, crashes>> PROVE OrderInv'
  BY <1>0, <1>4, SeenReturns
<1>5. CASE Crash
  <2>1. Seen' = tgServer /\ tgServer' = tgServer /\ sent' = sent
    <3>1. tgServer \in Seq(Updates)
      BY DEF TypeOK, TypeTelegram
    <3>2. Unfetched' = tgServer
      BY <1>5, <3>1, SubSeqFull DEF Crash, Unfetched
    <3>3. Seen' = <<>> \o <<>> \o tgServer
      BY <1>5, <3>2 DEF Crash, Seen
    <3> QED
      BY <1>5, <3>1, <3>3, ConcatEmptySeq, SeqClosure DEF Crash
  <2>2. crashes' # 0
    BY <1>5 DEF Crash, TypeOK, TypeClaims
  <2> QED
    BY <2>1, <2>2 DEF OrderInv
<1>6. CASE TgDiscard \/ TgJoin \/ TgLeave \/ TgRemove \/ TgAsk \/ TgAlready \/ TgVoid
  BY <1>6, <1>4
  DEF TgDiscard, TgJoin, TgLeave, TgRemove, TgAsk, TgAlready, TgVoid, Takes
<1>7. CASE TgFail \/ TgPost
  BY <1>7, <1>4 DEF TgFail, TgPost, Core, BusyInv
<1>8. CASE \/ \E a \in Actions : Propose(a)
           \/ \E e \in Events : SlackSends(e)
           \/ TgClaim \/ TgSucceed \/ SlHandle \/ Relay \/ UNCHANGED vars
  BY <1>8, <1>1
  DEF Propose, SlackSends, TgClaim, TgSucceed, SlHandle, SlAsk, SlClick, SlPost,
      Relay, SyncTake, SyncRelay, vars
<1> QED
  BY <1>2, <1>3, <1>5, <1>6, <1>7, <1>8 DEF Next, TgHandle

LEMMA OrderInvariant == Spec => []OrderInv
<1>1. ASSUME Init PROVE OrderInv
  <2>1. <<>> \in Seq(Updates)
    BY SeqClosure
  <2>2. Seen = <<>> /\ tgServer = <<>> /\ sent = <<>>
    <3>1. Unfetched = <<>>
      BY <1>1, <2>1, SubSeqFull DEF Init, Unfetched
    <3> QED
      BY <1>1, <2>1, <3>1, ConcatEmptySeq DEF Init, Seen
  <2> QED
    BY <2>1, <2>2, SuffixEnds DEF OrderInv
<1>2. TypeOK /\ Core /\ OrderInv /\ [Next]_vars => OrderInv'
  BY OrderStep, ApprovalsAssumption
<1> QED
  BY <1>1, <1>2, Invariant, PTL DEF Spec

\* Updates are handled in the order users sent them, none twice in a life, and
\* none is lost before the first crash (telegram.go:246-313).
THEOREM UpdatesInOrder == Spec => []DeliveryOrder
<1>1. OrderInv => DeliveryOrder
  BY DEF OrderInv, SuffixOf, DeliveryOrder, Seen
<1> QED
  BY <1>1, OrderInvariant, PTL
\* The clicks on the button of a among the first k events sent to Slack.
SlackClicks(a, k) ==
    {i \in 1..k : i \in DOMAIN slSent /\ slSent[i] = [kind |-> "click", act |-> a]}

\* The events whose handler has begun.
Begun == Len(slSent) - Len(slInbox) + (IF slPc = "post" THEN 1 ELSE 0)

\* Operations stand for clicks of their own: on Telegram by the order of updates,
\* on Slack because the inbox is the end of what was sent.
SlackInv ==
    /\ SuffixOf(slInbox, slSent)
    /\ \A a \in Actions : slRuns[a] <= Cardinality(SlackClicks(a, Begun))
LEMMA SlackTypes ==
    ASSUME TypeOK, SuffixOf(slInbox, slSent)
    PROVE  /\ slInbox \in Seq(Events) /\ slSent \in Seq(Events)
           /\ Len(slInbox) \in Nat /\ Len(slSent) \in Nat
           /\ Len(slInbox) <= Len(slSent)
           /\ slInbox # <<>> => Len(slInbox) > 0
           /\ Begun \in Nat /\ Begun <= Len(slSent)
           /\ \A a \in Actions : slRuns[a] \in Nat
<1>1. slInbox \in Seq(Events) /\ slSent \in Seq(Events) /\ slRuns \in [Actions -> Nat]
  BY DEF TypeOK, TypeSlack
<1>2. /\ Len(slInbox) \in Nat /\ Len(slSent) \in Nat
      /\ slInbox # <<>> => Len(slInbox) # 0
  BY <1>1, LenProperties, EmptySeq
<1>3. Len(slInbox) <= Len(slSent)
  BY DEF SuffixOf
<1>4. slPc = "post" => slInbox # <<>>
  BY DEF TypeOK, TypeSlack
<1> QED
  BY <1>1, <1>2, <1>3, <1>4 DEF Begun

LEMMA SlackClicksFinite ==
    ASSUME NEW a, NEW k \in Nat
    PROVE  /\ IsFiniteSet(SlackClicks(a, k)) /\ Cardinality(SlackClicks(a, k)) \in Nat
           /\ \A n \in Nat : n <= k =>
                  Cardinality(SlackClicks(a, n)) <= Cardinality(SlackClicks(a, k))
<1>1. IsFiniteSet(1..k)
  BY FS_Interval
<1>2. SlackClicks(a, k) \in SUBSET (1..k)
  BY DEF SlackClicks
<1>3. IsFiniteSet(SlackClicks(a, k))
  BY <1>1, <1>2, FS_Subset
<1>4. ASSUME NEW n \in Nat, n <= k
      PROVE  SlackClicks(a, n) \in SUBSET SlackClicks(a, k)
  BY <1>4 DEF SlackClicks
<1> QED
  BY <1>3, <1>4, FS_Subset, FS_CardinalityType

LEMMA BegunGrows ==
    ASSUME TypeOK, SlackInv, UNCHANGED <<slSent, slRuns>>, SuffixOf(slInbox', slSent'),
           Begun' \in Nat, Begun <= Begun'
    PROVE  SlackInv'
<1>1. Begun \in Nat /\ \A a \in Actions : slRuns[a] \in Nat
  BY SlackTypes DEF SlackInv
<1>2. ASSUME NEW a \in Actions
      PROVE  slRuns'[a] <= Cardinality(SlackClicks(a, Begun)')
  <2> DEFINE m == Cardinality(SlackClicks(a, Begun))
             n == Cardinality(SlackClicks(a, Begun'))
  <2>1. SlackClicks(a, Begun)' = SlackClicks(a, Begun')
    BY DEF SlackClicks
  <2>2. m \in Nat /\ n \in Nat /\ m <= n
    BY <1>1, SlackClicksFinite
  <2>3. slRuns[a] <= m /\ slRuns[a] \in Nat /\ slRuns'[a] = slRuns[a]
    BY <1>1 DEF SlackInv
  <2> HIDE DEF m
  <2>4. slRuns'[a] <= n
    BY <2>2, <2>3
  <2> QED
    BY <2>1, <2>4
<1> QED
  BY <1>2 DEF SlackInv

LEMMA SlackStep ==
    ASSUME ApprovalsAssumption, TypeOK, SlackInv, [Next]_vars
    PROVE  SlackInv'
<1>2. SlackInv /\ SuffixOf(slInbox, slSent)
  BY DEF SlackInv
<1>3. /\ slInbox \in Seq(Events) /\ slSent \in Seq(Events)
      /\ Len(slInbox) \in Nat /\ Len(slSent) \in Nat
      /\ Len(slInbox) <= Len(slSent)
      /\ slInbox # <<>> => Len(slInbox) > 0
      /\ Begun \in Nat /\ Begun <= Len(slSent)
      /\ \A a \in Actions : slRuns[a] \in Nat
  BY <1>2, SlackTypes
\* The event at the head is answered, with or without an operation before.
<1>4. ASSUME slInbox # <<>>, slInbox' = Tail(slInbox), slPc' = "idle",
             UNCHANGED <<slSent, slRuns>>
      PROVE  SlackInv'
  <2>1. SuffixOf(slInbox', slSent')
    BY <1>2, <1>3, <1>4, SuffixTail
  <2>2. Len(slInbox') = Len(slInbox) - 1
    BY <1>3, <1>4, HeadTailProperties
  <2>3. Begun' \in Nat /\ Begun <= Begun'
    BY <1>3, <1>4, <2>2 DEF Begun
  <2> QED
    BY <1>2, <1>4, <2>1, <2>3, BegunGrows
<1>5. ASSUME UNCHANGED <<slInbox, slPc, slSent, slRuns>> PROVE SlackInv'
  <2>1. SuffixOf(slInbox', slSent') /\ Begun' = Begun
    BY <1>2, <1>5 DEF Begun
  <2> QED
    BY <1>2, <1>3, <1>5, <2>1, BegunGrows
<1>6. ASSUME NEW e \in Events, SlackSends(e) PROVE SlackInv'
  <2>1. /\ slInbox' = Append(slInbox, e) /\ slSent' = Append(slSent, e)
        /\ UNCHANGED <<slPc, slRuns>>
    BY <1>6 DEF SlackSends
  <2>2. SuffixOf(slInbox', slSent')
    BY <1>2, <1>3, <2>1, SuffixAppend
  <2>3. Begun' = Begun
    <3>1. Len(slInbox') = Len(slInbox) + 1 /\ Len(slSent') = Len(slSent) + 1
      BY <1>3, <2>1, AppendProperties
    <3>2. Len(slSent') - Len(slInbox') = Len(slSent) - Len(slInbox)
      BY <1>3, <3>1
    <3> QED
      BY <2>1, <3>2 DEF Begun
  <2>4. ASSUME NEW a \in Actions
        PROVE  SlackClicks(a, Begun)' = SlackClicks(a, Begun)
    <3>3. \A i \in 1..Begun : /\ i \in DOMAIN slSent /\ i \in DOMAIN slSent'
                              /\ slSent'[i] = slSent[i]
      <4>1. /\ DOMAIN slSent = 1..Len(slSent) /\ DOMAIN slSent' = 1..Len(slSent')
            /\ Len(slSent') = Len(slSent) + 1
            /\ \A i \in 1..Len(slSent) : slSent'[i] = slSent[i]
        BY <1>3, <2>1, AppendProperties, LenProperties
      <4> QED
        BY <1>3, <4>1
    <3> QED
      BY <2>3, <3>3 DEF SlackClicks
  <2>5. ASSUME NEW a \in Actions
        PROVE  slRuns'[a] <= Cardinality(SlackClicks(a, Begun)')
    BY <1>2, <2>1, <2>4 DEF SlackInv
  <2> QED
    BY <2>2, <2>5 DEF SlackInv
<1>7. ASSUME SlAsk PROVE SlackInv'
  BY <1>4, <1>7 DEF SlAsk, SlTakes
<1>8. ASSUME SlPost PROVE SlackInv'
  BY <1>4, <1>8 DEF SlPost, TypeOK, TypeSlack
<1>9. ASSUME SlClick PROVE SlackInv'
  <2> DEFINE h == Head(slInbox).act
  <2>1. /\ slPc = "idle" /\ slInbox # <<>> /\ Head(slInbox).kind = "click"
        /\ UNCHANGED slSent
    BY <1>9 DEF SlClick, SlTakes
  <2>2. ASSUME slInbox' = Tail(slInbox), UNCHANGED <<slPc, slRuns>> PROVE SlackInv'
    BY <1>4, <2>1, <2>2
  <2>3. ASSUME slRuns' = [slRuns EXCEPT ![h] = @ + 1],
               \/ slPc' = "post" /\ UNCHANGED slInbox
               \/ slInbox' = Tail(slInbox) /\ UNCHANGED slPc
        PROVE  SlackInv'
    <3>1. SuffixOf(slInbox', slSent')
      BY <1>2, <1>3, <2>1, <2>3, SuffixTail
    <3>2. Begun' = Begun + 1
      <4>1. CASE slPc' = "post" /\ UNCHANGED slInbox
        BY <1>3, <2>1, <4>1 DEF Begun
      <4>2. CASE slInbox' = Tail(slInbox) /\ UNCHANGED slPc
        <5>1. Len(slInbox') = Len(slInbox) - 1
          BY <1>3, <2>1, <4>2, HeadTailProperties
        <5> QED
          BY <1>3, <2>1, <4>2, <5>1 DEF Begun
      <4> QED
        BY <2>3, <4>1, <4>2
    <3> DEFINE k == Begun + 1
    <3>3. k \in 1..Len(slSent) /\ slSent[k] = Head(slInbox)
      <4>1. Begun = Len(slSent) - Len(slInbox)
        BY <1>3, <2>1 DEF Begun
      <4>2. k \in 1..Len(slSent) /\ 1 \in 1..Len(slInbox)
            /\ k - 1 = Len(slSent) - Len(slInbox)
        BY <1>3, <2>1, <4>1
      <4>3. Aligned(slInbox, slSent)
        BY <1>2, <1>3, SuffixPointwise
      <4> HIDE DEF k
      <4>4. slInbox[1] = slSent[k]
        BY <4>2, <4>3 DEF Aligned
      <4> QED
        BY <4>2, <4>4
    <3>4. Head(slInbox) = [kind |-> "click", act |-> h] /\ h \in Actions
      <4>1. Head(slInbox) \in Events
        BY <1>3, <2>1, HeadTailProperties
      <4> QED
        BY <2>1, <4>1 DEF Events
    <3>5. k \in DOMAIN slSent
      BY <1>3, <3>3, LenProperties
    <3>6. ASSUME NEW a \in Actions
          PROVE  slRuns'[a] <= Cardinality(SlackClicks(a, Begun)')
      <4>1. SlackClicks(a, Begun)' = SlackClicks(a, k)
        BY <2>1, <3>2 DEF SlackClicks
      <4>2. /\ Cardinality(SlackClicks(a, Begun)) \in Nat
            /\ Cardinality(SlackClicks(a, k)) \in Nat
            /\ Cardinality(SlackClicks(a, Begun)) <= Cardinality(SlackClicks(a, k))
            /\ IsFiniteSet(SlackClicks(a, Begun))
        BY <1>3, SlackClicksFinite
      <4>3. CASE a = h
        <5>1. SlackClicks(a, k) = SlackClicks(a, Begun) \cup {k} /\ k \notin SlackClicks(a, Begun)
          BY <1>3, <3>3, <3>4, <3>5, <4>3 DEF SlackClicks
        <5>2. Cardinality(SlackClicks(a, k)) = Cardinality(SlackClicks(a, Begun)) + 1
          BY <4>2, <5>1, FS_AddElement
        <5>3. slRuns'[a] = slRuns[a] + 1
          BY <2>3, <4>3 DEF TypeOK, TypeSlack
        <5> QED
          BY <1>2, <1>3, <4>1, <4>2, <5>2, <5>3 DEF SlackInv
      <4>4. CASE a # h
        <5>1. slRuns'[a] = slRuns[a]
          BY <2>3, <4>4 DEF TypeOK, TypeSlack
        <5> QED
          BY <1>2, <1>3, <4>1, <4>2, <5>1 DEF SlackInv
      <4> QED
        BY <4>3, <4>4
    <3> QED
      BY <3>1, <3>6 DEF SlackInv
  <2> QED
    BY <1>9, <2>2, <2>3 DEF SlClick
<1>10. ASSUME Crash PROVE SlackInv'
  <2>1. slInbox' = <<>> /\ slPc' = "idle" /\ UNCHANGED <<slSent, slRuns>>
    BY <1>10 DEF Crash
  <2>2. SuffixOf(slInbox', slSent')
    BY <1>3, <2>1, SuffixEnds
  <2>3. Begun' \in Nat /\ Begun <= Begun'
    BY <1>3, <2>1, SeqClosure DEF Begun
  <2> QED
    BY <1>2, <2>1, <2>2, <2>3, BegunGrows
<1> QED
  BY <1>5, <1>6, <1>7, <1>8, <1>9, <1>10
  DEF Next, Propose, UserSends, Poll, TgHandle, TgDiscard, TgJoin, TgLeave,
      TgRemove, TgAsk, TgAlready, TgVoid, TgClaim, TgSucceed, TgFail, TgPost,
      SlHandle, Relay, SyncTake, SyncRelay, vars, slVars

LEMMA SlackInvariant == Spec => []SlackInv
<1>1. ASSUME Init PROVE SlackInv
  <2>1. <<>> \in Seq(Events) /\ slInbox = <<>> /\ slSent = <<>> /\ slPc = "idle"
    BY <1>1, SeqClosure DEF Init
  <2>2. SuffixOf(slInbox, slSent)
    BY <2>1, SuffixEnds
  <2>3. Begun \in Nat
    BY <2>1, SeqClosure DEF Begun
  <2>4. \A a \in Actions : Cardinality(SlackClicks(a, Begun)) \in Nat
    BY <2>3, SlackClicksFinite
  <2>5. \A a \in Actions : slRuns[a] = 0
    BY <1>1 DEF Init
  <2> QED
    BY <2>2, <2>4, <2>5 DEF SlackInv
<1>2. TypeOK /\ SlackInv /\ [Next]_vars => SlackInv'
  BY SlackStep, ApprovalsAssumption
<1> QED
  BY <1>1, <1>2, Invariant, PTL DEF Spec

\* Without a claim, Slack runs the operation of a button at most once for each
\* click on it (slack.go:243-299).
THEOREM SlackRunsAreClicked == Spec => []OneRunPerClick
<1>1. TypeOK /\ SlackInv => OneRunPerClick
  <2> SUFFICES ASSUME TypeOK, SlackInv PROVE OneRunPerClick
    OBVIOUS
  <2>1. /\ Begun \in Nat /\ Begun <= Len(slSent) /\ Len(slSent) \in Nat
        /\ slSent \in Seq(Events) /\ \A a \in Actions : slRuns[a] \in Nat
    BY SlackTypes DEF SlackInv
  <2>2. ASSUME NEW a \in Actions
        PROVE  slRuns[a] <= Cardinality({i \in DOMAIN slSent :
                                slSent[i] = [kind |-> "click", act |-> a]})
    <3>1. SlackClicks(a, Len(slSent)) =
              {i \in DOMAIN slSent : slSent[i] = [kind |-> "click", act |-> a]}
      BY <2>1, LenProperties DEF SlackClicks
    <3>2. /\ Cardinality(SlackClicks(a, Begun)) <= Cardinality(SlackClicks(a, Len(slSent)))
          /\ Cardinality(SlackClicks(a, Begun)) \in Nat
          /\ Cardinality(SlackClicks(a, Len(slSent))) \in Nat
      BY <2>1, SlackClicksFinite
    <3>3. slRuns[a] <= Cardinality(SlackClicks(a, Len(slSent)))
      BY <2>1, <3>2 DEF SlackInv
    <3> QED
      BY <3>1, <3>3
  <2> QED
    BY <2>2 DEF OneRunPerClick
<1> QED
  BY <1>1, Invariant, SlackInvariant, PTL
=============================================================================
