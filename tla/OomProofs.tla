------------------------------ MODULE OomProofs -------------------------------
(***************************************************************************)
(* Proofs about OomGuard, for every set of pods, every initial limit and   *)
(* every value of the base, the guardrail, the cooldown and the bounds.    *)
(*                                                                         *)
(* The guardrail needs what the worker carries between its decision and    *)
(* its buttons (OfferInv); the spacing of the offers needs what the        *)
(* pending entry says of the offers so far (PendingInv); that no killed    *)
(* pod is marked and forgotten needs what the pending entry says of the    *)
(* buttons that were really sent (AnswerInv), and what notifyUser's        *)
(* entries say of the refusals that were really posted (AlertInv).         *)
(***************************************************************************)
EXTENDS OomGuard, SequenceTheorems, TLAPS

\* While it sends, the worker holds a limit that respects the guardrail and
\* doubles one the deployment had.
OfferInv ==
    pc = "offer" =>
        /\ 0 < next /\ next <= Cap
        /\ \E h \in limits : next = IF h = 0 THEN Base ELSE 2 * h

\* The pending entry is the time of this life's last offer.
PendingInv ==
    /\ offersAt = <<>> => pending = {}
    /\ offersAt # <<>> => pending = {offersAt[Len(offersAt)]}
    /\ \A i \in DOMAIN offersAt : offersAt[i] <= clock
    /\ \A i \in DOMAIN offersAt : offersAt[i] <= offersAt[Len(offersAt)]

\* As long as no call failed and nobody approved, what is being sent doubles the
\* present limit, and so does what was sent before the pending entry cools off.
AnswerInv ==
    /\ oomKey \cap Pods \subseteq born
    /\ faults + clicks = 0 =>
           /\ pc = "offer" => next = NewLimit
           /\ pc = "idle" /\ pending # {} => NewLimit \in offered

\* An entry of notifyUser is the time of a refusal whose message was as long.
AlertInv ==
    \A n \in Lengths : \A t \in alerts[n] :
        \E q \in refused : q.told /\ Length[q.pod] = n /\ q.at = t

MarkInv == TypeOK /\ AnswerInv /\ AlertInv /\ MarkedAnswered

GuardInv == TypeOK /\ OfferInv /\ GuardrailHolds /\ OffersDouble

SpaceInv == TypeOK /\ PendingInv /\ OffersSpaced

\* Two positions of a longer sequence that do not end it are positions of the
\* sequence before it grew.
LEMMA Earlier ==
    ASSUME NEW n \in Nat, NEW i \in 1..(n + 1), NEW j \in 1..(n + 1),
           i < j, j # n + 1
    PROVE  i \in 1..n /\ j \in 1..n
OBVIOUS

\* A refusal adds one record, and at most the present time to the entries.
LEMMA RefuseTyped ==
    ASSUME TypeOK, NEW p \in Pods \cup Strangers, Refuse(p)
    PROVE  /\ refused' \subseteq
                  [pod: Pods \cup Strangers, at: 0..clock, told: BOOLEAN]
           /\ alerts' \in [Lengths -> SUBSET (0..clock)]
<1>1. clock \in 0..clock
  BY DEF TypeOK
<1>2. ASSUME NEW b \in BOOLEAN
      PROVE  [pod |-> p, at |-> clock, told |-> b]
                 \in [pod: Pods \cup Strangers, at: 0..clock, told: BOOLEAN]
  BY <1>1
<1>3. refused' \subseteq [pod: Pods \cup Strangers, at: 0..clock, told: BOOLEAN]
  BY <1>2 DEF Refuse, TypeOK
<1>4. alerts' \in [Lengths -> SUBSET (0..clock)]
  BY <1>1 DEF Refuse, TypeOK
<1> QED BY <1>3, <1>4

\* A refused pod is refused: its message is posted, or an earlier one of a name as
\* long is the reason why not; and earlier refusals stay what they were.
LEMMA RefuseAnswers ==
    ASSUME TypeOK, AlertInv, NEW p \in Pods \cup Strangers, Refuse(p)
    PROVE  /\ AlertInv' /\ Refused(p)'
           /\ \A x \in Pods : Refused(x) => Refused(x)'
<1>1. CASE Dedups(p)
  <2> DEFINE here == [pod |-> p, at |-> clock, told |-> FALSE]
  <2>1. /\ here \in refused' /\ refused \subseteq refused' /\ alerts' = alerts
        /\ here.pod = p /\ here.at = clock
    BY <1>1 DEF Refuse
  <2> HIDE DEF here
  <2>2. PICK t \in alerts[Length[p]] : clock - t < Quiet
    BY <1>1 DEF Dedups
  <2>3. Length[p] \in Lengths
    BY DEF Lengths
  <2>4. PICK q \in refused : q.told /\ Length[q.pod] = Length[p] /\ q.at = t
    BY <2>2, <2>3 DEF AlertInv
  <2>5. q.at <= here.at /\ here.at - q.at < Quiet
    BY <2>1, <2>2, <2>3, <2>4 DEF TypeOK
  <2>6. Refused(p)'
    BY <2>1, <2>4, <2>5 DEF Refused
  <2>7. AlertInv'
    BY <2>1 DEF AlertInv
  <2> QED BY <2>1, <2>6, <2>7 DEF Refused
<1>2. CASE ~Dedups(p)
  <2> DEFINE here == [pod |-> p, at |-> clock, told |-> TRUE]
  <2>1. /\ here \in refused' /\ refused \subseteq refused'
        /\ here.pod = p /\ here.at = clock /\ here.told
        /\ alerts' = [alerts EXCEPT ![Length[p]] = {clock}]
    BY <1>2 DEF Refuse
  <2> HIDE DEF here
  <2>2. Refused(p)'
    BY <2>1 DEF Refused
  <2>3. ASSUME NEW n \in Lengths, NEW t \in alerts'[n]
        PROVE  \E q \in refused' : q.told /\ Length[q.pod] = n /\ q.at = t
    <3>1. CASE n = Length[p]
      <4>1. t = clock
        BY <2>1, <2>3, <3>1 DEF TypeOK
      <4> QED BY <2>1, <3>1, <4>1
    <3>2. CASE n # Length[p]
      <4>1. t \in alerts[n]
        BY <2>1, <2>3, <3>2 DEF TypeOK
      <4>2. PICK q \in refused : q.told /\ Length[q.pod] = n /\ q.at = t
        BY <2>3, <4>1 DEF AlertInv
      <4> QED BY <2>1, <4>2
    <3> QED BY <3>1, <3>2
  <2>4. AlertInv'
    BY <2>3 DEF AlertInv
  <2> QED BY <2>1, <2>2, <2>4 DEF Refused
<1> QED BY <1>1, <1>2

\* Every variable of the OOM guard keeps its type.
THEOREM TypeCorrect == Spec => []TypeOK
<1>1. Init => TypeOK
  BY OomAssumption DEF Init, TypeOK
<1>2. TypeOK /\ [Next]_vars => TypeOK'
  <2> SUFFICES ASSUME TypeOK, [Next]_vars PROVE TypeOK'
    OBVIOUS
  <2> USE OomAssumption DEF TypeOK
  <2>1. ASSUME NEW p \in Pods, PodOoms(p) PROVE TypeOK'
    BY <2>1 DEF PodOoms, cache
  <2>2. ASSUME NEW p \in Pods, PodGone(p) PROVE TypeOK'
    BY <2>2 DEF PodGone, cache
  <2>3. ASSUME NEW p \in Pods, HandleSkip(p) PROVE TypeOK'
    BY <2>3 DEF HandleSkip, Handles, Fault, cluster
  <2>4. ASSUME NEW p \in Pods, HandleRefuse(p) PROVE TypeOK'
    <3>1. refused' \subseteq [pod: Pods \cup Strangers, at: 0..clock, told: BOOLEAN]
          /\ alerts' \in [Lengths -> SUBSET (0..clock)]
      BY <2>4, RefuseTyped DEF HandleRefuse
    <3>2. /\ oomKey' = oomKey \cup {p}
          /\ UNCHANGED <<limit, limits, born, oomed, pc, next, pending, executed>>
          /\ UNCHANGED <<offered, clock, faults, crashes, clicks, offersAt>>
      BY <2>4 DEF HandleRefuse, Handles, cluster
    <3> QED BY <3>1, <3>2
  <2>13. ASSUME NEW p \in Strangers, RefuseElsewhere(p) PROVE TypeOK'
    <3>1. refused' \subseteq [pod: Pods \cup Strangers, at: 0..clock, told: BOOLEAN]
          /\ alerts' \in [Lengths -> SUBSET (0..clock)]
      BY <2>13, RefuseTyped DEF RefuseElsewhere
    <3>2. /\ oomKey' = oomKey \cup {p}
          /\ UNCHANGED <<limit, limits, born, oomed, pc, next, pending, executed>>
          /\ UNCHANGED <<offered, clock, faults, crashes, clicks, offersAt>>
      BY <2>13 DEF RefuseElsewhere, cluster
    <3> QED BY <3>1, <3>2
  <2>5. ASSUME NEW p \in Pods, HandleOffer(p) PROVE TypeOK'
    <3>1. NewLimit \in Nat
      BY DEF NewLimit
    <3>2. offersAt' \in Seq(Nat)
      BY <2>5 DEF HandleOffer, Offer
    <3>3. /\ pending' = {clock} /\ next' = NewLimit /\ pc' = "offer"
          /\ oomKey' = oomKey \cup {p} /\ faults' = faults /\ alerts' = alerts
          /\ refused' = refused /\ UNCHANGED <<cluster, executed, offered>>
          /\ UNCHANGED <<clock, crashes, clicks>>
      BY <2>5 DEF HandleOffer, Offer, Handles
    <3> QED BY <3>1, <3>2, <3>3 DEF cluster
  <2>6. CASE SendOffer
    BY <2>6 DEF SendOffer, cluster, cache
  <2>7. ASSUME NEW l \in offered, PatchMemoryLimit(l), executed' \subseteq Nat
        PROVE TypeOK'
    <3>1. l \in Nat
      OBVIOUS
    <3>2. limit' \in Nat /\ limits' \subseteq Nat /\ limit' \in limits'
      BY <2>7, <3>1 DEF PatchMemoryLimit
    <3>3. faults' \in Nat /\ clicks' \in Nat
      BY <2>7 DEF PatchMemoryLimit, Fault
    <3>4. /\ UNCHANGED <<born, oomed, pc, next, oomKey, pending, offered>>
          /\ UNCHANGED <<alerts, clock, crashes, offersAt, refused>>
      BY <2>7 DEF PatchMemoryLimit, cache
    <3> QED BY <2>7, <3>2, <3>3, <3>4
  <2>8. ASSUME NEW l \in offered, SlackApprove(l) PROVE TypeOK'
    BY <2>7, <2>8 DEF SlackApprove
  <2>9. ASSUME NEW l \in offered, TelegramApprove(l) PROVE TypeOK'
    BY <2>7, <2>9 DEF TelegramApprove
  <2>10. CASE Tick
    BY <2>10 DEF Tick, cluster, cache
  <2>11. CASE Crash
    BY <2>11 DEF Crash, cluster
  <2>12. CASE UNCHANGED vars
    BY <2>12 DEF vars, cluster, cache
  <2> QED
    BY <2>1, <2>2, <2>3, <2>4, <2>5, <2>6, <2>8, <2>9, <2>10, <2>11, <2>12,
       <2>13 DEF Next, Handle
<1> QED BY <1>1, <1>2, PTL DEF Spec

\* The guardrail and the doubling hold of every offer there ever was, hence
\* of every limit an approval ever set.
THEOREM GuardCorrect == Spec => []GuardInv
<1>1. Init => GuardInv
  BY OomAssumption
     DEF Init, GuardInv, TypeOK, OfferInv, GuardrailHolds, OffersDouble
<1>2. TypeOK' /\ GuardInv /\ [Next]_vars => GuardInv'
  <2> SUFFICES ASSUME TypeOK', GuardInv, [Next]_vars PROVE GuardInv'
    OBVIOUS
  <2> USE OomAssumption DEF GuardInv, TypeOK
  <2>1. ASSUME UNCHANGED <<limits, pc, next, offered>> PROVE GuardInv'
    BY <2>1 DEF OfferInv, GuardrailHolds, OffersDouble
  <2>2. ASSUME NEW p \in Pods, PodOoms(p) \/ PodGone(p) PROVE GuardInv'
    BY <2>1, <2>2 DEF PodOoms, PodGone
  <2>3. ASSUME NEW p \in Pods, HandleSkip(p) \/ HandleRefuse(p)
        PROVE GuardInv'
    <3> UNCHANGED <<limits, pc, next, offered>>
      BY <2>3 DEF HandleSkip, HandleRefuse, Handles, cluster
    <3> QED BY <2>1
  <2>11. ASSUME NEW p \in Strangers, RefuseElsewhere(p) PROVE GuardInv'
    BY <2>1, <2>11 DEF RefuseElsewhere, cluster
  <2>4. ASSUME NEW p \in Pods, HandleOffer(p) PROVE GuardInv'
    <3>1. next' = NewLimit /\ NewLimit <= Cap /\ limits' = limits
          /\ offered' = offered
      BY <2>4 DEF HandleOffer, Offer, Handles, cluster
    <3>2. OfferInv'
      BY <3>1 DEF OfferInv, NewLimit
    <3>3. GuardrailHolds' /\ OffersDouble'
      BY <3>1 DEF GuardrailHolds, OffersDouble
    <3> QED BY <3>2, <3>3
  <2>5. CASE SendOffer
    <3>1. pc = "offer" /\ pc' = "idle" /\ offered' = offered \cup {next}
          /\ limits' = limits
      BY <2>5 DEF SendOffer, cluster
    <3>2. GuardrailHolds' /\ OffersDouble'
      BY <3>1 DEF OfferInv, GuardrailHolds, OffersDouble
    <3> QED BY <3>1, <3>2 DEF OfferInv
  <2>6. ASSUME NEW l \in offered, PatchMemoryLimit(l) PROVE GuardInv'
    <3>1. /\ limits \subseteq limits' /\ limits' \subseteq limits \cup {l}
          /\ UNCHANGED <<pc, next, offered>>
      BY <2>6 DEF PatchMemoryLimit
    <3>2. OfferInv'
      BY <3>1 DEF OfferInv
    <3>3. GuardrailHolds'
      BY <3>1 DEF GuardrailHolds
    <3>4. OffersDouble'
      BY <3>1 DEF OffersDouble
    <3> QED BY <3>2, <3>3, <3>4
  <2>7. ASSUME NEW l \in offered, SlackApprove(l) \/ TelegramApprove(l)
        PROVE GuardInv'
    BY <2>6, <2>7 DEF SlackApprove, TelegramApprove
  <2>8. CASE Tick
    BY <2>1, <2>8 DEF Tick, cluster
  <2>9. CASE Crash
    BY <2>9 DEF Crash, cluster, OfferInv, GuardrailHolds, OffersDouble
  <2>10. CASE UNCHANGED vars
    BY <2>1, <2>10 DEF vars, cluster
  <2> QED
    BY <2>2, <2>3, <2>4, <2>5, <2>7, <2>8, <2>9, <2>10, <2>11
    DEF Next, Handle
<1> QED BY <1>1, <1>2, TypeCorrect, PTL DEF Spec

\* No offer and no approved limit passes the guardrail.
THEOREM GuardrailCorrect == Spec => []GuardrailHolds
<1>1. GuardInv => GuardrailHolds
  BY DEF GuardInv
<1> QED BY <1>1, GuardCorrect, PTL

\* Every offer doubles a limit the deployment had.
THEOREM OffersCorrect == Spec => []OffersDouble
<1>1. GuardInv => OffersDouble
  BY DEF GuardInv
<1> QED BY <1>1, GuardCorrect, PTL

\* Two offers of one life are a cooldown apart.
THEOREM OffersAreSpaced == Spec => []OffersSpaced
<1>1. Init => SpaceInv
  BY OomAssumption DEF Init, SpaceInv, TypeOK, PendingInv, OffersSpaced
<1>2. TypeOK' /\ SpaceInv /\ [Next]_vars => SpaceInv'
  <2> SUFFICES ASSUME TypeOK', SpaceInv, [Next]_vars PROVE SpaceInv'
    OBVIOUS
  <2> USE OomAssumption DEF SpaceInv, TypeOK
  <2>1. ASSUME UNCHANGED <<pending, offersAt>>, clock <= clock'
        PROVE SpaceInv'
    <3>1. \A i \in DOMAIN offersAt : offersAt[i] \in Nat
      OBVIOUS
    <3>2. clock \in Nat /\ clock' \in Nat
      OBVIOUS
    <3>3. PendingInv'
      BY <2>1, <3>1, <3>2 DEF PendingInv
    <3>4. OffersSpaced'
      BY <2>1 DEF OffersSpaced
    <3> QED BY <3>3, <3>4
  <2>2. ASSUME NEW p \in Pods, PodOoms(p) \/ PodGone(p) PROVE SpaceInv'
    BY <2>1, <2>2 DEF PodOoms, PodGone, cache
  <2>3. ASSUME NEW p \in Pods, HandleSkip(p) \/ HandleRefuse(p)
        PROVE SpaceInv'
    BY <2>1, <2>3 DEF HandleSkip, HandleRefuse, Handles
  <2>10. ASSUME NEW p \in Strangers, RefuseElsewhere(p) PROVE SpaceInv'
    BY <2>1, <2>10 DEF RefuseElsewhere
  <2>4. ASSUME NEW p \in Pods, HandleOffer(p) PROVE SpaceInv'
    <3>1. /\ ~Cooling /\ pending' = {clock} /\ clock' = clock
          /\ offersAt' = Append(offersAt, clock)
      BY <2>4 DEF HandleOffer, Offer, Handles
    <3>2. /\ Len(offersAt') = Len(offersAt) + 1
          /\ DOMAIN offersAt' = 1..(Len(offersAt) + 1)
          /\ DOMAIN offersAt = 1..Len(offersAt)
          /\ \A i \in DOMAIN offersAt : offersAt'[i] = offersAt[i]
          /\ offersAt'[Len(offersAt) + 1] = clock
      BY <3>1
    <3>3. \A i \in DOMAIN offersAt : clock - offersAt[i] >= Cooldown
      <4> SUFFICES ASSUME NEW i \in DOMAIN offersAt
                   PROVE  clock - offersAt[i] >= Cooldown
        OBVIOUS
      <4> DEFINE last == offersAt[Len(offersAt)]
      <4>1. offersAt # <<>> /\ Len(offersAt) \in DOMAIN offersAt
        BY <3>2
      <4>2. last \in Nat /\ offersAt[i] \in Nat /\ offersAt[i] <= last
        BY <4>1 DEF PendingInv
      <4>3. last \in pending
        BY <4>1 DEF PendingInv
      <4>4. ~(clock - last < Cooldown)
        BY <3>1, <4>3 DEF Cooling
      <4>5. clock \in Nat /\ Cooldown \in Nat
        OBVIOUS
      <4> HIDE DEF last
      <4> QED BY <4>2, <4>4, <4>5
    <3>4. PendingInv'
      <4>1. offersAt' # <<>> /\ offersAt'[Len(offersAt')] = clock
        BY <3>2
      <4>2. \A i \in DOMAIN offersAt' : offersAt'[i] <= clock
        <5> SUFFICES ASSUME NEW i \in DOMAIN offersAt' PROVE offersAt'[i] <= clock
          OBVIOUS
        <5>1. CASE i \in DOMAIN offersAt
          BY <3>2, <5>1 DEF PendingInv
        <5>2. CASE i \notin DOMAIN offersAt
          <6>1. i = Len(offersAt) + 1
            BY <3>2, <5>2
          <6> QED BY <3>2, <6>1
        <5> QED BY <5>1, <5>2
      <4> QED BY <3>1, <4>1, <4>2 DEF PendingInv
    <3>5. OffersSpaced'
      <4> SUFFICES ASSUME NEW i \in DOMAIN offersAt', NEW j \in DOMAIN offersAt',
                          i < j
                   PROVE  offersAt'[j] - offersAt'[i] >= Cooldown
        BY DEF OffersSpaced
      <4>1. CASE j = Len(offersAt) + 1
        <5>1. i \in DOMAIN offersAt
          BY <3>2, <4>1
        <5> QED BY <3>2, <3>3, <4>1, <5>1
      <4>2. CASE j # Len(offersAt) + 1
        <5>1. i \in DOMAIN offersAt /\ j \in DOMAIN offersAt
          <6>1. Len(offersAt) \in Nat
            OBVIOUS
          <6>2. i \in 1..(Len(offersAt) + 1) /\ j \in 1..(Len(offersAt) + 1)
            BY <3>2
          <6>3. i \in 1..Len(offersAt) /\ j \in 1..Len(offersAt)
            BY <4>2, <6>1, <6>2, Earlier
          <6> QED BY <3>2, <6>3
        <5> QED BY <3>2, <5>1 DEF OffersSpaced
      <4> QED BY <4>1, <4>2
    <3> QED BY <3>4, <3>5
  <2>5. CASE SendOffer
    BY <2>1, <2>5 DEF SendOffer, cache
  <2>6. ASSUME NEW l \in offered, SlackApprove(l) \/ TelegramApprove(l)
        PROVE SpaceInv'
    BY <2>1, <2>6 DEF SlackApprove, TelegramApprove, PatchMemoryLimit, cache
  <2>7. CASE Tick
    BY <2>1, <2>7 DEF Tick, cache
  <2>8. CASE Crash
    BY <2>8 DEF Crash, PendingInv, OffersSpaced
  <2>9. CASE UNCHANGED vars
    BY <2>1, <2>9 DEF vars, cache
  <2> QED
    BY <2>2, <2>3, <2>4, <2>5, <2>6, <2>7, <2>8, <2>9, <2>10
    DEF Next, Handle
<1>3. SpaceInv => OffersSpaced
  BY DEF SpaceInv
<1> QED BY <1>1, <1>2, <1>3, TypeCorrect, PTL DEF Spec

LEMMA OneMore == ASSUME NEW m \in Nat, NEW n \in Nat PROVE (m + 1) + n > 0 /\ m + (n + 1) > 0
OBVIOUS

\* An offer asks for more than there is.
LEMMA MoreMemory == ASSUME TypeOK PROVE NewLimit \in Nat /\ NewLimit > limit
BY OomAssumption DEF TypeOK, NewLimit

\* A killed pod whose "oom/..." entry is stored is answered, or its answer is on its
\* way (the entry is stored before the early returns of handleOOM), unless notifyUser
\* took the guardrail's refusal for a repetition.
THEOREM MarkedAreAnswered == Spec => []MarkedAnswered
<1>1. Init => MarkInv
  BY OomAssumption DEF Init, MarkInv, TypeOK, AnswerInv, AlertInv, MarkedAnswered
<1>2. TypeOK' /\ MarkInv /\ [Next]_vars => MarkInv'
  <2> SUFFICES ASSUME TypeOK', MarkInv, [Next]_vars PROVE MarkInv'
    OBVIOUS
  <2> USE OomAssumption DEF MarkInv
  <2>0. /\ faults \in Nat /\ clicks \in Nat /\ limit \in Nat
        /\ pc \in {"idle", "offer"} /\ oomed \subseteq born
        /\ faults' \in Nat /\ clicks' \in Nat
    BY DEF TypeOK
  <2>1. ASSUME faults' + clicks' > 0, oomKey' \cap Pods \subseteq born', AlertInv'
        PROVE  MarkInv'
    BY <2>0, <2>1 DEF AnswerInv, MarkedAnswered
  <2>14. ASSUME UNCHANGED <<alerts, refused>>
         PROVE  AlertInv' /\ \A x \in Pods : Refused(x)' <=> Refused(x)
    BY <2>14 DEF AlertInv, Refused
  <2>2. ASSUME UNCHANGED <<limit, pc, next, oomKey, pending, alerts, offered, faults,
                           clicks, refused>>,
               born \subseteq born', oomed' \cap oomKey \subseteq oomed
        PROVE  MarkInv'
    <3>1. AnswerInv'
      BY <2>2 DEF AnswerInv, NewLimit
    <3>2. oomed \subseteq Pods
      BY DEF TypeOK
    <3>3. MarkedAnswered'
      BY <2>2, <2>14, <3>2 DEF MarkedAnswered
    <3> QED BY <2>2, <2>14, <3>1, <3>3
  <2>3. ASSUME NEW p \in Pods, PodOoms(p) PROVE MarkInv'
    <3>1. oomed' \cap oomKey \subseteq oomed /\ born \subseteq born'
      BY <2>3 DEF PodOoms, AnswerInv
    <3> QED BY <2>2, <2>3, <3>1 DEF PodOoms, cache
  <2>4. ASSUME NEW p \in Pods, PodGone(p) PROVE MarkInv'
    BY <2>2, <2>4 DEF PodGone, cache
  <2>5. ASSUME NEW p \in Pods, Handle(p)
        PROVE  /\ pc = "idle" /\ oomKey' = oomKey \cup {p} /\ clicks' = clicks
               /\ UNCHANGED <<limit, born, oomed, offered>>
               /\ oomKey' \cap Pods \subseteq born'
    BY <2>0, <2>5
    DEF Handle, HandleSkip, HandleRefuse, HandleOffer, Offer, Handles, cluster, AnswerInv
  <2>6. ASSUME NEW p \in Pods, HandleSkip(p) PROVE MarkInv'
    <3>1. CASE Fault
      <4>1. faults' + clicks' > 0
        BY <2>0, <3>1, <2>5, <2>6, OneMore DEF Fault, Handle
      <4>2. oomKey' \cap Pods \subseteq born' /\ UNCHANGED <<alerts, refused>>
        BY <2>5, <2>6 DEF Handle, HandleSkip
      <4> QED BY <2>1, <2>14, <4>1, <4>2
    <3>2. CASE Cooling /\ UNCHANGED faults
      <4>1. /\ pending # {}
            /\ UNCHANGED <<pc, next, pending, faults, alerts, refused>>
            /\ NewLimit' = NewLimit
        BY <2>5, <2>6, <3>2 DEF Cooling, HandleSkip, Handle, NewLimit
      <4>2. faults + clicks = 0 => NewLimit \in offered
        BY <2>5, <2>6, <4>1 DEF AnswerInv, Handle
      <4>3. AnswerInv'
        BY <2>5, <2>6, <4>1 DEF AnswerInv, Handle
      <4>4. /\ oomKey' = oomKey \cup {p} /\ pc = "idle"
            /\ UNCHANGED <<limit, oomed, offered, clicks>>
        BY <2>5, <2>6 DEF Handle
      <4>5. MarkedAnswered'
        BY <2>0, <2>14, <4>1, <4>2, <4>4, MoreMemory DEF MarkedAnswered, TypeOK
      <4> QED BY <2>14, <4>1, <4>3, <4>5
    <3> QED BY <2>6, <3>1, <3>2 DEF HandleSkip
  <2>7. ASSUME NEW p \in Pods, HandleRefuse(p) PROVE MarkInv'
    <3>1. /\ UNCHANGED <<pc, next, pending, faults>> /\ NewLimit' = NewLimit
          /\ Refuse(p)
      BY <2>5, <2>7 DEF HandleRefuse, Handle, NewLimit
    <3>2. AnswerInv'
      BY <2>5, <2>7, <3>1 DEF AnswerInv, Handle
    <3>3. AlertInv' /\ Refused(p)' /\ \A x \in Pods : Refused(x) => Refused(x)'
      BY <3>1, RefuseAnswers
    <3>4. /\ oomKey' = oomKey \cup {p} /\ oomed \subseteq Pods
          /\ UNCHANGED <<limit, oomed, offered, clicks>>
      BY <2>5, <2>7 DEF Handle, TypeOK
    <3>5. MarkedAnswered'
      BY <3>1, <3>3, <3>4 DEF MarkedAnswered
    <3> QED BY <3>2, <3>3, <3>5
  <2>15. ASSUME NEW p \in Strangers, RefuseElsewhere(p) PROVE MarkInv'
    <3>1. /\ Refuse(p) /\ oomKey' = oomKey \cup {p} /\ p \notin Pods
          /\ UNCHANGED <<limit, born, oomed, pc, next, pending, offered>>
          /\ UNCHANGED <<faults, clicks>> /\ NewLimit' = NewLimit
      BY <2>15 DEF RefuseElsewhere, cluster, NewLimit
    <3>2. AnswerInv'
      BY <3>1 DEF AnswerInv
    <3>3. AlertInv' /\ \A x \in Pods : Refused(x) => Refused(x)'
      BY <3>1, RefuseAnswers
    <3>4. oomed \subseteq Pods /\ oomed' \cap oomKey' = oomed \cap oomKey
      BY <3>1 DEF TypeOK
    <3>5. MarkedAnswered'
      BY <3>1, <3>3, <3>4 DEF MarkedAnswered
    <3> QED BY <3>2, <3>3, <3>5
  <2>8. ASSUME NEW p \in Pods, HandleOffer(p) PROVE MarkInv'
    <3>1. pc' = "offer" /\ next' = NewLimit /\ NewLimit' = NewLimit
          /\ UNCHANGED <<alerts, refused>>
      BY <2>5, <2>8 DEF HandleOffer, Offer, Handle, NewLimit
    <3>2. AnswerInv' /\ MarkedAnswered'
      BY <2>5, <2>8, <3>1 DEF AnswerInv, MarkedAnswered, Handle
    <3> QED BY <2>14, <3>1, <3>2
  <2>9. CASE SendOffer
    <3>1. /\ pc = "offer" /\ pc' = "idle" /\ offered' = offered \cup {next}
          /\ UNCHANGED <<limit, born, oomed, oomKey, pending, faults, clicks>>
          /\ UNCHANGED <<alerts, refused>>
          /\ NewLimit' = NewLimit
      BY <2>9 DEF SendOffer, cluster, cache, NewLimit
    <3>2. faults + clicks = 0 => NewLimit \in offered'
      BY <3>1 DEF AnswerInv
    <3>3. AnswerInv'
      BY <3>1, <3>2 DEF AnswerInv
    <3>4. MarkedAnswered'
      BY <2>0, <2>14, <3>1, <3>2, MoreMemory DEF MarkedAnswered, TypeOK
    <3> QED BY <2>14, <3>1, <3>3, <3>4
  <2>10. ASSUME NEW l \in offered, SlackApprove(l) \/ TelegramApprove(l)
         PROVE  MarkInv'
    <3>1. clicks' = clicks + 1 /\ UNCHANGED <<oomKey, born, alerts, refused>>
      BY <2>10 DEF SlackApprove, TelegramApprove, PatchMemoryLimit, cache
    <3>2. oomKey' \cap Pods \subseteq born'
      BY <3>1 DEF AnswerInv
    <3>3. faults' + clicks' > 0
      BY <2>0, <3>1, OneMore
    <3> QED BY <2>1, <2>14, <3>1, <3>2, <3>3
  <2>11. CASE Tick
    BY <2>2, <2>11 DEF Tick, cluster, cache
  <2>12. CASE Crash
    BY <2>12 DEF Crash, cluster, AnswerInv, AlertInv, MarkedAnswered
  <2>13. CASE UNCHANGED vars
    BY <2>2, <2>13 DEF vars, cluster, cache
  <2> QED
    BY <2>3, <2>4, <2>6, <2>7, <2>8, <2>9, <2>10, <2>11, <2>12, <2>13, <2>15
    DEF Next, Handle
<1>3. MarkInv => MarkedAnswered
  BY DEF MarkInv
<1> QED BY <1>1, <1>2, <1>3, TypeCorrect, PTL DEF Spec
=============================================================================
