---------------------------- MODULE ScalingProofs -----------------------------
(***************************************************************************)
(* Proofs about Scaling, for every set of pods and chats and every value   *)
(* of the bounds.                                                          *)
(*                                                                         *)
(* That automatic scaling stays within what people asked for is not        *)
(* inductive by itself: the count on its way to the deployment was         *)
(* computed from the informer's cache, and the cache from the watch, so    *)
(* BoundsInv says of all of these what BoundsExplained says of the last.   *)
(***************************************************************************)
EXTENDS Scaling, SequenceTheorems, TLAPS

BoundsInv ==
    /\ Explained(replicas) /\ Explained(cached)
    /\ \A i \in DOMAIN watch : Explained(watch[i])
    /\ pc = "patch" => Explained(to)
    /\ \A c \in Chats : ops[c].pc # "idle" => ops[c].n \in asked

\* What checkActivity computes from a possible count is a possible count.
LEMMA DesiredType ==
    ASSUME NEW p, NEW n \in 0..Top
    PROVE  Desired(p, n) \in 0..Top
BY ScalingAssumption DEF Desired

\* One step towards the other bound leaves an explained count explained.
LEMMA DesiredExplained ==
    ASSUME NEW p, NEW n \in 0..Top, asked \subseteq 0..Top, Explained(n)
    PROVE  Explained(Desired(p, n))
<1> USE ScalingAssumption
<1>1. CASE Desired(p, n) = n
  BY <1>1
<1>2. CASE Desired(p, n) = n + 1 /\ n < Max
  <2>1. ~(n + 1 > Max)
    BY <1>2
  <2>2. n + 1 < Min => \E a \in asked : a <= n + 1
    <3> HAVE n + 1 < Min
    <3>1. PICK a \in asked : a <= n
      BY DEF Explained
    <3> QED BY <3>1
  <2> QED BY <1>2, <2>1, <2>2 DEF Explained
<1>3. CASE Desired(p, n) = n - 1 /\ n > Min
  <2>1. ~(n - 1 < Min)
    BY <1>3
  <2>2. n - 1 > Max => \E a \in asked : a >= n - 1
    <3> HAVE n - 1 > Max
    <3>1. PICK a \in asked : a >= n
      BY DEF Explained
    <3> QED BY <3>1
  <2> QED BY <1>3, <2>1, <2>2 DEF Explained
<1> QED BY <1>1, <1>2, <1>3 DEF Desired

\* A count a person asked for is explained, and asking for more counts keeps
\* the others explained.
LEMMA AskedExplained ==
    ASSUME asked \subseteq 0..Top, NEW n \in asked
    PROVE  Explained(n)
<1>1. n \in 0..Top
  OBVIOUS
<1>2. n >= n /\ n <= n
  BY <1>1, ScalingAssumption
<1> QED BY <1>2 DEF Explained

\* An attempt is left when ScaleDeployment reads the deployment.
Triable(o) == \A c \in Chats : o[c].pc = "get" => o[c].tries < MaxTries
TriesInv == Triable(ops)

TypeInv == TypeOK /\ TriesInv

\* Another version of the deployment changes no operation but in what it
\* knows of the last one.
LEMMA OutdatedType ==
    ASSUME NEW o \in [Chats -> Ops]
    PROVE  /\ Outdated(o) \in [Chats -> Ops]
           /\ \A c \in Chats : /\ Outdated(o)[c].pc = o[c].pc
                               /\ Outdated(o)[c].n = o[c].n
                               /\ Outdated(o)[c].tries = o[c].tries
<1> DEFINE new(c) == [o[c] EXCEPT !.current = FALSE]
<1>1. ASSUME NEW c \in Chats
      PROVE  /\ new(c) \in Ops /\ new(c).pc = o[c].pc
             /\ new(c).n = o[c].n /\ new(c).tries = o[c].tries
  <2>1. o[c] \in Ops
    OBVIOUS
  <2> QED BY <2>1 DEF Ops
<1>2. Outdated(o) = [c \in Chats |-> new(c)]
  BY DEF Outdated
<1> HIDE DEF new
<1> QED BY <1>1, <1>2

\* Replacing one operation by a well-formed one keeps the operations so.
LEMMA OpReplaced ==
    ASSUME NEW f \in [Chats -> Ops], NEW c \in Chats, NEW r \in Ops,
           Triable(f), r.pc = "get" => r.tries < MaxTries
    PROVE  /\ [f EXCEPT ![c] = r] \in [Chats -> Ops]
           /\ Triable([f EXCEPT ![c] = r])
BY DEF Triable

\* An idle operation is well-formed.
LEMMA IdleType == Idle \in Ops /\ Idle.pc = "idle"
BY ScalingAssumption DEF Idle, Ops

\* An approval starts a well-formed operation with all its attempts.
LEMMA ApprovedType ==
    ASSUME NEW n \in 0..Top
    PROVE  Begin(n) \in Ops /\ Begin(n).n = n /\ Begin(n).tries < MaxTries
<1>1. 0 \in 0..MaxTries /\ 0 < MaxTries
  BY ScalingAssumption
<1> QED BY <1>1 DEF Begin, Ops

\* A write leaves a count, a watch of counts and well-formed operations.
LEMMA WriteType ==
    ASSUME TypeOK, NEW n \in 0..Top, NEW o \in [Chats -> Ops], Triable(o),
           Write(n, o)
    PROVE  /\ replicas' \in 0..Top /\ watch' \in Seq(0..Top)
           /\ ops' \in [Chats -> Ops] /\ TriesInv'
<1>1. Outdated(o) \in [Chats -> Ops] /\ Triable(Outdated(o))
  <2>1. /\ Outdated(o) \in [Chats -> Ops]
        /\ \A c \in Chats : /\ Outdated(o)[c].pc = o[c].pc
                            /\ Outdated(o)[c].tries = o[c].tries
    BY OutdatedType
  <2> QED BY <2>1 DEF Triable
<1>2. replicas' \in 0..Top /\ watch' \in Seq(0..Top)
  <2>1. replicas \in 0..Top /\ watch \in Seq(0..Top)
    BY DEF TypeOK
  <2>2. Append(watch, n) \in Seq(0..Top)
    BY <2>1
  <2>3. \/ replicas' = replicas /\ watch' = watch
        \/ replicas' = n /\ watch' = Append(watch, n)
    BY DEF Write, spec
  <2> QED BY <2>1, <2>2, <2>3
<1>3. ops' \in {o, Outdated(o)}
  BY DEF Write
<1> QED BY <1>1, <1>2, <1>3 DEF TriesInv

\* Every variable keeps its type, and every attempt its count.
THEOREM TypeInvCorrect == Spec => []TypeInv
<1> USE ScalingAssumption
<1>1. Init => TypeInv
  <2> SUFFICES ASSUME Init PROVE TypeInv
    OBVIOUS
  <2>1. ops \in [Chats -> Ops] /\ TriesInv
    BY IdleType DEF Init, TriesInv, Triable
  <2>2. watch \in Seq(0..Top) /\ replicas \in 0..Top /\ cached \in 0..Top
    BY DEF Init
  <2>3. cool \in [Pods -> 0..Cooldown]
    BY DEF Init
  <2>4. asked \subseteq 0..Top /\ from \in 0..Top /\ to \in 0..Top
    BY DEF Init
  <2>5. /\ load \in Loads /\ live \subseteq Pods /\ sampled \subseteq live
        /\ pc = "idle" /\ costKey \in BOOLEAN /\ buttons \subseteq 0..Top
        /\ faults \in Nat
    BY DEF Init
  <2> QED BY <2>1, <2>2, <2>3, <2>4, <2>5 DEF TypeInv, TypeOK
<1>2. TypeInv /\ [Next]_vars => TypeInv'
  <2> SUFFICES ASSUME TypeInv, [Next]_vars PROVE TypeInv'
    OBVIOUS
  <2> USE DEF TypeInv, TypeOK
  <2>1. CASE Deliver
    <3>1. cached' \in 0..Top /\ watch' \in Seq(0..Top) /\ replicas' = replicas
      BY <2>1 DEF Deliver
    <3> QED BY <2>1, <3>1 DEF Deliver, pods, worker, TriesInv
  <2>2. ASSUME NEW l \in Loads, LoadChanges(l) PROVE TypeInv'
    BY <2>2 DEF LoadChanges, spec, pods, worker, TriesInv
  <2>3. ASSUME NEW p \in Pods, PodStarts(p) PROVE TypeInv'
    <3>1. live' \subseteq Pods /\ sampled' \subseteq live'
      BY <2>3 DEF PodStarts
    <3>2. cool' \in [Pods -> 0..Cooldown]
      BY <2>3 DEF PodStarts
    <3>3. ops' \in [Chats -> Ops] /\ TriesInv'
      BY <2>3, OutdatedType DEF PodStarts, TriesInv, Triable
    <3> QED BY <2>3, <3>1, <3>2, <3>3 DEF PodStarts, spec
  <2>4. ASSUME NEW p \in Pods, PodStops(p) PROVE TypeInv'
    <3>1. ops' \in [Chats -> Ops] /\ TriesInv'
      BY <2>4, OutdatedType DEF PodStops, TriesInv, Triable
    <3> QED BY <2>4, <3>1 DEF PodStops, spec, worker
  <2>5. ASSUME NEW p \in Pods, Sample(p) PROVE TypeInv'
    BY <2>5 DEF Sample, spec, worker, TriesInv
  <2>6. ASSUME NEW p \in Pods, LookAt(p) PROVE TypeInv'
    <3>1. Desired(p, cached) \in 0..Top
      BY DesiredType
    <3>2. cool' \in [Pods -> 0..Cooldown]
      BY <2>6 DEF LookAt
    <3>3. from' \in 0..Top /\ to' \in 0..Top /\ faults' \in Nat
          /\ pc' \in {"patch", "review"}
      BY <2>6, <3>1 DEF LookAt, Fault
    <3> QED BY <2>6, <3>2, <3>3 DEF LookAt, spec, pods, TriesInv
  <2>7. CASE Patch
    <3>1. /\ replicas' \in 0..Top /\ watch' \in Seq(0..Top)
          /\ ops' \in [Chats -> Ops] /\ TriesInv'
      BY <2>7, WriteType DEF Patch, spec, TriesInv
    <3>4. from' \in 0..Top /\ to' \in 0..Top /\ pc' = "review"
      BY <2>7 DEF Patch
    <3>5. faults' \in Nat
      BY <2>7 DEF Patch, Fault
    <3> QED BY <2>7, <3>1, <3>4, <3>5 DEF Patch, pods
  <2>8. CASE Review
    <3>1. to' \in 0..Top /\ pc' \in {"idle", "offer"}
      BY <2>8 DEF Review
    <3> QED BY <2>8, <3>1 DEF Review, spec, pods, TriesInv
  <2>9. CASE OfferScaleDown
    BY <2>9 DEF OfferScaleDown, spec, pods, TriesInv
  <2>10. CASE Tick
    <3>1. cool' \in [Pods -> 0..Cooldown]
      BY <2>10 DEF Tick
    <3> QED BY <2>10, <3>1 DEF Tick, spec, pods, TriesInv
  <2>11. ASSUME NEW c \in Chats, NEW n \in 0..Top, Approve(c, n)
         PROVE TypeInv'
    <3>1. ops' = [ops EXCEPT ![c] = Begin(n)]
      BY <2>11 DEF Approve
    <3>2. ops' \in [Chats -> Ops] /\ TriesInv'
      BY <3>1, ApprovedType, OpReplaced DEF TriesInv
    <3>3. n \in 0..Top
      OBVIOUS
    <3> QED BY <2>11, <3>2, <3>3 DEF Approve, spec, pods, worker
  <2>12. ASSUME NEW c \in Chats, GetDeployment(c) PROVE TypeInv'
    <3> DEFINE r == [ops[c] EXCEPT !.pc = "update", !.current = TRUE,
                                   !.tries = @ + 1]
    <3>1. r \in Ops /\ r.pc # "get"
      <4>1. ops[c] \in Ops /\ ops[c].tries < MaxTries
        BY <2>12 DEF GetDeployment, TriesInv, Triable
      <4>2. ops[c].tries + 1 \in 0..MaxTries
        BY <4>1 DEF Ops
      <4> QED BY <4>1, <4>2 DEF Ops
    <3>2. ops' = [ops EXCEPT ![c] = r] \/ ops' = [ops EXCEPT ![c] = Idle]
      BY <2>12 DEF GetDeployment
    <3> HIDE DEF r
    <3>3. ops' \in [Chats -> Ops] /\ TriesInv'
      <4>1. /\ [ops EXCEPT ![c] = r] \in [Chats -> Ops]
            /\ Triable([ops EXCEPT ![c] = r])
        BY <3>1, OpReplaced DEF TriesInv
      <4>2. /\ [ops EXCEPT ![c] = Idle] \in [Chats -> Ops]
            /\ Triable([ops EXCEPT ![c] = Idle])
        BY OpReplaced, IdleType DEF TriesInv
      <4> QED BY <3>2, <4>1, <4>2 DEF TriesInv
    <3>4. faults' \in Nat
      BY <2>12 DEF GetDeployment, Fault
    <3> QED BY <2>12, <3>3, <3>4 DEF GetDeployment, spec, pods, worker
  <2>13. ASSUME NEW c \in Chats, UpdateDeployment(c) PROVE TypeInv'
    <3> DEFINE o == [ops EXCEPT ![c] = Idle]
    <3>1. o \in [Chats -> Ops] /\ Triable(o)
      BY OpReplaced, IdleType DEF TriesInv
    <3>2. ops[c].n \in 0..Top
      BY DEF Ops
    <3> HIDE DEF o
    <3>3. Write(ops[c].n, o) \/ (ops' = o /\ UNCHANGED spec)
      BY <2>13 DEF UpdateDeployment, o
    <3>4. /\ replicas' \in 0..Top /\ watch' \in Seq(0..Top)
          /\ ops' \in [Chats -> Ops] /\ TriesInv'
      BY <3>1, <3>2, <3>3, WriteType DEF spec, TriesInv
    <3>5. faults' \in Nat
      BY <2>13 DEF UpdateDeployment, Fault
    <3> QED BY <2>13, <3>4, <3>5 DEF UpdateDeployment, pods, worker
  <2>14. ASSUME NEW c \in Chats, Conflict(c) PROVE TypeInv'
    <3> DEFINE r == IF ops[c].tries < MaxTries
                      THEN [ops[c] EXCEPT !.pc = "get"] ELSE Idle
    <3>1. r \in Ops /\ (r.pc = "get" => r.tries < MaxTries)
      <4>1. ops[c] \in Ops
        OBVIOUS
      <4>2. [ops[c] EXCEPT !.pc = "get"] \in Ops
            /\ [ops[c] EXCEPT !.pc = "get"].tries = ops[c].tries
        BY <4>1 DEF Ops
      <4> QED BY <4>2, IdleType
    <3>2. ops' = [ops EXCEPT ![c] = r]
      BY <2>14 DEF Conflict
    <3> HIDE DEF r
    <3>3. ops' \in [Chats -> Ops] /\ TriesInv'
      BY <3>1, <3>2, OpReplaced DEF TriesInv
    <3> QED BY <2>14, <3>3 DEF Conflict, spec, pods, worker
  <2>15. CASE UNCHANGED vars
    BY <2>15 DEF vars, spec, pods, worker, TriesInv
  <2> QED
    BY <2>1, <2>2, <2>3, <2>4, <2>5, <2>6, <2>7, <2>8, <2>9, <2>10, <2>11,
       <2>12, <2>13, <2>14, <2>15 DEF Next, Scale
<1> QED BY <1>1, <1>2, PTL DEF Spec

\* Every variable of the scaling model keeps its type.
THEOREM TypeCorrect == Spec => []TypeOK
<1>1. TypeInv => TypeOK
  BY DEF TypeInv
<1> QED BY <1>1, TypeInvCorrect, PTL

\* However old the cache, automatic scaling stays within what people asked.
THEOREM BoundsCorrect == Spec => []BoundsExplained
<1> USE ScalingAssumption
<1>1. Init => BoundsInv
  <2> SUFFICES ASSUME Init PROVE BoundsInv
    OBVIOUS
  <2>1. Explained(replicas)
    BY AskedExplained DEF Init
  <2>2. \A c \in Chats : ops[c].pc = "idle"
    BY IdleType DEF Init
  <2> QED BY <2>1, <2>2 DEF Init, BoundsInv
<1>2. TypeInv /\ TypeInv' /\ BoundsInv /\ [Next]_vars => BoundsInv'
  <2> SUFFICES ASSUME TypeInv, TypeInv', BoundsInv, [Next]_vars
               PROVE  BoundsInv'
    OBVIOUS
  <2> USE DEF TypeInv
  <2> DEFINE OpsKept == \A c \in Chats :
        ops'[c].pc # "idle" => ops[c].pc # "idle" /\ ops'[c].n = ops[c].n
             ToKept == pc' = "patch" => pc = "patch" /\ to' = to
  <2>1. ASSUME UNCHANGED <<replicas, cached, watch, asked>>, OpsKept, ToKept
        PROVE  BoundsInv'
    BY <2>1 DEF BoundsInv, Explained
  <2>2. ASSUME NEW n \in 0..Top, Explained(n), NEW o, Write(n, o),
               UNCHANGED <<cached, asked>>, OpsKept, ToKept
        PROVE  BoundsInv'
    <3>1. watch \in Seq(0..Top)
      BY DEF TypeOK
    <3>2. \A i \in DOMAIN watch' : watch'[i] = n \/ (i \in DOMAIN watch
                                                     /\ watch'[i] = watch[i])
      BY <2>2, <3>1 DEF Write, spec
    <3>3. replicas' = n
      BY <2>2 DEF Write, spec
    <3> QED BY <2>2, <3>2, <3>3 DEF BoundsInv, Explained
  <2>3. ASSUME ops' = Outdated(ops) PROVE OpsKept
    BY <2>3, OutdatedType DEF TypeOK
  <2>4. ASSUME ops' = ops PROVE OpsKept
    BY <2>4
  <2> HIDE DEF OpsKept
  <2>5. CASE Deliver
    <3>1. watch \in Seq(0..Top) /\ watch # <<>>
      BY <2>5 DEF TypeOK, Deliver
    <3>2. \A i \in DOMAIN Tail(watch) :
            i + 1 \in DOMAIN watch /\ Tail(watch)[i] = watch[i + 1]
      BY <3>1
    <3>3. 1 \in DOMAIN watch /\ cached' = watch[1]
      BY <2>5, <3>1 DEF Deliver
    <3>4. UNCHANGED <<replicas, asked, pc, to, ops>> /\ watch' = Tail(watch)
      BY <2>5 DEF Deliver, worker
    <3> QED BY <3>2, <3>3, <3>4 DEF BoundsInv, Explained
  <2>6. ASSUME NEW l \in Loads, LoadChanges(l) PROVE BoundsInv'
    BY <2>1, <2>4, <2>6 DEF LoadChanges, spec, worker
  <2>7. ASSUME NEW p \in Pods, PodStarts(p) \/ PodStops(p) \/ Sample(p)
        PROVE  BoundsInv'
    <3>1. OpsKept
      BY <2>3, <2>4, <2>7 DEF PodStarts, PodStops, Sample
    <3> QED BY <2>1, <2>7, <3>1 DEF PodStarts, PodStops, Sample, spec, worker
  <2>8. ASSUME NEW p \in Pods, LookAt(p) PROVE BoundsInv'
    <3>1. UNCHANGED <<replicas, watch, cached, asked, ops>>
      BY <2>8 DEF LookAt, spec
    <3>2. pc' = "patch" => to' = Desired(p, cached)
      BY <2>8 DEF LookAt
    <3>3. Explained(Desired(p, cached))
      BY DesiredExplained DEF BoundsInv, TypeOK
    <3> QED BY <3>1, <3>2, <3>3 DEF BoundsInv, Explained
  <2>9. CASE Patch
    <3>1. Explained(to) /\ to \in 0..Top
      BY <2>9 DEF Patch, TypeOK, BoundsInv
    <3>2. CASE Write(to, ops)
      <4>1. OpsKept
        BY <2>3, <2>4, <3>2 DEF Write
      <4> QED BY <2>2, <2>9, <3>1, <3>2, <4>1 DEF Patch
    <3>3. CASE UNCHANGED <<spec, ops>>
      BY <2>1, <2>4, <2>9, <3>3 DEF Patch, spec
    <3> QED BY <2>9, <3>2, <3>3 DEF Patch
  <2>10. CASE Review \/ OfferScaleDown \/ Tick
    BY <2>1, <2>4, <2>10 DEF Review, OfferScaleDown, Tick, spec
  <2>11. ASSUME NEW c \in Chats, NEW n \in 0..Top, Approve(c, n)
         PROVE  BoundsInv'
    <3>1. asked' = asked \cup {n} /\ ops' = [ops EXCEPT ![c] = Begin(n)]
          /\ UNCHANGED <<replicas, watch, cached, pc, to>>
      BY <2>11 DEF Approve, spec, worker
    <3>2. \A d \in Chats : ops'[d].pc # "idle" => ops'[d].n \in asked'
      BY <3>1, ApprovedType DEF BoundsInv, TypeOK
    <3> QED BY <3>1, <3>2 DEF BoundsInv, Explained
  <2>12. ASSUME NEW c \in Chats, NEW f \in [Chats -> Ops], NEW r,
                \A d \in Chats : f[d].pc = ops[d].pc /\ f[d].n = ops[d].n,
                r.pc # "idle" => ops[c].pc # "idle" /\ r.n = ops[c].n,
                ops' = [f EXCEPT ![c] = r]
         PROVE  OpsKept
    BY <2>12 DEF OpsKept
  <2>13. ASSUME NEW c \in Chats, GetDeployment(c) PROVE BoundsInv'
    <3> DEFINE r == [ops[c] EXCEPT !.pc = "update", !.current = TRUE,
                                   !.tries = @ + 1]
    <3>1. ops[c].pc # "idle" /\ r.n = ops[c].n
      <4>1. ops[c] \in Ops
        BY DEF TypeOK
      <4> QED BY <2>13, <4>1 DEF GetDeployment, Ops
    <3>2. ops' = [ops EXCEPT ![c] = r] \/ ops' = [ops EXCEPT ![c] = Idle]
      BY <2>13 DEF GetDeployment
    <3> HIDE DEF r
    <3>3. OpsKept
      BY <2>12, <3>1, <3>2, IdleType DEF TypeOK
    <3> QED BY <2>1, <2>13, <3>3 DEF GetDeployment, spec, worker
  <2>14. ASSUME NEW c \in Chats, UpdateDeployment(c) PROVE BoundsInv'
    <3>1. ops[c].n \in asked /\ ops[c].n \in 0..Top
      BY <2>14 DEF UpdateDeployment, BoundsInv, TypeOK, Ops
    <3>2. Explained(ops[c].n)
      BY <3>1, AskedExplained DEF TypeOK
    <3> DEFINE o == [ops EXCEPT ![c] = Idle]
    <3>3. o \in [Chats -> Ops]
      BY IdleType DEF TypeOK
    <3>4. \A d \in Chats : o[d].pc # "idle" => o[d] = ops[d]
      BY IdleType DEF TypeOK
    <3> HIDE DEF o
    <3>5. /\ Write(ops[c].n, o) \/ (ops' = o /\ UNCHANGED spec)
          /\ ops' \in {o, Outdated(o)}
      BY <2>14 DEF UpdateDeployment, Write, o
    <3>7. OpsKept
      BY <3>3, <3>4, <3>5, OutdatedType DEF OpsKept
    <3>6. UNCHANGED <<cached, asked, pc, to>>
      BY <2>14 DEF UpdateDeployment, worker
    <3> QED BY <2>1, <2>2, <3>1, <3>2, <3>5, <3>6, <3>7 DEF spec
  <2>15. ASSUME NEW c \in Chats, Conflict(c) PROVE BoundsInv'
    <3> DEFINE r == IF ops[c].tries < MaxTries
                      THEN [ops[c] EXCEPT !.pc = "get"] ELSE Idle
    <3>1. ops[c].pc # "idle" /\ (r.pc # "idle" => r.n = ops[c].n)
      <4>1. ops[c] \in Ops
        BY DEF TypeOK
      <4> QED BY <2>15, <4>1, IdleType DEF Conflict, Ops
    <3>2. ops' = [ops EXCEPT ![c] = r]
      BY <2>15 DEF Conflict
    <3> HIDE DEF r
    <3>3. OpsKept
      BY <2>12, <3>1, <3>2 DEF TypeOK
    <3> QED BY <2>1, <2>15, <3>3 DEF Conflict, spec, worker
  <2>16. CASE UNCHANGED vars
    BY <2>1, <2>4, <2>16 DEF vars, spec, worker
  <2> QED
    BY <2>5, <2>6, <2>7, <2>8, <2>9, <2>10, <2>11, <2>13, <2>14, <2>15, <2>16
       DEF Next, Scale
<1>3. BoundsInv => BoundsExplained
  BY DEF BoundsInv, BoundsExplained
<1> QED BY <1>1, <1>2, <1>3, TypeInvCorrect, PTL DEF Spec
=============================================================================
