------------------------------- MODULE Scaling --------------------------------
(***************************************************************************)
(* The replica count of one deployment and its two writers: checkActivity  *)
(* of internal/controller/kubesolvconfig_controller.go, which patches it   *)
(* from the CPU of single pods, and ScaleDeployment of internal/ops, which *)
(* the approvals of each chat run.  checkCostOptimization offers buttons.  *)
(*                                                                         *)
(* The controller reads the deployment from its informer's cache, which    *)
(* follows the API server through a watch, and writes with a merge patch   *)
(* that carries no version; ScaleDeployment reads and writes the API       *)
(* server and is retried when the version it read is no longer the last.   *)
(***************************************************************************)
EXTENDS Naturals, Sequences, FiniteSets

CONSTANTS
    Pods,       \* places for running pods; a new pod in one has a new name
    Chats,      \* the chats' handlers; each runs one approval at a time
    Top,        \* largest replica count considered (bound)
    Min, Max,   \* kubesolv.io/min-replicas and max-replicas
    Initial,    \* replica counts its owner may have given the deployment
    Loads,      \* levels of demand considered: "low", "mid", "high"
    Cooldown,   \* 15 seconds per pod, in ticks
    MaxTries,   \* attempts of RetryOnConflict
    SampledAtStart,   \* whether Prometheus knows a pod from its first look on
    MaxLag, MaxFaults \* bounds: watch events under way, failed calls

ASSUME ScalingAssumption ==
    /\ Top \in Nat /\ Min \in Nat /\ Max \in 0..Top /\ Initial \subseteq 0..Top
    /\ Loads \subseteq {"low", "mid", "high"}
    /\ Cooldown \in Nat /\ MaxTries \in Nat \ {0}
    /\ SampledAtStart \in BOOLEAN
    /\ MaxLag \in Nat /\ MaxFaults \in Nat

VARIABLES
    replicas,  \* spec.replicas at the API server
    watch,     \* counts the informer has not received yet, oldest first
    cached,    \* the count in the informer's cache
    load,      \* demand on the deployment
    live,      \* running pods
    sampled,   \* running pods Prometheus has samples of
    cool,      \* ticks until a pod's "scale/..." entry has aged out
    pc,        \* the pod controller: "idle", "patch", "review" or "offer"
    from, to,  \* counts it read and is about to write or offer
    costKey,   \* "cost/..." entry stored (the time modelled is under 24 hours)
    buttons,   \* counts on "Scale Down to" buttons in the chats
    ops,       \* per chat, the ScaleDeployment under way
    asked,     \* history: counts the owner or an approver asked for
    faults

worker == <<pc, from, to, cool, costKey, buttons>>
pods == <<live, sampled>>
spec == <<replicas, watch>>
vars == <<spec, cached, load, pods, worker, ops, asked, faults>>

Idle == [pc |-> "idle", n |-> 0, tries |-> 0, current |-> FALSE]
Begin(n) == [pc |-> "get", n |-> n, tries |-> 0, current |-> FALSE]

Init ==
    /\ replicas \in Initial /\ watch = <<>> /\ cached = replicas
    /\ load \in Loads /\ live = {} /\ sampled = {}
    /\ cool = [p \in Pods |-> 0] /\ pc = "idle" /\ from = 0 /\ to = 0
    /\ costKey = FALSE /\ buttons = {}
    /\ ops = [c \in Chats |-> Idle]
    /\ asked = {replicas} /\ faults = 0

Fault == faults < MaxFaults /\ faults' = faults + 1

(***************************************************************************)
(* The cluster.  A write gives the deployment a new version, so does a     *)
(* pod that starts or stops, through the deployment's status.              *)
(***************************************************************************)

Outdated(o) == [c \in Chats |-> [o[c] EXCEPT !.current = FALSE]]

\* The count is set to n; o are the operations once the writer has returned.
\* A write that changes nothing makes no version and no event.
Write(n, o) ==
    \/ n = replicas /\ ops' = o /\ UNCHANGED spec
    \/ /\ n # replicas
       /\ Len(watch) < MaxLag
       /\ replicas' = n
       /\ watch' = Append(watch, n)
       /\ ops' = Outdated(o)

Deliver ==
    /\ watch # <<>>
    /\ cached' = Head(watch) /\ watch' = Tail(watch)
    /\ UNCHANGED <<replicas, load, pods, worker, ops, asked, faults>>

LoadChanges(l) ==
    /\ load' = l
    /\ UNCHANGED <<spec, cached, pods, worker, ops, asked, faults>>

PodStarts(p) ==
    /\ p \notin live /\ Cardinality(live) < replicas
    /\ live' = live \cup {p}
    /\ sampled' = IF SampledAtStart THEN sampled \cup {p} ELSE sampled
    /\ cool' = [cool EXCEPT ![p] = 0]
    /\ ops' = Outdated(ops)
    /\ UNCHANGED <<spec, cached, load, pc, from, to, costKey, buttons, asked,
                   faults>>

PodStops(p) ==
    /\ p \in live /\ Cardinality(live) > replicas
    /\ live' = live \ {p} /\ sampled' = sampled \ {p}
    /\ ops' = Outdated(ops)
    /\ UNCHANGED <<spec, cached, load, worker, asked, faults>>

Sample(p) ==
    /\ p \in live \ sampled
    /\ sampled' = sampled \cup {p}
    /\ UNCHANGED <<spec, cached, load, live, worker, ops, asked, faults>>

Tick ==
    /\ \E p \in Pods : cool[p] > 0
    /\ cool' = [p \in Pods |-> IF cool[p] > 0 THEN cool[p] - 1 ELSE 0]
    /\ UNCHANGED <<spec, cached, load, pods, pc, from, to, costKey, buttons,
                   ops, asked, faults>>

(***************************************************************************)
(* The pod controller: Reconcile of a running pod.                         *)
(***************************************************************************)

\* GetCPUUsage: a query without samples answers 0.
CpuUsage(p) == IF p \in sampled THEN load ELSE "low"

\* Seeded fault: the upper bound is compared with <=.
DesiredPast(p, n) ==
    CASE CpuUsage(p) = "high" /\ n <= Max -> n + 1
      [] CpuUsage(p) = "low" /\ n > Min   -> n - 1
      [] OTHER -> n

\* Seeded fault: it is the count to come that must lie below the upper bound.
DesiredShort(p, n) ==
    CASE CpuUsage(p) = "high" /\ n + 1 < Max -> n + 1
      [] CpuUsage(p) = "low" /\ n > Min      -> n - 1
      [] OTHER -> n

\* What checkActivity makes of the count it read and the pod's CPU.
Desired(p, n) ==
    CASE CpuUsage(p) = "high" /\ n < Max -> n + 1
      [] CpuUsage(p) = "low" /\ n > Min  -> n - 1
      [] OTHER -> n

\* checkActivity up to its patch.  Its entry is stored before it knows
\* whether it will scale; a call that fails ends it as well.
LookAt(p) ==
    /\ pc = "idle" /\ p \in live
    /\ \/ /\ cool[p] > 0
          /\ pc' = "review" /\ UNCHANGED <<cool, from, to, faults>>
       \/ /\ cool[p] = 0
          /\ cool' = [cool EXCEPT ![p] = Cooldown]
          /\ \/ /\ Desired(p, cached) # cached
                /\ from' = cached /\ to' = Desired(p, cached)
                /\ pc' = "patch" /\ UNCHANGED faults
             \/ /\ Desired(p, cached) = cached
                /\ pc' = "review" /\ UNCHANGED <<from, to, faults>>
             \/ Fault /\ pc' = "review" /\ UNCHANGED <<from, to>>
    /\ UNCHANGED <<spec, cached, load, pods, costKey, buttons, ops, asked>>

Patch ==
    /\ pc = "patch"
    /\ pc' = "review" /\ from' = 0 /\ to' = 0
    /\ \/ Write(to, ops) /\ UNCHANGED faults
       \/ Fault /\ UNCHANGED <<spec, ops>>
    /\ UNCHANGED <<cached, load, pods, cool, costKey, buttons, asked>>

\* checkCostOptimization up to the AI's answer, any smaller count.
Review ==
    /\ pc = "review"
    /\ \/ /\ ~costKey /\ replicas > 1
          /\ to' \in 0..(replicas - 1)
          /\ pc' = "offer"
       \/ pc' = "idle" /\ UNCHANGED to
    /\ UNCHANGED <<spec, cached, load, pods, cool, from, costKey, buttons, ops,
                   asked, faults>>

OfferScaleDown ==
    /\ pc = "offer"
    /\ pc' = "idle" /\ to' = 0
    /\ costKey' = TRUE
    /\ buttons' = buttons \cup {to}
    /\ UNCHANGED <<spec, cached, load, pods, cool, from, ops, asked, faults>>

(***************************************************************************)
(* Approvals: the scale branch of handleInteraction and ScaleDeployment.   *)
(***************************************************************************)

\* A person clicks a button of the cost check, or one the AI made in a chat
\* for whatever count it was asked for.
Approve(c, n) ==
    /\ ops[c].pc = "idle"
    /\ ops' = [ops EXCEPT ![c] = Begin(n)]
    /\ asked' = asked \cup {n}
    /\ UNCHANGED <<spec, cached, load, pods, worker, faults>>

GetDeployment(c) ==
    /\ ops[c].pc = "get"
    /\ \/ /\ ops' = [ops EXCEPT ![c].pc = "update", ![c].current = TRUE,
                                ![c].tries = @ + 1]
          /\ UNCHANGED faults
       \/ Fault /\ ops' = [ops EXCEPT ![c] = Idle]
    /\ UNCHANGED <<spec, cached, load, pods, worker, asked>>

\* The version it read is the last one: the count is set.
UpdateDeployment(c) ==
    /\ ops[c].pc = "update"
    /\ \/ /\ ops[c].current
          /\ Write(ops[c].n, [ops EXCEPT ![c] = Idle])
          /\ UNCHANGED faults
       \/ Fault /\ ops' = [ops EXCEPT ![c] = Idle] /\ UNCHANGED spec
    /\ UNCHANGED <<cached, load, pods, worker, asked>>

\* Seeded fault: one attempt too many.
ConflictOneMore(c) ==
    /\ ops[c].pc = "update" /\ ~ops[c].current
    /\ ops' = [ops EXCEPT ![c] =
                 IF @.tries <= MaxTries THEN [@ EXCEPT !.pc = "get"] ELSE Idle]
    /\ UNCHANGED <<spec, cached, load, pods, worker, asked, faults>>

\* Seeded fault: every conflict starts a new round of attempts.
ConflictForever(c) ==
    /\ ops[c].pc = "update" /\ ~ops[c].current
    /\ ops' = [ops EXCEPT ![c].pc = "get", ![c].tries = 0]
    /\ UNCHANGED <<spec, cached, load, pods, worker, asked, faults>>

\* Conflict: RetryOnConflict tries again, or gives up.
Conflict(c) ==
    /\ ops[c].pc = "update" /\ ~ops[c].current
    /\ ops' = [ops EXCEPT ![c] =
                 IF @.tries < MaxTries THEN [@ EXCEPT !.pc = "get"] ELSE Idle]
    /\ UNCHANGED <<spec, cached, load, pods, worker, asked, faults>>

Scale(c) == GetDeployment(c) \/ UpdateDeployment(c) \/ Conflict(c)

Next ==
    \/ Deliver
    \/ \E l \in Loads : LoadChanges(l)
    \/ \E p \in Pods : PodStarts(p) \/ PodStops(p) \/ Sample(p) \/ LookAt(p)
    \/ Tick \/ Patch \/ Review \/ OfferScaleDown
    \/ \E c \in Chats : Scale(c) \/ \E n \in 0..Top : Approve(c, n)

Spec == Init /\ [][Next]_vars

\* Running pods are reconciled every 10 seconds, calls return, the watch and
\* the deployment's own controllers go on.
FairSpec ==
    /\ Spec
    /\ WF_vars(\E p \in Pods : LookAt(p)) /\ WF_vars(Patch)
    /\ WF_vars(Review) /\ WF_vars(OfferScaleDown)
    /\ \A c \in Chats : WF_vars(Scale(c))
    /\ WF_vars(Deliver) /\ WF_vars(Tick)
    /\ WF_vars(\E p \in Pods : PodStarts(p)) /\ WF_vars(\E p \in Pods : PodStops(p))
    /\ \A p \in Pods : WF_vars(Sample(p))

(***************************************************************************)
(* Properties.                                                             *)
(***************************************************************************)

Ops == [pc : {"idle", "get", "update"}, n : 0..Top, tries : 0..MaxTries,
        current : BOOLEAN]

\* Every variable has its type; pods have samples only while they run.
TypeOK ==
    /\ replicas \in 0..Top /\ watch \in Seq(0..Top) /\ cached \in 0..Top
    /\ load \in Loads
    /\ live \subseteq Pods /\ sampled \subseteq live
    /\ cool \in [Pods -> 0..Cooldown]
    /\ pc \in {"idle", "patch", "review", "offer"}
    /\ from \in 0..Top /\ to \in 0..Top
    /\ costKey \in BOOLEAN /\ buttons \subseteq 0..Top
    /\ ops \in [Chats -> Ops] /\ asked \subseteq 0..Top /\ faults \in Nat

\* A count is explained when it is within the bounds, or lies between them
\* and a count a person asked for.
Explained(n) ==
    /\ n > Max => \E a \in asked : a >= n
    /\ n < Min => \E a \in asked : a <= n

\* "Respects configured min/max replica boundaries" (PRODUCT.md:137): however
\* old the cache checkActivity reads, and whatever else writes in between, it
\* never takes the deployment further out than a person did.
BoundsExplained == Explained(replicas)

\* Another writer never holds up an approval for ever: after at most MaxTries
\* conflicts ScaleDeployment (ops/scale.go:18) has scaled or given up.
ScaleReturns ==
    \A c \in Chats : ops[c].pc # "idle" ~> ops[c].pc = "idle"

\* "Detects ... high load ... Scales the deployment" (PRODUCT.md:133-135): when
\* demand stays high, the deployment reaches its maximum and stays there.
HighLoadScaled ==
    <>[](load = "high") => <>[](replicas >= Max)
=============================================================================
