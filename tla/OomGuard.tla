------------------------------- MODULE OomGuard -------------------------------
(***************************************************************************)
(* Out-of-memory kills and the memory limit of one deployment's container: *)
(* handleOOM of internal/controller/kubesolvconfig_controller.go proposes  *)
(* a new limit, a button offers it in the chats, and its approval patches  *)
(* the deployment (PatchMemoryLimit of internal/ops/manager.go).           *)
(*                                                                         *)
(* The pod controller has one worker, so one handleOOM runs at a time; the *)
(* chats approve, pods die and are replaced and the process may crash at   *)
(* any point.  Limits are counted in units of Base's 128Mi; 0 is no limit. *)
(***************************************************************************)
EXTENDS Naturals, Sequences

CONSTANTS
    Pods,        \* the deployment's pod names; a name is never used again
    Strangers,   \* pods of other deployments whose next limit is past Cap
    Length,      \* how long a pod's name is
    InitLimits,  \* limits the deployment may have been given by its owner
    Base,        \* 128Mi, proposed where there is no limit
    Cap,         \* 1Gi, the guardrail
    Cooldown,    \* 10 minutes between buttons of a deployment
    Quiet,       \* 5 minutes in which notifyUser sends no message twice
    MaxClock, MaxFaults, MaxCrashes, MaxClicks   \* bounds

ASSUME OomAssumption ==
    /\ InitLimits \subseteq Nat
    /\ Base \in Nat \ {0} /\ Cap \in Nat /\ Base <= Cap
    /\ Cooldown \in Nat /\ Quiet \in Nat
    /\ Pods \cap Strangers = {}
    /\ MaxClock \in Nat /\ MaxFaults \in Nat /\ MaxCrashes \in Nat
    /\ MaxClicks \in Nat

VARIABLES
    limit,     \* memory limit of the container in the deployment
    born,      \* names of pods created so far
    oomed,     \* live pods whose last termination was OOMKilled
    pc,        \* the worker: "idle", or "offer" while it sends the buttons
    next,      \* the limit it is about to offer
    oomKey,    \* AlertCache: pods with an "oom/..." entry, which never expires
    pending,   \* AlertCache: time of the "oom_pending/..." entry, {} if none
    alerts,    \* AlertCache: by the name's length, the refusal's entry, {} if none
    executed,  \* limits whose button was claimed on Telegram
    offered,   \* limits on buttons in the chats
    clock, faults, crashes, clicks,
    limits,    \* history: limits the deployment has had
    offersAt,  \* history: when offers were decided, this life
    refused    \* history: refusals of this life, when, and whether anyone was told

cache == <<oomKey, pending, alerts>>
cluster == <<limit, limits, born, oomed>>
vars == <<cluster, pc, next, cache, executed, offered, clock, faults, crashes,
          clicks, offersAt, refused>>

\* The messages differ in the pod's name alone, so in its length for the key.
Lengths == {Length[p] : p \in Pods \cup Strangers}

Init ==
    /\ limit \in InitLimits /\ limits = {limit}
    /\ born = {} /\ oomed = {}
    /\ pc = "idle" /\ next = 0
    /\ oomKey = {} /\ pending = {} /\ alerts = [n \in Lengths |-> {}]
    /\ executed = {} /\ offered = {}
    /\ clock = 0 /\ faults = 0 /\ crashes = 0 /\ clicks = 0
    /\ offersAt = <<>> /\ refused = {}

Fault == faults < MaxFaults /\ faults' = faults + 1

(***************************************************************************)
(* The cluster.                                                            *)
(***************************************************************************)

PodOoms(p) ==
    /\ p \notin oomed
    /\ born' = born \cup {p}
    /\ p \notin born
    /\ oomed' = oomed \cup {p}
    /\ UNCHANGED <<limit, limits, pc, next, cache, executed, offered, clock,
                   faults, crashes, clicks, offersAt, refused>>

\* The pod is deleted, by a rollout for instance.
PodGone(p) ==
    /\ oomed' = oomed \ {p}
    /\ p \in oomed
    /\ UNCHANGED <<limit, limits, born, pc, next, cache, executed, offered,
                   clock, faults, crashes, clicks, offersAt, refused>>

(***************************************************************************)
(* The pod controller: handleOOM.                                          *)
(***************************************************************************)

NewLimit == IF limit = 0 THEN Base ELSE 2 * limit
Cooling  == \E t \in pending : clock - t < Cooldown

\* The pod's entry is stored before anything is known of its deployment.
Handles(p) ==
    /\ pc = "idle"
    /\ p \in oomed \ oomKey
    /\ oomKey' = oomKey \cup {p}
    /\ UNCHANGED <<cluster, executed, offered, clock, crashes, clicks>>

\* Reading the replica set or the deployment fails, or a button is pending.
HandleSkip(p) ==
    /\ Handles(p)
    /\ \/ Fault
       \/ Cooling /\ UNCHANGED faults
    /\ UNCHANGED <<pc, next, pending, alerts, offersAt, refused>>

\* Seeded fault: the key is the title alone.
DedupsByTitle(p) == \E n \in Lengths : \E t \in alerts[n] : clock - t < Quiet

\* notifyUser has sent a message of this title and length lately.
Dedups(p) == \E t \in alerts[Length[p]] : clock - t < Quiet

\* "Guardrail Blocked Scaling" through notifyUser, which may keep it back.
Refuse(p) ==
    \/ /\ Dedups(p)
       /\ refused' = refused \cup {[pod |-> p, at |-> clock, told |-> FALSE]}
       /\ UNCHANGED alerts
    \/ /\ ~Dedups(p)
       /\ refused' = refused \cup {[pod |-> p, at |-> clock, told |-> TRUE]}
       /\ alerts' = [alerts EXCEPT ![Length[p]] = {clock}]

HandleRefuse(p) ==
    /\ Handles(p)
    /\ ~Cooling /\ NewLimit > Cap
    /\ Refuse(p)
    /\ UNCHANGED <<pc, next, pending, faults, offersAt>>

\* The worker refuses a pod of another deployment.
RefuseElsewhere(p) ==
    /\ pc = "idle"
    /\ p \notin oomKey
    /\ oomKey' = oomKey \cup {p}
    /\ Refuse(p)
    /\ UNCHANGED <<cluster, pc, next, pending, executed, offered, clock, faults,
                   crashes, clicks, offersAt>>

\* What an offer does, with the pending entry it stores.
Offer(p, entry) ==
    /\ Handles(p)
    /\ pending' = entry
    /\ offersAt' = Append(offersAt, clock)
    /\ next' = NewLimit
    /\ pc' = "offer"
    /\ UNCHANGED <<alerts, faults, refused>>

\* Seeded fault: the guardrail is compared with the limit before the bump.
HandleOfferLate(p) == ~Cooling /\ limit <= Cap /\ Offer(p, {clock})

\* Seeded fault: the pending entry is never stored.
HandleOfferForgets(p) == ~Cooling /\ NewLimit <= Cap /\ Offer(p, pending)

\* Seeded fault: the entry holds the end of the cooldown where its start is read.
HandleOfferExpiry(p) ==
    ~Cooling /\ NewLimit <= Cap /\ Offer(p, {clock + Cooldown})

HandleOffer(p) == ~Cooling /\ NewLimit <= Cap /\ Offer(p, {clock})

\* BroadcastWithAction on both platforms.
SendOffer ==
    /\ pc = "offer"
    /\ pc' = "idle"
    /\ offered' = offered \cup {next}
    /\ UNCHANGED <<cluster, next, cache, executed, clock, faults, crashes,
                   clicks, offersAt, refused>>

(***************************************************************************)
(* Approvals: the patch_mem branch of the two handleInteraction.           *)
(***************************************************************************)

\* PatchMemoryLimit: sets the limit, whatever it is by now, or fails.
PatchMemoryLimit(l) ==
    /\ \/ limit' = l /\ limits' = limits \cup {l} /\ UNCHANGED faults
       \/ Fault /\ UNCHANGED <<limit, limits>>
    /\ clicks < MaxClicks /\ clicks' = clicks + 1
    /\ UNCHANGED <<born, oomed, pc, next, cache, offered, clock, crashes,
                   offersAt, refused>>

SlackApprove(l) ==
    /\ l \in offered
    /\ PatchMemoryLimit(l)
    /\ UNCHANGED executed

TelegramApprove(l) ==
    /\ l \in offered \ executed
    /\ executed' = executed \cup {l}
    /\ PatchMemoryLimit(l)

Tick ==
    /\ clock < MaxClock
    /\ clock' = clock + 1
    /\ UNCHANGED <<cluster, pc, next, cache, executed, offered, faults, crashes,
                   clicks, offersAt, refused>>

\* The buttons outlive the process; its caches and claims do not.
Crash ==
    /\ crashes < MaxCrashes
    /\ crashes' = crashes + 1
    /\ pc' = "idle" /\ next' = 0
    /\ oomKey' = {} /\ pending' = {} /\ alerts' = [n \in Lengths |-> {}]
    /\ executed' = {}
    /\ offersAt' = <<>> /\ refused' = {}
    /\ UNCHANGED <<cluster, offered, clock, faults, clicks>>

Handle(p) == HandleSkip(p) \/ HandleRefuse(p) \/ HandleOffer(p)

Next ==
    \/ \E p \in Pods : PodOoms(p) \/ PodGone(p) \/ Handle(p)
    \/ \E p \in Strangers : RefuseElsewhere(p)
    \/ SendOffer
    \/ \E l \in offered : SlackApprove(l) \/ TelegramApprove(l)
    \/ Tick \/ Crash

Spec == Init /\ [][Next]_vars

\* The worker is woken for every pod and its calls return.
FairSpec == Spec /\ WF_vars(SendOffer) /\ WF_vars(\E p \in Pods : Handle(p))

(***************************************************************************)
(* Properties.                                                             *)
(***************************************************************************)

\* Every variable has its type.
TypeOK ==
    /\ limit \in Nat /\ limits \subseteq Nat /\ limit \in limits
    /\ born \subseteq Pods /\ oomed \subseteq born
    /\ pc \in {"idle", "offer"} /\ next \in Nat
    /\ oomKey \subseteq Pods \cup Strangers /\ pending \subseteq 0..clock
    /\ alerts \in [Lengths -> SUBSET (0..clock)]
    /\ executed \subseteq Nat /\ offered \subseteq Nat
    /\ clock \in Nat /\ faults \in Nat /\ crashes \in Nat /\ clicks \in Nat
    /\ offersAt \in Seq(Nat)
    /\ refused \subseteq [pod: Pods \cup Strangers, at: 0..clock, told: BOOLEAN]

\* "Memory scaling is capped at 1Gi" (PRODUCT.md:177): whichever of the
\* buttons that ever appeared is clicked, and however late, the limit stays
\* within the guardrail unless its owner had set it higher.
GuardrailHolds ==
    /\ \A l \in offered : 0 < l /\ l <= Cap
    /\ \A l \in limits : l \in InitLimits \/ l <= Cap

\* An offer doubles a limit the deployment really had, or is the base where
\* there was none: the limit read at line 345 may be old when the button
\* appears, but is never made up.
OffersDouble ==
    \A l \in offered :
        \E h \in limits : l = IF h = 0 THEN Base ELSE 2 * h

\* "don't send another button if one is already pending" (line 350): within
\* one life two offers are at least Cooldown apart.
OffersSpaced ==
    \A i, j \in DOMAIN offersAt :
        i < j => offersAt[j] - offersAt[i] >= Cooldown

\* The guardrail refused p and said so, or kept silent because it had said so of
\* a pod, of this deployment or another, with a name as long, less than five
\* minutes before.
Refused(p) ==
    \E r \in refused :
        /\ r.pod = p
        /\ r.told \/ \E q \in refused : /\ q.told
                                       /\ Length[q.pod] = Length[p]
                                       /\ q.at <= r.at /\ r.at - q.at < Quiet

\* The entry that is stored before anything else is done hides an unanswered
\* kill for three reasons only: a call failed, someone approved, or the word of
\* the guardrail was taken for a repetition by notifyUser.  In all other cases a
\* killed pod that will not be looked at again has its buttons on their way or
\* in the chats, or the guardrail's refusal has been posted with its name.
MarkedAnswered ==
    \A p \in oomed \cap oomKey :
        \/ pc = "offer"
        \/ \E l \in offered : l > limit
        \/ Refused(p)
        \/ faults + clicks > 0

\* "Detects OOM kills and proposes memory limit increases" (PRODUCT.md:69): a
\* killed pod that stays is followed by a button for more memory than its
\* deployment has, or by the guardrail's refusal, restarts or not.  What can
\* prevent it is a failed call, an approval, which may leave the pod within the
\* cooldown of a button that did not suffice, and the refusal of a pod with as
\* long a name less than five minutes before.
OomAnswered ==
    \A p \in Pods :
        p \in oomed ~> \/ p \notin oomed
                       \/ \E l \in offered : l > limit
                       \/ Refused(p)
                       \/ faults + clicks > 0
=============================================================================
