------------------------------- MODULE Rollback -------------------------------
(***************************************************************************)
(* The autopilot's rollback of one deployment: analyzePod and              *)
(* rollbackDeployment of internal/controller/kubesolvconfig_controller.go, *)
(* and the button "Approve Rollback" (RollbackDeployment of                *)
(* internal/ops/manager.go).                                               *)
(*                                                                         *)
(* A pod template is a map of named fields: a container's image, an        *)
(* environment variable, an annotation.  A strategic merge patch sets the  *)
(* fields it has and keeps those it does not mention.  The deployment      *)
(* controller gives each template a replica set and numbers the sets; one  *)
(* whose template comes back is numbered anew; only then, in a write of    *)
(* its own, it records the number on the deployment.  The pod controller   *)
(* has one worker; people, the deployment controller and time move between *)
(* its calls, its two reads of the cluster included.  Of an analysis entry *)
(* only what is left is kept, in ticks.                                    *)
(***************************************************************************)
EXTENDS Integers

CONSTANTS
    Field,      \* named parts of a pod template
    Stamp,      \* the annotation that an approved rollback writes
    Value,      \* values of a field
    Stamps,     \* times an approved rollback may write
    Absent,     \* a field the template does not have
    Crashing,   \* templates whose containers crash
    First,      \* the template deployed at the start
    Releases,   \* templates people may deploy
    MaxPods,    \* most pods the deployment may have
    EntryTime,  \* two minutes between analyses of a pod
    MaxRevision, MaxReleases   \* bounds

Template == [Field -> Value \cup {Absent}]

ASSUME RollbackAssumption ==
    /\ Stamp \in Field
    /\ Absent \notin Value /\ Stamps \subseteq Value
    /\ First \in Template
    /\ Releases \subseteq Template
    /\ MaxPods \in Nat \ {0} /\ EntryTime \in Nat \ {0}
    /\ MaxRevision \in Nat /\ MaxReleases \in Nat

VARIABLES
    template,  \* the deployment's pod template
    revision,  \* its revision annotation
    rs,        \* revisions of the replica sets, by their template
    pods,      \* template of the pod in each place in use
    entry,     \* AlertCache "analyze/...": ticks left, by the pod's place
    pc,        \* the worker: "idle", "asked" the model, "read" the deployment,
               \* or about to "patch"
    from,      \* template of the pod it analyses
    seen,      \* revision of the deployment it read
    target,    \* template it is going to patch in
    offered,   \* a button "Approve Rollback" waits
    releases,  \* history: templates deployed by people, counted
    lineage,   \* history: the last release and the template it replaced
    stale,     \* history: the worker began to read before the last release
               \* was recorded
    disturbed  \* history: a rollback was approved, or an analysis or a rollout
               \* took longer than the entry of the pod it was about

sets == <<revision, rs>>
worker == <<pc, from, seen, target>>
history == <<releases, lineage, stale, disturbed>>
rollbackVars == <<template, sets, pods, entry, worker, offered, history>>

\* A release and, once it is numbered, the template and the number it follows.
Lineage == [stage : {"new", "numbered", "recorded"}, rel : Template,
            prev : Template, base : Nat]

\* A new release: its replica set has no number yet.
Unnumbered(t) == [stage |-> "new", rel |-> t, prev |-> t, base |-> 0]

RollbackInit ==
    /\ template = First
    /\ revision = 1
    /\ rs = [t \in {First} |-> 1]
    /\ \E n \in 1..MaxPods :
           /\ pods = [s \in 1..n |-> First]
           /\ entry = [s \in 1..n |-> 0]
    /\ pc = "idle" /\ from = First /\ seen = 0 /\ target = First
    /\ offered = FALSE
    /\ releases = 0
    /\ lineage = [stage |-> "recorded", rel |-> First, prev |-> First, base |-> 0]
    /\ stale = FALSE
    /\ disturbed = FALSE

\* Seeded fault: the present template is merged into the old one.
OverlayReversed(old, cur) ==
    [f \in Field |-> IF cur[f] = Absent THEN old[f] ELSE cur[f]]

\* A strategic merge of the template old into the template cur.
Overlay(old, cur) ==
    [f \in Field |-> IF old[f] = Absent THEN cur[f] ELSE old[f]]

(***************************************************************************)
(* The cluster: people, the deployment controller, time.                   *)
(***************************************************************************)

Release(t) ==
    /\ t # template
    /\ releases < MaxReleases /\ releases' = releases + 1
    /\ template' = t
    /\ lineage' = Unnumbered(t)
    /\ stale' = (pc \in {"read", "patch"})
    /\ UNCHANGED <<sets, pods, entry, worker, offered, disturbed>>

Newest(t) == t \in DOMAIN rs /\ \A u \in DOMAIN rs : rs[u] <= rs[t]

\* The template has the newest replica set, and the deployment says so.
Settled == Newest(template) /\ rs[template] = revision

\* The model's numbers are used up: a rollout not yet numbered stands still.
Bounded == \E t \in DOMAIN rs : rs[t] = MaxRevision

\* The deployment controller gives the template's replica set the next number.
NumberReplicaSet ==
    /\ ~Newest(template)
    /\ \E old \in DOMAIN rs :
           /\ Newest(old) /\ ~Bounded
           /\ rs' = [t \in DOMAIN rs \cup {template} |->
                         IF t = template THEN rs[old] + 1 ELSE rs[t]]
           /\ lineage' = IF lineage.stage # "new" THEN lineage
                         ELSE [lineage EXCEPT !.stage = "numbered", !.prev = old,
                                              !.base = rs[old]]
    /\ UNCHANGED <<template, revision, pods, entry, worker, offered, releases,
                   stale, disturbed>>

\* It records that number on the deployment.
RecordRevision ==
    /\ Newest(template) /\ revision # rs[template]
    /\ revision' = rs[template]
    /\ lineage' = IF lineage.stage = "numbered"
                  THEN [lineage EXCEPT !.stage = "recorded"] ELSE lineage
    /\ UNCHANGED <<template, rs, pods, entry, worker, offered, releases, stale,
                   disturbed>>

\* A pod of an older template is replaced by one of the current one.
ReplacePod(s) ==
    /\ Settled
    /\ pods[s] # template
    /\ pods' = [pods EXCEPT ![s] = template]
    /\ entry' = [entry EXCEPT ![s] = 0]
    /\ UNCHANGED <<template, sets, worker, offered, history>>

\* When a rollout is over, replica sets beyond the deployment's
\* revisionHistoryLimit, at least one, are removed.
PruneReplicaSet(t) ==
    /\ Settled
    /\ \A s \in DOMAIN pods : pods[s] = template
    /\ rs[t] < revision - 1
    /\ rs' = [u \in DOMAIN rs \ {t} |-> rs[u]]
    /\ UNCHANGED <<template, revision, pods, entry, worker, offered, history>>

TimePasses ==
    /\ \E s \in DOMAIN entry : entry[s] > 0
    /\ entry' = [s \in DOMAIN entry |-> IF entry[s] > 0 THEN entry[s] - 1 ELSE 0]
    /\ disturbed' = \/ disturbed
                    \/ \E s \in DOMAIN entry :
                           /\ entry[s] = 1
                           /\ Newest(template) \/ ~Bounded
                           /\ ~(pc = "idle" /\ Settled /\ pods[s] = template)
    /\ UNCHANGED <<template, sets, pods, worker, offered, releases, lineage, stale>>

(***************************************************************************)
(* The worker: analyzePod.                                                 *)
(***************************************************************************)

\* Seeded fault: the entry lasts twice as long.
AnalyzeLater(s) ==
    /\ pc = "idle"
    /\ pods[s] \in Crashing
    /\ entry[s] = 0
    /\ entry' = [entry EXCEPT ![s] = 2 * EntryTime]
    /\ from' = pods[s]
    /\ pc' = "asked"
    /\ UNCHANGED <<template, sets, pods, seen, target, offered, history>>

\* A container waits in CrashLoopBackOff; the entry is stored before the model
\* is asked.
Analyze(s) ==
    /\ pc = "idle"
    /\ pods[s] \in Crashing
    /\ entry[s] = 0
    /\ entry' = [entry EXCEPT ![s] = EntryTime]
    /\ from' = pods[s]
    /\ pc' = "asked"
    /\ UNCHANGED <<template, sets, pods, seen, target, offered, history>>

\* What the analysis knew is forgotten with it.
Done == pc' = "idle" /\ from' = First /\ seen' = 0 /\ target' = First /\ stale' = FALSE

\* The model fails or sees nothing to do, or a call of the rollback fails, or
\* the revision is not found: at most a message is sent.
GiveUp ==
    /\ pc \in {"asked", "read", "patch"}
    /\ Done
    /\ UNCHANGED <<template, sets, pods, entry, offered, releases, lineage,
                   disturbed>>

\* The pod's owner is read with its error dropped: without it there is no
\* deployment to name.
OwnerFound == from \in DOMAIN rs

OfferRollback ==
    /\ pc = "asked"
    /\ OwnerFound
    /\ Done
    /\ offered' = TRUE
    /\ UNCHANGED <<template, sets, pods, entry, releases, lineage, disturbed>>

\* Whatever its confidence, a decision to roll back is carried out: first the
\* deployment is read for its revision.
ReadDeployment ==
    /\ pc = "asked"
    /\ OwnerFound
    /\ pc' = "read"
    /\ seen' = revision
    /\ stale' = (lineage.stage # "recorded")
    /\ UNCHANGED <<template, sets, pods, entry, from, target, offered, releases,
                   lineage, disturbed>>

HasHistory == \E t, u \in DOMAIN rs : t # u

\* Seeded fault: one revision too far back.
PreviousButOne == {t \in DOMAIN rs : rs[t] = seen - 2}

Previous == {t \in DOMAIN rs : rs[t] = seen - 1}

\* Seeded fault: the oldest replica set is picked.
PickOldest ==
    /\ pc = "read"
    /\ HasHistory
    /\ target' \in {t \in DOMAIN rs : \A u \in DOMAIN rs : rs[t] <= rs[u]}
    /\ pc' = "patch" /\ seen' = 0
    /\ UNCHANGED <<template, sets, pods, entry, from, offered, history>>

\* Then the replica sets are listed, for the one numbered one below the
\* revision read.
ListReplicaSets ==
    /\ pc = "read"
    /\ HasHistory
    /\ target' \in Previous
    /\ pc' = "patch" /\ seen' = 0
    /\ UNCHANGED <<template, sets, pods, entry, from, offered, history>>

\* The patch carries no version: it meets whatever template is there by now.  A
\* stale one that changes it makes, in effect, a release of its own.
PatchTemplate ==
    /\ pc = "patch"
    /\ template' = Overlay(target, template)
    /\ lineage' = IF stale /\ template' # template THEN Unnumbered(template')
                  ELSE lineage
    /\ Done
    /\ UNCHANGED <<sets, pods, entry, offered, releases, disturbed>>

\* An approved rollback: RollbackDeployment writes an annotation, no more.
ApproveRollback(v) ==
    /\ offered
    /\ offered' = FALSE
    /\ template' = [template EXCEPT ![Stamp] = v]
    /\ template' # template
    /\ disturbed' = TRUE
    /\ UNCHANGED <<sets, pods, entry, worker, releases, lineage, stale>>

WorkerStep ==
    \/ \E s \in DOMAIN pods : Analyze(s)
    \/ OfferRollback \/ ReadDeployment \/ ListReplicaSets \/ PatchTemplate \/ GiveUp

RollbackNext ==
    \/ WorkerStep
    \/ \E t \in Releases : Release(t)
    \/ NumberReplicaSet \/ RecordRevision
    \/ \E s \in DOMAIN pods : ReplacePod(s)
    \/ \E t \in DOMAIN rs : PruneReplicaSet(t)
    \/ \E v \in Stamps : ApproveRollback(v)
    \/ TimePasses

RollbackSpec == RollbackInit /\ [][RollbackNext]_rollbackVars

\* Crashing pods bring themselves back to the worker, the deployment controller
\* and time go on, and a model asked again and again decides on a rollback and
\* has it carried out again and again.
RollbackFairness ==
    /\ \A s \in 1..MaxPods : /\ WF_rollbackVars(s \in DOMAIN pods /\ Analyze(s))
                        /\ WF_rollbackVars(s \in DOMAIN pods /\ ReplacePod(s))
    /\ WF_rollbackVars(NumberReplicaSet) /\ WF_rollbackVars(RecordRevision)
    /\ WF_rollbackVars(TimePasses)
    /\ WF_rollbackVars(GiveUp \/ ReadDeployment \/ ListReplicaSets \/ PatchTemplate)
    /\ SF_rollbackVars(ReadDeployment)
    /\ SF_rollbackVars(ListReplicaSets)
    /\ SF_rollbackVars(PatchTemplate)

RollbackFairSpec == RollbackSpec /\ RollbackFairness

(***************************************************************************)
(* Properties.                                                             *)
(***************************************************************************)

RollbackTypeOK ==
    /\ template \in Template
    /\ revision \in Nat
    /\ DOMAIN rs \subseteq Template /\ rs \in [DOMAIN rs -> Nat]
    /\ DOMAIN pods \subseteq 1..MaxPods /\ pods \in [DOMAIN pods -> Template]
    /\ entry \in [DOMAIN pods -> 0..EntryTime]
    /\ pc \in {"idle", "asked", "read", "patch"}
    /\ from \in Template /\ seen \in Nat /\ target \in Template
    /\ offered \in BOOLEAN
    /\ releases \in 0..MaxReleases
    /\ lineage \in Lineage /\ stale \in BOOLEAN
    /\ disturbed \in BOOLEAN

\* rollbackDeployment ends with "previous revision not found" (line 533) only in
\* the middle of a rollout: when the revision it read is the newest replica set's
\* still, there is one numbered just below, however often templates came back
\* and old sets were pruned.
PreviousFound ==
    pc = "read" /\ HasHistory /\ (\E t \in DOMAIN rs : Newest(t) /\ rs[t] = seen)
        => Previous # {}

\* What runs, without the annotation of approved rollbacks.
Core(t) == [t EXCEPT ![Stamp] = Absent]

\* The templates a release can turn into: itself, what it becomes when the
\* template before it is merged over it, and what that becomes when the release
\* is merged back.
Swaps(rel, prev) ==
    {rel, Overlay(prev, rel), Overlay(rel, Overlay(prev, rel))}

\* However many rollbacks follow a recorded release, decided by the model or
\* approved by people, and however they fall between the numbering of replica
\* sets and its recording, the deployment only swaps the two newest templates.
\* A rollback that read the deployment before the release was recorded may merge
\* an older template over it, once: what that makes then counts as the release.
SwapsOnly ==
    lineage.stage = "recorded" =>
        Core(template) \in {Core(t) : t \in Swaps(lineage.rel, lineage.prev)}

\* The replica sets of the two newest numbers.
TwoNewest ==
    {t \in DOMAIN rs : \A u, v \in DOMAIN rs : rs[t] < rs[u] /\ rs[u] < rs[v] => FALSE}

\* A deployment of one pod whose rollouts keep up ends at a template that does
\* not crash, unless its two newest templates both crash: between those it is
\* rolled back and forth, and an older one that worked is not looked for.
ServiceRestored ==
    \/ \E s, t \in DOMAIN pods : s # t
    \/ <>disturbed
    \/ <>[](template \notin Crashing)
    \/ <>[](TwoNewest \subseteq Crashing)

\* "Rollback failing deployments to the last known good version" (PRODUCT.md:37):
\* the rollback for a crashing pod does not leave, or bring back, what that pod
\* runs.
AwayFromCrash == [][PatchTemplate => Core(template') # Core(from)]_rollbackVars
=============================================================================
