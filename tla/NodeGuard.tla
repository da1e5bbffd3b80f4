------------------------------ MODULE NodeGuard -------------------------------
(***************************************************************************)
(* The alerts about one node, internal/controller/node_controller.go, and  *)
(* the cordoning of it that approvals lead to, internal/ops/node.go.       *)
(*                                                                         *)
(* The controller reconciles the node when it changed, and once a minute   *)
(* after it has last looked at its conditions.  Its entries in AlertCache  *)
(* hold the ticks they have left; a look takes no time.  The goroutine of  *)
(* each chat gets the node and then updates it: the API server refuses the *)
(* update of a version that is no longer the newest.                       *)
(***************************************************************************)
EXTENDS Integers

CONSTANTS
    Issues,     \* what conditions may say: "Node Not Ready", pressures
    Simulated,  \* the issue that the test label pretends
    HalfHour,   \* ticks between two alerts of an issue
    Chats       \* goroutines that run approved operations

ASSUME NodeAssumption == Simulated \in Issues /\ HalfHour \in Nat \ {0}

VARIABLES
    conditions,     \* issues the node has
    label,          \* kubesolv.io/test-cordon is "true"
    unschedulable,
    queued,         \* the node waits in the controller's queue
    timer,          \* it is requeued within a minute
    alertEntry,     \* AlertCache "node/...": ticks left, by issue
    got,            \* per chat: what it knows of the node it got
    warned          \* history: issues alerted of since the node has them

nodeVars == <<conditions, label, unschedulable, queued, timer, alertEntry, got,
              warned>>

\* Not at work; or the label of the node it got, what it wants, and whether the
\* version is still the newest.
Idle == [busy |-> FALSE, label |-> FALSE, want |-> FALSE, newest |-> FALSE]
Copies == [busy : BOOLEAN, label : BOOLEAN, want : BOOLEAN, newest : BOOLEAN]

NodeInit ==
    /\ conditions = {} /\ label = FALSE
    /\ unschedulable = FALSE
    /\ queued = FALSE /\ timer = FALSE
    /\ alertEntry = [i \in Issues |-> 0]
    /\ got = [c \in Chats |-> Idle]
    /\ warned = {}

\* A change of the node: an event for the controller, and a new version.
Outdated(copies) ==
    [c \in Chats |-> IF copies[c].busy THEN [copies[c] EXCEPT !.newest = FALSE]
                                       ELSE Idle]
Changed == queued' = TRUE /\ got' = Outdated(got)

(***************************************************************************)
(* The node, people with kubectl, time, restarts.                          *)
(***************************************************************************)

ConditionChanges(i) ==
    /\ conditions' = (conditions \ {i}) \cup ({i} \ conditions)
    /\ warned' = warned \ {i}
    /\ Changed
    /\ UNCHANGED <<label, unschedulable, timer, alertEntry>>

PersonLabels(b) ==
    /\ label' = b /\ label' # label
    /\ Changed
    /\ UNCHANGED <<conditions, unschedulable, timer, alertEntry, warned>>

NodeTick ==
    /\ \E i \in Issues : alertEntry[i] > 0
    /\ alertEntry' = [i \in Issues |-> IF alertEntry[i] > 0 THEN alertEntry[i] - 1 ELSE 0]
    /\ UNCHANGED <<conditions, label, unschedulable, queued, timer, got, warned>>

\* At start every node is queued.
NodeRestart ==
    /\ alertEntry' = [i \in Issues |-> 0]
    /\ queued' = TRUE /\ timer' = FALSE
    /\ got' = [c \in Chats |-> Idle]
    /\ UNCHANGED <<conditions, label, unschedulable, warned>>

(***************************************************************************)
(* The controller: Reconcile and alertNode.                                *)
(***************************************************************************)

\* alertNode for each of these issues.
Alerted(issues) ==
    [i \in Issues |-> IF i \in issues /\ alertEntry[i] = 0 THEN HalfHour
                                                           ELSE alertEntry[i]]

\* The test label: an alert of a simulated pressure, and the label is removed;
\* that a patch failed is not noticed.  Conditions are not looked at.
ReconcileTest(patched) ==
    /\ queued \/ timer
    /\ label
    /\ alertEntry' = Alerted({Simulated})
    /\ timer' = FALSE
    /\ IF patched THEN label' = FALSE /\ Changed
                  ELSE queued' = FALSE /\ UNCHANGED <<label, got>>
    /\ UNCHANGED <<conditions, unschedulable, warned>>

\* Seeded fault: the node is not requeued.
ReconcileOnce ==
    /\ queued \/ timer
    /\ ~label
    /\ alertEntry' = Alerted(conditions)
    /\ warned' = warned \cup {i \in conditions : alertEntry[i] = 0}
    /\ queued' = FALSE /\ timer' = FALSE
    /\ UNCHANGED <<conditions, label, unschedulable, got>>

ReconcileConditions ==
    /\ queued \/ timer
    /\ ~label
    /\ alertEntry' = Alerted(conditions)
    /\ warned' = warned \cup {i \in conditions : alertEntry[i] = 0}
    /\ queued' = FALSE /\ timer' = TRUE
    /\ UNCHANGED <<conditions, label, unschedulable, got>>

(***************************************************************************)
(* The chats: CordonNode and UncordonNode.                                 *)
(***************************************************************************)

GetNode(c, want) ==
    /\ ~got[c].busy
    /\ got' = [got EXCEPT ![c] = [busy |-> TRUE, label |-> label,
                                  want |-> want, newest |-> TRUE]]
    /\ UNCHANGED <<conditions, label, unschedulable, queued, timer, alertEntry,
                    warned>>

\* Seeded fault: the update is sent without the version that was read.
UpdateAnyVersion(c) ==
    /\ got[c].busy
    /\ unschedulable' = got[c].want
    /\ label' = got[c].label
    /\ IF <<unschedulable, label>>' = <<unschedulable, label>>
       THEN got' = [got EXCEPT ![c] = Idle] /\ UNCHANGED queued
       ELSE got' = [Outdated(got) EXCEPT ![c] = Idle] /\ queued' = TRUE
    /\ UNCHANGED <<conditions, timer, alertEntry, warned>>

\* The update writes back all that was read; one that changes nothing makes no
\* version and no event.
UpdateNode(c) ==
    /\ got[c].busy /\ got[c].newest
    /\ unschedulable' = got[c].want
    /\ label' = got[c].label
    /\ IF <<unschedulable, label>>' = <<unschedulable, label>>
       THEN got' = [got EXCEPT ![c] = Idle] /\ UNCHANGED queued
       ELSE got' = [Outdated(got) EXCEPT ![c] = Idle] /\ queued' = TRUE
    /\ UNCHANGED <<conditions, timer, alertEntry, warned>>

\* A conflict, or a call that fails: the operation is not tried again.
UpdateFails(c) ==
    /\ got[c].busy
    /\ got' = [got EXCEPT ![c] = Idle]
    /\ UNCHANGED <<conditions, label, unschedulable, queued, timer, alertEntry,
                    warned>>

NodeReconcile == ReconcileConditions \/ \E b \in BOOLEAN : ReconcileTest(b)

NodeNext ==
    \/ \E i \in Issues : ConditionChanges(i)
    \/ \E b \in BOOLEAN : PersonLabels(b)
    \/ NodeTick \/ NodeRestart
    \/ NodeReconcile
    \/ \E c \in Chats : \/ \E b \in BOOLEAN : GetNode(c, b)
                        \/ UpdateNode(c) \/ UpdateFails(c)

NodeSpec == NodeInit /\ [][NodeNext]_nodeVars

\* A queued node is reconciled, and time goes on.
NodeFairness == WF_nodeVars(NodeReconcile) /\ WF_nodeVars(NodeTick)

(***************************************************************************)
(* Properties.                                                             *)
(***************************************************************************)

NodeTypeOK ==
    /\ conditions \in SUBSET Issues
    /\ label \in BOOLEAN /\ unschedulable \in BOOLEAN
    /\ queued \in BOOLEAN /\ timer \in BOOLEAN
    /\ alertEntry \in [Issues -> 0..HalfHour]
    /\ got \in [Chats -> Copies]
    /\ warned \in SUBSET conditions

\* A condition that lasts on a node nobody puts under test any more is alerted of,
\* although an alert of the same issue, or the test's, may have silenced it when
\* it began and the look at a test asks for no further look.
PressureAlerted ==
    \A i \in Issues :
        <>[](i \in conditions /\ ~label) => <>(i \in warned)

\* No wake-up is lost: while the node has an issue and no test label, a look at it
\* is due.  Only a look ends a look's being due, and the one at a test, which does
\* not ask for another, ends it while the label hides the conditions.
LookDue == conditions # {} /\ ~label => queued \/ timer

\* All that an approval does to a node is cordon or uncordon it: whatever changed
\* the node between its two calls, the update writes none of it back.
CordonsOnly ==
    [][\A c \in Chats : UpdateNode(c) => UNCHANGED <<label, conditions>>]_nodeVars
=============================================================================
