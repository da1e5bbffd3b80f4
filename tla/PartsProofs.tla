------------------------------ MODULE PartsProofs ------------------------------
(***************************************************************************)
(* Theorems about the small parts: NodeGuard and Lifecycle here,           *)
(* SecurityHeal and the chat sessions in the modules this one extends; and *)
(* about MCParts, whose behaviours are shown to be behaviours of each of   *)
(* the parts, so that all the theorems hold of what the run explores.      *)
(* They hold for any issues, pods, statuses, lengths, times and chats.     *)
(***************************************************************************)
EXTENDS MCParts, SecurityProofs, SessionProofs, TLAPS

(***************************************************************************)
(* NodeGuard.                                                              *)
(***************************************************************************)

LEMMA OutdatedCopies ==
    ASSUME NEW copies \in [Chats -> Copies]
    PROVE  /\ Outdated(copies) \in [Chats -> Copies]
           /\ \A c \in Chats : Outdated(copies)[c].busy => ~Outdated(copies)[c].newest
<1>1. Idle \in Copies /\ ~Idle.busy
  BY DEF Idle, Copies
<1>2. ASSUME NEW c \in Chats
      PROVE  /\ [copies[c] EXCEPT !.newest = FALSE] \in Copies
             /\ ~[copies[c] EXCEPT !.newest = FALSE].newest
  BY DEF Copies
<1> QED
  BY <1>1, <1>2 DEF Outdated

LEMMA AlertedType ==
    ASSUME NodeAssumption, NodeTypeOK, NEW issues
    PROVE  Alerted(issues) \in [Issues -> 0..HalfHour]
BY DEF Alerted, NodeTypeOK, NodeAssumption

LEMMA NodeTypeStep ==
    ASSUME NodeAssumption, NodeTypeOK, [NodeNext]_nodeVars
    PROVE  NodeTypeOK'
<1>0. Idle \in Copies /\ Outdated(got) \in [Chats -> Copies] /\ Simulated \in Issues
  BY OutdatedCopies DEF Idle, Copies, NodeTypeOK, NodeAssumption
<1>1. ASSUME NEW i \in Issues, ConditionChanges(i) PROVE NodeTypeOK'
  BY <1>0, <1>1 DEF ConditionChanges, Changed, NodeTypeOK
<1>2. ASSUME NEW b \in BOOLEAN, PersonLabels(b) PROVE NodeTypeOK'
  BY <1>0, <1>2 DEF PersonLabels, Changed, NodeTypeOK
<1>3. CASE NodeTick
  <2>1. alertEntry' \in [Issues -> 0..HalfHour]
    BY <1>3 DEF NodeTick, NodeTypeOK, NodeAssumption
  <2> QED
    BY <1>3, <2>1 DEF NodeTick, NodeTypeOK
<1>4. CASE NodeRestart
  <2>1. alertEntry' \in [Issues -> 0..HalfHour] /\ got' \in [Chats -> Copies]
    BY <1>0, <1>4 DEF NodeRestart, NodeAssumption
  <2>2. queued' \in BOOLEAN /\ timer' \in BOOLEAN
    BY <1>4, Zenon DEF NodeRestart
  <2>3. UNCHANGED <<conditions, label, unschedulable, warned>>
    BY <1>4 DEF NodeRestart
  <2> QED
    BY <2>1, <2>2, <2>3 DEF NodeTypeOK
<1>5. CASE ReconcileConditions
  BY <1>5, AlertedType DEF ReconcileConditions, NodeTypeOK
<1>6. ASSUME NEW b \in BOOLEAN, ReconcileTest(b) PROVE NodeTypeOK'
  BY <1>0, <1>6, AlertedType DEF ReconcileTest, Changed, NodeTypeOK
<1>7. ASSUME NEW c \in Chats, NEW b \in BOOLEAN, GetNode(c, b) PROVE NodeTypeOK'
  <2>1. [busy |-> TRUE, label |-> label, want |-> b, newest |-> TRUE] \in Copies
    BY DEF NodeTypeOK, Copies
  <2> QED
    BY <1>7, <2>1 DEF GetNode, NodeTypeOK
<1>8. ASSUME NEW c \in Chats, UpdateNode(c) PROVE NodeTypeOK'
  <2>1. got[c] \in Copies
    BY DEF NodeTypeOK
  <2>2. unschedulable' \in BOOLEAN /\ label' \in BOOLEAN
    BY <1>8, <2>1 DEF UpdateNode, Copies
  <2>3. got' \in [Chats -> Copies]
    BY <1>0, <1>8 DEF UpdateNode, NodeTypeOK
  <2>4. queued' \in BOOLEAN
    BY <1>8 DEF UpdateNode, NodeTypeOK
  <2> QED
    BY <1>8, <2>2, <2>3, <2>4 DEF UpdateNode, NodeTypeOK
<1>9. ASSUME NEW c \in Chats, UpdateFails(c) PROVE NodeTypeOK'
  BY <1>0, <1>9 DEF UpdateFails, NodeTypeOK
<1>10. CASE UNCHANGED nodeVars
  BY <1>10 DEF nodeVars, NodeTypeOK
<1> QED
  BY <1>1, <1>2, <1>3, <1>4, <1>5, <1>6, <1>7, <1>8, <1>9, <1>10
  DEF NodeNext, NodeReconcile

\* Every variable keeps its type; only conditions a node has are warned of.
THEOREM NodeTypeCorrect == NodeSpec => []NodeTypeOK
<1>1. NodeInit => NodeTypeOK
  <2> SUFFICES ASSUME NodeInit PROVE NodeTypeOK
    OBVIOUS
  <2>1. Idle \in Copies
    BY DEF Idle, Copies
  <2>2. alertEntry \in [Issues -> 0..HalfHour] /\ got \in [Chats -> Copies]
    BY <2>1, NodeAssumption DEF NodeInit, NodeAssumption
  <2>3. label \in BOOLEAN /\ unschedulable \in BOOLEAN
        /\ queued \in BOOLEAN /\ timer \in BOOLEAN
    BY Zenon DEF NodeInit
  <2> QED
    BY <2>2, <2>3, Zenon DEF NodeInit, NodeTypeOK
<1>2. NodeTypeOK /\ [NodeNext]_nodeVars => NodeTypeOK'
  BY NodeTypeStep, NodeAssumption
<1> QED
  BY <1>1, <1>2, PTL DEF NodeSpec

\* A copy of the newest version has the label the node has: whatever changes the
\* label, a chat's update included, makes every other copy an old one.
CopiesTrue ==
    \A c \in Chats : got[c].busy /\ got[c].newest => got[c].label = label

LEMMA CopiesStep ==
    ASSUME NodeTypeOK, CopiesTrue, [NodeNext]_nodeVars
    PROVE  CopiesTrue'
<1>0. /\ \A c \in Chats : Outdated(got)[c].busy => ~Outdated(got)[c].newest
      /\ Outdated(got) \in [Chats -> Copies]
  BY OutdatedCopies DEF NodeTypeOK
<1>1. ASSUME Changed PROVE CopiesTrue'
  BY <1>0, <1>1 DEF Changed, CopiesTrue
<1>2. ASSUME UNCHANGED <<got, label>> PROVE CopiesTrue'
  BY <1>2 DEF CopiesTrue
<1>3. ASSUME NEW c \in Chats, UNCHANGED label, got' = [got EXCEPT ![c] = Idle]
      PROVE  CopiesTrue'
  BY <1>3 DEF CopiesTrue, NodeTypeOK, Idle
<1>4. CASE NodeRestart
  BY <1>4 DEF NodeRestart, CopiesTrue, Idle
<1>5. ASSUME NEW c \in Chats, NEW b \in BOOLEAN, GetNode(c, b) PROVE CopiesTrue'
  BY <1>5 DEF GetNode, CopiesTrue, NodeTypeOK
<1>6. ASSUME NEW c \in Chats, UpdateNode(c) PROVE CopiesTrue'
  <2>1. CASE got' = [Outdated(got) EXCEPT ![c] = Idle]
    BY <1>0, <2>1 DEF CopiesTrue, Idle
  <2>2. CASE label' = label /\ got' = [got EXCEPT ![c] = Idle]
    BY <1>3, <2>2
  <2> QED
    BY <1>6, <2>1, <2>2 DEF UpdateNode
<1>7. CASE \E i \in Issues : ConditionChanges(i)
  BY <1>1, <1>7 DEF ConditionChanges
<1>8. CASE \E b \in BOOLEAN : PersonLabels(b)
  BY <1>1, <1>8 DEF PersonLabels
<1>9. CASE NodeReconcile
  BY <1>1, <1>2, <1>9 DEF NodeReconcile, ReconcileConditions, ReconcileTest
<1>10. CASE \E c \in Chats : UpdateFails(c)
  BY <1>3, <1>10 DEF UpdateFails
<1>11. CASE NodeTick \/ UNCHANGED nodeVars
  BY <1>2, <1>11 DEF NodeTick, nodeVars
<1> QED
  BY <1>4, <1>5, <1>6, <1>7, <1>8, <1>9, <1>10, <1>11 DEF NodeNext

\* An approval cordons or uncordons the node and does nothing else to it, whoever
\* changed it between the two calls: the update of a copy whose label is not the node's
\* is refused (CordonNode and UncordonNode, ops/node.go:9-31).
THEOREM ApprovalsOnlyCordon == NodeSpec => CordonsOnly
<1>1. ASSUME CopiesTrue, NEW c \in Chats, UpdateNode(c) PROVE UNCHANGED <<label, conditions>>
  BY <1>1 DEF CopiesTrue, UpdateNode
<1>2. CopiesTrue /\ [NodeNext]_nodeVars
      => [\A c \in Chats : UpdateNode(c) => UNCHANGED <<label, conditions>>]_nodeVars
  BY <1>1
<1>3. NodeInit => CopiesTrue
  BY DEF NodeInit, CopiesTrue, Idle
<1>4. NodeTypeOK /\ CopiesTrue /\ [NodeNext]_nodeVars => CopiesTrue'
  BY CopiesStep
<1> QED
  BY <1>2, <1>3, <1>4, NodeTypeCorrect, PTL DEF NodeSpec, CordonsOnly

LEMMA LookStep ==
    ASSUME NodeTypeOK, LookDue, [NodeNext]_nodeVars
    PROVE  LookDue'
<1>1. ASSUME queued' = TRUE \/ timer' = TRUE PROVE LookDue'
  BY <1>1 DEF LookDue
<1>2. ASSUME UNCHANGED <<conditions, label, queued, timer>> PROVE LookDue'
  BY <1>2 DEF LookDue
<1>3. CASE \/ \E i \in Issues : ConditionChanges(i)
           \/ \E b \in BOOLEAN : PersonLabels(b)
           \/ NodeRestart \/ ReconcileConditions
  BY <1>1, <1>3 DEF ConditionChanges, PersonLabels, NodeRestart, ReconcileConditions, Changed
<1>4. ASSUME NEW b \in BOOLEAN, ReconcileTest(b) PROVE LookDue'
  <2>1. CASE b
    BY <1>1, <1>4, <2>1 DEF ReconcileTest, Changed
  <2>2. CASE ~b
    BY <1>4, <2>2 DEF ReconcileTest, LookDue
  <2> QED
    BY <2>1, <2>2
<1>5. ASSUME NEW c \in Chats, UpdateNode(c) PROVE LookDue'
  <2>1. CASE <<unschedulable, label>>' = <<unschedulable, label>>
    BY <1>2, <1>5, <2>1 DEF UpdateNode
  <2>2. CASE <<unschedulable, label>>' # <<unschedulable, label>>
    BY <1>1, <1>5, <2>2 DEF UpdateNode
  <2> QED
    BY <2>1, <2>2
<1>6. CASE \/ NodeTick \/ UNCHANGED nodeVars
           \/ \E c \in Chats : UpdateFails(c) \/ \E b \in BOOLEAN : GetNode(c, b)
  BY <1>2, <1>6 DEF NodeTick, nodeVars, UpdateFails, GetNode
<1> QED
  BY <1>3, <1>4, <1>5, <1>6 DEF NodeNext, NodeReconcile

\* While a node has an issue and no test label, the controller is to look at it, in
\* its queue or in a minute, whatever people, chats and restarts did before (Reconcile,
\* node_controller.go).
THEOREM LookIsDue == NodeSpec => []LookDue
<1>1. NodeInit => LookDue
  BY DEF NodeInit, LookDue
<1>2. NodeTypeOK /\ LookDue /\ [NodeNext]_nodeVars => LookDue'
  BY LookStep
<1> QED
  BY <1>1, <1>2, NodeTypeCorrect, PTL DEF NodeSpec

(***************************************************************************)
(* Lifecycle.                                                              *)
(***************************************************************************)

\* While the worker is at a pod, the pod exists.
VisitInv == LifecycleTypeOK /\ (stage # "idle" => pod \in DOMAIN status)

\* sync.Map: what a Delete leaves of a map.
LEMMA DeleteType ==
    ASSUME NEW S, NEW map, map \in [DOMAIN map -> S], NEW key
    PROVE  /\ DOMAIN Delete(map, key) = DOMAIN map \ {key}
           /\ Delete(map, key) \in [DOMAIN Delete(map, key) -> S]
           /\ \A k \in DOMAIN map : k # key => Delete(map, key)[k] = map[k]
BY DEF Delete

LEMMA LifecycleFacts ==
    /\ Window \in Nat \ {0} /\ AnalyzeTime \in Nat \ {0}
    /\ Pods # {} /\ AnyPod \in Pods
    /\ May \in [Pods -> SUBSET Statuses] /\ Hungry \in [Pods -> SUBSET Gauges]
<1>1. /\ Window \in Nat \ {0} /\ AnalyzeTime \in Nat \ {0} /\ Pods # {}
      /\ May \in [Pods -> SUBSET Statuses] /\ Hungry \in [Pods -> SUBSET Gauges]
  BY LifecycleAssumption, Zenon DEF LifecycleAssumption
<1>2. AnyPod \in Pods
  BY <1>1, Zenon DEF AnyPod
<1> QED
  BY <1>1, <1>2

LEMMA TimeTypes ==
    /\ Window \in 1..Window /\ AnalyzeTime \in 0..AnalyzeTime /\ Window \in 0..Window
    /\ 0 \in 0..AnalyzeTime /\ 0 \in 0..Window
    /\ \A n \in 0..AnalyzeTime : Less(n) \in 0..AnalyzeTime
    /\ \A n \in 0..Window : Less(n) \in 0..Window
<1>1. Window \in Nat \ {0} /\ AnalyzeTime \in Nat \ {0}
  BY LifecycleFacts
<1> QED
  BY <1>1 DEF Less

\* A message leaves an entry of its own, and every other entry as it was.
LEMMA NotifiedType ==
    ASSUME sent \in [DOMAIN sent -> 1..Window], NEW message
    PROVE  /\ DOMAIN Notified(message) = DOMAIN sent \cup {message}
           /\ Notified(message) \in [DOMAIN Notified(message) -> 1..Window]
           /\ \A k \in DOMAIN sent : k # message => Notified(message)[k] = sent[k]
<1>1. Window \in 1..Window
  BY TimeTypes
<1>2. CASE message \in DOMAIN sent
  <2>1. Notified(message) = sent
    BY <1>2 DEF Notified, Suppressed
  <2>2. DOMAIN sent = DOMAIN sent \cup {message}
    BY <1>2
  <2> QED
    BY <2>1, <2>2
<1>3. CASE message \notin DOMAIN sent
  <2>1. Notified(message) = Store(sent, message, Window)
    BY <1>3 DEF Notified, Suppressed
  <2> QED
    BY <1>1, <1>3, <2>1 DEF Store
<1> QED
  BY <1>2, <1>3

LEMMA HeardType ==
    ASSUME heard \subseteq Gauges \cup {"Issue"}, NEW message,
           NEW subject \in Gauges \cup {"Issue"}
    PROVE  Heard(message, subject) \subseteq Gauges \cup {"Issue"}
BY DEF Heard

LEMMA TellsStages ==
    \A g \in Gauges : Tells[g] \in {"tell CPU", "tell Memory"} /\ g # "idle"
<1>1. Tells["CPU"] = "tell CPU" /\ Tells["Memory"] = "tell Memory"
  BY DEF Tells
<1> QED
  BY <1>1 DEF Gauges

LEMMA VisitStep ==
    ASSUME VisitInv, [LifecycleNext]_lifecycleVars
    PROVE  VisitInv'
<1>0. /\ DOMAIN status \subseteq Pods /\ status \in [DOMAIN status -> Statuses]
      /\ DOMAIN known \subseteq Pods /\ known \in [DOMAIN known -> Statuses]
      /\ sent \in [DOMAIN sent -> 1..Window]
      /\ analyzed \in [Pods -> 0..AnalyzeTime] /\ measured \in [Pods -> 0..Window]
      /\ hot \subseteq (DOMAIN status) \X Gauges
      /\ pod \in Pods /\ heard \subseteq Gauges \cup {"Issue"}
      /\ stage # "idle" => pod \in DOMAIN status
      /\ AnyPod \in Pods
  BY LifecycleFacts DEF VisitInv, LifecycleTypeOK
<1>1. ASSUME NEW p \in Pods, NEW s \in May[p], StatusChanges(p, s) PROVE VisitInv'
  <2>1. s \in Statuses
    BY LifecycleFacts, Zenon
  <2>2. DOMAIN status' = DOMAIN status \cup {p} /\ status' \in [DOMAIN status' -> Statuses]
    BY <1>0, <1>1, <2>1 DEF StatusChanges, Store
  <2>3. hot' \subseteq (DOMAIN status') \X Gauges
    BY <1>0, <1>1, <2>2 DEF StatusChanges
  <2> QED
    BY <1>1, <2>2, <2>3 DEF StatusChanges, VisitInv, LifecycleTypeOK, visit, caches
<1>2. ASSUME NEW p \in Pods, PodDeleted(p) PROVE VisitInv'
  <2>1. DOMAIN status' = DOMAIN status \ {p} /\ status' \in [DOMAIN status' -> Statuses]
    BY <1>0, <1>2, DeleteType DEF PodDeleted
  <2>2. hot' \subseteq (DOMAIN status') \X Gauges
    BY <1>0, <1>2, <2>1 DEF PodDeleted
  <2> QED
    BY <1>2, <2>1, <2>2 DEF PodDeleted, VisitInv, LifecycleTypeOK, visit, caches
<1>3. ASSUME NEW p \in Pods, NEW g \in Hungry[p], UsageChanges(p, g) PROVE VisitInv'
  <2>1. g \in Gauges
    BY LifecycleFacts, Zenon
  <2>2. hot' \subseteq (DOMAIN status') \X Gauges
    BY <1>0, <1>3, <2>1 DEF UsageChanges
  <2> QED
    BY <1>3, <2>2 DEF UsageChanges, VisitInv, LifecycleTypeOK, visit, caches
<1>4. CASE MinutePasses
  <2>1. sent' \in [DOMAIN sent' -> 1..Window]
    BY <1>0, <1>4, LifecycleFacts DEF MinutePasses
  <2>2. analyzed' \in [Pods -> 0..AnalyzeTime]
    BY <1>0, <1>4, TimeTypes DEF MinutePasses
  <2>3. measured' \in [Pods -> 0..Window]
    BY <1>0, <1>4, TimeTypes DEF MinutePasses
  <2> QED
    BY <1>4, <2>1, <2>2, <2>3 DEF MinutePasses, VisitInv, LifecycleTypeOK, visit, podState
<1>5. CASE ProcessRestarts
  BY <1>5, TimeTypes DEF ProcessRestarts, VisitInv, LifecycleTypeOK, visit, podState, Nothing, Expired
<1>6. ASSUME NEW p \in Pods, Reconcile(p) PROVE VisitInv'
  BY <1>6 DEF Reconcile, VisitInv, LifecycleTypeOK, podState, caches
<1>7. ASSUME Tracked, stage = "track", sent' \in [DOMAIN sent' -> 1..Window]
      PROVE  VisitInv'
  <2>1. DOMAIN known' = DOMAIN known \cup {pod} /\ known' \in [DOMAIN known' -> Statuses]
    BY <1>0, <1>7 DEF Tracked, Store, podState
  <2> QED
    BY <1>0, <1>7, <2>1 DEF Tracked, VisitInv, LifecycleTypeOK, podState
<1>8. CASE TrackNew \/ TrackOther
  <2>1. sent' \in [DOMAIN sent' -> 1..Window]
    BY <1>0, <1>8, NotifiedType DEF TrackNew, TrackOther
  <2> QED
    BY <1>0, <1>7, <1>8, <2>1 DEF TrackNew, TrackOther
<1>9. CASE TrackRecovery
  <2>1. sent' \in [DOMAIN sent' -> 1..Window]
    BY <1>9, <1>0, NotifiedType, DeleteType DEF TrackRecovery
  <2> QED
    BY <1>7, <1>9, <2>1 DEF TrackRecovery
\* Wherever the worker goes on to, with the same pod or at rest.
<1>10. ASSUME UNCHANGED <<podState, known>>,
              \/ stage # "idle" /\ stage' \in {"answer", "CPU", "tell CPU", "Memory", "tell Memory"}
                 /\ UNCHANGED pod
              \/ Rest,
              analyzed' \in [Pods -> 0..AnalyzeTime], measured' \in [Pods -> 0..Window],
              sent' \in [DOMAIN sent' -> 1..Window], heard' \subseteq Gauges \cup {"Issue"}
       PROVE  VisitInv'
  <2>1. /\ stage' \in {"idle", "answer", "CPU", "tell CPU", "Memory", "tell Memory"}
        /\ pod' \in Pods
        /\ stage' # "idle" => pod' \in DOMAIN status
    BY <1>0, <1>10 DEF Rest
  <2> QED
    BY <1>0, <1>10, <2>1 DEF VisitInv, LifecycleTypeOK, podState
<1>11. CASE AnalyzeNothing
  BY <1>0, <1>10, <1>11 DEF AnalyzeNothing, Analyzed, caches
<1>12. CASE AnalyzeSkip \/ AnalyzeAsk
  <2>1. analyzed' \in [Pods -> 0..AnalyzeTime]
    BY <1>0, <1>12, TimeTypes DEF AnalyzeSkip, AnalyzeAsk, Analyzes
  <2> QED
    BY <1>0, <1>10, <1>12, <2>1 DEF AnalyzeSkip, AnalyzeAsk, Analyzes, Analyzed
<1>13. ASSUME Answered, sent' \in [DOMAIN sent' -> 1..Window],
              heard' \subseteq Gauges \cup {"Issue"}
       PROVE  VisitInv'
  BY <1>0, <1>10, <1>13 DEF Answered, Analyzed
<1>14. CASE AnalyzeFails \/ AnalyzeAction
  BY <1>0, <1>13, <1>14 DEF AnalyzeFails, AnalyzeAction
<1>15. ASSUME NEW n, AnalyzeAutoFix(n) \/ AnalyzeIssue(n) PROVE VisitInv'
  <2>1. PICK message : sent' = Notified(message) /\ heard' = Heard(message, "Issue") /\ Answered
    BY <1>15 DEF AnalyzeAutoFix, AnalyzeIssue
  <2>2. sent' \in [DOMAIN sent' -> 1..Window] /\ heard' \subseteq Gauges \cup {"Issue"}
    BY <1>0, <2>1, NotifiedType, HeardType
  <2> QED
    BY <1>13, <2>1, <2>2
<1>16. CASE MeasureNothing
  BY <1>0, <1>10, <1>16 DEF MeasureNothing, caches
<1>17. ASSUME NEW g \in Gauges, GaugeLow(g) PROVE VisitInv'
  BY <1>0, <1>10, <1>17 DEF GaugeLow, Measures, Gauged, Gauges, caches
<1>18. ASSUME NEW g \in Gauges, GaugeHigh(g) PROVE VisitInv'
  <2>1. measured' \in [Pods -> 0..Window]
    BY <1>0, <1>18, TimeTypes DEF GaugeHigh
  <2>2. stage = g /\ stage' = Tells[g] /\ UNCHANGED pod
    BY <1>18 DEF GaugeHigh, Measures
  <2>3. stage # "idle" /\ stage' \in {"tell CPU", "tell Memory"}
    BY <2>2, TellsStages
  <2> QED
    BY <1>0, <1>10, <1>18, <2>1, <2>2, <2>3 DEF GaugeHigh
<1>19. ASSUME NEW g \in Gauges, NEW n, Alarm(g, n) PROVE VisitInv'
  <2>1. sent' \in [DOMAIN sent' -> 1..Window] /\ heard' \subseteq Gauges \cup {"Issue"}
    BY <1>0, <1>19, NotifiedType, HeardType DEF Alarm
  <2>2. stage # "idle"
    BY <1>19, TellsStages DEF Alarm
  <2> QED
    BY <1>0, <1>10, <1>19, <2>1, <2>2 DEF Alarm, Gauged
<1>20. CASE UNCHANGED lifecycleVars
  BY <1>20 DEF lifecycleVars, VisitInv, LifecycleTypeOK, podState, visit, caches
<1>21. CASE WorkerMoves
  BY <1>8, <1>9, <1>11, <1>12, <1>14, <1>15, <1>16, <1>17, <1>18, <1>19, <1>21
  DEF WorkerMoves, Answers
<1> QED
  BY <1>1, <1>2, <1>3, <1>4, <1>5, <1>6, <1>20, <1>21 DEF LifecycleNext

LEMMA VisitInductive == LifecycleSpec => []VisitInv
<1>1. LifecycleInit => VisitInv
  BY LifecycleFacts, TimeTypes
  DEF LifecycleInit, VisitInv, LifecycleTypeOK, Nothing, Expired
<1>2. VisitInv /\ [LifecycleNext]_lifecycleVars => VisitInv'
  BY VisitStep
<1> QED
  BY <1>1, <1>2, PTL DEF LifecycleSpec

\* Every variable of Lifecycle keeps its type; only pods that exist use too much.
THEOREM LifecycleTypeCorrect == LifecycleSpec => []LifecycleTypeOK
<1>1. VisitInv => LifecycleTypeOK
  BY DEF VisitInv
<1> QED
  BY <1>1, VisitInductive, PTL

\* What a step may do to the entries that were there.
NoLater == \A m \in DOMAIN sent \cap DOMAIN sent' : sent'[m] <= sent[m]

\* A message whose entry is there leaves it as it is.
LEMMA NotifiedKeeps ==
    ASSUME NEW message
    PROVE  \A m \in DOMAIN sent : m \in DOMAIN Notified(message) /\ Notified(message)[m] = sent[m]
<1>1. CASE message \in DOMAIN sent
  BY <1>1 DEF Notified, Suppressed
<1>2. CASE message \notin DOMAIN sent
  BY <1>2 DEF Notified, Suppressed, Store
<1> QED
  BY <1>1, <1>2

LEMMA SilenceStep ==
    ASSUME VisitInv, [LifecycleNext]_lifecycleVars
    PROVE  NoLater
<1>0. \A m \in DOMAIN sent : sent[m] \in Nat
  <2>1. sent \in [DOMAIN sent -> 1..Window] /\ Window \in Nat
    BY LifecycleFacts DEF VisitInv, LifecycleTypeOK
  <2>2. \A m \in DOMAIN sent : sent[m] \in 1..Window
    BY <2>1, Zenon
  <2> QED
    BY <2>1, <2>2
<1>1. ASSUME \A m \in DOMAIN sent \cap DOMAIN sent' : sent'[m] = sent[m] PROVE NoLater
  BY <1>0, <1>1 DEF NoLater
<1>2. ASSUME UNCHANGED sent PROVE NoLater
  BY <1>1, <1>2
<1>3. ASSUME NEW message, sent' = Notified(message) PROVE NoLater
  BY <1>1, <1>3, NotifiedKeeps
<1>4. CASE \/ \E p \in Pods : \/ \E s \in May[p] : StatusChanges(p, s)
                              \/ PodDeleted(p) \/ Reconcile(p)
                              \/ \E g \in Hungry[p] : UsageChanges(p, g)
           \/ UNCHANGED lifecycleVars
  BY <1>2, <1>4
  DEF StatusChanges, PodDeleted, Reconcile, UsageChanges, lifecycleVars, caches
<1>5. CASE MinutePasses
  BY <1>0, <1>5 DEF MinutePasses, NoLater
<1>6. CASE ProcessRestarts
  BY <1>6 DEF ProcessRestarts, Nothing, NoLater
<1>7. CASE TrackRecovery
  <2>1. PICK message, key : sent' = Delete(Notified(message), key)
    BY <1>7 DEF TrackRecovery
  <2>2. \A m \in DOMAIN sent' : sent'[m] = Notified(message)[m]
    BY <2>1 DEF Delete
  <2> QED
    BY <1>1, <2>2, NotifiedKeeps
<1>8. CASE TrackNew \/ \E n : AnalyzeAutoFix(n) \/ AnalyzeIssue(n)
  BY <1>3, <1>8 DEF TrackNew, AnalyzeAutoFix, AnalyzeIssue
<1>9. ASSUME NEW g, NEW n, Alarm(g, n) PROVE NoLater
  BY <1>3, <1>9 DEF Alarm
<1>10. CASE \/ TrackOther \/ AnalyzeNothing \/ AnalyzeSkip \/ AnalyzeAsk
            \/ AnalyzeFails \/ AnalyzeAction \/ MeasureNothing
  BY <1>2, <1>10
  DEF TrackOther, AnalyzeNothing, AnalyzeSkip, AnalyzeAsk, Analyzes, AnalyzeFails,
      AnalyzeAction, MeasureNothing, caches
<1>11. ASSUME NEW g, GaugeLow(g) \/ GaugeHigh(g) PROVE NoLater
  BY <1>2, <1>11 DEF GaugeLow, GaugeHigh, caches
<1>12. CASE WorkerMoves
  BY <1>7, <1>8, <1>9, <1>10, <1>11, <1>12 DEF WorkerMoves, Answers
<1> QED
  BY <1>4, <1>5, <1>6, <1>12 DEF LifecycleNext

\* A message keeps others of its title and length silent for five minutes and no longer:
\* the messages that notifyUser drops (lines 67-76), whichever pods they are about and
\* however recoveries and restarts come between, never put off the next that is sent.
THEOREM SilenceIsBounded == LifecycleSpec => SilenceEnds
<1>1. VisitInv /\ [LifecycleNext]_lifecycleVars
      => [\A m \in DOMAIN sent \cap DOMAIN sent' : sent'[m] <= sent[m]]_lifecycleVars
  BY SilenceStep DEF NoLater
<1> QED
  BY <1>1, VisitInductive, PTL DEF LifecycleSpec, SilenceEnds

(***************************************************************************)
(* The parts together.                                                     *)
(***************************************************************************)

partsVars == <<part, lifecycleVars, securityVars, nodeVars, chatVars, backendVars>>

PartsSpec == LifecycleSpec /\ SecuritySpec /\ NodeSpec /\ ChatSpec /\ BackendSpec

LEMMA PartsStep ==
    ASSUME [Next]_partsVars
    PROVE  /\ [LifecycleNext]_lifecycleVars /\ [SecurityNext]_securityVars
           /\ [NodeNext]_nodeVars /\ [ChatNext]_chatVars /\ [BackendNext]_backendVars
BY DEF Next, partsVars

\* What the run explores are behaviours of each of the parts, so what is proved of a
\* part holds in it.
THEOREM PartsImplement == Spec => PartsSpec
<1>1. Init => LifecycleInit /\ SecurityInit /\ NodeInit /\ ChatInit /\ BackendInit
  BY DEF Init
<1> DEFINE
      Steps == /\ [LifecycleNext]_lifecycleVars /\ [SecurityNext]_securityVars
               /\ [NodeNext]_nodeVars /\ [ChatNext]_chatVars /\ [BackendNext]_backendVars
<1>2. [Next]_partsVars => Steps
  BY PartsStep
<1> QED
  BY <1>1, <1>2, PTL
  DEF Spec, partsVars, PartsSpec, LifecycleSpec, SecuritySpec, NodeSpec, ChatSpec, BackendSpec

\* Every variable of every part keeps its type.
THEOREM PartsTypeCorrect == Spec => []PartsTypeOK
<1>1. LifecycleTypeOK /\ SecurityTypeOK /\ NodeTypeOK /\ ChatTypeOK /\ BackendTypeOK
      => PartsTypeOK
  BY DEF PartsTypeOK
<1> QED
  BY <1>1, PartsImplement, LifecycleTypeCorrect, TypeCorrect, NodeTypeCorrect,
     ChatTypeCorrect, BackendTypeCorrect, PTL DEF PartsSpec
=============================================================================
