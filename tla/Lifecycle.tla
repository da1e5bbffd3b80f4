------------------------------ MODULE Lifecycle -------------------------------
(***************************************************************************)
(* What the team hears of the pods: trackLifecycle, notifyUser, the        *)
(* messages of analyzePod and checkPrometheusMetrics of                    *)
(* internal/controller/kubesolvconfig_controller.go.                       *)
(*                                                                         *)
(* notifyUser drops a message when one of the same title and the same      *)
(* length was sent within five minutes; its exception is for titles with   *)
(* "Recovered" or "New Pod", which no caller uses.  So a message is its    *)
(* title and its length, counted beyond what the messages of that title    *)
(* share: the length of a pod's name, of a number, or of a text.  Pods may *)
(* have messages of one length.                                            *)
(* Cache entries hold the ticks they have left, and time may pass between  *)
(* any two steps.  The controller has one worker, which looks at a copy of *)
(* a pod: what happens to the pod meanwhile is as if it happened after.  A *)
(* pod has one container, which was not killed for memory (OomGuard).      *)
(***************************************************************************)
EXTENDS Integers

CONSTANTS
    Pods,          \* pod names
    NameLength,    \* length of the name of a pod
    TextLengths,   \* lengths the model's explanations about a pod may have
    FixLengths,    \* lengths the report of a rollback for a pod may have
    ValueLengths,  \* lengths a printed measurement may have
    RecoveryText,  \* length of the explanation that makes an issue as long as
                   \* the message of a pod's recovery
    Statuses,      \* what trackLifecycle may read of a pod
    May,           \* statuses each pod may have
    Hungry,        \* what each pod may come to use too much of
    StatusLength,  \* length of a status
    Bad,           \* those isBad is true of
    Explained,     \* waiting reasons that are put to the model
    Skipped,       \* waiting reasons that are not: image pulls
    Window,        \* five minutes, of notifyUser and of a pod's metrics
    AnalyzeTime    \* two minutes between analyses of a pod

Gauges == {"CPU", "Memory"}
Title == [CPU |-> "High CPU", Memory |-> "High Memory"]

ASSUME LifecycleAssumption ==
    /\ Pods # {}
    /\ NameLength \in [Pods -> Nat] /\ RecoveryText \in [Pods -> Nat]
    /\ TextLengths \in [Pods -> SUBSET Nat] /\ FixLengths \in [Pods -> SUBSET Nat]
    /\ ValueLengths \subseteq Nat
    /\ StatusLength \in [Statuses -> Nat]
    /\ May \in [Pods -> SUBSET Statuses]
    /\ Hungry \in [Pods -> SUBSET Gauges]
    /\ Explained \subseteq Statuses
    /\ "Running" \in Statuses \ (Bad \cup Explained \cup Skipped)
    /\ Window \in Nat \ {0} /\ AnalyzeTime \in Nat \ {0}

VARIABLES
    status,    \* status of the pods that exist
    hot,       \* <<pod, gauge>>: above the alarm's threshold
    known,     \* StateCache: status by pod
    sent,      \* AlertCache, messages: ticks left
    analyzed,  \* AlertCache "analyze/...": ticks left by pod
    measured,  \* AlertCache "metrics/...": ticks left by pod
    stage, pod,   \* the worker: what it does next, and with which pod
    heard      \* history: what the team heard of in the last visit

podState == <<status, hot>>
visit == <<stage, pod>>
caches == <<known, sent, analyzed, measured>>
lifecycleVars == <<podState, visit, caches, heard>>

Nothing == [x \in {} |-> 0]
Expired == [p \in Pods |-> 0]
AnyPod == CHOOSE p \in Pods : TRUE

\* Between two pods the worker remembers nothing.
Rest == stage' = "idle" /\ pod' = AnyPod

LifecycleInit ==
    /\ status = Nothing /\ hot = {}
    /\ known = Nothing /\ sent = Nothing
    /\ analyzed = Expired /\ measured = Expired
    /\ stage = "idle" /\ pod = AnyPod
    /\ heard = {}

\* sync.Map: Store and Delete.
Store(map, key, value) ==
    [k \in DOMAIN map \cup {key} |-> IF k = key THEN value ELSE map[k]]

Delete(map, key) == [k \in DOMAIN map \ {key} |-> map[k]]

(***************************************************************************)
(* The pods, time, and restarts of the process.                            *)
(***************************************************************************)

StatusChanges(p, s) ==
    /\ stage = "idle"
    /\ p \in DOMAIN status => status[p] # s
    /\ status' = Store(status, p, s)
    /\ UNCHANGED <<hot, visit, caches, heard>>

\* The controller forgets nothing of it; a pod of a stateful set comes back under
\* the same name.
PodDeleted(p) ==
    /\ stage = "idle"
    /\ p \in DOMAIN status
    /\ status' = Delete(status, p)
    /\ hot' = {h \in hot : h[1] # p}
    /\ UNCHANGED <<visit, caches, heard>>

UsageChanges(p, g) ==
    /\ p \in DOMAIN status
    /\ hot' = IF <<p, g>> \in hot THEN hot \ {<<p, g>>} ELSE hot \cup {<<p, g>>}
    /\ UNCHANGED <<status, visit, caches, heard>>

Less(n) == IF n > 0 THEN n - 1 ELSE 0

MinutePasses ==
    /\ sent' = [m \in {k \in DOMAIN sent : sent[k] > 1} |-> sent[m] - 1]
    /\ analyzed' = [p \in Pods |-> Less(analyzed[p])]
    /\ measured' = [p \in Pods |-> Less(measured[p])]
    /\ UNCHANGED <<podState, visit, known, heard>>

\* Between two visits: one in the middle of a visit loses no more than these.
ProcessRestarts ==
    /\ stage = "idle"
    /\ known' = Nothing /\ sent' = Nothing
    /\ analyzed' = Expired /\ measured' = Expired
    /\ UNCHANGED <<podState, visit, heard>>

(***************************************************************************)
(* notifyUser.                                                             *)
(***************************************************************************)

Suppressed(message) == message \in DOMAIN sent

\* Seeded fault: a suppressed message renews the entry.
NotifiedAgain(message) == Store(sent, message, Window)

\* The messages in AlertCache after a message.
Notified(message) ==
    IF Suppressed(message) THEN sent ELSE Store(sent, message, Window)

\* Of the subject of a message the team hears if it is sent.
Heard(message, subject) ==
    IF Suppressed(message) THEN heard ELSE heard \cup {subject}

(***************************************************************************)
(* The worker: Reconcile.                                                  *)
(***************************************************************************)

Reconcile(p) ==
    /\ stage = "idle"
    /\ p \in DOMAIN status
    /\ stage' = "track" /\ pod' = p
    /\ heard' = {}
    /\ UNCHANGED <<podState, caches>>

Tracked ==
    /\ known' = Store(known, pod, status[pod])
    /\ stage' = "analyze"
    /\ UNCHANGED <<podState, pod, analyzed, measured, heard>>

TrackNew ==
    LET message == <<"New Activity", NameLength[pod] + StatusLength[status[pod]]>>
    IN  /\ stage = "track"
        /\ pod \notin DOMAIN known
        /\ sent' = Notified(message)
        /\ Tracked

Recovered == known[pod] \in Bad /\ status[pod] = "Running"

\* The entry deleted is that of an issue as long as the recovery's message.
TrackRecovery ==
    LET message == <<"Issue Resolved", NameLength[pod]>>
    IN  /\ stage = "track"
        /\ pod \in DOMAIN known /\ Recovered
        /\ sent' = Delete(Notified(message), <<known[pod], RecoveryText[pod]>>)
        /\ Tracked

TrackOther ==
    /\ stage = "track"
    /\ pod \in DOMAIN known /\ ~Recovered
    /\ Tracked
    /\ UNCHANGED sent

ToAnalyze == status[pod] \in Explained \cup Skipped /\ analyzed[pod] = 0

\* Pods of the phase Running: their metrics are looked at, and they come back to
\* the worker every ten seconds.
Live(p) == p \in DOMAIN status /\ status[p] \in {"Running", "CrashLoopBackOff"}

Analyzed == IF Live(pod) THEN stage' = "CPU" /\ UNCHANGED pod ELSE Rest

AnalyzeNothing ==
    /\ stage = "analyze"
    /\ ~ToAnalyze
    /\ Analyzed
    /\ UNCHANGED <<podState, caches, heard>>

\* Seeded fault: the entry lasts twice as long.
AnalyzesLater ==
    /\ stage = "analyze"
    /\ ToAnalyze
    /\ analyzed' = [analyzed EXCEPT ![pod] = 2 * AnalyzeTime]
    /\ UNCHANGED <<podState, known, sent, measured, heard>>

\* The entry is stored whatever comes of the analysis.
Analyzes ==
    /\ stage = "analyze"
    /\ ToAnalyze
    /\ analyzed' = [analyzed EXCEPT ![pod] = AnalyzeTime]
    /\ UNCHANGED <<podState, known, sent, measured, heard>>

\* An image that cannot be pulled is not put to the model: nobody is told.
AnalyzeSkip == Analyzes /\ status[pod] \notin Explained /\ Analyzed

AnalyzeAsk ==
    /\ Analyzes /\ status[pod] \in Explained
    /\ stage' = "answer"
    /\ UNCHANGED pod

Answered ==
    /\ stage = "answer"
    /\ Analyzed
    /\ UNCHANGED <<podState, known, analyzed, measured>>

\* The model fails: nobody is told.
AnalyzeFails == Answered /\ UNCHANGED <<sent, heard>>

\* The deployment was rolled back, or could not be, with no click; which of the
\* two, Rollback tells.
AnalyzeAutoFix(n) ==
    LET message == <<"Autonomous Action", n>>
    IN  Answered /\ sent' = Notified(message) /\ heard' = Heard(message, "Issue")

\* "Action Required": after two restarts the message comes with a button and
\* goes past notifyUser.
AnalyzeAction == Answered /\ UNCHANGED sent /\ heard' = heard \cup {"Issue"}

AnalyzeIssue(n) ==
    LET message == <<status[pod], n>>
    IN  Answered /\ sent' = Notified(message) /\ heard' = Heard(message, "Issue")

(***************************************************************************)
(* checkPrometheusMetrics.                                                 *)
(***************************************************************************)

\* Seeded fault: the entry is stored at every look.
MeasureNothingStores ==
    /\ stage = "CPU"
    /\ measured[pod] > 0
    /\ measured' = [measured EXCEPT ![pod] = Window]
    /\ Rest
    /\ UNCHANGED <<podState, known, sent, analyzed, heard>>

MeasureNothing ==
    /\ stage = "CPU"
    /\ measured[pod] > 0
    /\ Rest
    /\ UNCHANGED <<podState, caches, heard>>

\* The entry is looked at once, before the first query.
Measures(g) == stage = g /\ (g = "CPU" => measured[pod] = 0)

Tells == [CPU |-> "tell CPU", Memory |-> "tell Memory"]

\* The processor first, then memory.
Gauged(g) == IF g = "CPU" THEN stage' = "Memory" /\ UNCHANGED pod ELSE Rest

\* It is low, or the query failed.
GaugeLow(g) ==
    /\ Measures(g)
    /\ Gauged(g)
    /\ UNCHANGED <<podState, caches, heard>>

\* Both gauges store the one entry of the pod, each before its message.
GaugeHigh(g) ==
    /\ Measures(g)
    /\ <<pod, g>> \in hot
    /\ measured' = [measured EXCEPT ![pod] = Window]
    /\ stage' = Tells[g]
    /\ UNCHANGED <<podState, pod, known, sent, analyzed, heard>>

Alarm(g, n) ==
    LET message == <<Title[g], NameLength[pod] + n>>
    IN  /\ stage = Tells[g]
        /\ sent' = Notified(message) /\ heard' = Heard(message, g)
        /\ Gauged(g)
        /\ UNCHANGED <<podState, known, analyzed, measured>>

Answers ==
    \/ \E n \in FixLengths[pod] : AnalyzeAutoFix(n)
    \/ AnalyzeAction
    \/ \E n \in TextLengths[pod] : AnalyzeIssue(n)

WorkerMoves ==
    \/ TrackNew \/ TrackRecovery \/ TrackOther
    \/ AnalyzeNothing \/ AnalyzeSkip \/ AnalyzeAsk \/ AnalyzeFails \/ Answers
    \/ MeasureNothing
    \/ \E g \in Gauges :
           \/ GaugeLow(g) \/ GaugeHigh(g)
           \/ \E n \in ValueLengths : Alarm(g, n)

LifecycleNext ==
    \/ \E p \in Pods : \E s \in May[p] : StatusChanges(p, s)
    \/ \E p \in Pods : PodDeleted(p)
    \/ \E p \in Pods : \E g \in Hungry[p] : UsageChanges(p, g)
    \/ MinutePasses
    \/ ProcessRestarts
    \/ \E p \in Pods : Reconcile(p)
    \/ WorkerMoves

LifecycleSpec == LifecycleInit /\ [][LifecycleNext]_lifecycleVars

Is(p, s) == p \in DOMAIN status /\ status[p] = s

\* The worker and time go on; the model and the gauges, asked again and again, answer
\* again and again.  What the model answers is its own.
LifecycleFairness ==
    /\ WF_lifecycleVars(WorkerMoves)
    /\ WF_lifecycleVars(MinutePasses)
    /\ SF_lifecycleVars(Answers)
    /\ \A g \in Gauges : SF_lifecycleVars(GaugeHigh(g))

LifecycleFairSpec == LifecycleSpec /\ LifecycleFairness

(***************************************************************************)
(* Properties.                                                             *)
(***************************************************************************)

LifecycleTypeOK ==
    /\ DOMAIN status \subseteq Pods /\ status \in [DOMAIN status -> Statuses]
    /\ hot \subseteq (DOMAIN status) \X Gauges
    /\ DOMAIN known \subseteq Pods /\ known \in [DOMAIN known -> Statuses]
    /\ sent \in [DOMAIN sent -> 1..Window]
    /\ analyzed \in [Pods -> 0..AnalyzeTime]
    /\ measured \in [Pods -> 0..Window]
    /\ stage \in {"idle", "track", "analyze", "answer",
                 "CPU", "tell CPU", "Memory", "tell Memory"}
    /\ pod \in Pods
    /\ heard \subseteq Gauges \cup {"Issue"}

\* The silence after a message ends five minutes after it was sent: no message that
\* is dropped, of whatever pod, and no other title, prolongs it (lines 67-76), so
\* each message dropped is as long as one that was sent less than five minutes ago.
SilenceEnds ==
    [][\A m \in DOMAIN sent \cap DOMAIN sent' : sent'[m] <= sent[m]]_lifecycleVars

\* The worker starts a visit of the pod, which it does within ten seconds.
Visited(p) == stage = "track" /\ pod = p

Pulled(p) == p \in DOMAIN status => status[p] \notin Skipped

\* While the worker finds a pod in a crash loop again and again, running in between
\* or not, the team hears of an issue again and again, be it explained, given a
\* button or acted on: analyses come every two minutes and most of their messages
\* are dropped, but not all.  Which of the pods with messages of one length is named
\* in those that are sent, nothing in the code decides.  The image must be there: the
\* analysis of a failed pull, which tells nobody, takes the place of one that does.
CrashLoopHeard ==
    \A p \in Pods :
        []<>(Visited(p) /\ Is(p, "CrashLoopBackOff")) /\ <>[]Pulled(p)
            => []<>("Issue" \in heard)

\* While a running pod stays above a threshold, the team is alarmed about that gauge
\* again and again, although its two entries, of the metrics (line 493) and of the
\* message (line 76), start apart and may cancel every second alarm, and although
\* the processor's alarm puts off that of memory.  Of two pods with names of one
\* length it may always be the other that is named.
HeatHeard ==
    \A p \in Pods, g \in Gauges :
        []<>Visited(p) /\ <>[](Live(p) /\ <<p, g>> \in hot)
            => []<>(g \in heard)
=============================================================================
