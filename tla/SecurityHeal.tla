----------------------------- MODULE SecurityHeal -----------------------------
(***************************************************************************)
(* checkSecurity of internal/controller/kubesolvconfig_controller.go: a    *)
(* namespace without a network policy is given one that denies everything. *)
(*                                                                         *)
(* The controller has one worker; people add and remove policies between   *)
(* its calls.  A call ends before the next tick of the clock, and each     *)
(* namespace has a running pod, which brings it to the worker every ten    *)
(* seconds.  Cache entries hold the ticks they have left.                  *)
(***************************************************************************)
EXTENDS Integers

CONSTANTS
    Namespaces,
    NamespaceLength,  \* length of a namespace's name
    Hour,             \* between two policies for a namespace
    Silence,          \* five minutes between two messages taken for the same
    MaxFailures       \* bound

ASSUME SecurityAssumption ==
    /\ NamespaceLength \in [Namespaces -> Nat]
    /\ Hour \in Nat \ {0} /\ Silence \in Nat \ {0}
    /\ MaxFailures \in Nat

VARIABLES
    policies,   \* by namespace: of the operator ("deny"), of people ("own")
    secEntry,   \* AlertCache "sec/...": ticks left
    notices,    \* AlertCache, messages "Security Auto-Heal": ticks left by length
    step,       \* the worker: "idle", about to "create" or to "tell"
    about,      \* the namespaces it is at: at most one
    looked,     \* namespaces it came to since the last tick
    failures,   \* calls that failed for a namespace since it had a policy
    exposed,    \* history: ticks since the namespace had a policy
    fate,       \* history: what became of the notice of its last policy
    quiet       \* history: ticks since a notice so long was sent, Silence at most

securityVars == <<policies, secEntry, notices, step, about, looked, failures,
                  exposed, fate, quiet>>

history == <<failures, exposed, fate, quiet>>

\* Of a namespace's last policy of the operator's, if it had one, the notice is
\* due, was sent, was hidden by another, or was lost with the process.
Fates == {"none", "due", "told", "hidden", "lost"}

Policies == {"deny", "own"}
Lengths == {NamespaceLength[n] : n \in Namespaces}
Zero == [n \in Namespaces |-> 0]

SecurityInit ==
    /\ policies \in [Namespaces -> {{}, {"own"}}]
    /\ secEntry = Zero
    /\ notices = [k \in Lengths |-> 0]
    /\ step = "idle" /\ about = {} /\ looked = {}
    /\ failures = Zero /\ exposed = Zero
    /\ fate = [n \in Namespaces |-> "none"]
    /\ quiet = [k \in Lengths |-> Silence]

(***************************************************************************)
(* People, time, restarts.                                                 *)
(***************************************************************************)

PersonAdds(n) ==
    /\ "own" \notin policies[n]
    /\ policies' = [policies EXCEPT ![n] = @ \cup {"own"}]
    /\ exposed' = [exposed EXCEPT ![n] = 0]
    /\ failures' = [failures EXCEPT ![n] = 0]
    /\ UNCHANGED <<secEntry, notices, step, about, looked, fate, quiet>>

PersonRemoves(n, p) ==
    /\ p \in policies[n]
    /\ policies' = [policies EXCEPT ![n] = @ \ {p}]
    /\ UNCHANGED <<secEntry, notices, step, about, looked, history>>

OneLess(left) == [k \in DOMAIN left |-> IF left[k] > 0 THEN left[k] - 1 ELSE 0]

\* No tick goes by without every namespace coming to the worker.
Tick ==
    /\ step = "idle" /\ looked = Namespaces
    /\ looked' = {}
    /\ secEntry' = OneLess(secEntry) /\ notices' = OneLess(notices)
    /\ exposed' = [n \in Namespaces |-> IF policies[n] = {} THEN exposed[n] + 1 ELSE 0]
    /\ quiet' = [k \in Lengths |-> IF quiet[k] < Silence THEN quiet[k] + 1 ELSE Silence]
    /\ UNCHANGED <<policies, step, about, failures, fate>>

OperatorRestarts ==
    /\ secEntry' = Zero /\ notices' = [k \in Lengths |-> 0]
    /\ step' = "idle" /\ about' = {}
    /\ looked' = looked \ about
    /\ fate' = [n \in Namespaces |-> IF fate[n] = "due" THEN "lost" ELSE fate[n]]
    /\ UNCHANGED <<policies, failures, exposed, quiet>>

(***************************************************************************)
(* The worker: checkSecurity.                                              *)
(***************************************************************************)

Comes(n) == step = "idle" /\ looked' = looked \cup {n}

\* Seeded fault: the entry is stored before it is looked at.
WithinHourRenews(n) ==
    /\ Comes(n)
    /\ secEntry[n] > 0
    /\ secEntry' = [secEntry EXCEPT ![n] = Hour]
    /\ UNCHANGED <<policies, notices, step, about, history>>

WithinHour(n) ==
    /\ Comes(n)
    /\ secEntry[n] > 0
    /\ UNCHANGED <<policies, secEntry, notices, step, about, history>>

Fails(n) ==
    /\ failures[n] < MaxFailures
    /\ failures' = [failures EXCEPT ![n] = IF policies[n] = {} THEN @ + 1 ELSE @]

ListFails(n) ==
    /\ Comes(n)
    /\ secEntry[n] = 0
    /\ Fails(n)
    /\ UNCHANGED <<policies, secEntry, notices, step, about, exposed, fate, quiet>>

ListSome(n) ==
    /\ Comes(n)
    /\ secEntry[n] = 0
    /\ policies[n] # {}
    /\ UNCHANGED <<policies, secEntry, notices, step, about, history>>

\* The entry is stored before the policy is created.
ListNone(n) ==
    /\ Comes(n)
    /\ secEntry[n] = 0
    /\ policies[n] = {}
    /\ secEntry' = [secEntry EXCEPT ![n] = Hour]
    /\ step' = "create" /\ about' = {n}
    /\ UNCHANGED <<policies, notices, history>>

\* Whatever policies people have added since the list was read.
Create(n) ==
    /\ step = "create" /\ about = {n}
    /\ policies' = [policies EXCEPT ![n] = @ \cup {"deny"}]
    /\ exposed' = [exposed EXCEPT ![n] = 0]
    /\ failures' = [failures EXCEPT ![n] = 0]
    /\ fate' = [fate EXCEPT ![n] = "due"]
    /\ step' = "tell"
    /\ UNCHANGED <<secEntry, notices, about, looked, quiet>>

\* Seeded fault: the error is dropped.
CreateFailsUnnoticed(n) ==
    /\ step = "create" /\ about = {n}
    /\ Fails(n)
    /\ step' = "tell"
    /\ UNCHANGED <<policies, secEntry, notices, about, looked, exposed, fate, quiet>>

CreateFails(n) ==
    /\ step = "create" /\ about = {n}
    /\ Fails(n)
    /\ step' = "idle" /\ about' = {}
    /\ UNCHANGED <<policies, secEntry, notices, looked, exposed, fate, quiet>>

\* notifyUser drops a message as long as one of the last five minutes, and
\* sends any other.
Tell(n) ==
    LET k == NamespaceLength[n]
    IN  /\ step = "tell" /\ about = {n}
        /\ \/ /\ notices[k] > 0
              /\ fate' = [fate EXCEPT ![n] = "hidden"]
              /\ UNCHANGED <<notices, quiet>>
           \/ /\ notices[k] = 0
              /\ fate' = [fate EXCEPT ![n] = "told"]
              /\ notices' = [notices EXCEPT ![k] = Silence]
              /\ quiet' = [quiet EXCEPT ![k] = 0]
        /\ step' = "idle" /\ about' = {}
        /\ UNCHANGED <<policies, secEntry, looked, failures, exposed>>

SecurityNext ==
    \/ \E n \in Namespaces :
           \/ PersonAdds(n)
           \/ \E p \in Policies : PersonRemoves(n, p)
           \/ WithinHour(n) \/ ListFails(n) \/ ListSome(n) \/ ListNone(n)
           \/ Create(n) \/ CreateFails(n) \/ Tell(n)
    \/ Tick
    \/ OperatorRestarts

SecuritySpec == SecurityInit /\ [][SecurityNext]_securityVars

(***************************************************************************)
(* Properties.                                                             *)
(***************************************************************************)

SecurityTypeOK ==
    /\ policies \in [Namespaces -> SUBSET Policies]
    /\ secEntry \in [Namespaces -> 0..Hour]
    /\ notices \in [Lengths -> 0..Silence]
    /\ step \in {"idle", "create", "tell"}
    /\ about \in SUBSET Namespaces /\ looked \in SUBSET Namespaces
    /\ failures \in [Namespaces -> 0..MaxFailures]
    /\ exposed \in [Namespaces -> Nat]
    /\ fate \in [Namespaces -> Fates] /\ quiet \in [Lengths -> 0..Silence]

\* A namespace is without a policy for an hour at most, and an hour more for each
\* call about it that failed meanwhile: whenever people remove policies, and
\* however the worker's look, the entry and the restart of the process fall.
ExposureBound ==
    \A n \in Namespaces : exposed[n] <= Hour * (1 + failures[n])

\* The team is told of a policy exactly when one has been created: no failed call
\* is announced, and no policy stands that the worker passed over in silence.  A
\* notice is kept back only where one as long was really sent within the last five
\* minutes (lines 67-75), before a restart or after it.  What remains is the notice
\* of a policy created just before the process died: it is never made up for.
NoticesTrue ==
    \A n \in Namespaces :
        /\ fate[n] = "due" <=> step = "tell" /\ n \in about
        /\ "deny" \in policies[n] => fate[n] # "none"
        /\ fate[n] = "due" /\ notices[NamespaceLength[n]] > 0
               => quiet[NamespaceLength[n]] < Silence
=============================================================================
