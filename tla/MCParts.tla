------------------------------- MODULE MCParts --------------------------------
(***************************************************************************)
(* One instance for the parts that keep little state and share none: a     *)
(* behaviour is one of a part, picked at the start, and the others stay as *)
(* they began.  The pods of Lifecycle come twice: one that crashes and     *)
(* runs in turn and one that never runs, and two that run and come to use  *)
(* too much.                                                               *)
(***************************************************************************)
EXTENDS Lifecycle, SecurityHeal, NodeGuard, ChatSessions, BackendProxy, TLC

CONSTANTS p1, p2, telegram, slack

VARIABLE part

\* Lifecycle: names, explanations and reports have one length.
Same == [p \in Pods |-> 1]
Texts == [p \in Pods |-> {1}]
AllStatuses == {"Running", "CrashLoopBackOff", "ImagePullBackOff"}
MayBe == p1 :> {"Running", "CrashLoopBackOff"} @@ p2 :> AllStatuses
MayUse == p1 :> {"CPU", "Memory"} @@ p2 :> {"Memory"}
Unwell == {"CrashLoopBackOff", "ImagePullBackOff"}
Letters == [s \in AllStatuses |-> 1]

\* SecurityHeal: names of one length.
Alike == [n \in Namespaces |-> 1]

\* ChatSessions.
IdsOf == telegram :> {"a", "b"} @@ slack :> {"c"}

Init ==
    /\ part \in {"issues", "usage", "security", "node", "chats", "backend"}
    /\ LifecycleInit /\ SecurityInit /\ NodeInit /\ ChatInit /\ BackendInit
    /\ part # "security" => \A n \in Namespaces : policies[n] = {}

Next ==
    /\ UNCHANGED part
    /\ \/ /\ part = "issues" /\ LifecycleNext /\ hot' = {}
          /\ p2 \in DOMAIN status' => status'[p2] # "Running"
          /\ UNCHANGED <<securityVars, nodeVars, chatVars, backendVars>>
       \/ /\ part = "usage" /\ LifecycleNext
          /\ \A p \in DOMAIN status' : status'[p] = "Running"
          /\ UNCHANGED <<securityVars, nodeVars, chatVars, backendVars>>
       \/ /\ part = "security" /\ SecurityNext
          /\ UNCHANGED <<lifecycleVars, nodeVars, chatVars, backendVars>>
       \/ /\ part = "node" /\ NodeNext
          /\ UNCHANGED <<lifecycleVars, securityVars, chatVars, backendVars>>
       \/ /\ part = "chats" /\ ChatNext
          /\ UNCHANGED <<lifecycleVars, securityVars, nodeVars, backendVars>>
       \/ /\ part = "backend" /\ BackendNext
          /\ UNCHANGED <<lifecycleVars, securityVars, nodeVars, chatVars>>

\* No fair action is enabled in a part that stays as it began.
Spec ==
    /\ Init /\ [][Next]_<<part, lifecycleVars, securityVars, nodeVars, chatVars, backendVars>>
    /\ LifecycleFairness /\ NodeFairness

\* Every variable of every part has its type.
PartsTypeOK ==
    LifecycleTypeOK /\ SecurityTypeOK /\ NodeTypeOK /\ ChatTypeOK /\ BackendTypeOK
=============================================================================
