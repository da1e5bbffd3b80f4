----------------------------- MODULE ChatSessions -----------------------------
(***************************************************************************)
(* The conversations of the chats with the model: the session map and its  *)
(* reaper in internal/ai/gemini.go, internal/ai/chat.go, and the tool loop *)
(* of routeMessage in internal/alert/telegram.go and slack.go.             *)
(*                                                                         *)
(* The goroutine of each platform takes one question at a time, of one of  *)
(* the platform's chats.  A question is a number of rounds: the model      *)
(* thinks, then tools run, and what they return goes to the model by the   *)
(* chat's session as it is then.  Calls of the model have no timeout.  The *)
(* reaper's ticker fires every Period ticks.                               *)
(***************************************************************************)
EXTENDS Integers

CONSTANTS
    Platforms,
    ChatIds,   \* by platform; no chat is of two
    Ttl,       \* thirty minutes
    Period     \* five minutes

ASSUME ChatAssumption ==
    /\ \A f, g \in Platforms : f # g => ChatIds[f] \cap ChatIds[g] = {}
    /\ Ttl \in Nat \ {0} /\ Period \in Nat \ {0}

Ids == UNION {ChatIds[g] : g \in Platforms}

VARIABLES
    idle,      \* chatSessions: ticks since lastUsed, of the chats that have one
    doing,     \* per platform: "nothing", waiting for the "model", in "tools"
    talking,   \* per platform: the chats it answers; at most one
    round,     \* per platform: ticks its round has taken, up to one beyond Ttl
    phase,     \* ticks since the reaper's ticker fired
    reaping,   \* it fired, and the reaper has not run yet
    slow,      \* history: platforms whose question had a round beyond Ttl
    lost       \* history: platforms whose question lost its session to the reaper

chatVars == <<idle, doing, talking, round, phase, reaping, slow, lost>>

ChatInit ==
    /\ idle = [i \in {} |-> 0]
    /\ doing = [g \in Platforms |-> "nothing"]
    /\ talking = [g \in Platforms |-> {}]
    /\ round = [g \in Platforms |-> 0]
    /\ phase = 0 /\ reaping = FALSE
    /\ slow = {} /\ lost = {}

\* Seeded fault: only a new session is marked as used.
GetOrCreateUnmarked(i) ==
    idle' = [k \in DOMAIN idle \cup {i} |-> IF k \in DOMAIN idle THEN idle[k] ELSE 0]

\* Whether there is a session or one is made, it was last used now.
GetOrCreateSession(i) ==
    idle' = [k \in DOMAIN idle \cup {i} |-> IF k = i THEN 0 ELSE idle[k]]

\* A question, or what the tools return, goes to the model.
SendMessage(g, i) ==
    /\ GetOrCreateSession(i)
    /\ doing' = [doing EXCEPT ![g] = "model"]
    /\ round' = [round EXCEPT ![g] = 0]

AskQuestion(g, i) ==
    /\ doing[g] = "nothing"
    /\ SendMessage(g, i)
    /\ talking' = [talking EXCEPT ![g] = {i}]
    /\ UNCHANGED <<phase, reaping, slow, lost>>

CallTools(g) ==
    /\ doing[g] = "model"
    /\ doing' = [doing EXCEPT ![g] = "tools"]
    /\ UNCHANGED <<idle, talking, round, phase, reaping, slow, lost>>

AnswerTools(g) ==
    /\ doing[g] = "tools"
    /\ \E i \in talking[g] : SendMessage(g, i)
    /\ UNCHANGED <<talking, phase, reaping, slow, lost>>

\* The model calls no tool, or returns nothing, or fails.
EndQuestion(g) ==
    /\ doing[g] = "model"
    /\ doing' = [doing EXCEPT ![g] = "nothing"]
    /\ talking' = [talking EXCEPT ![g] = {}]
    /\ round' = [round EXCEPT ![g] = 0]
    /\ slow' = slow \ {g} /\ lost' = lost \ {g}
    /\ UNCHANGED <<idle, phase, reaping>>

ChatTick ==
    /\ ~reaping
    /\ idle' = [i \in DOMAIN idle |-> idle[i] + 1]
    /\ round' = [g \in Platforms |-> IF doing[g] # "nothing" /\ round[g] <= Ttl
                                     THEN round[g] + 1 ELSE round[g]]
    /\ slow' = {g \in Platforms : round'[g] > Ttl} \cup slow
    /\ phase' = (phase + 1) % Period
    /\ reaping' = (phase' = 0)
    /\ UNCHANGED <<doing, talking, lost>>

Stale == {i \in DOMAIN idle : idle[i] > Ttl}

\* Seeded fault: it stops at the first stale session.
ReapFirst ==
    /\ reaping
    /\ reaping' = FALSE
    /\ \/ Stale = {} /\ UNCHANGED idle
       \/ \E i \in Stale : idle' = [k \in DOMAIN idle \ {i} |-> idle[k]]
    /\ UNCHANGED <<doing, talking, round, phase, slow, lost>>

ReapSessions ==
    /\ reaping
    /\ reaping' = FALSE
    /\ idle' = [i \in DOMAIN idle \ Stale |-> idle[i]]
    /\ lost' = lost \cup {g \in Platforms : talking[g] \cap Stale # {}}
    /\ UNCHANGED <<doing, talking, round, phase, slow>>

ChatNext ==
    \/ \E g \in Platforms :
           \/ \E i \in ChatIds[g] : AskQuestion(g, i)
           \/ CallTools(g) \/ AnswerTools(g) \/ EndQuestion(g)
    \/ ChatTick \/ ReapSessions

ChatSpec == ChatInit /\ [][ChatNext]_chatVars

(***************************************************************************)
(* Properties.                                                             *)
(***************************************************************************)

ChatTypeOK ==
    /\ DOMAIN idle \subseteq Ids /\ idle \in [DOMAIN idle -> Nat]
    /\ doing \in [Platforms -> {"nothing", "model", "tools"}]
    /\ talking \in [Platforms -> SUBSET Ids]
    /\ round \in [Platforms -> 0..Ttl + 1]
    /\ phase \in 0..Period - 1
    /\ reaping \in BOOLEAN
    /\ slow \in SUBSET Platforms /\ lost \in SUBSET Platforms

\* What the tools return reaches the session that called them, however many
\* rounds a question takes and whenever the reaper comes, as long as none of
\* its rounds alone takes longer than an idle session lives.
SessionKept == lost \subseteq slow

\* No session outlives its last use by more than the time to live and one period,
\* however many become stale at once.
IdleBound == \A i \in DOMAIN idle : idle[i] <= Ttl + Period
=============================================================================
