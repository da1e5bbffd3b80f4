----------------------------- MODULE BackendProxy -----------------------------
(***************************************************************************)
(* The AI proxy, backend/main.go, as one license key meets it: withAuth    *)
(* and its rate limiter, handleChat and its sessions, sessionReaper.       *)
(*                                                                         *)
(* Each connection sends one request after another, and each request has a *)
(* goroutine of its own.  The limiter of golang.org/x/time/rate is a       *)
(* bucket: full at first, a token taken by a request that is let through,  *)
(* one put back per tick.  A request without a valid key goes no further   *)
(* than the check of it and is left out.  handleEvaluateIncident and       *)
(* handleCostOptimize are requests that need no session.                   *)
(***************************************************************************)
EXTENDS Integers, FiniteSets

CONSTANTS
    Connections,
    Sessions,     \* session identifiers that clients use
    NoSession,
    Burst,        \* tokens of a full bucket
    Names,        \* names for the chats in use: of one out of use nothing is left
    NoChat,
    MaxTicks      \* bound on the clock

ASSUME BackendAssumption ==
    /\ IsFiniteSet(Connections) /\ IsFiniteSet(Sessions) /\ IsFiniteSet(Names)
    /\ Cardinality(Names) > Cardinality(Connections) + Cardinality(Sessions)
    /\ NoSession \notin Sessions /\ NoChat \notin Names
    /\ Burst \in Nat \ {0} /\ MaxTicks \in Nat

VARIABLES
    at,         \* per connection: where its request is
    wants,      \* per connection: the session of its request, or NoSession
    limiter,    \* per connection: the limiter its request goes by, named for the
                \* connection that made it; none, one
    stored,     \* rateLimiters: none or one limiter
    tokens,     \* tokens of the limiter each connection has made
    makers,     \* connections that have made a limiter
    chat,       \* per connection: the chat its request talks to, or NoChat
    chatOf,     \* chatSessions: the chat of an identifier, or NoChat
    orphan,     \* connections whose chat the reaper has taken from the map
    elapsed,    \* history: ticks
    admitted    \* history: per connection, requests its limiters let through

backendVars == <<at, wants, limiter, stored, tokens, makers, chat, chatOf, orphan,
                 elapsed, admitted>>

limits == <<limiter, stored, tokens, makers>>
talk == <<chat, chatOf, orphan>>

BackendInit ==
    /\ at = [c \in Connections |-> "idle"]
    /\ wants = [c \in Connections |-> NoSession]
    /\ limiter = [c \in Connections |-> {}]
    /\ stored = {}
    /\ tokens = [c \in Connections |-> 0] /\ makers = {}
    /\ chat = [c \in Connections |-> NoChat]
    /\ chatOf = [s \in Sessions |-> NoChat]
    /\ orphan = {}
    /\ elapsed = 0 /\ admitted = [c \in Connections |-> 0]

Request(c, s) ==
    /\ at[c] = "idle"
    /\ at' = [at EXCEPT ![c] = "load"]
    /\ wants' = [wants EXCEPT ![c] = s]
    /\ UNCHANGED <<limits, talk, elapsed, admitted>>

(***************************************************************************)
(* withAuth and getLimiter.                                                *)
(***************************************************************************)

\* Seeded fault: the stored limiter is never found.
LoadNoLimiter(c) ==
    /\ at[c] = "load"
    /\ limiter' = [limiter EXCEPT ![c] = stored]
    /\ at' = [at EXCEPT ![c] = "store"]
    /\ UNCHANGED <<wants, stored, tokens, makers, talk, elapsed, admitted>>

LoadLimiter(c) ==
    /\ at[c] = "load"
    /\ limiter' = [limiter EXCEPT ![c] = stored]
    /\ at' = [at EXCEPT ![c] = IF stored = {} THEN "store" ELSE "allow"]
    /\ UNCHANGED <<wants, stored, tokens, makers, talk, elapsed, admitted>>

\* Whatever another request has stored meanwhile.
StoreLimiter(c) ==
    /\ at[c] = "store"
    /\ tokens' = [tokens EXCEPT ![c] = Burst]
    /\ makers' = makers \cup {c}
    /\ stored' = {c}
    /\ limiter' = [limiter EXCEPT ![c] = {c}]
    /\ at' = [at EXCEPT ![c] = "allow"]
    /\ UNCHANGED <<wants, talk, elapsed, admitted>>

Refuse(c) ==
    /\ at[c] = "allow"
    /\ \A m \in limiter[c] : tokens[m] = 0
    /\ at' = [at EXCEPT ![c] = "idle"]
    /\ limiter' = [limiter EXCEPT ![c] = {}]
    /\ wants' = [wants EXCEPT ![c] = NoSession]
    /\ UNCHANGED <<stored, tokens, makers, talk, elapsed, admitted>>

Allow(c) ==
    /\ at[c] = "allow"
    /\ \E m \in limiter[c] :
           /\ tokens[m] > 0
           /\ tokens' = [tokens EXCEPT ![m] = @ - 1]
           /\ admitted' = [admitted EXCEPT ![m] = @ + 1]
    /\ limiter' = [limiter EXCEPT ![c] = {}]
    /\ at' = [at EXCEPT ![c] = IF wants[c] = NoSession THEN "answer" ELSE "session"]
    /\ UNCHANGED <<wants, stored, makers, talk, elapsed>>

BackendTick ==
    /\ elapsed < MaxTicks /\ elapsed' = elapsed + 1
    /\ tokens' = [c \in Connections |-> IF c \in makers /\ tokens[c] < Burst
                                        THEN tokens[c] + 1 ELSE tokens[c]]
    /\ UNCHANGED <<at, wants, limiter, stored, makers, talk, admitted>>

(***************************************************************************)
(* handleChat, getOrCreateSession, sessionReaper.                          *)
(***************************************************************************)

\* Under the mutex.
GetChat(c) ==
    LET s == wants[c]
    IN  /\ at[c] = "session"
        /\ chatOf[s] # NoChat
        /\ chat' = [chat EXCEPT ![c] = chatOf[s]]
        /\ at' = [at EXCEPT ![c] = "answer"]
        /\ UNCHANGED <<wants, limits, chatOf, orphan, elapsed, admitted>>

InUse == {chat[c] : c \in Connections} \cup {chatOf[s] : s \in Sessions}
NewChat == CHOOSE k \in Names : k \notin InUse

\* Seeded fault: without the mutex, another request may have started one.
StartChatAgain(c) ==
    LET s == wants[c]
    IN  /\ at[c] = "session"
        /\ chatOf' = [chatOf EXCEPT ![s] = NewChat]
        /\ chat' = [chat EXCEPT ![c] = NewChat]
        /\ at' = [at EXCEPT ![c] = "answer"]
        /\ UNCHANGED <<wants, limits, orphan, elapsed, admitted>>

StartChat(c) ==
    LET s == wants[c]
    IN  /\ at[c] = "session"
        /\ chatOf[s] = NoChat
        /\ chatOf' = [chatOf EXCEPT ![s] = NewChat]
        /\ chat' = [chat EXCEPT ![c] = NewChat]
        /\ at' = [at EXCEPT ![c] = "answer"]
        /\ UNCHANGED <<wants, limits, orphan, elapsed, admitted>>

Answer(c) ==
    /\ at[c] = "answer"
    /\ at' = [at EXCEPT ![c] = "idle"]
    /\ chat' = [chat EXCEPT ![c] = NoChat]
    /\ wants' = [wants EXCEPT ![c] = NoSession]
    /\ orphan' = orphan \ {c}
    /\ UNCHANGED <<limits, chatOf, elapsed, admitted>>

\* The reaper deletes one identifier after the other, and not under the mutex.
Reap(s) ==
    /\ chatOf[s] # NoChat
    /\ chatOf' = [chatOf EXCEPT ![s] = NoChat]
    /\ orphan' = orphan \cup {c \in Connections : chat[c] = chatOf[s]}
    /\ UNCHANGED <<at, wants, limits, chat, elapsed, admitted>>

BackendNext ==
    \/ \E c \in Connections :
           \/ \E s \in Sessions \cup {NoSession} : Request(c, s)
           \/ LoadLimiter(c) \/ StoreLimiter(c) \/ Refuse(c) \/ Allow(c)
           \/ GetChat(c) \/ StartChat(c) \/ Answer(c)
    \/ BackendTick
    \/ \E s \in Sessions : Reap(s)

BackendSpec == BackendInit /\ [][BackendNext]_backendVars

(***************************************************************************)
(* Properties.                                                             *)
(***************************************************************************)

BackendTypeOK ==
    /\ at \in [Connections -> {"idle", "load", "store", "allow", "session", "answer"}]
    /\ wants \in [Connections -> Sessions \cup {NoSession}]
    /\ limiter \in [Connections -> SUBSET Connections]
    /\ stored \in SUBSET Connections /\ makers \in SUBSET Connections
    /\ tokens \in [Connections -> 0..Burst]
    /\ chat \in [Connections -> Names \cup {NoChat}]
    /\ chatOf \in [Sessions -> Names \cup {NoChat}]
    /\ orphan \in SUBSET Connections
    /\ elapsed \in 0..MaxTicks
    /\ admitted \in [Connections -> Nat]

\* The limit holds up to the race of the first requests of a key: each of them
\* that found no limiter brings one burst, once, and no request after them does,
\* however often they come back.
Admitted == UNION {{c} \X (1..admitted[c]) : c \in Connections}
AdmittedBound == Cardinality(Admitted) <= Cardinality(makers) * (Burst + elapsed)

\* Two requests of one session talk to one chat, the one later requests will get,
\* unless the reaper came between them.
OneChat ==
    \A c \in Connections \ orphan : chat[c] # NoChat => chat[c] = chatOf[wants[c]]
=============================================================================
