--------------------------------- MODULE Team ---------------------------------
(***************************************************************************)
(* The team of the Telegram bot (internal/alert/telegram.go): invite       *)
(* codes, registration with its limit on wrong codes, leaving, and the     *)
(* ConfigMap the list of members is kept in across restarts.               *)
(*                                                                         *)
(* One goroutine handles every command to its end, the save included, so   *)
(* a command is one step up to the calls of the Kubernetes API, which is   *)
(* where a crash can cut it.  Time is a clock that ticks between steps.    *)
(*                                                                         *)
(* The list is a text: entries "id:name" joined by commas, which reading   *)
(* splits again.  A member without a user name goes by his first name,     *)
(* which is free text: of a name that holds a comma only what is before    *)
(* the first stays his, and what is behind it is read as further entries,  *)
(* as far as it has their form.                                            *)
(***************************************************************************)
EXTENDS Naturals, FiniteSets

CONSTANTS
    Users,       \* chats other than the admin's
    Names,
    NameOf,      \* the name a user registers under; names may collide
    Head,        \* what is read back of a name
    Behind,      \* entries that are read from what follows its first comma
    Codes,       \* invite codes that may ever be generated
    MaxUses,     \* uses of a code: 10
    MaxFails,    \* wrong codes in a window before lockout: 5
    Window,      \* length of that window: 10 minutes
    Validity,    \* life of a code: 24 hours
    MaxClock, MaxFaults, MaxCrashes   \* bounds

Entry == [chat: Users, name: Names]

\* A name without a comma.
Plain(n) == Head[n] = n /\ Behind[n] = {}

ASSUME TeamAssumption ==
    /\ NameOf \in [Users -> Names]
    /\ Head \in [Names -> Names] /\ Behind \in [Names -> SUBSET Entry]
    /\ \A n \in Names : Plain(Head[n]) /\ \A e \in Behind[n] : Plain(e.name)
    /\ MaxUses \in Nat /\ MaxFails \in Nat \ {0}
    /\ Window \in Nat /\ Validity \in Nat \ {0}
    /\ MaxClock \in Nat /\ MaxFaults \in Nat /\ MaxCrashes \in Nat

VARIABLES
    up,        \* the bot has loaded its list and reads updates
    pc,        \* "idle", or the call a command is at: "save", "reply"
    subject,   \* the user that command adds or takes off
    chatIds,   \* ChatIDs: the entries of the members, one for each
    issued,    \* InviteCodes: the codes in memory,
    expires,   \*   when each expires
    used,      \*   and its UsedCount
    failed,    \* FailedAttempts: count 0 stands for no entry
    mapExists, \* the ConfigMap kubesolv-subscribers exists
    saved,     \* the entries it was written with
    clock,
    faults,    \* Kubernetes calls that failed
    crashes,
    news,      \* history: what each user was last told of his membership
    cut,       \* history: users whose last command a crash interrupted
    regs,      \* history: registrations, with code and time
    failures,  \* history: failed attempts of each user, this life
    booted     \* history: when the process started

memory == <<chatIds, issued, expires, used, failed>>
store  == <<mapExists, saved>>
counts == <<failures, booted>>
vars == <<up, pc, subject, memory, store, clock, faults, crashes, news, cut, regs,
          counts>>

Members(list) == {e.chat : e \in list}

NoFailure == [count |-> 0, start |-> 0]

EmptyMemory ==
    /\ chatIds' = {} /\ issued' = {}
    /\ used' = [c \in Codes |-> 0]
    /\ failed' = [u \in Users |-> NoFailure]
    /\ UNCHANGED expires

Init ==
    /\ up = FALSE /\ pc = "idle" /\ subject = {}
    /\ chatIds = {} /\ issued = {}
    /\ expires = [c \in Codes |-> 0] /\ used = [c \in Codes |-> 0]
    /\ failed = [u \in Users |-> NoFailure]
    /\ mapExists = FALSE /\ saved = {}
    /\ clock = 0 /\ faults = 0 /\ crashes = 0
    /\ news = [u \in Users |-> "none"] /\ cut = {} /\ regs = {}
    /\ failures = [u \in Users |-> 0]
    /\ booted = 0

(***************************************************************************)
(* The subscriber ConfigMap.                                               *)
(***************************************************************************)

Fault == faults < MaxFaults /\ faults' = faults + 1

\* Seeded fault: the list is never read back.
LoadCreates ==
    /\ ~up
    /\ up' = TRUE
    /\ mapExists' = TRUE
    /\ UNCHANGED <<pc, subject, memory, saved, faults, clock, crashes, news,
                   cut, regs, counts>>

\* The entries that are read from a text.
Listed(text) ==
    {[e EXCEPT !.name = Head[e.name]] : e \in text}
        \cup UNION {Behind[e.name] : e \in text}

\* A chat with several entries keeps one; the order of the text is no one's.
Readings(text) ==
    {list \in SUBSET Listed(text) :
         /\ Members(list) = Members(Listed(text))
         /\ \A d, e \in list : d.chat = e.chat => d = e}

\* loadSubscribers: the list is read; when reading fails for whatever reason,
\* an empty ConfigMap is created, which fails if there is one already.
Load ==
    /\ ~up
    /\ up' = TRUE
    /\ \/ /\ mapExists
          /\ chatIds' \in Readings(saved)
          /\ UNCHANGED <<store, faults>>
       \/ /\ ~mapExists
          /\ mapExists' = TRUE
          /\ UNCHANGED <<chatIds, saved, faults>>
       \/ /\ Fault
          /\ UNCHANGED <<chatIds, store>>
    /\ UNCHANGED <<pc, subject, issued, expires, used, failed, clock, crashes,
                   news, cut, regs, counts>>

\* saveSubscribers: Get, then Update or Create; a failure is only logged.
Save ==
    /\ pc = "save"
    /\ pc' = "reply"
    /\ \/ mapExists' = TRUE /\ saved' = chatIds /\ UNCHANGED faults
       \/ Fault /\ UNCHANGED store
    /\ UNCHANGED <<up, subject, memory, clock, crashes, news, cut, regs, counts>>

\* The reply that ends the command, whether or not the save succeeded.
Reply ==
    /\ pc = "reply"
    /\ pc' = "idle"
    /\ news' = [u \in Users |-> IF u \notin subject THEN news[u]
                                ELSE IF u \in Members(chatIds) THEN "in" ELSE "off"]
    /\ cut' = cut \ subject
    /\ subject' = {}
    /\ UNCHANGED <<up, memory, store, clock, faults, crashes, regs, counts>>

(***************************************************************************)
(* Commands.                                                               *)
(***************************************************************************)

Idle == up /\ pc = "idle"

\* Seeded fault: the validity is counted backwards.
InviteBackdated(c) ==
    /\ Idle
    /\ c \notin issued /\ expires[c] = 0
    /\ issued' = issued \cup {c}
    /\ expires' = [expires EXCEPT ![c] = clock - Validity]
    /\ UNCHANGED <<up, pc, subject, chatIds, used, failed, store, clock, faults,
                   crashes, news, cut, regs, counts>>

\* handleGenerateInvite; a random code is never generated twice.
Invite(c) ==
    /\ Idle
    /\ c \notin issued /\ expires[c] = 0
    /\ issued' = issued \cup {c}
    /\ expires' = [expires EXCEPT ![c] = clock + Validity]
    /\ UNCHANGED <<up, pc, subject, chatIds, used, failed, store, clock, faults,
                   crashes, news, cut, regs, counts>>

\* Seeded fault: the window is one unit short.
ElapsedEarly(u) == clock - failed[u].start >= Window

Elapsed(u) == clock - failed[u].start > Window
Locked(u)  == failed[u].count >= MaxFails /\ ~Elapsed(u)

\* checkBruteForce forgets an expired window.
Checked(u) == IF Elapsed(u) THEN NoFailure ELSE failed[u]

\* The attempt of u ends without a failure being counted.
Refuse(u) ==
    /\ failed' = [failed EXCEPT ![u] = Checked(u)]
    /\ UNCHANGED failures

\* recordFailedAttempt, after the check.
RecordFailure(u) ==
    /\ failures' = [failures EXCEPT ![u] = @ + 1]
    /\ \/ /\ Checked(u).count = 0
          /\ failed' = [failed EXCEPT ![u] = [count |-> 1, start |-> clock]]
       \/ /\ Checked(u).count > 0
          /\ failed' = [failed EXCEPT ![u].count = @ + 1]

\* Seeded fault: the age of a code is checked only if it is unknown.
InvalidBoth(c) == c \notin issued /\ clock > expires[c]

\* A code that was never generated, or not in this life, or is too old.
Invalid(c) == c \notin issued \/ clock > expires[c]

\* handleRegister, up to the reply of a refused attempt.
RegisterRefused(u, c) ==
    /\ Idle
    /\ \/ Locked(u) /\ UNCHANGED <<failed, failures>>
       \/ ~Locked(u) /\ u \in Members(chatIds) /\ Refuse(u)
       \/ ~Locked(u) /\ u \notin Members(chatIds) /\ Invalid(c) /\ RecordFailure(u)
       \/ /\ ~Locked(u) /\ u \notin Members(chatIds) /\ ~Invalid(c)
          /\ used[c] >= MaxUses
          /\ Refuse(u)
    /\ UNCHANGED <<up, pc, subject, chatIds, issued, expires, used, store, clock,
                   faults, crashes, news, cut, regs, booted>>

\* Seeded fault: one use too many.
RegisterOneMore(u, c) ==
    /\ Idle
    /\ ~Locked(u) /\ u \notin Members(chatIds)
    /\ ~Invalid(c) /\ used[c] <= MaxUses
    /\ Refuse(u)
    /\ used' = [used EXCEPT ![c] = @ + 1]
    /\ chatIds' = chatIds \cup {[chat |-> u, name |-> NameOf[u]]}
    /\ regs' = regs \cup {[user |-> u, code |-> c, at |-> clock,
                           use |-> used[c] + 1]}
    /\ subject' = {u}
    /\ pc' = "save"
    /\ UNCHANGED <<up, issued, expires, store, clock, faults, crashes, news, cut,
                   booted>>

\* handleRegister, up to the save of an accepted attempt.
RegisterAccepted(u, c) ==
    /\ Idle
    /\ ~Locked(u) /\ u \notin Members(chatIds)
    /\ ~Invalid(c) /\ used[c] < MaxUses
    /\ Refuse(u)
    /\ used' = [used EXCEPT ![c] = @ + 1]
    /\ chatIds' = chatIds \cup {[chat |-> u, name |-> NameOf[u]]}
    /\ regs' = regs \cup {[user |-> u, code |-> c, at |-> clock,
                           use |-> used[c] + 1]}
    /\ subject' = {u}
    /\ pc' = "save"
    /\ UNCHANGED <<up, issued, expires, store, clock, faults, crashes, news, cut,
                   booted>>

\* Seeded fault: leaving is not saved.
LeavesUnsaved(u) ==
    /\ chatIds' = {e \in chatIds : e.chat # u}
    /\ subject' = {u}
    /\ pc' = "reply"
    /\ UNCHANGED <<up, issued, expires, used, failed, store, clock, faults,
                   crashes, news, cut, regs, counts>>

Leaves(u) ==
    /\ chatIds' = {e \in chatIds : e.chat # u}
    /\ subject' = {u}
    /\ pc' = "save"
    /\ UNCHANGED <<up, issued, expires, used, failed, store, clock, faults,
                   crashes, news, cut, regs, counts>>

\* handleUnregister.
Unregister(u) == Idle /\ u \in Members(chatIds) /\ Leaves(u)

\* handleRemoveUser: the first member found under the name.
Remove(n) == Idle /\ \E e \in chatIds : e.name = n /\ Leaves(e.chat)

Tick ==
    /\ clock < MaxClock
    /\ clock' = clock + 1
    /\ UNCHANGED <<up, pc, subject, memory, store, faults, crashes, news, cut, regs,
                   counts>>

\* The process dies, in the middle of a save perhaps, and is started again.
Crash ==
    /\ crashes < MaxCrashes
    /\ crashes' = crashes + 1
    /\ up' = FALSE /\ pc' = "idle" /\ subject' = {}
    /\ EmptyMemory
    /\ failures' = [u \in Users |-> 0]
    /\ booted' = clock
    /\ cut' = cut \cup subject
    /\ UNCHANGED <<store, clock, faults, news, regs>>

Next ==
    \/ Load \/ Save \/ Reply \/ Tick \/ Crash
    \/ \E c \in Codes : Invite(c)
    \/ \E u \in Users, c \in Codes : RegisterRefused(u, c) \/ RegisterAccepted(u, c)
    \/ \E u \in Users : Unregister(u)
    \/ \E n \in Names : Remove(n)

Spec == Init /\ [][Next]_vars

(***************************************************************************)
(* Properties.                                                             *)
(***************************************************************************)

\* Every variable has its type.
TypeOK ==
    /\ up \in BOOLEAN /\ pc \in {"idle", "save", "reply"} /\ mapExists \in BOOLEAN
    /\ subject \subseteq Users /\ cut \subseteq Users
    /\ chatIds \subseteq Entry /\ saved \subseteq Entry
    /\ news \in [Users -> {"none", "in", "off"}]
    /\ issued \subseteq Codes
    /\ expires \in [Codes -> Nat] /\ used \in [Codes -> Nat]
    /\ failed \in [Users -> [count: Nat, start: Nat]]
    /\ clock \in Nat /\ faults \in Nat /\ crashes \in Nat /\ booted \in Nat
    /\ regs \subseteq [user: Users, code: Codes, at: Nat, use: Nat]
    /\ failures \in [Users -> Nat]

\* Chats that stand behind a comma in the name of someone who registered.
Named == UNION {Members(Behind[NameOf[r.user]]) : r \in regs}

\* While the API answers, the list survives, through its text and whenever the
\* process dies: a user last told that he is on it has his entry, and one who has
\* an entry was last told so, but for a user whose command is running or was cut
\* by a crash, and, of the entries, for one who stands in another's name.
\* Between commands everyone with an entry is on the team in memory.
NewsIsDurable ==
    faults = 0 =>
        /\ \A u \in Users \ (cut \cup subject) :
               /\ news[u] = "in" => u \in Members(saved)
               /\ u \in Members(saved) => news[u] = "in" \/ u \in Named
        /\ Idle => Members(saved) \subseteq Members(chatIds)

DroppedAreLeavers == Members(saved) \ Members(saved') \subseteq subject

\* While the API answers, a member's entry is dropped from the ConfigMap only by
\* the command that takes him off, restarts or not (saveSubscribers).
OnlyLeaversDropped == [][faults' = 0 => DroppedAreLeavers]_vars


\* Whatever fails, a chat is on the team, or will be after a restart, only
\* through a registration with a code the admin had generated and that was then
\* valid: its own, or one under a name whose text, split at the commas, has an
\* entry of the chat.  Where names are plain, nobody is who did not register.
OnlyInvited ==
    \A u \in Members(chatIds) \cup Members(Listed(saved)) :
        \E r \in regs :
            /\ r.user = u \/ u \in Members(Behind[NameOf[r.user]])
            /\ r.at <= expires[r.code]

\* A code admits at most MaxUses times over all restarts: a restart forgets
\* codes but never gives one its uses back.
InviteBound ==
    \A c \in Codes : Cardinality({r \in regs : r.code = c}) <= MaxUses

\* The lockout bounds the rate of wrong codes: in one life at most MaxFails
\* in each window begun, however a user spaces his attempts.
GuessRate ==
    \A u \in Users :
        failures[u] <= MaxFails * ((clock - booted) \div (Window + 1) + 1)
=============================================================================
