------------------------------ MODULE TeamProofs ------------------------------
(***************************************************************************)
(* Theorems about Team, for any users, codes, limits and bounds.           *)
(***************************************************************************)
EXTENDS Team, FiniteSetTheorems, TLAPS

(***************************************************************************)
(* Lists, their text and its reading.                                      *)
(***************************************************************************)

\* Members of a list, of one that gains an entry and of one that loses a chat's.
LEMMA MembersFacts ==
    ASSUME NEW list, list \subseteq Entry, NEW u \in Users
    PROVE  /\ Members(list) \subseteq Users
           /\ [chat |-> u, name |-> NameOf[u]] \in Entry
           /\ Members(list \cup {[chat |-> u, name |-> NameOf[u]]})
                  = Members(list) \cup {u}
           /\ Members({e \in list : e.chat # u}) = Members(list) \ {u}
<1>1. NameOf[u] \in Names
  BY TeamAssumption DEF TeamAssumption
<1>2. [chat |-> u, name |-> NameOf[u]] \in Entry
      /\ [chat |-> u, name |-> NameOf[u]].chat = u
  BY <1>1 DEF Entry
<1>3. Members(list) \subseteq Users
  BY DEF Members, Entry
<1>4. Members(list \cup {[chat |-> u, name |-> NameOf[u]]}) = Members(list) \cup {u}
  BY <1>2 DEF Members
<1>5. Members({e \in list : e.chat # u}) = Members(list) \ {u}
  BY DEF Members
<1> QED
  BY <1>2, <1>3, <1>4, <1>5

\* A reading has an entry of each chat the text was written with, and no other but
\* of a chat behind a comma.
LEMMA ReadingFacts ==
    ASSUME NEW text, text \subseteq Entry, NEW list \in Readings(text)
    PROVE  /\ list \subseteq Listed(text)
           /\ Listed(text) \subseteq Entry
           /\ Members(list) = Members(Listed(text))
           /\ Members(text) \subseteq Members(list)
<1>1. \A e \in text : e \in Entry /\ [e EXCEPT !.name = Head[e.name]] \in Entry
                     /\ [e EXCEPT !.name = Head[e.name]].chat = e.chat
                     /\ Behind[e.name] \subseteq Entry
  BY TeamAssumption DEF TeamAssumption, Entry
<1>2. list \subseteq Listed(text) /\ Members(list) = Members(Listed(text))
  BY DEF Readings
<1>3. Listed(text) \subseteq Entry
  BY <1>1 DEF Listed
<1>4. Members(text) \subseteq Members(Listed(text))
  <2> SUFFICES ASSUME NEW e \in text PROVE e.chat \in Members(Listed(text))
    BY DEF Members
  <2>1. [e EXCEPT !.name = Head[e.name]] \in Listed(text)
    BY DEF Listed
  <2> QED
    BY <1>1, <2>1 DEF Members
<1> QED
  BY <1>2, <1>3, <1>4

\* The counters and records the commands write keep their types.
LEMMA AttemptTypes ==
    ASSUME TypeOK, NEW u \in Users
    PROVE  /\ Refuse(u) => failed' \in [Users -> [count: Nat, start: Nat]]
                           /\ failures' = failures
           /\ RecordFailure(u) => /\ failed' \in [Users -> [count: Nat, start: Nat]]
                                  /\ failures' \in [Users -> Nat]
<1>1. failed[u] \in [count: Nat, start: Nat] /\ clock \in Nat
  BY DEF TypeOK
<1>2. Checked(u) \in [count: Nat, start: Nat]
  BY <1>1 DEF Checked, NoFailure
<1>3. ASSUME Refuse(u)
      PROVE  failed' \in [Users -> [count: Nat, start: Nat]]
             /\ failures' = failures
  BY <1>2, <1>3 DEF Refuse, TypeOK
<1>4. ASSUME RecordFailure(u)
      PROVE  /\ failed' \in [Users -> [count: Nat, start: Nat]]
             /\ failures' \in [Users -> Nat]
  <2>1. failures' \in [Users -> Nat]
    BY <1>4 DEF RecordFailure, TypeOK
  <2>2. \/ failed' = [failed EXCEPT ![u] = [count |-> 1, start |-> clock]]
        \/ failed' = [failed EXCEPT ![u].count = @ + 1]
    BY <1>4 DEF RecordFailure
  <2>3. CASE failed' = [failed EXCEPT ![u] = [count |-> 1, start |-> clock]]
    <3>1. [count |-> 1, start |-> clock] \in [count: Nat, start: Nat]
      BY <1>1
    <3> QED
      BY <3>1, <2>1, <2>3 DEF TypeOK
  <2>4. CASE failed' = [failed EXCEPT ![u].count = @ + 1]
    <3>1. [failed[u] EXCEPT !.count = @ + 1] \in [count: Nat, start: Nat]
      BY <1>1
    <3>2. failed' = [failed EXCEPT ![u] = [failed[u] EXCEPT !.count = @ + 1]]
      BY <2>4 DEF TypeOK
    <3> QED
      BY <3>1, <3>2, <2>1 DEF TypeOK
  <2> QED
    BY <2>2, <2>3, <2>4
<1> QED
  BY <1>3, <1>4

LEMMA TypeStep ==
    ASSUME TeamAssumption, TypeOK, [Next]_vars
    PROVE  TypeOK'
<1> USE TeamAssumption
<1>1. CASE Load
  <2>1. faults' \in Nat /\ saved' \subseteq Entry
    BY <1>1 DEF Load, Fault, TypeOK, store
  <2>3. chatIds' \subseteq Entry
    BY <1>1, ReadingFacts DEF Load, TypeOK
  <2>2. mapExists' = mapExists \/ mapExists' = TRUE
    BY <1>1, Zenon DEF Load, store
  <2> QED
    BY <2>1, <2>2, <2>3, <1>1 DEF Load, TypeOK, counts
<1>2. CASE Save
  <2>1. faults' \in Nat /\ saved' \subseteq Entry
    BY <1>2 DEF Save, Fault, TypeOK, store
  <2>2. mapExists' = mapExists \/ mapExists' = TRUE
    BY <1>2, Zenon DEF Save, store
  <2> QED
    BY <2>1, <2>2, <1>2 DEF Save, TypeOK, memory, counts
<1>3. CASE Reply
  BY <1>3 DEF Reply, TypeOK, store, memory, counts
<1>4. CASE Tick
  BY <1>4 DEF Tick, TypeOK, store, memory, counts
<1>5. CASE Crash
  <2>1. failed' \in [Users -> [count: Nat, start: Nat]]
    BY <1>5 DEF Crash, EmptyMemory, NoFailure
  <2>2. used' \in [Codes -> Nat] /\ failures' \in [Users -> Nat]
    BY <1>5 DEF Crash, EmptyMemory
  <2>3. up' \in BOOLEAN /\ mapExists' \in BOOLEAN
    BY <1>5, Zenon DEF Crash, TypeOK, store
  <2>4. subject' \subseteq Users /\ chatIds' \subseteq Entry
        /\ issued' \subseteq Codes /\ expires' \in [Codes -> Nat]
    BY <1>5 DEF Crash, EmptyMemory, TypeOK
  <2>5. /\ saved' \subseteq Entry /\ cut' \subseteq Users
        /\ crashes' \in Nat /\ booted' \in Nat /\ pc' = "idle"
        /\ UNCHANGED <<clock, faults, news, regs>>
    BY <1>5 DEF Crash, TypeOK, store
  <2> QED
    BY <2>1, <2>2, <2>3, <2>4, <2>5 DEF TypeOK
<1>6. ASSUME NEW c \in Codes, Invite(c) PROVE TypeOK'
  BY <1>6 DEF Invite, TypeOK, store, counts
<1>7. ASSUME NEW u \in Users, NEW c \in Codes, RegisterRefused(u, c)
      PROVE  TypeOK'
  <2>1. /\ failed' \in [Users -> [count: Nat, start: Nat]]
        /\ failures' \in [Users -> Nat]
    BY <1>7, AttemptTypes DEF RegisterRefused, TypeOK
  <2> QED
    BY <2>1, <1>7 DEF RegisterRefused, TypeOK, store
<1>8. ASSUME NEW u \in Users, NEW c \in Codes, RegisterAccepted(u, c)
      PROVE  TypeOK'
  <2>1. failed' \in [Users -> [count: Nat, start: Nat]] /\ failures' = failures
    BY <1>8, AttemptTypes DEF RegisterAccepted
  <2>2. [user |-> u, code |-> c, at |-> clock, use |-> used[c] + 1]
            \in [user: Users, code: Codes, at: Nat, use: Nat]
    BY DEF TypeOK
  <2>3. regs' \subseteq [user: Users, code: Codes, at: Nat, use: Nat]
    BY <1>8, <2>2 DEF RegisterAccepted, TypeOK
  <2>4. chatIds' \subseteq Entry
    BY <1>8, MembersFacts DEF RegisterAccepted, TypeOK
  <2> QED
    BY <2>1, <2>3, <2>4, <1>8 DEF RegisterAccepted, TypeOK, store
<1>9. ASSUME NEW u \in Users, Leaves(u) PROVE TypeOK'
  BY <1>9 DEF Leaves, TypeOK, store, counts
<1>10. CASE \E n \in Names : Remove(n)
  <2>1. PICK e \in chatIds : Leaves(e.chat)
    BY <1>10 DEF Remove
  <2>2. e.chat \in Users
    BY DEF TypeOK, Entry
  <2> QED
    BY <2>1, <2>2, <1>9
<1>11. CASE UNCHANGED vars
  BY <1>11 DEF vars, TypeOK, store, memory, counts
<1> QED
  BY <1>1, <1>2, <1>3, <1>4, <1>5, <1>6, <1>7, <1>8, <1>9, <1>10, <1>11
  DEF Next, Unregister

(***************************************************************************)
(* What the history of registrations says of the codes and the members.    *)
(***************************************************************************)

\* A registration was in time, and its code, once generated, is never
\* generated again; in memory the code still counts it.
RegsInv ==
    /\ \A c \in issued : expires[c] > 0
    /\ \A r \in regs :
        /\ r.at <= expires[r.code]
        /\ expires[r.code] > 0
        /\ r.use \in 1..MaxUses
        /\ r.code \in issued => r.use <= used[r.code]

\* No two registrations took the same use of a code.
UsesDistinct ==
    \A r, s \in regs : r.code = s.code /\ r.use = s.use => r = s

\* An entry comes from a registration: as it was made, or as it was read back, of
\* the user's own chat or of one behind a comma of his name.
Traced(e, r) ==
    \/ e = [chat |-> r.user, name |-> NameOf[r.user]]
    \/ Plain(e.name) /\ (e.chat = r.user \/ e.chat \in Members(Behind[NameOf[r.user]]))

MembersTraced == \A e \in chatIds \cup saved : \E r \in regs : Traced(e, r)

TeamInv == RegsInv /\ UsesDistinct /\ MembersTraced

\* What is read back is as traceable as what was written.
LEMMA ListedTraced ==
    ASSUME TypeOK, MembersTraced, NEW d \in Listed(saved)
    PROVE  \E r \in regs : Traced(d, r)
<1>1. PICK e \in saved : d = [e EXCEPT !.name = Head[e.name]] \/ d \in Behind[e.name]
  BY DEF Listed
<1>2. PICK r \in regs : Traced(e, r)
  BY DEF MembersTraced
<1>3. e \in Entry /\ r.user \in Users
  BY DEF TypeOK
<1>4. e.chat = r.user \/ e.chat \in Members(Behind[NameOf[r.user]])
  BY <1>2, <1>3 DEF Traced, Entry
<1>5. CASE d = [e EXCEPT !.name = Head[e.name]]
  <2>1. d.chat = e.chat /\ Plain(d.name)
    BY <1>3, <1>5, TeamAssumption DEF TeamAssumption, Entry
  <2> QED
    BY <1>2, <1>4, <2>1 DEF Traced
<1>6. CASE d \in Behind[e.name]
  <2>1. Plain(d.name)
    BY <1>3, <1>6, TeamAssumption DEF TeamAssumption, Entry
  <2>2. ~Plain(e.name)
    BY <1>6 DEF Plain
  <2>3. e.name = NameOf[r.user]
    BY <1>2, <2>2 DEF Traced
  <2>4. d.chat \in Members(Behind[NameOf[r.user]])
    BY <1>6, <2>3 DEF Members
  <2> QED
    BY <1>2, <2>1, <2>4 DEF Traced
<1> QED
  BY <1>1, <1>5, <1>6

LEMMA InvStep ==
    ASSUME TeamAssumption, TypeOK, TeamInv, [Next]_vars
    PROVE  TeamInv'
<1> USE TeamAssumption
<1>0. ASSUME UNCHANGED <<issued, expires, used, regs>>,
             chatIds' \cup saved' \subseteq chatIds \cup saved
      PROVE  TeamInv'
  BY <1>0 DEF TeamInv, RegsInv, UsesDistinct, MembersTraced
<1>1. CASE Save \/ Reply \/ Tick \/ UNCHANGED vars
  BY <1>1, <1>0
  DEF Save, Reply, Tick, vars, memory, store
<1>6. CASE Load
  <2>1. UNCHANGED <<issued, expires, used, regs, saved>>
    BY <1>6 DEF Load, store
  <2>2. chatIds' \in Readings(saved) \/ chatIds' = chatIds
    BY <1>6 DEF Load
  <2>3. MembersTraced'
    <3>1. \A e \in Listed(saved) : \E r \in regs : Traced(e, r)
      BY ListedTraced DEF TeamInv
    <3>2. chatIds' \subseteq Listed(saved) \/ chatIds' = chatIds
      BY <2>2, ReadingFacts DEF TypeOK
    <3> QED
      BY <2>1, <3>1, <3>2 DEF TeamInv, MembersTraced, Traced
  <2> QED
    BY <2>1, <2>3 DEF TeamInv, RegsInv, UsesDistinct
<1>2. CASE \/ \E u \in Users : Unregister(u)
           \/ \E n \in Names : Remove(n)
           \/ \E u \in Users, c \in Codes : RegisterRefused(u, c)
  BY <1>2, <1>0 DEF Unregister, Remove, RegisterRefused, Leaves, store
<1>3. CASE Crash
  BY <1>3
  DEF Crash, EmptyMemory, store, TeamInv, RegsInv, UsesDistinct,
      MembersTraced
<1>4. ASSUME NEW c \in Codes, Invite(c) PROVE TeamInv'
  <2>1. /\ expires[c] = 0 /\ issued' = issued \cup {c}
        /\ expires' = [expires EXCEPT ![c] = clock + Validity]
        /\ UNCHANGED <<used, regs, chatIds, saved>>
    BY <1>4 DEF Invite, store
  <2>2. \A r \in regs : r.code \in Codes /\ r.code # c
    BY <2>1 DEF TypeOK, TeamInv, RegsInv
  <2>3. RegsInv'
    <3>1. \A d \in Codes : expires'[d] = IF d = c THEN clock + Validity
                                                  ELSE expires[d]
      BY <2>1 DEF TypeOK
    <3>2. clock + Validity > 0
      BY DEF TypeOK, TeamAssumption
    <3>3. \A d \in issued' : expires'[d] > 0
      BY <2>1, <3>1, <3>2 DEF TypeOK, TeamInv, RegsInv
    <3> QED
      BY <2>1, <2>2, <3>1, <3>3 DEF TypeOK, TeamInv, RegsInv
  <2> QED
    BY <2>1, <2>3 DEF TeamInv, UsesDistinct, MembersTraced
<1>5. ASSUME NEW u \in Users, NEW c \in Codes, RegisterAccepted(u, c)
      PROVE  TeamInv'
  <2> DEFINE r0 == [user |-> u, code |-> c, at |-> clock, use |-> used[c] + 1]
  <2>1. /\ c \in issued /\ clock <= expires[c] /\ used[c] < MaxUses
        /\ used' = [used EXCEPT ![c] = @ + 1]
        /\ chatIds' = chatIds \cup {[chat |-> u, name |-> NameOf[u]]}
        /\ regs' = regs \cup {r0}
        /\ UNCHANGED <<issued, expires, saved>>
    BY <1>5 DEF RegisterAccepted, Invalid, store, TypeOK
  <2>2. \A r \in regs : r.code = c => r.use <= used[c]
    BY <2>1 DEF TeamInv, RegsInv
  <2>3. RegsInv'
    BY <2>1 DEF TypeOK, TeamInv, RegsInv, TeamAssumption
  <2>4. UsesDistinct'
    <3>1. \A r \in regs : ~ (r.code = c /\ r.use = used[c] + 1)
      BY <2>2 DEF TypeOK
    <3> QED
      BY <2>1, <3>1 DEF TeamInv, UsesDistinct
  <2>5. MembersTraced'
    <3>1. r0 \in regs' /\ Traced([chat |-> u, name |-> NameOf[u]], r0)
      BY <2>1 DEF Traced
    <3>2. \A e \in chatIds \cup saved : \E r \in regs' : Traced(e, r)
      BY <2>1 DEF TeamInv, MembersTraced
    <3> QED
      BY <2>1, <3>1, <3>2 DEF MembersTraced
  <2> QED
    BY <2>3, <2>4, <2>5 DEF TeamInv
<1> QED
  BY <1>1, <1>2, <1>3, <1>4, <1>5, <1>6 DEF Next

LEMMA Invariant == Spec => [](TypeOK /\ TeamInv)
<1>1. Init => TypeOK /\ TeamInv
  <2>1. Init => TypeOK
    <3>1. Init => up \in BOOLEAN /\ mapExists \in BOOLEAN
      BY Zenon DEF Init
    <3>2. Init => failed \in [Users -> [count: Nat, start: Nat]]
      BY DEF Init, NoFailure
    <3> QED
      BY <3>1, <3>2 DEF Init, TypeOK
  <2>2. Init => TeamInv
    BY DEF Init, TeamInv, RegsInv, UsesDistinct, MembersTraced
  <2> QED
    BY <2>1, <2>2
<1>2. TypeOK /\ TeamInv /\ [Next]_vars => (TypeOK /\ TeamInv)'
  BY TypeStep, InvStep, TeamAssumption
<1> QED
  BY <1>1, <1>2, PTL DEF Spec

\* Every variable keeps its type.
THEOREM TypeCorrect == Spec => []TypeOK
BY Invariant, PTL

\* Whatever calls fail and whenever the process dies, a chat is a member, in memory
\* or by the ConfigMap's text, through a registration in time with a code of the
\* admin's (telegram.go:364-385): its own or, behind a comma of the name, another's.
THEOREM MembersWereInvited == Spec => []OnlyInvited
<1>1. ASSUME TypeOK, TeamInv, NEW u \in Members(chatIds) \cup Members(Listed(saved))
      PROVE  \E r \in regs : /\ r.user = u \/ u \in Members(Behind[NameOf[r.user]])
                             /\ r.at <= expires[r.code]
  <2>1. PICK e \in chatIds \cup Listed(saved) : e.chat = u
    BY <1>1 DEF Members
  <2>2. PICK r \in regs : Traced(e, r)
    BY <1>1, <2>1, ListedTraced DEF TeamInv, MembersTraced
  <2>3. r.user = u \/ u \in Members(Behind[NameOf[r.user]])
    BY <2>1, <2>2 DEF Traced
  <2> QED
    BY <1>1, <2>3 DEF TeamInv, RegsInv
<1>2. TypeOK /\ TeamInv => OnlyInvited
  BY <1>1 DEF OnlyInvited
<1> QED
  BY <1>2, Invariant, PTL

\* No code admits more than MaxUses registrations, restarts included
\* (telegram.go:377-383).
THEOREM InvitesBounded == Spec => []InviteBound
<1>1. ASSUME TypeOK, TeamInv, NEW c \in Codes
      PROVE  Cardinality({r \in regs : r.code = c}) <= MaxUses
  <2> DEFINE R == {r \in regs : r.code = c}
             f == [r \in R |-> r.use]
  <2>1. MaxUses \in Nat
    BY TeamAssumption DEF TeamAssumption
  <2>2. IsFiniteSet(1..MaxUses) /\ Cardinality(1..MaxUses) = MaxUses
    BY <2>1, FS_Interval
  <2>3. f \in Injection(R, 1..MaxUses)
    <3>1. f \in [R -> 1..MaxUses]
      BY <1>1 DEF TeamInv, RegsInv
    <3>2. IsInjective(f)
      BY <1>1 DEF TeamInv, UsesDistinct, IsInjective
    <3> QED
      BY <3>1, <3>2 DEF Injection
  <2> QED
    BY <2>2, <2>3, FS_Injection
<1>2. TypeOK /\ TeamInv => InviteBound
  BY <1>1 DEF InviteBound
<1> QED
  BY <1>2, Invariant, PTL

(***************************************************************************)
(* The list in memory, the list saved and what users were told.            *)
(***************************************************************************)

\* What holds between commands whatever fails.
Rests ==
    /\ ~up => pc = "idle" /\ chatIds = {}
    /\ pc = "idle" => subject = {}
    /\ ~mapExists => saved = {}

\* While no call has failed: the list in memory differs from the list saved only in
\* the user the command is about and in who stands behind a comma; after a save
\* not at all.
Durable ==
    faults = 0 =>
        /\ \A u \in Users \ (cut \cup subject) :
               /\ news[u] = "in" => u \in Members(saved)
               /\ u \in Members(saved) => news[u] = "in" \/ u \in Named
        /\ up => \A u \in Users \ subject :
               /\ u \in Members(saved) => u \in Members(chatIds)
               /\ u \in Members(chatIds) => u \in Members(saved) \/ u \in Named
        /\ pc = "reply" => chatIds = saved

\* Who is read from the text has an entry in it or stands behind a comma.
LEMMA ReadOrNamed ==
    ASSUME TypeOK, TeamInv, NEW d \in Listed(saved)
    PROVE  d.chat \in Members(saved) \cup Named
<1>1. PICK e \in saved : d = [e EXCEPT !.name = Head[e.name]] \/ d \in Behind[e.name]
  BY DEF Listed
<1>2. CASE d = [e EXCEPT !.name = Head[e.name]]
  BY <1>2 DEF TypeOK, Entry, Members
<1>3. CASE d \in Behind[e.name]
  <2>1. PICK r \in regs : Traced(e, r)
    BY DEF TeamInv, MembersTraced
  <2>2. ~Plain(e.name)
    BY <1>3 DEF Plain
  <2>3. e.name = NameOf[r.user]
    BY <2>1, <2>2 DEF Traced
  <2> QED
    BY <1>3, <2>3 DEF Named, Members
<1> QED
  BY <1>1, <1>2, <1>3

LEMMA RestsStep ==
    ASSUME TypeOK, Rests, [Next]_vars
    PROVE  Rests'
<1>1. CASE Load
  <2>1. ~up
    BY <1>1, Zenon DEF Load
  <2>2. up' = TRUE
    BY <1>1, Zenon DEF Load
  <2>3. UNCHANGED <<pc, subject>>
    BY <1>1 DEF Load
  <2>4. ~mapExists' => saved' = {}
    BY <1>1 DEF Load, Rests, store
  <2>5. subject' = {}
    BY <2>1, <2>3, Zenon DEF Rests
  <2> QED
    BY <2>2, <2>4, <2>5, Zenon DEF Rests
<1>2. CASE Save
  <2>1. up /\ up' = up /\ pc' = "reply"
    BY <1>2, Zenon DEF Save, Rests
  <2>2. ~mapExists' => saved' = {}
    BY <1>2, Zenon DEF Save, Rests, store
  <2> QED
    BY <2>1, <2>2 DEF Rests
<1>3. CASE Reply
  BY <1>3, Zenon DEF Reply, Rests, store, memory
<1>4. CASE Tick \/ \E c \in Codes : Invite(c)
  BY <1>4, Zenon DEF Tick, Invite, Rests, store, memory
<1>5. CASE Crash
  BY <1>5, Zenon DEF Crash, EmptyMemory, Rests, store
<1>6. ASSUME NEW u \in Users, NEW c \in Codes, RegisterRefused(u, c) PROVE Rests'
  BY <1>6, Zenon DEF RegisterRefused, Rests, store
<1>7. ASSUME NEW u \in Users, NEW c \in Codes, RegisterAccepted(u, c) PROVE Rests'
  <2>1. up /\ up' = up /\ pc' = "save" /\ UNCHANGED <<mapExists, saved>>
    BY <1>7 DEF RegisterAccepted, Idle, store
  <2> QED
    BY <2>1 DEF Rests
<1>8. ASSUME NEW u \in Users, Idle, Leaves(u) PROVE Rests'
  <2>1. up /\ up' = up /\ pc' = "save" /\ UNCHANGED <<mapExists, saved>>
    BY <1>8 DEF Leaves, Idle, store
  <2> QED
    BY <2>1 DEF Rests
<1>9. CASE UNCHANGED vars
  BY <1>9, Zenon DEF Rests, vars, store, memory
<1>10. CASE (\E u \in Users : Unregister(u)) \/ (\E n \in Names : Remove(n))
  BY <1>8, <1>10 DEF Unregister, Remove, TypeOK, Entry
<1> QED
  BY <1>1, <1>2, <1>3, <1>4, <1>5, <1>6, <1>7, <1>9, <1>10 DEF Next

\* A call that fails ends the time in which none has.
LEMMA FaultsGrow == ASSUME TypeOK, Fault PROVE faults' # 0
BY DEF Fault, TypeOK

LEMMA DurableStep ==
    ASSUME TypeOK, TeamInv, Rests, Durable, [Next]_vars
    PROVE  Durable'
<1> SUFFICES ASSUME faults' = 0 PROVE Durable'
  BY DEF Durable
<1> DEFINE Told(u) == /\ news[u] = "in" => u \in Members(saved)
                      /\ u \in Members(saved) => news[u] = "in" \/ u \in Named
           Close(u) == /\ u \in Members(saved) => u \in Members(chatIds)
                       /\ u \in Members(chatIds) => u \in Members(saved) \/ u \in Named
<1>0. faults = 0
  BY DEF Next, Load, Save, Reply, Tick, Crash, Invite, RegisterRefused,
      RegisterAccepted, Unregister, Remove, Leaves, Fault, TypeOK, vars
<1>u. \A u \in Users \ (cut \cup subject) : Told(u)
  BY <1>0 DEF Durable
<1>c. up => \A u \in Users \ subject : Close(u)
  BY <1>0 DEF Durable
<1>1. CASE Load
  <2>1. /\ (chatIds' \in Readings(saved) \/ (chatIds' = {} /\ saved = {}))
        /\ UNCHANGED <<saved, news, cut, subject, regs>> /\ pc' = "idle"
    <3>1. ~Fault
      BY FaultsGrow
    <3>2. ~up /\ pc = "idle" /\ chatIds = {}
      BY <1>1, Zenon DEF Load, Rests
    <3>3. UNCHANGED <<pc, news, cut, subject, regs>>
      BY <1>1, Zenon DEF Load
    <3>4. \/ mapExists /\ chatIds' \in Readings(saved) /\ saved' = saved
          \/ ~mapExists /\ chatIds' = chatIds /\ saved' = saved
      BY <1>1, <3>1, Zenon DEF Load, store
    <3>5. ~mapExists => saved = {}
      BY Zenon DEF Rests
    <3> QED
      BY <3>2, <3>3, <3>4, <3>5
  <2>2. ASSUME NEW u \in Users PROVE Close(u)'
    <3>1. CASE chatIds' \in Readings(saved)
      <4>1. Members(chatIds') = Members(Listed(saved))
            /\ Members(saved) \subseteq Members(chatIds')
        BY <3>1, ReadingFacts DEF TypeOK
      <4>2. Members(Listed(saved)) \subseteq Members(saved) \cup Named
        BY ReadOrNamed DEF Members
      <4> QED
        BY <2>1, <4>1, <4>2 DEF Named
    <3>2. CASE chatIds' = {} /\ saved = {}
      BY <2>1, <3>2 DEF Members
    <3> QED
      BY <2>1, <3>1, <3>2
  <2>3. \A u \in Users \ (cut' \cup subject') : Told(u)'
    BY <2>1, <1>u DEF Named
  <2> QED
    BY <2>1, <2>2, <2>3 DEF Durable
<1>2. CASE Save
  <2>1. saved' = chatIds /\ up /\ pc' = "reply"
        /\ UNCHANGED <<chatIds, news, cut, subject, regs>>
    <3>1. ~Fault
      BY FaultsGrow
    <3> QED
      BY <1>2, <3>1, Zenon DEF Save, memory, Rests
  <2>2. \A u \in Users \ (cut' \cup subject') : Told(u)'
    BY <2>1, <1>u, <1>c DEF Named
  <2> QED
    BY <2>1, <2>2 DEF Durable
<1>3. CASE Reply
  <2>1. /\ pc = "reply" /\ pc' = "idle" /\ subject' = {} /\ cut' = cut \ subject
        /\ UNCHANGED <<chatIds, saved, regs>>
        /\ news' = [u \in Users |-> IF u \notin subject THEN news[u]
                                    ELSE IF u \in Members(chatIds) THEN "in" ELSE "off"]
    BY <1>3 DEF Reply, memory, store
  <2>2. chatIds = saved
    BY <2>1, <1>0 DEF Durable
  <2>3. \A u \in Users \ (cut' \cup subject') : Told(u)'
    BY <2>1, <2>2, <1>u DEF Named
  <2> QED
    BY <2>1, <2>2, <2>3 DEF Durable
<1>4. CASE \/ Tick \/ \E c \in Codes : Invite(c)
           \/ \E u \in Users, c \in Codes : RegisterRefused(u, c)
           \/ UNCHANGED vars
  <2>1. UNCHANGED <<up, pc, subject, chatIds, saved, news, cut, regs>>
    BY <1>4, Zenon DEF Tick, Invite, RegisterRefused, vars, memory, store
  <2> QED
    BY <2>1, <1>0, Zenon DEF Durable, Named
<1>5. CASE Crash
  <2>1. /\ pc' = "idle" /\ ~up' /\ cut' = cut \cup subject
        /\ UNCHANGED <<saved, news, regs>>
    BY <1>5 DEF Crash, store
  <2> QED
    BY <2>1, <1>u DEF Durable, Named
<1>6. ASSUME NEW u \in Users, Idle, subject' = {u}, pc' = "save",
             UNCHANGED <<saved, news, cut>>, regs \subseteq regs',
             \A v \in Users \ {u} : v \in Members(chatIds') <=> v \in Members(chatIds)
      PROVE  Durable'
  <2>1. up /\ subject = {}
    BY <1>6 DEF Idle, Rests
  <2>2. Named \subseteq Named'
    BY <1>6 DEF Named
  <2>3. \A v \in Users \ {u} : Close(v)'
    BY <1>6, <2>1, <2>2, <1>c
  <2>4. \A v \in Users \ (cut' \cup subject') : Told(v)'
    BY <1>6, <2>1, <2>2, <1>u
  <2> QED
    BY <1>6, <2>3, <2>4 DEF Durable
<1>7. CASE \E u \in Users, c \in Codes : RegisterAccepted(u, c)
  <2> PICK u \in Users, c \in Codes : RegisterAccepted(u, c)
    BY <1>7
  <2>1. Members(chatIds') = Members(chatIds) \cup {u}
    BY MembersFacts DEF RegisterAccepted, TypeOK
  <2>2. regs \subseteq regs'
    BY DEF RegisterAccepted
  <2> QED
    BY <1>6, <2>1, <2>2 DEF RegisterAccepted, store
<1>8. CASE (\E u \in Users : Unregister(u)) \/ (\E n \in Names : Remove(n))
  <2> PICK u \in Users : Idle /\ Leaves(u)
    BY <1>8 DEF Unregister, Remove, TypeOK, Entry
  <2>1. Members(chatIds') = Members(chatIds) \ {u}
    BY MembersFacts DEF Leaves, TypeOK
  <2> QED
    BY <1>6, <2>1 DEF Leaves, store
<1> QED
  BY <1>1, <1>2, <1>3, <1>4, <1>5, <1>7, <1>8 DEF Next

LEMMA DurableInvariant == Spec => [](TypeOK /\ Rests /\ Durable)
<1>1. Init => Rests /\ Durable
  BY DEF Init, Rests, Durable, Members
<1>2. TypeOK /\ TeamInv /\ Rests /\ Durable /\ [Next]_vars => Rests' /\ Durable'
  BY RestsStep, DurableStep
<1> QED
  BY <1>1, <1>2, Invariant, PTL DEF Spec

\* While no call fails, whenever the process dies and whatever the text makes of
\* names, who was last told that he is a member has his entry in the ConfigMap, and
\* an entry is of one who was last told so or stands behind a comma, but for a user
\* whose command is under way or was cut (telegram.go:102-177).
THEOREM NewsStaysDurable == Spec => []NewsIsDurable
<1>1. TypeOK /\ Rests /\ Durable => NewsIsDurable
  <2> SUFFICES ASSUME TypeOK, Rests, Durable, faults = 0, Idle
               PROVE  Members(saved) \subseteq Members(chatIds)
    BY DEF Durable, NewsIsDurable
  <2>1. Members(saved) \subseteq Users
    BY DEF TypeOK, Members, Entry
  <2> QED
    BY <2>1 DEF Durable, Idle, Rests
<1> QED
  BY <1>1, DurableInvariant, PTL

\* While no call fails, a save drops nobody but the user whose command it ends
\* (saveSubscribers, telegram.go:147-177).
THEOREM LeaversAloneDropped == Spec => OnlyLeaversDropped
<1>1. ASSUME TypeOK, Rests, Durable, [Next]_vars, faults' = 0 PROVE DroppedAreLeavers
  <2>1. CASE UNCHANGED saved
    BY <2>1 DEF DroppedAreLeavers
  <2>2. CASE Save
    <3>1. /\ up /\ saved' \in {saved, chatIds} /\ faults = 0
      BY <1>1, <2>2 DEF Save, Fault, store, TypeOK, Rests
    <3>2. \A u \in Users \ subject : u \in Members(saved) => u \in Members(chatIds)
      BY <1>1, <3>1 DEF Durable
    <3>3. Members(saved) \subseteq Users
      BY <1>1 DEF TypeOK, Members, Entry
    <3> QED
      BY <1>1, <3>1, <3>2, <3>3 DEF DroppedAreLeavers
  <2> QED
    BY <1>1, <2>1, <2>2
    DEF Next, Load, Reply, Tick, Crash, Invite, RegisterRefused, RegisterAccepted,
        Unregister, Remove, Leaves, store, vars
<1>2. TypeOK /\ Rests /\ Durable /\ [Next]_vars => [faults' = 0 => DroppedAreLeavers]_vars
  BY <1>1
<1> QED
  BY <1>2, DurableInvariant, PTL DEF Spec, OnlyLeaversDropped

(***************************************************************************)
(* Wrong codes and the windows of a life.                                  *)
(***************************************************************************)

\* Whole windows in n ticks, the tick that ends one included.
Windows(n) == n \div (Window + 1)

LEMMA DivisionBounds ==
    ASSUME NEW n \in Nat, NEW w \in Nat \ {0}
    PROVE  /\ n \div w \in Nat
           /\ w * (n \div w) <= n
           /\ n < w * (n \div w) + w
  OBVIOUS

LEMMA TimesMonotone ==
    ASSUME NEW k \in Nat, NEW a \in Nat, NEW b \in Nat, a <= b
    PROVE  k * a \in Nat /\ k * a <= k * b
  OBVIOUS

LEMMA TimesNatural ==
    ASSUME NEW k \in Nat, NEW a \in Nat
    PROVE  k * a \in Nat
  OBVIOUS

LEMMA TimesSuccessor ==
    ASSUME NEW k \in Nat, NEW a \in Nat
    PROVE  k * (a + 1) = k * a + k
  OBVIOUS

LEMMA WindowsMonotone ==
    ASSUME TeamAssumption, NEW m \in Nat, NEW n \in Nat, m <= n
    PROVE  /\ Windows(m) \in Nat /\ Windows(n) \in Nat
           /\ Windows(m) <= Windows(n)
           /\ m + Window < n => Windows(m) + 1 <= Windows(n)
<1> DEFINE w == Window + 1
           a == m \div w
           b == n \div w
<1>1. w \in Nat \ {0}
  BY DEF TeamAssumption
<1>2. Windows(m) = a /\ Windows(n) = b
  BY DEF Windows
<1>3. m + Window < n => m + w <= n
  BY DEF TeamAssumption
<1> HIDE DEF w
<1>4. /\ a \in Nat /\ b \in Nat
      /\ w * a <= m /\ n < w * b + w
  BY <1>1, DivisionBounds
<1> HIDE DEF a, b
<1>5. ~(b + 1 <= a)
  <2>1. SUFFICES ASSUME b + 1 <= a PROVE FALSE
    OBVIOUS
  <2>2. w * (b + 1) <= w * a
    <3>1. b + 1 \in Nat
      BY <1>4
    <3> QED
      BY <1>1, <1>4, <2>1, <3>1, TimesMonotone
  <2>3. w * (b + 1) = w * b + w
    BY <1>1, <1>4, TimesSuccessor
  <2>4. w * b \in Nat /\ w * a \in Nat
    BY <1>1, <1>4, TimesMonotone
  <2> QED
    BY <1>1, <1>4, <2>2, <2>3, <2>4
<1>6. m + Window < n => a + 1 <= b
  <2>1. SUFFICES ASSUME m + w <= n, b <= a PROVE FALSE
    BY <1>3, <1>4
  <2>2. w * b \in Nat /\ w * b <= w * a /\ w * a \in Nat
    BY <1>1, <1>4, <2>1, TimesMonotone
  <2> QED
    BY <1>1, <1>4, <2>1, <2>2
<1> QED
  BY <1>2, <1>4, <1>5, <1>6

\* A user whose failures are being counted had, when the count began, no more than
\* whole windows of failures behind him; so has one who has none to his count.
GuessInv ==
    /\ booted <= clock
    /\ \A u \in Users :
        /\ failed[u].count <= MaxFails
        /\ failed[u].count > 0 =>
               /\ booted <= failed[u].start /\ failed[u].start <= clock
               /\ failures[u] <= failed[u].count
                                 + MaxFails * Windows(failed[u].start - booted)
        /\ failed[u].count = 0 => failures[u] <= MaxFails * Windows(clock - booted)

\* When a count is forgotten the window it was begun in is over.
LEMMA Forgotten ==
    ASSUME TeamAssumption, TypeOK, GuessInv, NEW u \in Users,
           failed[u].count = 0 \/ Elapsed(u)
    PROVE  failures[u] <= MaxFails * Windows(clock - booted)
<1>1. CASE failed[u].count = 0
  BY <1>1 DEF GuessInv
<1>2. CASE failed[u].count # 0
  <2> DEFINE s == failed[u].start
             m == s - booted
             n == clock - booted
  <2>1. /\ clock \in Nat /\ booted \in Nat /\ s \in Nat /\ failures[u] \in Nat
        /\ failed[u].count \in Nat /\ MaxFails \in Nat
    BY DEF TypeOK, TeamAssumption
  <2>2. /\ booted <= s /\ s <= clock /\ failed[u].count <= MaxFails
        /\ failures[u] <= failed[u].count + MaxFails * Windows(m)
    BY <1>2, <2>1 DEF GuessInv
  <2>3. clock - s > Window
    BY <1>2 DEF Elapsed
  <2>4. m \in Nat /\ n \in Nat /\ m <= n /\ m + Window < n
    BY <2>1, <2>2, <2>3, TeamAssumption DEF TeamAssumption
  <2> HIDE DEF m, n
  <2>5. Windows(m) \in Nat /\ Windows(n) \in Nat /\ Windows(m) + 1 <= Windows(n)
    BY <2>4, WindowsMonotone
  <2>6. /\ MaxFails * (Windows(m) + 1) = MaxFails * Windows(m) + MaxFails
        /\ MaxFails * (Windows(m) + 1) <= MaxFails * Windows(n)
        /\ MaxFails * Windows(m) \in Nat /\ MaxFails * Windows(n) \in Nat
    <3>1. MaxFails * (Windows(m) + 1) = MaxFails * Windows(m) + MaxFails
      BY <2>1, <2>5, TimesSuccessor
    <3>2. Windows(m) + 1 \in Nat
      BY <2>5
    <3>3. MaxFails * (Windows(m) + 1) <= MaxFails * Windows(n)
      BY <2>1, <2>5, <3>2, TimesMonotone
    <3>4. MaxFails * Windows(m) \in Nat /\ MaxFails * Windows(n) \in Nat
      BY <2>1, <2>5, TimesNatural
    <3> QED
      BY <3>1, <3>3, <3>4
  <2>7. failures[u] <= MaxFails * Windows(n)
    BY <2>1, <2>2, <2>6
  <2> QED
    BY <2>7 DEF n
<1> QED
  BY <1>1, <1>2

LEMMA GuessStep ==
    ASSUME TeamAssumption, TypeOK, GuessInv, [Next]_vars
    PROVE  GuessInv'
<1> DEFINE Fine(u) ==
        /\ failed[u].count <= MaxFails
        /\ failed[u].count > 0 =>
               /\ booted <= failed[u].start /\ failed[u].start <= clock
               /\ failures[u] <= failed[u].count
                                 + MaxFails * Windows(failed[u].start - booted)
        /\ failed[u].count = 0 => failures[u] <= MaxFails * Windows(clock - booted)
<1>0. /\ clock \in Nat /\ booted \in Nat /\ booted <= clock
      /\ clock - booted \in Nat /\ MaxFails \in Nat \ {0}
      /\ Windows(clock - booted) \in Nat /\ MaxFails * Windows(clock - booted) \in Nat
  <2>1. /\ clock \in Nat /\ booted \in Nat /\ booted <= clock
        /\ clock - booted \in Nat /\ MaxFails \in Nat \ {0}
    BY DEF TypeOK, GuessInv, TeamAssumption
  <2> QED
    BY <2>1, WindowsMonotone, TimesMonotone
<1>1. CASE UNCHANGED <<failed, failures, booted, clock>>
  BY <1>1 DEF GuessInv, Windows
<1>2. CASE Tick
  <2>1. clock' = clock + 1 /\ UNCHANGED <<failed, failures, booted>>
    BY <1>2 DEF Tick, memory, counts
  <2>2. /\ clock' - booted \in Nat /\ Windows(clock' - booted) \in Nat
        /\ Windows(clock - booted) <= Windows(clock' - booted)
    BY <1>0, <2>1, WindowsMonotone
  <2>3. MaxFails * Windows(clock - booted) <= MaxFails * Windows(clock' - booted)
        /\ MaxFails * Windows(clock' - booted) \in Nat
    BY <1>0, <2>2, TimesMonotone
  <2>4. ASSUME NEW u \in Users PROVE Fine(u)'
    <3>1. Fine(u)
      BY DEF GuessInv
    <3>2. failures[u] \in Nat /\ failed[u].start \in Nat
      BY DEF TypeOK
    <3>3. (Windows(clock - booted))' = Windows(clock' - booted)
          /\ (Windows(failed[u].start - booted))' = Windows(failed[u].start - booted)
      BY <2>1 DEF Windows
    <3> QED
      BY <1>0, <2>1, <2>3, <3>1, <3>2, <3>3
  <2> QED
    BY <1>0, <2>1, <2>4 DEF GuessInv
<1>3. CASE Crash
  <2>1. /\ booted' = clock /\ clock' = clock
        /\ failures' = [u \in Users |-> 0]
        /\ failed' = [u \in Users |-> NoFailure]
    BY <1>3 DEF Crash, EmptyMemory
  <2>2. MaxFails * Windows(clock' - booted') \in Nat
    <3>1. clock - clock = 0 /\ Windows(0) \in Nat
      BY <1>0, WindowsMonotone
    <3> QED
      BY <1>0, <2>1, <3>1, TimesMonotone
  <2>3. ASSUME NEW u \in Users PROVE Fine(u)'
    <3>1. failed'[u].count = 0 /\ failures'[u] = 0
      BY <2>1 DEF NoFailure
    <3>2. (Windows(clock - booted))' = Windows(clock' - booted')
      BY DEF Windows
    <3> QED
      BY <1>0, <2>2, <3>1, <3>2
  <2> QED
    BY <1>0, <2>1, <2>3 DEF GuessInv
<1>4. ASSUME NEW u \in Users, UNCHANGED <<booted, clock>>,
             failed' \in [Users -> [count: Nat, start: Nat]],
             failures' \in [Users -> Nat],
             \A v \in Users \ {u} : failed'[v] = failed[v] /\ failures'[v] = failures[v],
             Fine(u)'
      PROVE  GuessInv'
  <2>1. ASSUME NEW v \in Users PROVE Fine(v)'
    <3>1. CASE v = u
      BY <1>4, <3>1
    <3>2. CASE v # u
      <4>1. failed'[v] = failed[v] /\ failures'[v] = failures[v] /\ Fine(v)
        BY <1>4, <3>2 DEF GuessInv
      <4> QED
        BY <1>4, <4>1 DEF Windows
    <3> QED
      BY <3>1, <3>2
  <2> QED
    BY <1>0, <1>4, <2>1 DEF GuessInv
<1>5. ASSUME NEW u \in Users, Refuse(u), UNCHANGED <<booted, clock>> PROVE GuessInv'
  <2>1. failures' = failures /\ failed' = [failed EXCEPT ![u] = Checked(u)]
    BY <1>5 DEF Refuse
  <2>2. /\ failed' \in [Users -> [count: Nat, start: Nat]]
        /\ failures' \in [Users -> Nat]
    BY <1>5, <2>1, AttemptTypes DEF TypeOK
  <2>3. failed'[u] = Checked(u) /\ \A v \in Users \ {u} : failed'[v] = failed[v]
    BY <2>1 DEF TypeOK
  <2>4. Fine(u)'
    <3>1. CASE Elapsed(u)
      <4>1. failed'[u].count = 0 /\ failures'[u] = failures[u]
        BY <2>1, <2>3, <3>1 DEF Checked, NoFailure
      <4>2. failures[u] <= MaxFails * Windows(clock - booted)
        BY <3>1, Forgotten
      <4>3. (Windows(clock - booted))' = Windows(clock - booted)
        BY <1>5 DEF Windows
      <4> QED
        BY <1>0, <4>1, <4>2, <4>3
    <3>2. CASE ~Elapsed(u)
      <4>1. failed'[u] = failed[u] /\ failures'[u] = failures[u] /\ Fine(u)
        BY <2>1, <2>3, <3>2 DEF Checked, GuessInv
      <4> QED
        BY <1>5, <4>1 DEF Windows
    <3> QED
      BY <3>1, <3>2
  <2> QED
    BY <1>4, <1>5, <2>1, <2>2, <2>3, <2>4
<1>6. ASSUME NEW u \in Users, ~Locked(u), RecordFailure(u), UNCHANGED <<booted, clock>>
      PROVE  GuessInv'
  <2>1. failures' = [failures EXCEPT ![u] = @ + 1]
    BY <1>6 DEF RecordFailure
  <2>2. /\ failed' \in [Users -> [count: Nat, start: Nat]]
        /\ failures' \in [Users -> Nat]
    BY <1>6, AttemptTypes
  <2>3. /\ failures'[u] = failures[u] + 1 /\ failures[u] \in Nat
        /\ \A v \in Users \ {u} : failed'[v] = failed[v] /\ failures'[v] = failures[v]
    BY <1>6, <2>1 DEF RecordFailure, TypeOK
  <2>4. CASE Checked(u).count = 0 /\ failed' = [failed EXCEPT ![u] = [count |-> 1, start |-> clock]]
    <3>1. failed'[u].count = 1 /\ failed'[u].start = clock
      BY <2>4 DEF TypeOK
    <3>2. failures[u] <= MaxFails * Windows(clock - booted)
      <4>1. failed[u].count = 0 \/ Elapsed(u)
        BY <2>4 DEF Checked
      <4> QED
        BY <4>1, Forgotten
    <3>3. (Windows(failed[u].start - booted))' = Windows(clock - booted)
      BY <1>6, <3>1 DEF Windows
    <3>4. Fine(u)'
      BY <1>0, <1>6, <2>3, <3>1, <3>2, <3>3
    <3> QED
      BY <1>4, <1>6, <2>2, <2>3, <3>4
  <2>5. CASE Checked(u).count > 0 /\ failed' = [failed EXCEPT ![u].count = @ + 1]
    <3>1. ~Elapsed(u) /\ Checked(u) = failed[u]
      BY <2>5 DEF Checked, NoFailure
    <3>2. /\ failed[u].count \in Nat /\ failed[u].count > 0 /\ failed[u].count < MaxFails
          /\ failed[u].start \in Nat
      BY <1>0, <1>6, <2>5, <3>1 DEF Locked, TypeOK
    <3>3. failed'[u].count = failed[u].count + 1 /\ failed'[u].start = failed[u].start
      BY <2>5 DEF TypeOK
    <3>4. /\ booted <= failed[u].start /\ failed[u].start <= clock
          /\ failures[u] <= failed[u].count + MaxFails * Windows(failed[u].start - booted)
      BY <3>2 DEF GuessInv
    <3>5. failed[u].start - booted \in Nat
      BY <1>0, <3>2, <3>4
    <3>6. MaxFails * Windows(failed[u].start - booted) \in Nat
      <4>1. Windows(failed[u].start - booted) \in Nat
        BY <3>5, WindowsMonotone
      <4> QED
        BY <1>0, <4>1, TimesNatural
    <3>7. (Windows(failed[u].start - booted))' = Windows(failed[u].start - booted)
      BY <1>6, <3>3 DEF Windows
    <3>8. Fine(u)'
      BY <1>0, <1>6, <2>3, <3>2, <3>3, <3>4, <3>6, <3>7
    <3> QED
      BY <1>4, <1>6, <2>2, <2>3, <3>8
  <2> QED
    BY <1>6, <2>4, <2>5 DEF RecordFailure
<1>7. CASE \E u \in Users, c \in Codes : RegisterRefused(u, c) \/ RegisterAccepted(u, c)
  <2> PICK u \in Users, c \in Codes : RegisterRefused(u, c) \/ RegisterAccepted(u, c)
    BY <1>7
  <2>1. UNCHANGED <<booted, clock>>
    BY DEF RegisterRefused, RegisterAccepted
  <2>2. \/ UNCHANGED <<failed, failures>> \/ Refuse(u)
        \/ ~Locked(u) /\ RecordFailure(u)
    BY DEF RegisterRefused, RegisterAccepted
  <2> QED
    BY <1>1, <1>5, <1>6, <2>1, <2>2
<1> QED
  BY <1>1, <1>2, <1>3, <1>7
  DEF Next, Load, Save, Reply, Invite, Unregister, Remove, Leaves, memory, counts, vars

LEMMA GuessInvariant == Spec => []GuessInv
<1>1. Init => GuessInv
  <2> SUFFICES ASSUME Init PROVE GuessInv
    OBVIOUS
  <2>1. MaxFails \in Nat /\ 0 - 0 = 0 /\ MaxFails * Windows(0) \in Nat
    BY TeamAssumption, WindowsMonotone, TimesMonotone DEF TeamAssumption
  <2>2. clock - booted = 0
    BY DEF Init
  <2> QED
    BY <2>1, <2>2 DEF Init, GuessInv, NoFailure
<1>2. TypeOK /\ GuessInv /\ [Next]_vars => GuessInv'
  BY GuessStep, TeamAssumption
<1> QED
  BY <1>1, <1>2, TypeCorrect, PTL DEF Spec

\* In one life a user has at most MaxFails wrong codes in each window begun, however
\* he spaces them around the lockout and its two resets (checkBruteForce and
\* recordFailedAttempt, telegram.go:195-219).
THEOREM GuessesBounded == Spec => []GuessRate
<1>1. ASSUME TypeOK, GuessInv, NEW u \in Users
      PROVE  failures[u] <= MaxFails * ((clock - booted) \div (Window + 1) + 1)
  <2> DEFINE n == clock - booted
             m == failed[u].start - booted
  <2>1. /\ clock \in Nat /\ booted \in Nat /\ booted <= clock /\ n \in Nat
        /\ failures[u] \in Nat /\ failed[u].count \in Nat /\ failed[u].start \in Nat
        /\ MaxFails \in Nat /\ failed[u].count <= MaxFails
    BY <1>1, TeamAssumption DEF TypeOK, GuessInv, TeamAssumption
  <2>2. /\ Windows(n) \in Nat /\ MaxFails * Windows(n) \in Nat
        /\ MaxFails * (Windows(n) + 1) = MaxFails * Windows(n) + MaxFails
    <3>1. Windows(n) \in Nat
      BY <2>1, TeamAssumption, WindowsMonotone
    <3>2. MaxFails * Windows(n) \in Nat
      BY <2>1, <3>1, TimesMonotone
    <3> QED
      BY <2>1, <3>1, <3>2, TimesSuccessor
  <2>3. CASE failed[u].count = 0
    BY <1>1, <2>1, <2>2, <2>3 DEF GuessInv, Windows
  <2>4. CASE failed[u].count > 0
    <3>1. /\ booted <= failed[u].start /\ failed[u].start <= clock
          /\ failures[u] <= failed[u].count + MaxFails * Windows(m)
      BY <1>1, <2>4 DEF GuessInv
    <3>2. m \in Nat /\ m <= n
      BY <2>1, <3>1
    <3> HIDE DEF m, n
    <3>3. Windows(m) \in Nat /\ Windows(m) <= Windows(n)
      BY <2>1, <3>2, TeamAssumption, WindowsMonotone
    <3>4. MaxFails * Windows(m) \in Nat /\ MaxFails * Windows(m) <= MaxFails * Windows(n)
      BY <2>1, <2>2, <3>3, TimesMonotone
    <3>5. failures[u] <= MaxFails * (Windows(n) + 1)
      BY <2>1, <2>2, <3>1, <3>4
    <3> QED
      BY <3>5 DEF Windows, n
  <2> QED
    BY <2>1, <2>3, <2>4
<1>2. TypeOK /\ GuessInv => GuessRate
  BY <1>1 DEF GuessRate
<1> QED
  BY <1>2, TypeCorrect, GuessInvariant, PTL
=============================================================================
