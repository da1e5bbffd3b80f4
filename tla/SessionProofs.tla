----------------------------- MODULE SessionProofs -----------------------------
(***************************************************************************)
(* Theorems about the sessions kept for chats: by the operator, for any    *)
(* platforms, chats and times (ChatSessions), and by the proxy, for any    *)
(* connections and sessions (BackendProxy).                                *)
(***************************************************************************)
EXTENDS ChatSessions, BackendProxy, FiniteSetTheorems, TLAPS

(***************************************************************************)
(* The operator: the reaper's ticker.                                      *)
(***************************************************************************)

LEMMA NextPhase ==
    ASSUME NEW p \in Nat \ {0}, NEW n \in 0..p - 1
    PROVE  /\ (n + 1) % p \in 0..p - 1
           /\ n + 1 < p => (n + 1) % p = n + 1
           /\ n + 1 = p => (n + 1) % p = 0
<1>1. CASE n + 1 < p
  <2>1. (n + 1) % p = n + 1
    BY <1>1
  <2> QED
    BY <1>1, <2>1
<1>2. CASE n + 1 = p
  <2>1. p % p = 0
    OBVIOUS
  <2> QED
    BY <1>2, <2>1
<1> QED
  BY <1>1, <1>2

LEMMA ChatTypeStep ==
    ASSUME ChatAssumption, ChatTypeOK, [ChatNext]_chatVars
    PROVE  ChatTypeOK'
<1> USE ChatAssumption
<1>1. ASSUME NEW i \in Ids, GetOrCreateSession(i)
      PROVE  DOMAIN idle' \subseteq Ids /\ idle' \in [DOMAIN idle' -> Nat]
  BY <1>1 DEF GetOrCreateSession, ChatTypeOK
<1>2. ASSUME NEW g \in Platforms, NEW i \in ChatIds[g], AskQuestion(g, i)
      PROVE  ChatTypeOK'
  <2>1. i \in Ids
    BY DEF Ids
  <2>2. DOMAIN idle' \subseteq Ids /\ idle' \in [DOMAIN idle' -> Nat]
    BY <1>1, <1>2, <2>1 DEF AskQuestion, SendMessage
  <2> QED
    BY <1>2, <2>1, <2>2 DEF AskQuestion, SendMessage, ChatTypeOK, ChatAssumption
<1>3. ASSUME NEW g \in Platforms, AnswerTools(g) PROVE ChatTypeOK'
  <2>1. PICK i \in talking[g] : SendMessage(g, i)
    BY <1>3 DEF AnswerTools
  <2>2. i \in Ids
    BY DEF ChatTypeOK
  <2>3. DOMAIN idle' \subseteq Ids /\ idle' \in [DOMAIN idle' -> Nat]
    BY <1>1, <2>1, <2>2 DEF SendMessage
  <2> QED
    BY <1>3, <2>1, <2>3 DEF AnswerTools, SendMessage, ChatTypeOK, ChatAssumption
<1>4. ASSUME NEW g \in Platforms, CallTools(g) \/ EndQuestion(g) PROVE ChatTypeOK'
  BY <1>4 DEF CallTools, EndQuestion, ChatTypeOK, ChatAssumption
<1>5. CASE ChatTick
  <2>1. phase' \in 0..Period - 1
    BY <1>5, NextPhase DEF ChatTick, ChatTypeOK, ChatAssumption
  <2>2. round' \in [Platforms -> 0..Ttl + 1]
    BY <1>5 DEF ChatTick, ChatTypeOK, ChatAssumption
  <2>3. DOMAIN idle' \subseteq Ids /\ idle' \in [DOMAIN idle' -> Nat]
    BY <1>5 DEF ChatTick, ChatTypeOK
  <2>4. reaping' \in BOOLEAN
    BY <1>5 DEF ChatTick
  <2>5. slow' \in SUBSET Platforms /\ UNCHANGED <<doing, talking, lost>>
    BY <1>5 DEF ChatTick, ChatTypeOK
  <2> QED
    BY <2>1, <2>2, <2>3, <2>4, <2>5 DEF ChatTypeOK
<1>6. CASE ReapSessions
  <2>1. DOMAIN idle' \subseteq Ids /\ idle' \in [DOMAIN idle' -> Nat]
    BY <1>6 DEF ReapSessions, ChatTypeOK
  <2>2. reaping' \in BOOLEAN
    BY <1>6, Zenon DEF ReapSessions
  <2> QED
    BY <1>6, <2>1, <2>2 DEF ReapSessions, ChatTypeOK
<1>7. CASE UNCHANGED chatVars
  BY <1>7 DEF chatVars, ChatTypeOK
<1> QED
  BY <1>2, <1>3, <1>4, <1>5, <1>6, <1>7 DEF ChatNext

\* Every variable of the operator's sessions keeps its type.
THEOREM ChatTypeCorrect == ChatSpec => []ChatTypeOK
<1>1. ChatInit => ChatTypeOK
  <2> SUFFICES ASSUME ChatInit PROVE ChatTypeOK
    OBVIOUS
  <2>1. reaping \in BOOLEAN
    BY Zenon DEF ChatInit
  <2> QED
    BY <2>1, ChatAssumption DEF ChatInit, ChatTypeOK, ChatAssumption
<1>2. ChatTypeOK /\ [ChatNext]_chatVars => ChatTypeOK'
  BY ChatTypeStep, ChatAssumption
<1> QED
  BY <1>1, <1>2, PTL DEF ChatSpec

\* What is not yet reaped was stale for less than the time since the ticker fired; when
\* it has fired, for at most a period.
AgeInv ==
    \A i \in DOMAIN idle : idle[i] <= Ttl + (IF reaping THEN Period ELSE phase)

LEMMA AgeStep ==
    ASSUME ChatAssumption, ChatTypeOK, AgeInv, [ChatNext]_chatVars
    PROVE  AgeInv'
<1>0. /\ Ttl \in Nat /\ Period \in Nat \ {0} /\ phase \in 0..Period - 1
      /\ \A i \in DOMAIN idle : idle[i] \in Nat
  BY DEF ChatAssumption, ChatTypeOK
<1>1. ASSUME NEW i, GetOrCreateSession(i), UNCHANGED <<reaping, phase>> PROVE AgeInv'
  BY <1>0, <1>1 DEF GetOrCreateSession, AgeInv
<1>2. ASSUME UNCHANGED <<idle, reaping, phase>> PROVE AgeInv'
  BY <1>2 DEF AgeInv
<1>3. CASE ChatTick
  <2>1. /\ ~reaping /\ phase' = (phase + 1) % Period
        /\ reaping' <=> phase' = 0
        /\ DOMAIN idle' = DOMAIN idle
        /\ \A i \in DOMAIN idle : idle'[i] = idle[i] + 1
    BY <1>3 DEF ChatTick
  <2>2. phase + 1 < Period => phase' = phase + 1
    BY <1>0, <2>1, NextPhase
  <2>3. phase + 1 = Period => phase' = 0
    BY <1>0, <2>1, NextPhase
  <2>4. \A i \in DOMAIN idle : idle[i] <= Ttl + phase
    BY <2>1 DEF AgeInv
  <2>5. CASE phase + 1 < Period
    <3>1. phase' = phase + 1 /\ ~reaping'
      BY <1>0, <2>1, <2>2, <2>5
    <3> QED
      BY <1>0, <2>1, <2>4, <3>1 DEF AgeInv
  <2>6. CASE phase + 1 = Period
    <3>1. reaping'
      BY <2>1, <2>3, <2>6
    <3> QED
      BY <1>0, <2>1, <2>4, <2>6, <3>1 DEF AgeInv
  <2> QED
    BY <1>0, <2>5, <2>6
<1>4. CASE ReapSessions
  <2>1. /\ ~reaping' /\ UNCHANGED phase
        /\ idle' = [i \in DOMAIN idle \ Stale |-> idle[i]]
    BY <1>4 DEF ReapSessions
  <2>2. \A i \in DOMAIN idle' : idle'[i] <= Ttl
    BY <1>0, <2>1 DEF Stale
  <2> QED
    BY <1>0, <2>1, <2>2, ChatTypeStep DEF AgeInv, ChatTypeOK
<1>5. ASSUME NEW g \in Platforms,
             (\E i \in ChatIds[g] : AskQuestion(g, i)) \/ AnswerTools(g)
      PROVE  AgeInv'
  BY <1>1, <1>5 DEF AskQuestion, AnswerTools, SendMessage
<1>6. ASSUME NEW g \in Platforms, CallTools(g) \/ EndQuestion(g) PROVE AgeInv'
  BY <1>2, <1>6 DEF CallTools, EndQuestion
<1>7. CASE UNCHANGED chatVars
  BY <1>2, <1>7 DEF chatVars
<1> QED
  BY <1>3, <1>4, <1>5, <1>6, <1>7 DEF ChatNext

\* No session outlives its last use by more than the time to live and one period of the
\* reaper (startSessionReaper, gemini.go:284-299).
THEOREM IdleBounded == ChatSpec => []IdleBound
<1>1. ChatInit => AgeInv
  BY DEF ChatInit, AgeInv
<1>2. ChatTypeOK /\ AgeInv /\ [ChatNext]_chatVars => AgeInv'
  BY AgeStep, ChatAssumption
<1>3. ChatTypeOK /\ AgeInv => IdleBound
  BY ChatAssumption DEF AgeInv, IdleBound, ChatTypeOK, ChatAssumption
<1> QED
  BY <1>1, <1>2, <1>3, ChatTypeCorrect, PTL DEF ChatSpec

(***************************************************************************)
(* The operator: what the reaper takes from a question.                    *)
(***************************************************************************)

\* A platform answers one of its chats; that chat's session was used when the round
\* began, unless the round takes longer than an idle session lives.
TalkInv ==
    /\ \A g \in Platforms :
           /\ talking[g] \subseteq ChatIds[g]
           /\ talking[g] # {} => doing[g] # "nothing"
           /\ \A i, j \in talking[g] : i = j
           /\ round[g] > Ttl => g \in slow
           /\ round[g] <= Ttl => \A i \in talking[g] \cap DOMAIN idle : idle[i] <= round[g]
    /\ lost \subseteq slow

LEMMA SendKeepsTalk ==
    ASSUME ChatAssumption, ChatTypeOK, TalkInv,
           NEW g \in Platforms, NEW i \in ChatIds[g], SendMessage(g, i),
           talking' = [talking EXCEPT ![g] = {i}], UNCHANGED <<slow, lost>>
    PROVE  TalkInv'
<1>1. /\ doing' = [doing EXCEPT ![g] = "model"]
      /\ round' = [round EXCEPT ![g] = 0]
      /\ idle' = [k \in DOMAIN idle \cup {i} |-> IF k = i THEN 0 ELSE idle[k]]
  BY DEF SendMessage, GetOrCreateSession
<1>2. SUFFICES ASSUME NEW h \in Platforms
               PROVE  /\ talking'[h] \subseteq ChatIds[h]
                      /\ talking'[h] # {} => doing'[h] # "nothing"
                      /\ \A k, j \in talking'[h] : k = j
                      /\ round'[h] > Ttl => h \in slow
                      /\ round'[h] <= Ttl =>
                             \A k \in talking'[h] \cap DOMAIN idle' : idle'[k] <= round'[h]
  BY DEF TalkInv
<1>3. CASE h = g
  BY <1>1, <1>3 DEF ChatTypeOK, ChatAssumption
<1>4. CASE h # g
  <2>1. talking'[h] = talking[h] /\ doing'[h] = doing[h] /\ round'[h] = round[h]
    BY <1>1, <1>4 DEF ChatTypeOK
  <2>2. i \notin talking[h]
    BY <1>4 DEF TalkInv, ChatAssumption
  <2> QED
    BY <1>1, <2>1, <2>2 DEF TalkInv
<1> QED
  BY <1>3, <1>4

LEMMA TalkStep ==
    ASSUME ChatAssumption, ChatTypeOK, TalkInv, [ChatNext]_chatVars
    PROVE  TalkInv'
<1>1. ASSUME NEW g \in Platforms, NEW i \in ChatIds[g], AskQuestion(g, i) PROVE TalkInv'
  BY <1>1, SendKeepsTalk DEF AskQuestion
<1>2. ASSUME NEW g \in Platforms, AnswerTools(g) PROVE TalkInv'
  <2>1. PICK i \in talking[g] : SendMessage(g, i)
    BY <1>2 DEF AnswerTools
  <2>2. i \in ChatIds[g] /\ talking[g] = {i}
    BY DEF TalkInv
  <2>3. talking' = [talking EXCEPT ![g] = {i}]
    BY <1>2, <2>2 DEF AnswerTools, ChatTypeOK
  <2> QED
    BY <1>2, <2>1, <2>2, <2>3, SendKeepsTalk DEF AnswerTools
<1>3. ASSUME NEW g \in Platforms, CallTools(g) PROVE TalkInv'
  BY <1>3 DEF CallTools, TalkInv, ChatTypeOK
<1>4. ASSUME NEW g \in Platforms, EndQuestion(g) PROVE TalkInv'
  BY <1>4 DEF EndQuestion, TalkInv, ChatTypeOK, ChatAssumption
<1>5. CASE ChatTick
  <2>1. /\ idle' = [i \in DOMAIN idle |-> idle[i] + 1]
        /\ UNCHANGED <<doing, talking, lost>> /\ slow \subseteq slow'
    BY <1>5 DEF ChatTick
  <2>2. SUFFICES ASSUME NEW g \in Platforms
                 PROVE  /\ round'[g] > Ttl => g \in slow'
                        /\ round'[g] <= Ttl =>
                               \A i \in talking[g] \cap DOMAIN idle : idle'[i] <= round'[g]
    BY <2>1 DEF TalkInv
  <2>3. round'[g] > Ttl => g \in slow'
    BY <1>5 DEF ChatTick
  <2>4. ASSUME round'[g] <= Ttl, NEW i \in talking[g] \cap DOMAIN idle
        PROVE  idle'[i] <= round'[g]
    <3>1. doing[g] # "nothing"
      BY DEF TalkInv
    <3>2. round[g] \in Nat /\ Ttl \in Nat /\ idle[i] \in Nat
      BY DEF ChatTypeOK, ChatAssumption
    <3>3. round[g] <= Ttl /\ round'[g] = round[g] + 1
      BY <1>5, <2>4, <3>1, <3>2 DEF ChatTick
    <3>4. idle[i] <= round[g] /\ idle'[i] = idle[i] + 1
      BY <2>1, <3>3 DEF TalkInv
    <3> QED
      BY <3>2, <3>3, <3>4
  <2> QED
    BY <2>3, <2>4
<1>6. CASE ReapSessions
  <2>1. /\ idle' = [i \in DOMAIN idle \ Stale |-> idle[i]]
        /\ lost' = lost \cup {g \in Platforms : talking[g] \cap Stale # {}}
        /\ UNCHANGED <<doing, talking, round, slow>>
    BY <1>6 DEF ReapSessions
  <2>2. ASSUME NEW g \in Platforms, NEW i \in talking[g] \cap Stale PROVE g \in slow
    <3>1. i \in DOMAIN idle /\ idle[i] > Ttl
      BY DEF Stale
    <3>2. round[g] \in Nat /\ Ttl \in Nat /\ idle[i] \in Nat
      BY <3>1 DEF ChatTypeOK, ChatAssumption
    <3>3. round[g] > Ttl
      BY <3>1, <3>2 DEF TalkInv
    <3> QED
      BY <3>3 DEF TalkInv
  <2>3. lost' \subseteq slow'
    BY <2>1, <2>2 DEF TalkInv
  <2> QED
    BY <2>1, <2>3 DEF TalkInv
<1>7. CASE UNCHANGED chatVars
  BY <1>7 DEF chatVars, TalkInv
<1> QED
  BY <1>1, <1>2, <1>3, <1>4, <1>5, <1>6, <1>7 DEF ChatNext

\* What the tools return reaches the session that called them, unless one round of the
\* question alone took longer than an idle session lives (GetOrCreateSession,
\* gemini.go:262-277; startSessionReaper, gemini.go:284-299).
THEOREM SessionsKept == ChatSpec => []SessionKept
<1>1. ChatInit => TalkInv
  BY ChatAssumption DEF ChatInit, TalkInv, ChatAssumption
<1>2. ChatTypeOK /\ TalkInv /\ [ChatNext]_chatVars => TalkInv'
  BY TalkStep, ChatAssumption
<1>3. TalkInv => SessionKept
  BY DEF TalkInv, SessionKept
<1> QED
  BY <1>1, <1>2, <1>3, ChatTypeCorrect, PTL DEF ChatSpec

(***************************************************************************)
(* The proxy: two requests of a session talk to one chat.                  *)
(***************************************************************************)

\* There is a name for one chat more than can be in use.
LEMMA NewChatIsNew ==
    ASSUME BackendAssumption, chat \in [Connections -> Names \cup {NoChat}],
           chatOf \in [Sessions -> Names \cup {NoChat}]
    PROVE  NewChat \in Names /\ NewChat \notin InUse
<1> DEFINE A == {chat[c] : c \in Connections}
           B == {chatOf[s] : s \in Sessions}
<1>1. /\ IsFiniteSet(Connections) /\ IsFiniteSet(Sessions) /\ IsFiniteSet(Names)
      /\ Cardinality(Names) > Cardinality(Connections) + Cardinality(Sessions)
  BY DEF BackendAssumption
<1>2. IsFiniteSet(A) /\ Cardinality(A) <= Cardinality(Connections)
  <2>1. chat \in Surjection(Connections, A)
    BY DEF Surjection
  <2> HIDE DEF A
  <2> QED
    BY <1>1, <2>1, FS_Surjection
<1>3. IsFiniteSet(B) /\ Cardinality(B) <= Cardinality(Sessions)
  <2>1. chatOf \in Surjection(Sessions, B)
    BY DEF Surjection
  <2> HIDE DEF B
  <2> QED
    BY <1>1, <2>1, FS_Surjection
<1>4. /\ IsFiniteSet(InUse)
      /\ Cardinality(InUse) = Cardinality(A) + Cardinality(B) - Cardinality(A \cap B)
  BY <1>2, <1>3, FS_Union DEF InUse
<1>5. IsFiniteSet(A \cap B)
  BY <1>2, FS_Intersection
<1>6. /\ Cardinality(A) \in Nat /\ Cardinality(B) \in Nat /\ Cardinality(A \cap B) \in Nat
      /\ Cardinality(Names) \in Nat
      /\ Cardinality(Connections) \in Nat /\ Cardinality(Sessions) \in Nat
  BY <1>1, <1>2, <1>3, <1>5, FS_CardinalityType
<1>7. Cardinality(InUse) < Cardinality(Names)
  <2> HIDE DEF A, B
  <2> QED
    BY <1>1, <1>2, <1>3, <1>4, <1>6
<1>8. ~(Names \subseteq InUse)
  <2> SUFFICES ASSUME Names \subseteq InUse PROVE FALSE
    OBVIOUS
  <2>1. Cardinality(Names) <= Cardinality(InUse)
    BY <1>4, FS_Subset
  <2>2. Cardinality(InUse) \in Nat
    BY <1>4, FS_CardinalityType
  <2> QED
    BY <1>6, <1>7, <2>1, <2>2
<1>9. \E k \in Names : k \notin InUse
  BY <1>8
<1> QED
  BY <1>9 DEF NewChat

\* What the parts of the proxy that keep chats are.
TalkTypeOK ==
    /\ at \in [Connections -> {"idle", "load", "store", "allow", "session", "answer"}]
    /\ wants \in [Connections -> Sessions \cup {NoSession}]
    /\ chat \in [Connections -> Names \cup {NoChat}]
    /\ chatOf \in [Sessions -> Names \cup {NoChat}]
    /\ orphan \in SUBSET Connections

\* A request that has a chat is being answered; that chat is its session's, unless the
\* reaper came in between.
ChatInv ==
    \A c \in Connections :
        /\ at[c] = "session" \/ chat[c] # NoChat => wants[c] \in Sessions
        /\ chat[c] # NoChat => at[c] = "answer"
        /\ c \notin orphan /\ chat[c] # NoChat => chat[c] = chatOf[wants[c]]

LEMMA ChatStep ==
    ASSUME BackendAssumption, TalkTypeOK, ChatInv, [BackendNext]_backendVars
    PROVE  TalkTypeOK' /\ ChatInv'
<1>0. NoChat \notin Names /\ NoSession \notin Sessions
  BY DEF BackendAssumption
<1>1. ASSUME NEW c \in Connections, NEW s \in Sessions \cup {NoSession}, Request(c, s)
      PROVE  TalkTypeOK' /\ ChatInv'
  BY <1>1 DEF Request, talk, TalkTypeOK, ChatInv
<1>2. ASSUME NEW c \in Connections, LoadLimiter(c) \/ StoreLimiter(c)
      PROVE  TalkTypeOK' /\ ChatInv'
  BY <1>2 DEF LoadLimiter, StoreLimiter, talk, TalkTypeOK, ChatInv
<1>3. ASSUME NEW c \in Connections, Refuse(c) PROVE TalkTypeOK' /\ ChatInv'
  BY <1>3 DEF Refuse, talk, TalkTypeOK, ChatInv
<1>4. ASSUME NEW c \in Connections, Allow(c) PROVE TalkTypeOK' /\ ChatInv'
  BY <1>4 DEF Allow, talk, TalkTypeOK, ChatInv
<1>5. ASSUME NEW c \in Connections, GetChat(c) PROVE TalkTypeOK' /\ ChatInv'
  <2>1. /\ at[c] = "session" /\ wants[c] \in Sessions
        /\ chat' = [chat EXCEPT ![c] = chatOf[wants[c]]]
        /\ at' = [at EXCEPT ![c] = "answer"]
        /\ UNCHANGED <<wants, chatOf, orphan>>
    BY <1>5 DEF GetChat, ChatInv
  <2> QED
    BY <2>1 DEF TalkTypeOK, ChatInv
<1>6. ASSUME NEW c \in Connections, StartChat(c) PROVE TalkTypeOK' /\ ChatInv'
  <2>1. /\ at[c] = "session" /\ wants[c] \in Sessions /\ chatOf[wants[c]] = NoChat
        /\ chatOf' = [chatOf EXCEPT ![wants[c]] = NewChat]
        /\ chat' = [chat EXCEPT ![c] = NewChat]
        /\ at' = [at EXCEPT ![c] = "answer"]
        /\ UNCHANGED <<wants, orphan>>
    BY <1>6 DEF StartChat, ChatInv
  <2>2. NewChat \in Names
    BY NewChatIsNew DEF TalkTypeOK
  <2>3. TalkTypeOK'
    BY <2>1, <2>2 DEF TalkTypeOK
  <2>4. ChatInv'
    <3> SUFFICES ASSUME NEW d \in Connections
                 PROVE  /\ at'[d] = "session" \/ chat'[d] # NoChat => wants'[d] \in Sessions
                        /\ chat'[d] # NoChat => at'[d] = "answer"
                        /\ d \notin orphan' /\ chat'[d] # NoChat =>
                               chat'[d] = chatOf'[wants'[d]]
      BY DEF ChatInv
    <3>1. CASE d = c
      BY <2>1, <3>1 DEF TalkTypeOK
    <3>2. CASE d # c
      <4>1. chat'[d] = chat[d] /\ at'[d] = at[d] /\ wants'[d] = wants[d] /\ orphan' = orphan
        BY <2>1, <3>2 DEF TalkTypeOK
      <4>2. ASSUME d \notin orphan, chat[d] # NoChat PROVE chat[d] = chatOf'[wants[d]]
        <5>1. wants[d] \in Sessions /\ chat[d] = chatOf[wants[d]]
          BY <4>2 DEF ChatInv
        <5>2. wants[d] # wants[c]
          BY <2>1, <4>2, <5>1
        <5> QED
          BY <2>1, <5>1, <5>2 DEF TalkTypeOK
      <4> QED
        BY <4>1, <4>2 DEF ChatInv
    <3> QED
      BY <3>1, <3>2
  <2> QED
    BY <2>3, <2>4
<1>7. ASSUME NEW c \in Connections, Answer(c) PROVE TalkTypeOK' /\ ChatInv'
  BY <1>7 DEF Answer, TalkTypeOK, ChatInv
<1>8. CASE BackendTick
  BY <1>8 DEF BackendTick, talk, TalkTypeOK, ChatInv
<1>9. ASSUME NEW s \in Sessions, Reap(s) PROVE TalkTypeOK' /\ ChatInv'
  <2>1. /\ chatOf[s] # NoChat
        /\ chatOf' = [chatOf EXCEPT ![s] = NoChat]
        /\ orphan' = orphan \cup {c \in Connections : chat[c] = chatOf[s]}
        /\ UNCHANGED <<at, wants, chat>>
    BY <1>9 DEF Reap
  <2>2. TalkTypeOK'
    BY <2>1 DEF TalkTypeOK
  <2>3. ASSUME NEW c \in Connections, c \notin orphan', chat[c] # NoChat
        PROVE  chat[c] = chatOf'[wants[c]]
    <3>1. c \notin orphan /\ chat[c] # chatOf[s]
      BY <2>1, <2>3
    <3>2. wants[c] \in Sessions /\ chat[c] = chatOf[wants[c]]
      BY <2>3, <3>1 DEF ChatInv
    <3>3. wants[c] # s
      BY <3>1, <3>2
    <3> QED
      BY <2>1, <3>2, <3>3 DEF TalkTypeOK
  <2>4. ChatInv'
    BY <2>1, <2>3 DEF ChatInv
  <2> QED
    BY <2>2, <2>4
<1>10. CASE UNCHANGED backendVars
  BY <1>10 DEF backendVars, talk, TalkTypeOK, ChatInv
<1> QED
  BY <1>1, <1>2, <1>3, <1>4, <1>5, <1>6, <1>7, <1>8, <1>9, <1>10 DEF BackendNext

\* Two requests of one session talk to one chat, the one later requests will get, unless
\* the reaper came between them (getOrCreateSession, backend/main.go).
THEOREM OneChatEach == BackendSpec => []OneChat
<1>1. BackendInit => TalkTypeOK /\ ChatInv
  BY BackendAssumption DEF BackendInit, TalkTypeOK, ChatInv
<1>2. TalkTypeOK /\ ChatInv /\ [BackendNext]_backendVars => (TalkTypeOK /\ ChatInv)'
  BY ChatStep, BackendAssumption
<1>3. ChatInv => OneChat
  BY DEF ChatInv, OneChat
<1> QED
  BY <1>1, <1>2, <1>3, PTL DEF BackendSpec

(***************************************************************************)
(* The proxy: the requests of a key that are let through.                  *)
(***************************************************************************)

\* A connection makes a limiter at most once: when it is about to, it found none, so
\* it had made none.  What a limiter has let through and what is left in it came from
\* its first burst and from the ticks since.
LimiterInv ==
    /\ stored \subseteq makers
    /\ makers # {} => stored # {}
    /\ \A c \in Connections :
           /\ limiter[c] \subseteq makers
           /\ at[c] = "store" => c \notin makers
           /\ c \in makers => admitted[c] + tokens[c] <= Burst + elapsed
           /\ c \notin makers => admitted[c] = 0

BackendInv == BackendTypeOK /\ ChatInv /\ LimiterInv

LEMMA BucketFacts ==
    ASSUME BackendAssumption, BackendTypeOK
    PROVE  /\ Burst \in Nat /\ Burst > 0 /\ elapsed \in Nat /\ MaxTicks \in Nat
           /\ \A c \in Connections : tokens[c] \in 0..Burst /\ admitted[c] \in Nat
BY DEF BackendAssumption, BackendTypeOK

LEMMA LimitTypeStep ==
    ASSUME BackendAssumption, BackendInv, [BackendNext]_backendVars
    PROVE  BackendTypeOK'
<1>0. TalkTypeOK'
  BY ChatStep DEF BackendInv, BackendTypeOK, TalkTypeOK
<1>1. SUFFICES /\ limiter' \in [Connections -> SUBSET Connections]
               /\ stored' \in SUBSET Connections /\ makers' \in SUBSET Connections
               /\ tokens' \in [Connections -> 0..Burst]
               /\ elapsed' \in 0..MaxTicks
               /\ admitted' \in [Connections -> Nat]
  BY <1>0 DEF BackendTypeOK, TalkTypeOK
<1> USE BucketFacts DEF BackendInv, BackendTypeOK
<1>2. CASE UNCHANGED <<limits, elapsed, admitted>>
  BY <1>2 DEF limits
<1>3. ASSUME NEW c \in Connections, LoadLimiter(c) PROVE <1>1!1
  BY <1>3 DEF LoadLimiter
<1>4. ASSUME NEW c \in Connections, StoreLimiter(c) PROVE <1>1!1
  BY <1>4 DEF StoreLimiter
<1>5. ASSUME NEW c \in Connections, Refuse(c) PROVE <1>1!1
  BY <1>5 DEF Refuse
<1>6. ASSUME NEW c \in Connections, Allow(c) PROVE <1>1!1
  <2>1. PICK m \in limiter[c] : /\ tokens[m] > 0
                                /\ tokens' = [tokens EXCEPT ![m] = @ - 1]
                                /\ admitted' = [admitted EXCEPT ![m] = @ + 1]
    BY <1>6 DEF Allow
  <2>2. m \in Connections
    OBVIOUS
  <2>3. tokens' \in [Connections -> 0..Burst] /\ admitted' \in [Connections -> Nat]
    BY <2>1, <2>2
  <2> QED
    BY <1>6, <2>3 DEF Allow
<1>7. CASE BackendTick
  BY <1>7 DEF BackendTick
<1>8. ASSUME NEW c \in Connections,
             \/ \E s \in Sessions \cup {NoSession} : Request(c, s)
             \/ GetChat(c) \/ StartChat(c) \/ Answer(c)
      PROVE  UNCHANGED <<limits, elapsed, admitted>>
  BY <1>8 DEF Request, GetChat, StartChat, Answer, limits
<1>9. ASSUME NEW s \in Sessions, Reap(s) PROVE UNCHANGED <<limits, elapsed, admitted>>
  BY <1>9 DEF Reap, limits
<1>10. CASE UNCHANGED backendVars
  BY <1>2, <1>10 DEF backendVars
<1> QED
  BY <1>2, <1>3, <1>4, <1>5, <1>6, <1>7, <1>8, <1>9, <1>10 DEF BackendNext

LEMMA LimiterStep ==
    ASSUME BackendAssumption, BackendInv, [BackendNext]_backendVars
    PROVE  LimiterInv'
<1>0. /\ at \in [Connections -> {"idle", "load", "store", "allow", "session", "answer"}]
      /\ limiter \in [Connections -> SUBSET Connections]
      /\ tokens \in [Connections -> 0..Burst] /\ admitted \in [Connections -> Nat]
      /\ makers \in SUBSET Connections /\ LimiterInv
  BY DEF BackendInv, BackendTypeOK
<1> USE BucketFacts DEF BackendInv
<1>1. ASSUME UNCHANGED <<limits, elapsed, admitted>>,
             \A c \in Connections : at'[c] = "store" => at[c] = "store"
      PROVE  LimiterInv'
  BY <1>0, <1>1 DEF LimiterInv, limits
<1>2. ASSUME NEW c \in Connections, LoadLimiter(c) PROVE LimiterInv'
  BY <1>0, <1>2 DEF LoadLimiter, LimiterInv
<1>3. ASSUME NEW c \in Connections, StoreLimiter(c) PROVE LimiterInv'
  <2>1. /\ c \notin makers /\ admitted[c] = 0
        /\ tokens' = [tokens EXCEPT ![c] = Burst] /\ makers' = makers \cup {c}
        /\ stored' = {c} /\ limiter' = [limiter EXCEPT ![c] = {c}]
        /\ at' = [at EXCEPT ![c] = "allow"] /\ UNCHANGED <<elapsed, admitted>>
    BY <1>0, <1>3 DEF StoreLimiter, LimiterInv
  <2> QED
    BY <1>0, <2>1 DEF LimiterInv
<1>4. ASSUME NEW c \in Connections, Refuse(c) PROVE LimiterInv'
  BY <1>0, <1>4 DEF Refuse, LimiterInv
<1>5. ASSUME NEW c \in Connections, Allow(c) PROVE LimiterInv'
  <2>1. PICK m \in limiter[c] : /\ tokens[m] > 0
                                /\ tokens' = [tokens EXCEPT ![m] = @ - 1]
                                /\ admitted' = [admitted EXCEPT ![m] = @ + 1]
    BY <1>5 DEF Allow
  <2>2. m \in makers /\ m \in Connections
    BY <1>0 DEF LimiterInv
  <2>3. /\ limiter' = [limiter EXCEPT ![c] = {}] /\ UNCHANGED <<stored, makers, elapsed>>
        /\ \A d \in Connections : at'[d] = "store" => at[d] = "store"
    BY <1>0, <1>5 DEF Allow
  <2>4. ASSUME NEW d \in Connections
        PROVE  /\ d \in makers => admitted'[d] + tokens'[d] <= Burst + elapsed
               /\ d \notin makers => admitted'[d] = 0
    BY <1>0, <2>1, <2>2 DEF LimiterInv
  <2> QED
    BY <1>0, <2>3, <2>4 DEF LimiterInv
<1>6. CASE BackendTick
  <2>1. ASSUME NEW d \in Connections, d \in makers
        PROVE  admitted[d] + tokens'[d] <= Burst + elapsed'
    BY <1>0, <1>6, <2>1 DEF BackendTick, LimiterInv
  <2> QED
    BY <1>0, <1>6, <2>1 DEF BackendTick, LimiterInv
<1>7. ASSUME NEW c \in Connections,
             \/ \E s \in Sessions \cup {NoSession} : Request(c, s)
             \/ GetChat(c) \/ StartChat(c) \/ Answer(c)
      PROVE  LimiterInv'
  <2>1. /\ UNCHANGED <<limits, elapsed, admitted>>
        /\ \A d \in Connections : at'[d] = "store" => at[d] = "store"
    BY <1>0, <1>7 DEF Request, GetChat, StartChat, Answer, limits
  <2> QED
    BY <1>1, <2>1
<1>8. ASSUME NEW s \in Sessions, Reap(s) PROVE LimiterInv'
  BY <1>1, <1>8 DEF Reap, limits
<1>9. CASE UNCHANGED backendVars
  BY <1>1, <1>9 DEF backendVars, limits
<1> QED
  BY <1>2, <1>3, <1>4, <1>5, <1>6, <1>7, <1>8, <1>9 DEF BackendNext

LEMMA BackendInductive == BackendSpec => []BackendInv
<1>1. BackendInit => BackendInv
  BY BackendAssumption
  DEF BackendInit, BackendInv, BackendTypeOK, ChatInv, LimiterInv, BackendAssumption
<1>2. BackendInv /\ [BackendNext]_backendVars => BackendInv'
  <2> SUFFICES ASSUME BackendInv, [BackendNext]_backendVars PROVE BackendInv'
    OBVIOUS
  <2>1. ChatInv'
    BY ChatStep, BackendAssumption DEF BackendInv, BackendTypeOK, TalkTypeOK
  <2> QED
    BY <2>1, LimitTypeStep, LimiterStep, BackendAssumption DEF BackendInv
<1> QED
  BY <1>1, <1>2, PTL DEF BackendSpec

\* Every variable of the proxy keeps its type; no bucket holds more than a burst.
THEOREM BackendTypeCorrect == BackendSpec => []BackendTypeOK
<1>1. BackendInv => BackendTypeOK
  BY DEF BackendInv
<1> QED
  BY <1>1, BackendInductive, PTL

\* Of one key no more requests are let through than one burst and one per tick for each
\* of the requests that raced to be its first (getLimiter and withAuth, backend/main.go).
THEOREM AdmittedAreBounded == BackendSpec => []AdmittedBound
<1>1. BackendInv => AdmittedBound
  <2> SUFFICES ASSUME BackendInv PROVE AdmittedBound
    OBVIOUS
  <2> DEFINE most == Burst + elapsed
  <2>1. /\ most \in Nat /\ makers \in SUBSET Connections
        /\ \A c \in Connections : tokens[c] \in 0..Burst /\ admitted[c] \in Nat
    BY BucketFacts, BackendAssumption DEF BackendInv, BackendTypeOK
  <2>2. \A c \in makers : admitted[c] <= most
    BY <2>1 DEF BackendInv, LimiterInv
  <2>3. \A c \in Connections \ makers : admitted[c] = 0
    BY DEF BackendInv, LimiterInv
  <2> HIDE DEF most
  <2>4. Admitted \subseteq makers \X (1..most)
    BY <2>1, <2>2, <2>3 DEF Admitted
  <2>5. IsFiniteSet(makers) /\ Cardinality(makers) \in Nat
    BY <2>1, FS_Subset, FS_CardinalityType, BackendAssumption DEF BackendAssumption
  <2>6. IsFiniteSet(1..most) /\ Cardinality(1..most) = most
    BY <2>1, FS_Interval
  <2>7. /\ IsFiniteSet(makers \X (1..most))
        /\ Cardinality(makers \X (1..most)) = Cardinality(makers) * most
    BY <2>5, <2>6, FS_Product
  <2>8. Cardinality(Admitted) <= Cardinality(makers \X (1..most))
    BY <2>4, <2>7, FS_Subset
  <2> QED
    BY <2>7, <2>8 DEF AdmittedBound, most
<1> QED
  BY <1>1, BackendInductive, PTL
=============================================================================
