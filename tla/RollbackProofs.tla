---------------------------- MODULE RollbackProofs -----------------------------
(***************************************************************************)
(* Proofs about Rollback, for every set of fields and values, every choice *)
(* of crashing templates and releases, and any number of pods.             *)
(*                                                                         *)
(* That the previous revision is found at rest needs the shape of the      *)
(* numbering (HistoryInv).  That rollbacks only swap the two newest        *)
(* templates needs to follow the release through numbering and recording,  *)
(* and the worker through its reads (RunsInv, NumbersInv), and an algebra  *)
(* of the merge: of a release and the template before it, merges make only *)
(* two more templates, and none of the four merged over the deployment     *)
(* leaves its three.                                                       *)
(***************************************************************************)
EXTENDS Rollback, TLAPS

\* Replica sets have different numbers; one is the newest, and when there are two
\* sets there is one numbered just below it.
HistoryInv ==
    /\ \A t, u \in DOMAIN rs : rs[t] = rs[u] => t = u
    /\ \E t \in DOMAIN rs :
           /\ Newest(t)
           /\ HasHistory => \E u \in DOMAIN rs : rs[u] = rs[t] - 1

\* The cores of a release and of what merging makes of it, and these with the
\* core of the template before.
Reached(rel, prev) == {Core(t) : t \in Swaps(rel, prev)}
Mergeable(rel, prev) == Reached(rel, prev) \cup {Core(prev)}

\* Until a release is recorded the deployment runs it and a worker between its
\* read and its patch is stale; from then on it runs a swap.
RunsInv ==
    /\ lineage.stage # "recorded" => Core(template) = Core(lineage.rel)
    /\ lineage.stage # "recorded" /\ pc \in {"read", "patch"} => stale
    /\ lineage.stage = "recorded" =>
           Core(template) \in Reached(lineage.rel, lineage.prev)

\* From the number of the template before a release on, all numbered templates
\* can be merged without leaving the swaps; a worker that is not stale read a
\* later number, and is about to patch in one of them.
NumbersInv ==
    lineage.stage # "new" =>
        /\ \E t \in DOMAIN rs : rs[t] > lineage.base
        /\ \A t \in DOMAIN rs :
               rs[t] >= lineage.base => Core(t) \in Mergeable(lineage.rel, lineage.prev)
        /\ lineage.stage = "recorded" => revision > lineage.base
        /\ pc = "read" /\ ~stale => seen > lineage.base
        /\ pc = "patch" /\ ~stale => Core(target) \in Mergeable(lineage.rel, lineage.prev)

LineageInv == RunsInv /\ NumbersInv

RollbackInv == RollbackTypeOK /\ HistoryInv /\ LineageInv

(***************************************************************************)
(* The merge.                                                              *)
(***************************************************************************)

\* A merge of templates is a template.
LEMMA OverlayType ==
    ASSUME NEW o \in Template, NEW c \in Template
    PROVE  Overlay(o, c) \in Template
BY DEF Overlay, Template

\* A core is a template.
LEMMA CoreType ==
    ASSUME NEW t \in Template
    PROVE  Core(t) \in Template
BY RollbackAssumption DEF Core, Template

\* The annotation plays no part in what is merged besides it.
LEMMA CoreMerges ==
    ASSUME NEW o \in Template, NEW c \in Template
    PROVE  Core(Overlay(o, c)) = Overlay(Core(o), Core(c))
BY RollbackAssumption DEF Core, Overlay, Template

\* An approved rollback does not change the core.
LEMMA CoreUnstamped ==
    ASSUME NEW t \in Template, NEW v
    PROVE  Core([t EXCEPT ![Stamp] = v]) = Core(t)
BY RollbackAssumption DEF Core, Template

\* Merging a release r, the template p before it, or what they have been merged
\* into, over what the deployment can have, gives again what it can have.
LEMMA MergeClosed ==
    ASSUME NEW p \in Template, NEW r \in Template,
           NEW o \in {p, r, Overlay(p, r), Overlay(r, Overlay(p, r))},
           NEW c \in {r, Overlay(p, r), Overlay(r, Overlay(p, r))}
    PROVE  Overlay(o, c) \in {r, Overlay(p, r), Overlay(r, Overlay(p, r))}
<1> DEFINE m == Overlay(p, r)
           b == Overlay(r, m)
<1>1. CASE o = p
  <2>1. Overlay(p, r) = m
    OBVIOUS
  <2>2. Overlay(p, m) = m
    BY DEF Overlay, Template
  <2>3. Overlay(p, b) = m
    BY DEF Overlay, Template
  <2> QED BY <1>1, <2>1, <2>2, <2>3
<1>2. CASE o = r
  <2>1. Overlay(r, r) = r
    BY DEF Overlay, Template
  <2>2. Overlay(r, b) = b
    BY DEF Overlay, Template
  <2> QED BY <1>2, <2>1, <2>2
<1>3. CASE o = m
  <2>1. Overlay(m, r) = m
    BY DEF Overlay, Template
  <2>2. Overlay(m, m) = m
    BY DEF Overlay, Template
  <2>3. Overlay(m, b) = m
    BY DEF Overlay, Template
  <2> QED BY <1>3, <2>1, <2>2, <2>3
<1>4. CASE o = b
  <2>1. Overlay(b, r) = b
    BY DEF Overlay, Template
  <2>2. Overlay(b, m) = b
    BY DEF Overlay, Template
  <2>3. Overlay(b, b) = b
    BY DEF Overlay, Template
  <2> QED BY <1>4, <2>1, <2>2, <2>3
<1> QED BY <1>1, <1>2, <1>3, <1>4

\* The same of the cores alone.
LEMMA PatchStays ==
    ASSUME NEW rel \in Template, NEW prev \in Template,
           NEW o \in Template, NEW c \in Template,
           Core(o) \in Mergeable(rel, prev), Core(c) \in Reached(rel, prev)
    PROVE  Core(Overlay(o, c)) \in Reached(rel, prev)
<1> DEFINE p == Core(prev)
           r == Core(rel)
<1>1. p \in Template /\ r \in Template
  BY CoreType
<1>2. Reached(rel, prev) = {r, Overlay(p, r), Overlay(r, Overlay(p, r))}
  <2>1. Overlay(prev, rel) \in Template
    BY OverlayType
  <2>2. Core(Overlay(prev, rel)) = Overlay(p, r)
    BY CoreMerges
  <2>3. Core(Overlay(rel, Overlay(prev, rel))) = Overlay(r, Overlay(p, r))
    BY <2>1, <2>2, CoreMerges
  <2> QED BY <2>2, <2>3 DEF Reached, Swaps
<1>3. Core(o) \in {p, r, Overlay(p, r), Overlay(r, Overlay(p, r))}
  BY <1>2 DEF Mergeable
<1>4. Core(c) \in {r, Overlay(p, r), Overlay(r, Overlay(p, r))}
  BY <1>2
<1>5. Overlay(Core(o), Core(c)) \in {r, Overlay(p, r), Overlay(r, Overlay(p, r))}
  <2> HIDE DEF p, r
  <2> QED BY <1>1, <1>3, <1>4, MergeClosed
<1> QED BY <1>2, <1>5, CoreMerges

(***************************************************************************)
(* Types.                                                                  *)
(***************************************************************************)

LEMMA TypeInductive ==
    ASSUME RollbackTypeOK, [RollbackNext]_rollbackVars
    PROVE  RollbackTypeOK'
<1> USE RollbackAssumption DEF RollbackTypeOK, Lineage
<1>1. ASSUME NEW s \in DOMAIN pods, Analyze(s) PROVE RollbackTypeOK'
  BY <1>1 DEF Analyze, sets, history
<1>2. CASE OfferRollback
  BY <1>2 DEF OfferRollback, Done, sets
<1>3. CASE ReadDeployment
  <2>1. stale' \in BOOLEAN
    BY <1>3, Zenon DEF ReadDeployment
  <2> QED BY <1>3, <2>1 DEF ReadDeployment, sets
<1>4. CASE ListReplicaSets
  BY <1>4 DEF ListReplicaSets, Previous, sets, history
<1>5. CASE PatchTemplate
  <2>1. Overlay(target, template) \in Template
    BY OverlayType
  <2>2. lineage' \in Lineage
    BY <1>5, <2>1 DEF PatchTemplate, Unnumbered
  <2> QED BY <1>5, <2>1, <2>2 DEF PatchTemplate, Done, sets
<1>6. CASE GiveUp
  BY <1>6 DEF GiveUp, Done, sets
<1>7. ASSUME NEW t \in Releases, Release(t) PROVE RollbackTypeOK'
  <2>1. stale' \in BOOLEAN
    <3>1. stale' = (pc \in {"read", "patch"})
      BY <1>7, Zenon DEF Release
    <3>2. CASE pc \in {"read", "patch"}
      BY <3>1, <3>2
    <3>3. CASE pc \notin {"read", "patch"}
      BY <3>1, <3>3
    <3> QED BY <3>2, <3>3
  <2>2. t \in Template /\ lineage' \in Lineage
    BY <1>7 DEF Release, Unnumbered
  <2>3. releases' \in 0..MaxReleases
    BY <1>7 DEF Release
  <2>4. UNCHANGED <<revision, rs, pods, entry, pc, from, seen, target, offered, disturbed>>
    BY <1>7 DEF Release, sets, worker
  <2>5. template' = t
    BY <1>7 DEF Release
  <2> QED BY <2>1, <2>2, <2>3, <2>4, <2>5
<1>8. CASE NumberReplicaSet
  <2>1. PICK old \in DOMAIN rs :
            /\ rs' = [t \in DOMAIN rs \cup {template} |->
                          IF t = template THEN rs[old] + 1 ELSE rs[t]]
            /\ lineage' = IF lineage.stage # "new" THEN lineage
                          ELSE [lineage EXCEPT !.stage = "numbered", !.prev = old,
                                               !.base = rs[old]]
    BY <1>8 DEF NumberReplicaSet
  <2>2. DOMAIN rs' \subseteq Template /\ rs' \in [DOMAIN rs' -> Nat]
    BY <2>1
  <2>3. lineage' \in Lineage
    BY <2>1
  <2> QED BY <1>8, <2>2, <2>3 DEF NumberReplicaSet, worker
<1>9. CASE RecordRevision
  <2>1. revision' \in Nat
    BY <1>9 DEF RecordRevision, Newest
  <2>2. lineage' \in Lineage
    BY <1>9 DEF RecordRevision
  <2> QED BY <1>9, <2>1, <2>2 DEF RecordRevision, worker
<1>10. ASSUME NEW s \in DOMAIN pods, ReplacePod(s) PROVE RollbackTypeOK'
  BY <1>10 DEF ReplacePod, sets, worker, history
<1>11. ASSUME NEW t \in DOMAIN rs, PruneReplicaSet(t) PROVE RollbackTypeOK'
  BY <1>11 DEF PruneReplicaSet, worker, history
<1>12. ASSUME NEW v \in Stamps, ApproveRollback(v) PROVE RollbackTypeOK'
  BY <1>12 DEF ApproveRollback, sets, worker, Template
<1>13. CASE TimePasses
  <2>1. entry' \in [DOMAIN pods -> 0..EntryTime]
    BY <1>13 DEF TimePasses
  <2>2. disturbed' \in BOOLEAN
    BY <1>13, Zenon DEF TimePasses
  <2> QED BY <1>13, <2>1, <2>2 DEF TimePasses, sets, worker
<1>14. CASE UNCHANGED rollbackVars
  BY <1>14 DEF rollbackVars, sets, worker, history
<1> QED BY <1>1, <1>2, <1>3, <1>4, <1>5, <1>6, <1>7, <1>8, <1>9, <1>10, <1>11,
           <1>12, <1>13, <1>14 DEF RollbackNext, WorkerStep

(***************************************************************************)
(* The numbers.                                                            *)
(***************************************************************************)

\* Only the numbering and the pruning change the replica sets.
LEMMA SetsKept ==
    ASSUME [RollbackNext]_rollbackVars, ~NumberReplicaSet,
           \A t \in DOMAIN rs : ~PruneReplicaSet(t)
    PROVE  rs' = rs
BY DEF RollbackNext, WorkerStep, Analyze, OfferRollback, ReadDeployment,
       ListReplicaSets, PatchTemplate, GiveUp, Release, RecordRevision, ReplacePod,
       ApproveRollback, TimePasses, rollbackVars, sets

\* What the numbering does: old is the newest replica set before it.
LEMMA Numbering ==
    ASSUME RollbackTypeOK, HistoryInv, NumberReplicaSet
    PROVE  \E old \in DOMAIN rs :
               /\ Newest(old) /\ old # template
               /\ DOMAIN rs' = DOMAIN rs \cup {template}
               /\ rs'[template] = rs[old] + 1
               /\ \A t \in DOMAIN rs : t # template => rs'[t] = rs[t]
               /\ lineage.stage # "new" => lineage' = lineage
               /\ lineage.stage = "new" =>
                      lineage' = [lineage EXCEPT !.stage = "numbered", !.prev = old,
                                                 !.base = rs[old]]
<1>1. PICK old \in DOMAIN rs :
          /\ Newest(old)
          /\ rs' = [t \in DOMAIN rs \cup {template} |->
                        IF t = template THEN rs[old] + 1 ELSE rs[t]]
          /\ lineage' = IF lineage.stage # "new" THEN lineage
                        ELSE [lineage EXCEPT !.stage = "numbered", !.prev = old,
                                             !.base = rs[old]]
  BY DEF NumberReplicaSet
<1>2. old # template
  BY <1>1 DEF NumberReplicaSet
<1> QED BY <1>1, <1>2

LEMMA HistoryInductive ==
    ASSUME RollbackTypeOK, HistoryInv, [RollbackNext]_rollbackVars
    PROVE  HistoryInv'
<1> USE DEF RollbackTypeOK
<1>1. CASE NumberReplicaSet
  <2>1. PICK old \in DOMAIN rs :
               /\ Newest(old) /\ old # template
               /\ DOMAIN rs' = DOMAIN rs \cup {template}
               /\ rs'[template] = rs[old] + 1
               /\ \A t \in DOMAIN rs : t # template => rs'[t] = rs[t]
    BY <1>1, Numbering
  <2>2. \A t \in DOMAIN rs : rs[t] <= rs[old] /\ rs[t] \in Nat
    BY <2>1 DEF Newest
  <2>3. \A t, u \in DOMAIN rs' : rs'[t] = rs'[u] => t = u
    BY <2>1, <2>2 DEF HistoryInv
  <2>4. Newest(template)'
    <3>1. \A t \in DOMAIN rs' : rs'[t] <= rs'[template]
      BY <2>1, <2>2
    <3>2. template' = template
      BY <1>1 DEF NumberReplicaSet
    <3> QED BY <2>1, <3>1, <3>2 DEF Newest
  <2>5. old \in DOMAIN rs' /\ rs'[old] = rs'[template] - 1
    BY <2>1, <2>2
  <2>6. template' = template /\ template \in DOMAIN rs'
    BY <1>1, <2>1 DEF NumberReplicaSet
  <2> QED BY <2>3, <2>4, <2>5, <2>6 DEF HistoryInv
<1>2. ASSUME NEW t \in DOMAIN rs, PruneReplicaSet(t) PROVE HistoryInv'
  <2>1. /\ DOMAIN rs' = DOMAIN rs \ {t}
        /\ \A u \in DOMAIN rs' : rs'[u] = rs[u]
        /\ Newest(template) /\ rs[template] = revision /\ rs[t] < revision - 1
    BY <1>2 DEF PruneReplicaSet, Settled
  <2>2. template \in DOMAIN rs' /\ \A u \in DOMAIN rs' : rs'[u] <= rs'[template]
    BY <2>1 DEF Newest
  <2>3. PICK top \in DOMAIN rs :
            /\ Newest(top)
            /\ HasHistory => \E u \in DOMAIN rs : rs[u] = rs[top] - 1
    BY DEF HistoryInv
  <2>4. top = template
    BY <2>1, <2>3 DEF Newest, HistoryInv
  <2>5. HasHistory' => \E u \in DOMAIN rs' : rs'[u] = rs'[template] - 1
    <3> SUFFICES ASSUME HasHistory'
                 PROVE  \E u \in DOMAIN rs' : rs'[u] = rs'[template] - 1
      OBVIOUS
    <3>1. HasHistory
      BY <2>1 DEF HasHistory
    <3>2. PICK below \in DOMAIN rs : rs[below] = rs[template] - 1
      BY <2>3, <2>4, <3>1
    <3>3. below # t
      BY <2>1, <3>2
    <3> QED BY <2>1, <2>2, <3>2, <3>3
  <2>6. \A u, v \in DOMAIN rs' : rs'[u] = rs'[v] => u = v
    BY <2>1 DEF HistoryInv
  <2> QED BY <2>2, <2>5, <2>6 DEF HistoryInv, Newest
<1>3. CASE rs' = rs
  BY <1>3 DEF HistoryInv, HasHistory, Newest
<1> QED BY <1>1, <1>2, <1>3, SetsKept

(***************************************************************************)
(* The lineage of a release.                                               *)
(***************************************************************************)

\* Nothing but a release, a patch, an approval, a read and the numbers disturbs
\* it.
LEMMA LineageKept ==
    ASSUME LineageInv, UNCHANGED <<template, sets, lineage>>,
           \/ pc' \notin {"read", "patch"}
           \/ UNCHANGED <<pc, seen, target, stale>>
    PROVE  LineageInv'
BY DEF LineageInv, RunsInv, NumbersInv, sets

LEMMA LineageInductive ==
    ASSUME RollbackInv, [RollbackNext]_rollbackVars
    PROVE  LineageInv'
<1> USE RollbackAssumption DEF RollbackInv
<1> DEFINE rel == lineage.rel
           prev == lineage.prev
           base == lineage.base
<1>0. /\ rel \in Template /\ prev \in Template /\ base \in Nat
      /\ lineage.stage \in {"new", "numbered", "recorded"}
  BY DEF RollbackTypeOK, Lineage
<1>1. ASSUME NEW s \in DOMAIN pods, Analyze(s) PROVE LineageInv'
  <2>1. pc' = "asked"
    BY <1>1 DEF Analyze
  <2> QED BY <1>1, <2>1, LineageKept DEF Analyze, history
<1>2. CASE OfferRollback \/ GiveUp
  <2>1. pc' = "idle"
    BY <1>2 DEF OfferRollback, GiveUp, Done
  <2> QED BY <1>2, <2>1, LineageKept DEF OfferRollback, GiveUp
<1>3. CASE ReadDeployment
  <2>1. /\ pc' = "read" /\ seen' = revision /\ stale' = (lineage.stage # "recorded")
        /\ UNCHANGED <<template, revision, rs, lineage>>
    BY <1>3 DEF ReadDeployment, sets
  <2> QED BY <2>1 DEF LineageInv, RunsInv, NumbersInv
<1>4. CASE ListReplicaSets
  <2>1. /\ pc = "read" /\ pc' = "patch"
        /\ target' \in DOMAIN rs /\ rs[target'] = seen - 1
        /\ UNCHANGED <<template, revision, rs, lineage, stale>>
    BY <1>4 DEF ListReplicaSets, Previous, sets, history
  <2>2. lineage.stage # "new" /\ ~stale => Core(target') \in Mergeable(rel, prev)
    <3> SUFFICES ASSUME lineage.stage # "new", ~stale
                 PROVE  Core(target') \in Mergeable(rel, prev)
      OBVIOUS
    <3>1. seen > base
      BY <2>1 DEF LineageInv, NumbersInv
    <3>2. rs[target'] >= base
      BY <1>0, <2>1, <3>1 DEF RollbackTypeOK
    <3> QED BY <2>1, <3>2 DEF LineageInv, NumbersInv
  <2> QED BY <2>1, <2>2 DEF LineageInv, RunsInv, NumbersInv
<1>5. CASE PatchTemplate
  <2>1. /\ template' = Overlay(target, template)
        /\ UNCHANGED <<revision, rs>>
        /\ lineage' = IF stale /\ template' # template THEN Unnumbered(template')
                      ELSE lineage
        /\ pc = "patch" /\ pc' = "idle"
    BY <1>5 DEF PatchTemplate, Done, sets
  <2>2. CASE stale /\ template' # template
    <3>1. lineage' = Unnumbered(template')
      BY <2>1, <2>2
    <3> QED BY <2>1, <3>1 DEF LineageInv, RunsInv, NumbersInv, Unnumbered
  <2>3. CASE stale /\ template' = template
    <3>1. lineage' = lineage
      BY <2>1, <2>3
    <3> QED BY <2>1, <2>3, <3>1 DEF LineageInv, RunsInv, NumbersInv
  <2>4. CASE ~stale
    <3>1. lineage' = lineage /\ lineage.stage = "recorded"
      BY <2>1, <2>4 DEF LineageInv, RunsInv
    <3>2. Core(target) \in Mergeable(rel, prev) /\ Core(template) \in Reached(rel, prev)
      BY <2>1, <2>4, <3>1 DEF LineageInv, RunsInv, NumbersInv
    <3>3. target \in Template /\ template \in Template
      BY DEF RollbackTypeOK
    <3>4. Core(template') \in Reached(rel, prev)
      <4> HIDE DEF rel, prev
      <4> QED BY <1>0, <2>1, <3>2, <3>3, PatchStays
    <3> QED BY <2>1, <3>1, <3>4 DEF LineageInv, RunsInv, NumbersInv
  <2> QED BY <2>2, <2>3, <2>4
<1>6. ASSUME NEW t \in Releases, Release(t) PROVE LineageInv'
  <2>1. /\ lineage' = Unnumbered(t) /\ template' = t
        /\ stale' = (pc \in {"read", "patch"}) /\ pc' = pc
    BY <1>6 DEF Release, worker
  <2> QED BY <2>1 DEF LineageInv, RunsInv, NumbersInv, Unnumbered
<1>7. CASE NumberReplicaSet
  <2>1. PICK old \in DOMAIN rs :
               /\ Newest(old) /\ old # template
               /\ DOMAIN rs' = DOMAIN rs \cup {template}
               /\ rs'[template] = rs[old] + 1
               /\ \A t \in DOMAIN rs : t # template => rs'[t] = rs[t]
               /\ lineage.stage # "new" => lineage' = lineage
               /\ lineage.stage = "new" =>
                      lineage' = [lineage EXCEPT !.stage = "numbered", !.prev = old,
                                                 !.base = rs[old]]
    BY <1>7, Numbering
  <2>2. UNCHANGED <<template, revision, pc, seen, target, stale>>
    BY <1>7 DEF NumberReplicaSet, worker
  <2>3. \A t \in DOMAIN rs : rs[t] \in Nat /\ rs[t] <= rs[old]
    BY <2>1 DEF Newest, RollbackTypeOK
  <2>4. CASE lineage.stage = "new"
    <3>1. /\ lineage'.stage = "numbered" /\ lineage'.rel = rel
          /\ lineage'.prev = old /\ lineage'.base = rs[old]
      BY <2>1, <2>4 DEF RollbackTypeOK, Lineage
    <3>2. Core(template) = Core(rel)
      BY <2>4 DEF LineageInv, RunsInv
    <3>3. Core(rel) \in Reached(rel, old) /\ Core(old) \in Mergeable(rel, old)
      BY DEF Reached, Swaps, Mergeable
    <3>4. ASSUME NEW t \in DOMAIN rs', rs'[t] >= rs[old]
          PROVE  Core(t) \in Mergeable(rel, old)
      <4>1. CASE t = template
        BY <3>2, <3>3, <4>1 DEF Mergeable
      <4>2. CASE t # template
        <5>1. t \in DOMAIN rs /\ rs[t] = rs[old]
          BY <2>1, <2>3, <3>4, <4>2
        <5>2. t = old
          BY <2>1, <5>1 DEF HistoryInv
        <5> QED BY <3>3, <5>2
      <4> QED BY <4>1, <4>2
    <3>5. template \in DOMAIN rs' /\ rs'[template] > rs[old]
      BY <2>1, <2>3
    <3>6. pc \in {"read", "patch"} => stale
      BY <2>4 DEF LineageInv, RunsInv
    <3> HIDE DEF rel
    <3>7. RunsInv'
      BY <2>2, <3>1, <3>2, <3>6 DEF RunsInv
    <3>8. NumbersInv'
      BY <2>2, <3>1, <3>4, <3>5, <3>6 DEF NumbersInv
    <3> QED BY <3>7, <3>8 DEF LineageInv
  <2>5. CASE lineage.stage # "new"
    <3>1. lineage' = lineage
      BY <2>1, <2>5
    <3>2. Core(template) \in Mergeable(rel, prev)
      <4>1. Core(rel) \in Reached(rel, prev)
        BY DEF Reached, Swaps
      <4> QED BY <1>0, <2>5, <4>1 DEF LineageInv, RunsInv, Mergeable
    <3>3. \A t \in DOMAIN rs : rs[t] >= base => Core(t) \in Mergeable(rel, prev)
      BY <2>5 DEF LineageInv, NumbersInv
    <3>4. \A t \in DOMAIN rs' : rs'[t] >= base => Core(t) \in Mergeable(rel, prev)
      BY <2>1, <3>2, <3>3
    <3>5. template \in DOMAIN rs' /\ rs'[template] > base
      <4>1. PICK t \in DOMAIN rs : rs[t] > base
        BY <2>5 DEF LineageInv, NumbersInv
      <4> QED BY <1>0, <2>1, <2>3, <4>1
    <3>6. RunsInv'
      BY <2>2, <3>1 DEF LineageInv, RunsInv
    <3>7. NumbersInv'
      BY <2>2, <2>5, <3>1, <3>4, <3>5 DEF LineageInv, NumbersInv
    <3> QED BY <3>6, <3>7 DEF LineageInv
  <2> QED BY <2>4, <2>5
<1>8. CASE RecordRevision
  <2>1. /\ Newest(template) /\ revision' = rs[template]
        /\ UNCHANGED <<template, rs, pc, seen, target, stale>>
        /\ lineage' = IF lineage.stage = "numbered"
                      THEN [lineage EXCEPT !.stage = "recorded"] ELSE lineage
    BY <1>8 DEF RecordRevision, worker
  <2>2. /\ lineage'.rel = rel /\ lineage'.prev = prev /\ lineage'.base = base
        /\ lineage'.stage = IF lineage.stage = "numbered" THEN "recorded"
                            ELSE lineage.stage
    BY <2>1 DEF RollbackTypeOK, Lineage
  <2>3. lineage.stage # "new" => rs[template] > base
    <3> SUFFICES ASSUME lineage.stage # "new" PROVE rs[template] > base
      OBVIOUS
    <3>1. PICK t \in DOMAIN rs : rs[t] > base
      BY DEF LineageInv, NumbersInv
    <3>2. rs[t] <= rs[template] /\ rs[t] \in Nat /\ rs[template] \in Nat
      BY <2>1 DEF Newest, RollbackTypeOK
    <3> QED BY <1>0, <3>1, <3>2
  <2>4. Core(rel) \in Reached(rel, prev)
    BY DEF Reached, Swaps
  <2> HIDE DEF rel, prev, base
  <2>5. RunsInv'
    <3> USE DEF rel, prev
    <3>1. lineage'.stage # "recorded" => lineage.stage # "recorded"
      BY <1>0, <2>2
    <3>2. lineage.stage # "recorded" => Core(template) = Core(rel)
      BY DEF LineageInv, RunsInv
    <3> QED BY <1>0, <2>1, <2>2, <2>4, <3>1, <3>2 DEF LineageInv, RunsInv
  <2>6. NumbersInv'
    <3> USE DEF rel, prev, base
    <3> QED BY <1>0, <2>1, <2>2, <2>3 DEF LineageInv, NumbersInv
  <2> QED BY <2>5, <2>6 DEF LineageInv
<1>9. ASSUME NEW s \in DOMAIN pods, ReplacePod(s) PROVE LineageInv'
  BY <1>9, LineageKept DEF ReplacePod, worker, history
<1>10. ASSUME NEW t \in DOMAIN rs, PruneReplicaSet(t) PROVE LineageInv'
  <2>1. /\ DOMAIN rs' = DOMAIN rs \ {t}
        /\ \A u \in DOMAIN rs' : rs'[u] = rs[u]
        /\ Newest(template) /\ rs[template] = revision /\ rs[t] < revision - 1
        /\ UNCHANGED <<revision, template, lineage, pc, seen, target, stale>>
    BY <1>10 DEF PruneReplicaSet, Settled, worker, history
  <2>2. (\E u \in DOMAIN rs : rs[u] > base) => \E u \in DOMAIN rs' : rs'[u] > base
    <3> SUFFICES ASSUME NEW u \in DOMAIN rs, rs[u] > base
                 PROVE  \E v \in DOMAIN rs' : rs'[v] > base
      OBVIOUS
    <3>1. template \in DOMAIN rs' /\ rs'[template] >= rs[u]
      BY <2>1 DEF Newest, RollbackTypeOK
    <3> QED BY <1>0, <2>1, <3>1 DEF RollbackTypeOK, Newest
  <2>3. RunsInv'
    BY <2>1 DEF LineageInv, RunsInv
  <2>4. NumbersInv'
    BY <2>1, <2>2 DEF LineageInv, NumbersInv
  <2> QED BY <2>3, <2>4 DEF LineageInv
<1>11. ASSUME NEW v \in Stamps, ApproveRollback(v) PROVE LineageInv'
  <2>1. /\ Core(template') = Core(template)
        /\ UNCHANGED <<revision, rs, pc, seen, target, stale, lineage>>
    BY <1>11, CoreUnstamped DEF ApproveRollback, RollbackTypeOK, sets, worker
  <2> QED BY <2>1 DEF LineageInv, RunsInv, NumbersInv
<1>12. CASE TimePasses
  BY <1>12, LineageKept DEF TimePasses, worker
<1>13. CASE UNCHANGED rollbackVars
  BY <1>13, LineageKept DEF rollbackVars, worker, history
<1> QED BY <1>1, <1>2, <1>3, <1>4, <1>5, <1>6, <1>7, <1>8, <1>9, <1>10, <1>11,
           <1>12, <1>13 DEF RollbackNext, WorkerStep

(***************************************************************************)
(* Theorems.                                                               *)
(***************************************************************************)

LEMMA RollbackInductive == RollbackSpec => []RollbackInv
<1>1. RollbackInit => RollbackInv
  <2> SUFFICES ASSUME RollbackInit PROVE RollbackInv
    OBVIOUS
  <2>1. RollbackTypeOK
    <3>1. PICK n \in 1..MaxPods : pods = [s \in 1..n |-> First] /\ entry = [s \in 1..n |-> 0]
      BY DEF RollbackInit
    <3>2. DOMAIN pods = 1..n /\ 1..n \subseteq 1..MaxPods
      BY <3>1, RollbackAssumption
    <3>3. pods \in [1..n -> Template]
      BY <3>1, RollbackAssumption
    <3>4. entry \in [1..n -> 0..EntryTime]
      <4>1. 0 \in 0..EntryTime
        BY RollbackAssumption
      <4>2. [s \in 1..n |-> 0] \in [1..n -> 0..EntryTime]
        BY <4>1, Zenon
      <4>3. entry = [s \in 1..n |-> 0]
        BY <3>1
      <4> QED BY <4>2, <4>3
    <3>5. rs \in [DOMAIN rs -> Nat] /\ DOMAIN rs \subseteq Template /\ lineage \in Lineage
      BY RollbackAssumption DEF RollbackInit, Lineage
    <3>6. template \in Template /\ revision \in Nat /\ seen \in Nat /\ from \in Template /\ target \in Template
      BY RollbackAssumption DEF RollbackInit
    <3>7. releases \in 0..MaxReleases
      <4>1. 0 \in 0..MaxReleases
        BY RollbackAssumption
      <4> QED BY <4>1 DEF RollbackInit
    <3>8. offered \in BOOLEAN /\ disturbed \in BOOLEAN /\ stale \in BOOLEAN
      BY Zenon DEF RollbackInit
    <3>9. pc \in {"idle", "asked", "read", "patch"}
      BY Zenon DEF RollbackInit
    <3> QED BY <3>2, <3>3, <3>4, <3>5, <3>6, <3>7, <3>8, <3>9 DEF RollbackTypeOK
  <2>2. HistoryInv
    BY DEF RollbackInit, HistoryInv, HasHistory, Newest
  <2>3. LineageInv
    BY DEF RollbackInit, LineageInv, RunsInv, NumbersInv, Reached, Mergeable, Swaps
  <2> QED BY <2>1, <2>2, <2>3 DEF RollbackInv
<1>2. RollbackInv /\ [RollbackNext]_rollbackVars => RollbackInv'
  BY TypeInductive, HistoryInductive, LineageInductive DEF RollbackInv
<1> QED BY <1>1, <1>2, PTL DEF RollbackSpec

\* Every variable of the rollback keeps its type.
THEOREM TypeCorrect == RollbackSpec => []RollbackTypeOK
<1>1. RollbackInv => RollbackTypeOK
  BY DEF RollbackInv
<1> QED BY <1>1, RollbackInductive, PTL

\* rollbackDeployment finds a revision one below the one it read whenever that is
\* still the newest and there are two replica sets: the error of line 533 means
\* that a rollout was under way between its two reads, or when they began.
THEOREM PreviousFoundAtRest == RollbackSpec => []PreviousFound
<1>1. ASSUME RollbackInv, HasHistory, NEW t \in DOMAIN rs, Newest(t), rs[t] = seen
      PROVE  Previous # {}
  <2>1. PICK top \in DOMAIN rs :
            Newest(top) /\ \E u \in DOMAIN rs : rs[u] = rs[top] - 1
    BY <1>1 DEF RollbackInv, HistoryInv
  <2>2. rs[top] = seen
    BY <1>1, <2>1 DEF Newest, RollbackInv, RollbackTypeOK
  <2> QED BY <2>1, <2>2 DEF Previous
<1>2. RollbackInv => PreviousFound
  BY <1>1 DEF PreviousFound
<1> QED BY <1>2, RollbackInductive, PTL

\* Once a release is recorded, rollbacks and approved rollbacks only swap the two
\* newest templates and what merging makes of them; a rollback that read before
\* that counts as a release.
THEOREM RollbacksOnlySwap == RollbackSpec => []SwapsOnly
<1>1. RollbackInv => SwapsOnly
  BY DEF RollbackInv, LineageInv, RunsInv, SwapsOnly, Reached
<1> QED BY <1>1, RollbackInductive, PTL
=============================================================================
