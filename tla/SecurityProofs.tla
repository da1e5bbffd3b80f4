---------------------------- MODULE SecurityProofs ----------------------------
(***************************************************************************)
(* Theorems about SecurityHeal, for any namespaces, names, times and number *)
(* of failures.                                                            *)
(***************************************************************************)
EXTENDS SecurityHeal, TLAPS

LEMMA LengthsOf ==
    ASSUME SecurityAssumption, NEW n \in Namespaces
    PROVE  NamespaceLength[n] \in Lengths
BY DEF Lengths, SecurityAssumption

LEMMA OneLessType ==
    ASSUME NEW S, NEW b \in Nat, NEW left \in [S -> 0..b]
    PROVE  /\ OneLess(left) \in [S -> 0..b]
           /\ \A k \in S : OneLess(left)[k] = IF left[k] > 0 THEN left[k] - 1 ELSE 0
BY DEF OneLess

LEMMA TypeStep ==
    ASSUME SecurityAssumption, SecurityTypeOK, [SecurityNext]_securityVars
    PROVE  SecurityTypeOK'
<1> USE SecurityAssumption
<1>1. ASSUME NEW n \in Namespaces, PersonAdds(n) PROVE SecurityTypeOK'
  BY <1>1 DEF PersonAdds, SecurityTypeOK, Policies, SecurityAssumption
<1>2. ASSUME NEW n \in Namespaces, NEW p \in Policies, PersonRemoves(n, p)
      PROVE  SecurityTypeOK'
  BY <1>2 DEF PersonRemoves, SecurityTypeOK, history
<1>3. ASSUME NEW n \in Namespaces, WithinHour(n) \/ ListSome(n) PROVE SecurityTypeOK'
  BY <1>3 DEF WithinHour, ListSome, Comes, SecurityTypeOK, history
<1>4. ASSUME NEW n \in Namespaces, Fails(n) PROVE failures' \in [Namespaces -> 0..MaxFailures]
  BY <1>4 DEF Fails, SecurityTypeOK, SecurityAssumption
<1>5. ASSUME NEW n \in Namespaces, ListFails(n) \/ CreateFails(n) PROVE SecurityTypeOK'
  BY <1>4, <1>5 DEF ListFails, CreateFails, Comes, SecurityTypeOK
<1>6. ASSUME NEW n \in Namespaces, ListNone(n) PROVE SecurityTypeOK'
  BY <1>6 DEF ListNone, Comes, SecurityTypeOK, SecurityAssumption, history
<1>7. ASSUME NEW n \in Namespaces, Create(n) PROVE SecurityTypeOK'
  BY <1>7 DEF Create, SecurityTypeOK, Policies, SecurityAssumption, Fates
<1>8. ASSUME NEW n \in Namespaces, Tell(n) PROVE SecurityTypeOK'
  BY <1>8, LengthsOf DEF Tell, SecurityTypeOK, SecurityAssumption, Fates
<1>9. CASE Tick
  <2>1. secEntry' \in [Namespaces -> 0..Hour] /\ notices' \in [Lengths -> 0..Silence]
    BY <1>9, OneLessType DEF Tick, SecurityTypeOK, SecurityAssumption
  <2>2. quiet' \in [Lengths -> 0..Silence]
    BY <1>9 DEF Tick, SecurityTypeOK, SecurityAssumption
  <2> QED
    BY <1>9, <2>1, <2>2 DEF Tick, SecurityTypeOK
<1>10. CASE OperatorRestarts
  BY <1>10 DEF OperatorRestarts, Zero, SecurityTypeOK, SecurityAssumption, Fates
<1>11. CASE UNCHANGED securityVars
  BY <1>11 DEF securityVars, SecurityTypeOK
<1> QED
  BY <1>1, <1>2, <1>3, <1>5, <1>6, <1>7, <1>8, <1>9, <1>10, <1>11 DEF SecurityNext

\* Every variable keeps its type; no entry is longer than it was stored for.
THEOREM TypeCorrect == SecuritySpec => []SecurityTypeOK
<1>1. SecurityInit => SecurityTypeOK
  BY SecurityAssumption
  DEF SecurityInit, SecurityTypeOK, Policies, Zero, SecurityAssumption, Fates
<1>2. SecurityTypeOK /\ [SecurityNext]_securityVars => SecurityTypeOK'
  BY TypeStep, SecurityAssumption
<1> QED
  BY <1>1, <1>2, PTL DEF SecuritySpec

(***************************************************************************)
(* How long a namespace is exposed.                                        *)
(***************************************************************************)

\* An hour, and one more for each call that failed.
Limit(n) == Hour * (1 + failures[n])

Creating(n) == step = "create" /\ n \in about

\* The ticks a namespace has been exposed and those its entry still has are within
\* the limit together; where the worker came and went, one tick more is.  Between
\* the list and the creation the new entry does not count.
ExposureInv ==
    /\ step # "idle" => \E n \in Namespaces : about = {n}
    /\ \A n \in Namespaces :
        /\ policies[n] # {} => exposed[n] = 0
        /\ exposed[n] <= Limit(n)
        /\ ~Creating(n) => exposed[n] + secEntry[n] <= Limit(n)
        /\ n \in looked /\ ~Creating(n) => exposed[n] + 1 <= Limit(n)

LEMMA LimitFacts ==
    ASSUME SecurityAssumption, SecurityTypeOK, NEW n \in Namespaces
    PROVE  /\ Limit(n) \in Nat /\ Hour <= Limit(n)
           /\ failures[n] = 0 => Limit(n) = Hour
<1>1. Hour \in Nat /\ Hour > 0 /\ failures[n] \in Nat
  BY DEF SecurityAssumption, SecurityTypeOK
<1>2. \A h, f \in Nat : h * (1 + f) \in Nat /\ h <= h * (1 + f) /\ h * (1 + 0) = h
  OBVIOUS
<1> QED
  BY <1>1, <1>2 DEF Limit

LEMMA ExposureStep ==
    ASSUME SecurityAssumption, SecurityTypeOK, SecurityTypeOK', ExposureInv,
           [SecurityNext]_securityVars
    PROVE  ExposureInv'
<1> DEFINE Safe(n) ==
        /\ policies[n] # {} => exposed[n] = 0
        /\ exposed[n] <= Limit(n)
        /\ ~Creating(n) => exposed[n] + secEntry[n] <= Limit(n)
        /\ n \in looked /\ ~Creating(n) => exposed[n] + 1 <= Limit(n)
<1>0. \A n \in Namespaces :
          /\ Safe(n)
          /\ exposed[n] \in Nat /\ secEntry[n] \in Nat /\ secEntry[n] <= Hour
          /\ Limit(n) \in Nat /\ Hour <= Limit(n) /\ Hour \in Nat /\ Hour > 0
  BY LimitFacts DEF ExposureInv, SecurityTypeOK, SecurityAssumption
<1>1. \A n \in Namespaces : failures'[n] = failures[n] => Limit(n)' = Limit(n)
  BY DEF Limit
\* A namespace whose failures are forgotten has just had a policy.
<1>2. ASSUME NEW n \in Namespaces, exposed'[n] = 0, Limit(n)' \in Nat, Hour <= Limit(n)',
             secEntry'[n] \in Nat, secEntry'[n] <= Hour
      PROVE  Safe(n)'
  BY <1>2, <1>0
<1>3. ASSUME NEW n \in Namespaces PROVE Limit(n)' \in Nat /\ Hour <= Limit(n)'
  <2>1. Hour \in Nat /\ failures'[n] \in Nat
    BY DEF SecurityAssumption, SecurityTypeOK
  <2>2. \A h, f \in Nat : h * (1 + f) \in Nat /\ h <= h * (1 + f)
    OBVIOUS
  <2> QED
    BY <2>1, <2>2 DEF Limit
\* Nothing about m has changed but for a new look at another namespace.
<1>4. ASSUME NEW m \in Namespaces, UNCHANGED <<policies[m], exposed[m], secEntry[m], failures[m]>>,
             m \in looked' => m \in looked, Creating(m) => Creating(m)'
      PROVE  Safe(m)'
  BY <1>0, <1>1, <1>4
<1>5. ASSUME NEW n \in Namespaces, PersonAdds(n) \/ Create(n) PROVE ExposureInv'
  <2>1. /\ exposed' = [exposed EXCEPT ![n] = 0] /\ UNCHANGED <<secEntry, looked, about>>
        /\ failures' = [failures EXCEPT ![n] = 0]
        /\ \A m \in Namespaces \ {n} : policies'[m] = policies[m]
        /\ step' # "idle" => step # "idle"
    BY <1>5 DEF PersonAdds, Create, SecurityTypeOK
  <2>2. Safe(n)'
    BY <1>0, <1>2, <1>3, <2>1 DEF SecurityTypeOK
  <2>3. ASSUME NEW m \in Namespaces \ {n} PROVE Safe(m)'
    <3>1. Creating(m) => Creating(m)'
      BY <1>5, <2>1 DEF PersonAdds, Create, Creating
    <3> QED
      BY <1>4, <2>1, <3>1 DEF SecurityTypeOK
  <2>4. (step # "idle" => \E k \in Namespaces : about = {k})'
    BY <2>1 DEF ExposureInv
  <2> QED
    BY <2>2, <2>3, <2>4 DEF ExposureInv
<1>6. ASSUME NEW n \in Namespaces, NEW p \in Policies, PersonRemoves(n, p)
      PROVE  ExposureInv'
  <2>1. /\ UNCHANGED <<secEntry, step, about, looked, failures, exposed>>
        /\ p \in policies[n]
        /\ policies' = [policies EXCEPT ![n] = @ \ {p}]
    BY <1>6 DEF PersonRemoves, history
  <2>2. exposed'[n] = 0
    BY <1>0, <2>1
  <2>3. Safe(n)'
    BY <1>0, <1>2, <1>3, <2>1, <2>2
  <2>4. ASSUME NEW m \in Namespaces \ {n} PROVE Safe(m)'
    BY <1>4, <2>1 DEF SecurityTypeOK, Creating
  <2> QED
    BY <2>1, <2>3, <2>4 DEF ExposureInv
<1>7. ASSUME NEW n \in Namespaces, WithinHour(n) \/ ListSome(n) PROVE ExposureInv'
  <2>1. /\ step = "idle" /\ looked' = looked \cup {n}
        /\ UNCHANGED <<policies, secEntry, step, about, failures, exposed>>
        /\ secEntry[n] > 0 \/ policies[n] # {}
    BY <1>7 DEF WithinHour, ListSome, Comes, history
  <2>2. ASSUME NEW m \in Namespaces PROVE Safe(m)'
    BY <1>0, <1>1, <2>1 DEF Creating
  <2> QED
    BY <2>1, <2>2 DEF ExposureInv
<1>8. ASSUME NEW n \in Namespaces, Fails(n)
      PROVE  /\ \A m \in Namespaces \ {n} : failures'[m] = failures[m]
             /\ policies[n] = {} => Limit(n)' = Limit(n) + Hour
             /\ policies[n] # {} => failures'[n] = failures[n]
  <2>1. failures' = [failures EXCEPT ![n] = IF policies[n] = {} THEN failures[n] + 1
                                                               ELSE failures[n]]
    BY <1>8 DEF Fails
  <2>2. \A h, f \in Nat : h * (1 + (f + 1)) = h * (1 + f) + h
    OBVIOUS
  <2>3. Hour \in Nat /\ failures[n] \in Nat
    BY DEF SecurityAssumption, SecurityTypeOK
  <2>4. ASSUME policies[n] = {} PROVE Limit(n)' = Limit(n) + Hour
    <3>1. failures'[n] = failures[n] + 1
      BY <2>1, <2>4 DEF SecurityTypeOK
    <3>2. Limit(n)' = Hour * (1 + (failures[n] + 1))
      BY <3>1 DEF Limit
    <3> QED
      BY <2>2, <2>3, <3>2 DEF Limit
  <2> QED
    BY <2>1, <2>4 DEF SecurityTypeOK
<1>9. ASSUME NEW n \in Namespaces, ListFails(n) PROVE ExposureInv'
  <2>1. /\ step = "idle" /\ looked' = looked \cup {n} /\ secEntry[n] = 0 /\ Fails(n)
        /\ UNCHANGED <<policies, secEntry, step, about, exposed>>
    BY <1>9 DEF ListFails, Comes
  <2>2. ASSUME NEW m \in Namespaces \ {n} PROVE Safe(m)'
    BY <1>4, <1>8, <2>1 DEF Creating
  <2>3. Safe(n)'
    BY <1>0, <1>1, <1>8, <2>1 DEF Creating
  <2> QED
    BY <2>1, <2>2, <2>3 DEF ExposureInv
<1>10. ASSUME NEW n \in Namespaces, CreateFails(n) PROVE ExposureInv'
  <2>1. /\ step' = "idle" /\ Fails(n) /\ about = {n}
        /\ UNCHANGED <<policies, secEntry, looked, exposed>>
    BY <1>10 DEF CreateFails
  <2>2. ASSUME NEW m \in Namespaces \ {n} PROVE Safe(m)'
    BY <1>4, <1>8, <2>1 DEF Creating
  <2>3. Safe(n)'
    BY <1>0, <1>1, <1>8, <2>1 DEF Creating
  <2> QED
    BY <2>1, <2>2, <2>3 DEF ExposureInv
<1>11. ASSUME NEW n \in Namespaces, ListNone(n) PROVE ExposureInv'
  <2>1. /\ step = "idle" /\ looked' = looked \cup {n} /\ secEntry[n] = 0
        /\ secEntry' = [secEntry EXCEPT ![n] = Hour]
        /\ step' = "create" /\ about' = {n}
        /\ UNCHANGED <<policies, failures, exposed>>
    BY <1>11 DEF ListNone, Comes, history
  <2>2. ASSUME NEW m \in Namespaces \ {n} PROVE Safe(m)'
    BY <1>4, <2>1 DEF Creating, SecurityTypeOK
  <2>3. Safe(n)'
    BY <1>0, <1>1, <2>1 DEF Creating
  <2> QED
    BY <2>1, <2>2, <2>3 DEF ExposureInv
<1>12. ASSUME NEW n \in Namespaces, Tell(n) PROVE ExposureInv'
  <2>1. /\ step = "tell" /\ step' = "idle"
        /\ UNCHANGED <<policies, secEntry, looked, failures, exposed>>
    BY <1>12 DEF Tell
  <2>2. ASSUME NEW m \in Namespaces PROVE Safe(m)'
    BY <1>4, <2>1 DEF Creating
  <2> QED
    BY <2>1, <2>2 DEF ExposureInv
<1>13. CASE Tick
  <2>1. /\ step = "idle" /\ looked = Namespaces /\ looked' = {}
        /\ UNCHANGED <<policies, step, about, failures>>
        /\ exposed' = [n \in Namespaces |-> IF policies[n] = {} THEN exposed[n] + 1 ELSE 0]
        /\ secEntry' = OneLess(secEntry)
    BY <1>13 DEF Tick
  <2>2. \A n \in Namespaces : secEntry'[n] = IF secEntry[n] > 0 THEN secEntry[n] - 1 ELSE 0
    BY <2>1, OneLessType DEF SecurityTypeOK, SecurityAssumption
  <2>3. ASSUME NEW m \in Namespaces PROVE Safe(m)'
    BY <1>0, <1>1, <2>1, <2>2 DEF Creating
  <2> QED
    BY <2>1, <2>3 DEF ExposureInv
<1>14. CASE OperatorRestarts
  <2>1. /\ step' = "idle" /\ looked' = looked \ about
        /\ UNCHANGED <<policies, failures, exposed>>
        /\ secEntry' = [n \in Namespaces |-> 0]
    BY <1>14 DEF OperatorRestarts, Zero
  <2>2. ASSUME NEW m \in Namespaces PROVE Safe(m)'
    BY <1>0, <1>1, <2>1 DEF Creating
  <2> QED
    BY <2>1, <2>2 DEF ExposureInv
<1>15. CASE UNCHANGED securityVars
  <2>1. UNCHANGED <<policies, secEntry, step, about, looked, failures, exposed>>
    BY <1>15 DEF securityVars
  <2> QED
    BY <2>1 DEF ExposureInv, Limit, Creating
<1> QED
  BY <1>5, <1>6, <1>7, <1>9, <1>10, <1>11, <1>12, <1>13, <1>14, <1>15 DEF SecurityNext

\* A namespace is without a policy for an hour at most, and for one more for each call
\* about it that failed, whoever removes policies, and whenever the entry stored before
\* the policy's creation, the worker's looks and restarts fall (checkSecurity, lines
\* 127-158).
THEOREM ExposureBounded == SecuritySpec => []ExposureBound
<1>1. SecurityInit => ExposureInv
  <2> SUFFICES ASSUME SecurityInit PROVE ExposureInv
    OBVIOUS
  <2>1. Hour \in Nat \ {0} /\ Hour * (1 + 0) = Hour
    BY SecurityAssumption DEF SecurityAssumption
  <2>2. \A n \in Namespaces : Limit(n) = Hour /\ exposed[n] = 0 /\ secEntry[n] = 0
    BY <2>1 DEF SecurityInit, Limit, Zero
  <2> QED
    BY <2>1, <2>2 DEF SecurityInit, ExposureInv
<1>2. SecurityTypeOK /\ SecurityTypeOK' /\ ExposureInv /\ [SecurityNext]_securityVars
      => ExposureInv'
  BY ExposureStep, SecurityAssumption
<1>3. ExposureInv => ExposureBound
  BY DEF ExposureInv, ExposureBound, Limit
<1> QED
  BY <1>1, <1>2, <1>3, TypeCorrect, PTL DEF SecuritySpec

(***************************************************************************)
(* What the team is told.                                                  *)
(***************************************************************************)

\* The entry of notifyUser ends five minutes after a notice so long was sent.
NoticeInv ==
    /\ step # "idle" => \E n \in Namespaces : about = {n}
    /\ \A n \in Namespaces :
           /\ fate[n] = "due" <=> step = "tell" /\ n \in about
           /\ "deny" \in policies[n] => fate[n] # "none"
    /\ \A k \in Lengths : notices[k] > 0 => quiet[k] + notices[k] <= Silence

LEMMA NoticeStep ==
    ASSUME SecurityAssumption, SecurityTypeOK, NoticeInv, [SecurityNext]_securityVars
    PROVE  NoticeInv'
<1>1. ASSUME UNCHANGED <<fate, quiet, notices>>, step # "tell", step' # "tell",
             \A n \in Namespaces : "deny" \in policies'[n] => "deny" \in policies[n],
             step' # "idle" => \E n \in Namespaces : about' = {n}
      PROVE  NoticeInv'
  BY <1>1 DEF NoticeInv
<1>2. ASSUME UNCHANGED <<fate, quiet, notices, step, about>>,
             \A n \in Namespaces : "deny" \in policies'[n] => "deny" \in policies[n]
      PROVE  NoticeInv'
  BY <1>2 DEF NoticeInv
<1>3. ASSUME NEW n \in Namespaces,
             \/ PersonAdds(n) \/ (\E p \in Policies : PersonRemoves(n, p))
             \/ WithinHour(n) \/ ListFails(n) \/ ListSome(n)
      PROVE  NoticeInv'
  <2>1. UNCHANGED <<fate, quiet, notices, step, about>>
    BY <1>3 DEF PersonAdds, PersonRemoves, WithinHour, ListFails, ListSome, history
  <2>2. \/ UNCHANGED policies
        \/ policies' = [policies EXCEPT ![n] = @ \cup {"own"}]
        \/ \E p \in Policies : policies' = [policies EXCEPT ![n] = @ \ {p}]
    BY <1>3 DEF PersonAdds, PersonRemoves, WithinHour, ListFails, ListSome
  <2>3. \A m \in Namespaces : "deny" \in policies'[m] => "deny" \in policies[m]
    BY <2>2 DEF SecurityTypeOK
  <2> QED
    BY <1>2, <2>1, <2>3
<1>4. ASSUME NEW n \in Namespaces, ListNone(n) \/ CreateFails(n) PROVE NoticeInv'
  BY <1>1, <1>4 DEF ListNone, CreateFails, Comes, history
<1>5. ASSUME NEW n \in Namespaces, Create(n) PROVE NoticeInv'
  <2>1. /\ step = "create" /\ step' = "tell" /\ about = {n} /\ about' = {n}
        /\ policies' = [policies EXCEPT ![n] = @ \cup {"deny"}]
        /\ fate' = [fate EXCEPT ![n] = "due"] /\ UNCHANGED <<notices, quiet>>
    BY <1>5 DEF Create
  <2>2. ASSUME NEW m \in Namespaces
        PROVE  /\ fate'[m] = "due" <=> step' = "tell" /\ m \in about'
               /\ "deny" \in policies'[m] => fate'[m] # "none"
    BY <2>1 DEF NoticeInv, SecurityTypeOK
  <2> QED
    BY <2>1, <2>2 DEF NoticeInv
<1>6. ASSUME NEW n \in Namespaces, Tell(n) PROVE NoticeInv'
  <2> DEFINE k == NamespaceLength[n]
  <2>1. /\ step = "tell" /\ about = {n} /\ step' = "idle" /\ about' = {}
        /\ UNCHANGED policies
        /\ \E f \in {"hidden", "told"} : fate' = [fate EXCEPT ![n] = f]
        /\ \/ UNCHANGED <<notices, quiet>>
           \/ /\ notices' = [notices EXCEPT ![k] = Silence]
              /\ quiet' = [quiet EXCEPT ![k] = 0]
    BY <1>6 DEF Tell
  <2>2. ASSUME NEW m \in Namespaces
        PROVE  fate'[m] # "due" /\ ("deny" \in policies'[m] => fate'[m] # "none")
    BY <2>1 DEF NoticeInv, SecurityTypeOK
  <2>3. Silence \in Nat
    BY DEF SecurityAssumption
  <2>4. ASSUME NEW j \in Lengths, notices'[j] > 0
        PROVE  quiet'[j] + notices'[j] <= Silence
    BY <2>1, <2>3, <2>4 DEF NoticeInv, SecurityTypeOK
  <2> QED
    BY <2>1, <2>2, <2>4 DEF NoticeInv
<1>7. CASE Tick
  <2>1. /\ step = "idle" /\ UNCHANGED <<policies, fate, step, about>>
        /\ notices' = OneLess(notices)
        /\ quiet' = [k \in Lengths |->
                        IF quiet[k] < Silence THEN quiet[k] + 1 ELSE Silence]
    BY <1>7 DEF Tick
  <2>2. notices \in [Lengths -> 0..Silence] /\ Silence \in Nat
        /\ quiet \in [Lengths -> 0..Silence]
    BY DEF SecurityTypeOK, SecurityAssumption
  <2>3. \A k \in Lengths :
            notices'[k] = IF notices[k] > 0 THEN notices[k] - 1 ELSE 0
    BY <2>1, <2>2, OneLessType
  <2>4. ASSUME NEW k \in Lengths, notices'[k] > 0
        PROVE  quiet'[k] + notices'[k] <= Silence
    <3>1. notices[k] > 0 /\ notices'[k] = notices[k] - 1
      BY <2>2, <2>3, <2>4
    <3>2. quiet[k] + notices[k] <= Silence
      BY <3>1 DEF NoticeInv
    <3>3. quiet'[k] = quiet[k] + 1
      BY <2>1, <2>2, <3>1, <3>2
    <3> QED
      BY <2>2, <3>1, <3>2, <3>3
  <2> QED
    BY <2>1, <2>4 DEF NoticeInv
<1>8. CASE OperatorRestarts
  <2>1. /\ step' = "idle" /\ about' = {} /\ UNCHANGED policies
        /\ notices' = [k \in Lengths |-> 0]
        /\ fate' = [n \in Namespaces |-> IF fate[n] = "due" THEN "lost" ELSE fate[n]]
    BY <1>8 DEF OperatorRestarts
  <2> QED
    BY <2>1 DEF NoticeInv
<1>9. CASE UNCHANGED securityVars
  BY <1>2, <1>9 DEF securityVars
<1> QED
  BY <1>3, <1>4, <1>5, <1>6, <1>7, <1>8, <1>9 DEF SecurityNext

\* The team hears of a policy exactly when one was created, unless the process dies in
\* between, and nothing is kept back that was not preceded by a notice as long within
\* five minutes (checkSecurity and notifyUser, lines 67-84 and 153-156).
THEOREM NoticesAreTrue == SecuritySpec => []NoticesTrue
<1>1. SecurityInit => NoticeInv
  BY DEF SecurityInit, NoticeInv
<1>2. SecurityTypeOK /\ NoticeInv /\ [SecurityNext]_securityVars => NoticeInv'
  BY NoticeStep, SecurityAssumption
<1>3. SecurityTypeOK /\ NoticeInv => NoticesTrue
  <2> SUFFICES ASSUME SecurityTypeOK, NoticeInv, NEW n \in Namespaces,
                      notices[NamespaceLength[n]] > 0
               PROVE  quiet[NamespaceLength[n]] < Silence
    BY DEF NoticeInv, NoticesTrue
  <2>1. NamespaceLength[n] \in Lengths
    BY SecurityAssumption, LengthsOf
  <2> QED
    BY <2>1, SecurityAssumption DEF NoticeInv, SecurityTypeOK, SecurityAssumption
<1> QED
  BY <1>1, <1>2, <1>3, TypeCorrect, PTL DEF SecuritySpec
=============================================================================
