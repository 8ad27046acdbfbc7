------------------------- MODULE LearningStoreProofs -------------------------
(***************************************************************************)
(* Proofs about the learning database, for any number of pairs, of         *)
(* concurrent recorders and of rows, and any evidence threshold.           *)
(***************************************************************************)
EXTENDS LearningStore, FiniteSetTheorems, TLAPS

StoreInv == TypeOK /\ RulesAreEarned /\ KeysAreUnique

\* A fresh identifier is above every identifier of the table.
LEMMA FreshAbove ==
  ASSUME NEW table, NEW n \in Fresh(table), NEW r \in table, r.id \in Nat
  PROVE  n \in Id /\ r.id # n
  BY DEF Fresh, Id

\* A step that leaves both tables alone.
LEMMA TablesUnchanged ==
  ASSUME StoreInv, TypeOK', drafts' = drafts, rules' = rules
  PROVE  StoreInv'
  BY DEF StoreInv, RulesAreEarned, KeysAreUnique

\* Replacing a draft by one with the same identifier, no less evidence and a
\* text that no other draft has.
LEMMA ReplaceDraft ==
  ASSUME StoreInv, NEW d \in drafts, NEW e \in Draft, e.id = d.id, e.evidence >= d.evidence,
         \A x \in drafts : x.pair = e.pair => x = d,
         drafts' = (drafts \ {d}) \cup {e}, rules' = rules,
         now' = now, observations' = observations,
         recording' \in [Recorder -> Pair \cup {Idle}], seen' = seen
  PROVE  StoreInv'
<1>1. TypeOK'
  BY DEF StoreInv, TypeOK
<1>2. d.evidence \in Nat /\ e.evidence \in Nat /\ Threshold \in Nat
  BY StoreAssumption DEF StoreInv, TypeOK, Draft
<1>3. RulesAreEarned'
  <2> SUFFICES ASSUME NEW r \in rules
               PROVE  \E x \in drafts' : x.id = r.draft /\ x.evidence >= Threshold
    BY DEF RulesAreEarned
  <2>1. PICK x \in drafts : x.id = r.draft /\ x.evidence >= Threshold
    BY DEF StoreInv, RulesAreEarned
  <2>2. CASE x = d
    BY <1>2, <2>1, <2>2
  <2>3. CASE x # d
    BY <2>1, <2>3
  <2> QED
    BY <2>2, <2>3
<1>4. KeysAreUnique'
  BY DEF StoreInv, KeysAreUnique
<1> QED
  BY <1>1, <1>3, <1>4 DEF StoreInv

\* Replacing a rule by one for the same draft with the same identifier.
LEMMA ReplaceRule ==
  ASSUME StoreInv, NEW r \in rules, NEW s \in Rule, s.id = r.id, s.draft = r.draft,
         rules' = (rules \ {r}) \cup {s},
         UNCHANGED <<now, observations, drafts, recording, seen>>
  PROVE  StoreInv'
<1>1. TypeOK'
  BY DEF StoreInv, TypeOK
<1>2. RulesAreEarned'
  BY DEF StoreInv, RulesAreEarned
<1>3. KeysAreUnique'
  BY DEF StoreInv, KeysAreUnique
<1> QED
  BY <1>1, <1>2, <1>3 DEF StoreInv

\* The number of recorders at work is a number.
LEMMA RecordersCounted ==
  ASSUME NEW p \in Pair
  PROVE  Cardinality({h \in Recorder : recording[h] = p}) \in Nat
<1>1. IsFiniteSet({h \in Recorder : recording[h] = p})
  BY StoreAssumption, FS_Subset
<1> QED
  BY <1>1, FS_CardinalityType

\* Every step keeps the invariant.
LEMMA NextStore == StoreInv /\ [Next]_vars => StoreInv'
<1> SUFFICES ASSUME StoreInv, [Next]_vars PROVE StoreInv'
  OBVIOUS
<1>0. TypeOK
  BY DEF StoreInv
<1>1. ASSUME NEW h \in Recorder, NEW p \in Pair, RecordObservation(h, p) PROVE StoreInv'
  <2>1. TypeOK'
    BY <1>0, <1>1 DEF RecordObservation, TypeOK
  <2> QED
    BY <1>1, <2>1, TablesUnchanged DEF RecordObservation
<1>2. ASSUME NEW h \in Recorder, RecordEvidence(h), CountEvidence(h) PROVE StoreInv'
  <2>1. PICK d \in DraftOf(recording[h]) :
          drafts' = (drafts \ {d}) \cup {[d EXCEPT !.evidence = @ + 1]}
    BY <1>2 DEF CountEvidence
  <2> DEFINE e == [d EXCEPT !.evidence = @ + 1]
  <2>2. d \in drafts /\ d \in Draft
    BY <1>0, <2>1 DEF DraftOf, TypeOK
  <2>3. e \in Draft /\ e.id = d.id /\ e.pair = d.pair /\ e.evidence = d.evidence + 1
        /\ d.evidence \in Nat
    BY <2>2 DEF Draft
  <2>4. recording' \in [Recorder -> Pair \cup {Idle}]
    BY <1>0, <1>2 DEF RecordEvidence, TypeOK
  <2>5. \A x \in drafts : x.pair = e.pair => x = d
    BY <2>2, <2>3 DEF StoreInv, KeysAreUnique
  <2>6. e.evidence >= d.evidence
    BY <2>3
  <2> HIDE DEF e
  <2> QED
    BY <1>2, <2>1, <2>2, <2>3, <2>4, <2>5, <2>6, ReplaceDraft DEF CountEvidence, e
<1>3. ASSUME NEW h \in Recorder, RecordEvidence(h), InsertDraft(h) PROVE StoreInv'
  <2>1. PICK n \in Fresh(drafts) :
          drafts' = drafts \cup {[id |-> n, pair |-> recording[h], evidence |-> 1, edited |-> FALSE]}
    BY <1>3 DEF InsertDraft
  <2> DEFINE e == [id |-> n, pair |-> recording[h], evidence |-> 1, edited |-> FALSE]
  <2>2. n \in Id
    BY <2>1 DEF Fresh
  <2>3. e \in Draft
    BY <1>0, <1>3, <2>2 DEF RecordEvidence, Draft, TypeOK
  <2>4. \A x \in drafts : x.id # e.id /\ x.pair # e.pair
    BY <1>0, <1>3, FreshAbove DEF InsertDraft, DraftOf, TypeOK, Draft, Id
  <2> HIDE DEF e
  <2>5. drafts' = drafts \cup {e} /\ rules' = rules
    BY <1>3, <2>1 DEF InsertDraft, e
  <2>6. TypeOK'
    BY <1>0, <1>3, <2>3, <2>5 DEF RecordEvidence, InsertDraft, TypeOK
  <2>7. RulesAreEarned'
    BY <2>5 DEF StoreInv, RulesAreEarned
  <2>8. KeysAreUnique'
    BY <2>4, <2>5 DEF StoreInv, KeysAreUnique
  <2> QED
    BY <2>6, <2>7, <2>8 DEF StoreInv
<1>4. ASSUME NEW h \in Recorder, Abandon(h) PROVE StoreInv'
  <2>1. TypeOK'
    BY <1>0, <1>4 DEF Abandon, TypeOK
  <2> QED
    BY <1>4, <2>1, TablesUnchanged DEF Abandon
<1>5. CASE Serve \/ Tick
  <2>1. TypeOK'
    BY <1>0, <1>5 DEF Serve, Tick, TypeOK
  <2> QED
    BY <1>5, <2>1, TablesUnchanged DEF Serve, Tick
<1>6. ASSUME NEW d \in drafts, NEW action \in RuleAction, ActivateDraft(d, action)
      PROVE  StoreInv'
  <2>0. UNCHANGED <<now, observations, drafts, recording, seen>> /\ d.evidence >= Threshold
    BY <1>6 DEF ActivateDraft, Reviewable
  <2>1. ASSUME NEW r \in rules, r.draft = d.id,
               rules' = (rules \ {r}) \cup {[r EXCEPT !.action = action, !.enabled = TRUE]}
        PROVE  StoreInv'
    <3>1. r \in Rule
      BY <1>0 DEF TypeOK
    <3>2. [r EXCEPT !.action = action, !.enabled = TRUE] \in Rule
      BY <3>1 DEF Rule
    <3> QED
      BY <2>0, <2>1, <3>1, <3>2, ReplaceRule DEF Rule
  <2>2. ASSUME \A r \in rules : r.draft # d.id, NEW n \in Fresh(rules),
               rules' = rules \cup {[id |-> n, draft |-> d.id, action |-> action, enabled |-> TRUE]}
        PROVE  StoreInv'
    <3> DEFINE s == [id |-> n, draft |-> d.id, action |-> action, enabled |-> TRUE]
    <3>1. n \in Id /\ d.id \in Id
      BY <1>0 DEF Fresh, TypeOK, Draft
    <3>2. s \in Rule /\ s.id = n /\ s.draft = d.id
      BY <3>1 DEF Rule
    <3>3. \A r \in rules : r.id # n
      BY <1>0, FreshAbove DEF TypeOK, Rule, Id
    <3> HIDE DEF s
    <3>4. rules' = rules \cup {s}
      BY <2>2 DEF s
    <3>5. TypeOK'
      BY <1>0, <2>0, <3>2, <3>4 DEF TypeOK
    <3>6. RulesAreEarned'
      BY <2>0, <3>2, <3>4 DEF StoreInv, RulesAreEarned
    <3>7. KeysAreUnique'
      BY <2>0, <2>2, <3>2, <3>3, <3>4 DEF StoreInv, KeysAreUnique
    <3> QED
      BY <3>5, <3>6, <3>7 DEF StoreInv
  <2> QED
    BY <1>6, <2>1, <2>2 DEF ActivateDraft
<1>7. ASSUME NEW d \in drafts, NEW p \in Pair, UpdateDraft(d, p) PROVE StoreInv'
  <2> DEFINE e == [d EXCEPT !.pair = p, !.edited = TRUE]
  <2>1. d \in Draft
    BY <1>0 DEF TypeOK
  <2>2. e \in Draft /\ e.id = d.id /\ e.pair = p /\ e.evidence = d.evidence /\ d.evidence \in Nat
    BY <2>1 DEF Draft
  <2>3. \A x \in drafts : x.pair = e.pair => x = d
    BY <1>7, <2>2 DEF UpdateDraft, TextIsFree, DraftOf
  <2>4. recording' \in [Recorder -> Pair \cup {Idle}]
    BY <1>0, <1>7 DEF UpdateDraft, TypeOK
  <2>5. e.evidence >= d.evidence
    BY <2>2
  <2> HIDE DEF e
  <2> QED
    BY <1>7, <2>2, <2>3, <2>4, <2>5, ReplaceDraft DEF UpdateDraft, e
<1>8. ASSUME NEW r \in rules, NEW action \in RuleAction, SetRuleAction(r, action)
      PROVE  StoreInv'
  <2>1. r \in Rule
    BY <1>0 DEF TypeOK
  <2>2. [r EXCEPT !.action = action] \in Rule
    BY <2>1 DEF Rule
  <2> QED
    BY <1>8, <2>1, <2>2, ReplaceRule DEF SetRuleAction, Rule
<1>9. ASSUME NEW r \in rules, NEW enabled \in BOOLEAN, SetRuleEnabled(r, enabled)
      PROVE  StoreInv'
  <2>1. r \in Rule
    BY <1>0 DEF TypeOK
  <2>2. [r EXCEPT !.enabled = enabled] \in Rule
    BY <2>1 DEF Rule
  <2> QED
    BY <1>9, <2>1, <2>2, ReplaceRule DEF SetRuleEnabled, Rule
<1>10. ASSUME NEW r \in rules, DeleteRule(r) PROVE StoreInv'
  BY <1>10 DEF DeleteRule, StoreInv, TypeOK, RulesAreEarned, KeysAreUnique
<1>11. CASE PurgeLearning
  <2>1. seen' \in [Pair -> Nat]
    BY <1>11, RecordersCounted DEF PurgeLearning
  <2> QED
    BY <1>11, <2>1 DEF PurgeLearning, purgeDrafts, StoreInv, TypeOK, RulesAreEarned,
       KeysAreUnique
<1>12. CASE UNCHANGED vars
  BY <1>0, <1>12, TablesUnchanged DEF vars, TypeOK
<1> QED
  BY <1>1, <1>2, <1>3, <1>4, <1>5, <1>6, <1>7, <1>8, <1>9, <1>10, <1>11, <1>12
     DEF Next, Record, Learn, RecordEvidence

LEMMA StoreInvariant == Spec => []StoreInv
<1>1. Init => StoreInv
  BY DEF Init, StoreInv, TypeOK, RulesAreEarned, KeysAreUnique
<1>2. StoreInv /\ [Next]_vars => StoreInv'
  BY NextStore
<1> QED
  BY <1>1, <1>2, PTL DEF Spec

\* No rule without a draft that has gathered the evidence the threshold asks
\* for, however recordings, edits, activations and purges interleave.
THEOREM RulesEarned == Spec => []RulesAreEarned
<1>1. StoreInv => RulesAreEarned
  BY DEF StoreInv
<1> QED
  BY <1>1, StoreInvariant, PTL

\* Rows stay told apart although identifiers are used again.
THEOREM KeysUnique == Spec => []KeysAreUnique
<1>1. StoreInv => KeysAreUnique
  BY DEF StoreInv
<1> QED
  BY <1>1, StoreInvariant, PTL

-----------------------------------------------------------------------------
(***************************************************************************)
(* Evidence.  A pair being recorded is counted in seen before its evidence *)
(* is, so the evidence of a draft is backed together with the pairs still  *)
(* in flight; without them the second commit could not be allowed to add.  *)
(***************************************************************************)

InFlight(p) == {h \in Recorder : recording[h] = p}
ObservationsOf(p) == {o \in observations : o.pair = p}

\* StoreIsBacked with the recorders between their two commits counted.
BackedInv ==
  /\ \A p \in Pair : Cardinality(InFlight(p)) <= seen[p]
  /\ \A d \in drafts : ~d.edited => d.evidence + Cardinality(InFlight(d.pair)) <= seen[d.pair]
  /\ \A p \in Pair : /\ IsFiniteSet(ObservationsOf(p))
                     /\ Cardinality(ObservationsOf(p)) <= seen[p]

\* The recorders at work on a pair are finitely many.
LEMMA InFlightFinite ==
  \A p : IsFiniteSet(InFlight(p)) /\ Cardinality(InFlight(p)) \in Nat
<1> TAKE p
<1>1. IsFiniteSet(InFlight(p))
  BY StoreAssumption, FS_Subset DEF InFlight
<1> QED
  BY <1>1, FS_CardinalityType

\* A recorder that is done, or gives up, leaves the pairs in flight.
LEMMA RecorderLeaves ==
  ASSUME TypeOK, NEW h \in Recorder, recording[h] # Idle,
         recording' = [recording EXCEPT ![h] = Idle], NEW p \in Pair
  PROVE  Cardinality(InFlight(p)') =
           IF p = recording[h] THEN Cardinality(InFlight(p)) - 1 ELSE Cardinality(InFlight(p))
<1>1. InFlight(p)' = InFlight(p) \ {h}
  BY StoreAssumption DEF InFlight, TypeOK
<1>2. h \in InFlight(p) <=> p = recording[h]
  BY DEF InFlight
<1> QED
  BY <1>1, <1>2, InFlightFinite, FS_RemoveElement

\* A recorder that begins joins them.
LEMMA RecorderJoins ==
  ASSUME TypeOK, NEW h \in Recorder, NEW q \in Pair, recording[h] = Idle,
         recording' = [recording EXCEPT ![h] = q], NEW p \in Pair
  PROVE  Cardinality(InFlight(p)') =
           IF p = q THEN Cardinality(InFlight(p)) + 1 ELSE Cardinality(InFlight(p))
<1>1. h \notin InFlight(p)
  BY StoreAssumption DEF InFlight
<1>2. CASE p = q
  <2>1. InFlight(p)' = InFlight(p) \cup {h}
    BY <1>2 DEF InFlight, TypeOK
  <2> QED
    BY <1>1, <1>2, <2>1, InFlightFinite, FS_AddElement
<1>3. CASE p # q
  <2>1. InFlight(p)' = InFlight(p)
    BY <1>1, <1>3 DEF InFlight, TypeOK
  <2> QED
    BY <1>3, <2>1
<1> QED
  BY <1>2, <1>3

\* A step that counts no evidence and touches no observation and no recorder.
LEMMA BackedUnchanged ==
  ASSUME BackedInv, UNCHANGED <<observations, recording, seen>>,
         \A d \in drafts' : ~d.edited => d \in drafts
  PROVE  BackedInv'
BY DEF BackedInv, InFlight, ObservationsOf

\* Every step keeps the evidence backed.
LEMMA NextBacked == StoreInv /\ BackedInv /\ [Next]_vars => BackedInv'
<1> SUFFICES ASSUME StoreInv, BackedInv, [Next]_vars PROVE BackedInv'
  OBVIOUS
<1>0. TypeOK
  BY DEF StoreInv
<1>a. \A p \in Pair : seen[p] \in Nat /\ Cardinality(InFlight(p)) \in Nat
  BY <1>0, InFlightFinite DEF TypeOK
<1>b. \A d \in drafts : d \in Draft /\ d.pair \in Pair /\ d.evidence \in Nat
  BY <1>0 DEF TypeOK, Draft
<1>c. \A p \in Pair : Cardinality(ObservationsOf(p)) \in Nat
  BY FS_CardinalityType DEF BackedInv
<1>1. ASSUME NEW h \in Recorder, NEW q \in Pair, RecordObservation(h, q) PROVE BackedInv'
  <2> DEFINE o == [pair |-> q, at |-> now, n |-> seen[q]]
  <2>1. \A p \in Pair : seen'[p] = IF p = q THEN seen[p] + 1 ELSE seen[p]
    BY <1>0, <1>1 DEF RecordObservation, TypeOK
  <2>2. \A p \in Pair : Cardinality(InFlight(p)') =
           IF p = q THEN Cardinality(InFlight(p)) + 1 ELSE Cardinality(InFlight(p))
    BY <1>0, <1>1, RecorderJoins DEF RecordObservation
  <2>3. \A p \in Pair : Cardinality(InFlight(p)') <= seen'[p]
    BY <1>a, <2>1, <2>2 DEF BackedInv
  <2>4. ASSUME NEW d \in drafts', ~d.edited
        PROVE  d.evidence + Cardinality(InFlight(d.pair)') <= seen'[d.pair]
    <3>1. d \in drafts
      BY <1>1, <2>4 DEF RecordObservation
    <3> QED
      BY <1>a, <1>b, <2>1, <2>2, <2>4, <3>1 DEF BackedInv
  <2>5. ASSUME NEW p \in Pair
        PROVE  IsFiniteSet(ObservationsOf(p)') /\ Cardinality(ObservationsOf(p)') <= seen'[p]
    <3>1. IsFiniteSet(ObservationsOf(p)) /\ Cardinality(ObservationsOf(p)) <= seen[p]
      BY DEF BackedInv
    <3>2. CASE p = q
      <4>1. ObservationsOf(p)' = ObservationsOf(p) \cup {o}
        BY <1>1, <3>2 DEF ObservationsOf, RecordObservation
      <4> HIDE DEF o
      <4>2. /\ IsFiniteSet(ObservationsOf(p) \cup {o})
            /\ Cardinality(ObservationsOf(p) \cup {o}) \in
                 {Cardinality(ObservationsOf(p)), Cardinality(ObservationsOf(p)) + 1}
        BY <3>1, FS_AddElement
      <4>3. seen'[p] = seen[p] + 1 /\ seen[p] \in Nat /\ Cardinality(ObservationsOf(p)) \in Nat
        BY <1>a, <1>c, <2>1, <3>2
      <4>4. Cardinality(ObservationsOf(p) \cup {o}) <= seen'[p]
        BY <3>1, <4>2, <4>3
      <4> QED
        BY <4>1, <4>2, <4>4
    <3>3. CASE p # q
      <4>1. ObservationsOf(p)' = ObservationsOf(p)
        BY <1>1, <3>3 DEF ObservationsOf, RecordObservation
      <4> QED
        BY <2>1, <3>1, <3>3, <4>1
    <3> QED
      BY <3>2, <3>3
  <2> QED
    BY <2>3, <2>4, <2>5 DEF BackedInv
<1>2. ASSUME NEW h \in Recorder, RecordEvidence(h) \/ Abandon(h) PROVE BackedInv'
  <2>1. /\ recording[h] # Idle /\ recording[h] \in Pair
        /\ recording' = [recording EXCEPT ![h] = Idle]
        /\ seen' = seen /\ observations' = observations
    BY <1>0, <1>2 DEF RecordEvidence, CountEvidence, InsertDraft, Abandon, TypeOK
  <2>2. \A p \in Pair : Cardinality(InFlight(p)') =
          IF p = recording[h] THEN Cardinality(InFlight(p)) - 1 ELSE Cardinality(InFlight(p))
    BY <1>0, <2>1, RecorderLeaves
  <2>3. \A p \in Pair : Cardinality(InFlight(p)') <= seen'[p]
    BY <1>a, <2>1, <2>2 DEF BackedInv
  <2>4. ASSUME NEW d \in drafts, ~d.edited
        PROVE  /\ d.evidence + Cardinality(InFlight(d.pair)') <= seen'[d.pair]
               /\ d.pair = recording[h] =>
                    d.evidence + 1 + Cardinality(InFlight(d.pair)') <= seen'[d.pair]
    BY <1>a, <1>b, <2>1, <2>2, <2>4 DEF BackedInv
  <2>5. ASSUME NEW d \in drafts', ~d.edited
        PROVE  d.evidence + Cardinality(InFlight(d.pair)') <= seen'[d.pair]
    <3>1. CASE d \in drafts
      BY <2>4, <2>5, <3>1
    <3>2. CASE CountEvidence(h) /\ d \notin drafts
      <4>1. PICK e \in DraftOf(recording[h]) :
              drafts' = (drafts \ {e}) \cup {[e EXCEPT !.evidence = @ + 1]}
        BY <3>2 DEF CountEvidence
      <4>2. e \in drafts /\ e.pair = recording[h] /\ d = [e EXCEPT !.evidence = @ + 1]
        BY <2>5, <3>2, <4>1 DEF DraftOf
      <4>3. d.pair = e.pair /\ d.edited = e.edited /\ d.evidence = e.evidence + 1
        BY <1>b, <4>2 DEF Draft
      <4> QED
        BY <2>4, <2>5, <4>2, <4>3
    <3>3. CASE InsertDraft(h) /\ d \notin drafts
      <4>1. d.pair = recording[h] /\ d.evidence = 1
        BY <2>5, <3>3 DEF InsertDraft
      <4> QED
        BY <1>a, <2>1, <2>2, <4>1 DEF BackedInv
    <3>4. CASE Abandon(h)
      BY <2>5, <3>1, <3>4 DEF Abandon
    <3> QED
      BY <1>2, <3>1, <3>2, <3>3, <3>4 DEF RecordEvidence
  <2>6. \A p \in Pair : ObservationsOf(p)' = ObservationsOf(p)
    BY <2>1 DEF ObservationsOf
  <2> QED
    BY <2>1, <2>3, <2>5, <2>6 DEF BackedInv
<1>3. CASE Serve
  <2>1. \A p \in Pair : ObservationsOf(p)' \in SUBSET ObservationsOf(p)
    BY <1>3 DEF Serve, ObservationsOf
  <2>2. seen' = seen /\ drafts' = drafts /\ \A p : InFlight(p)' = InFlight(p)
    BY <1>3 DEF Serve, InFlight
  <2>3. ASSUME NEW p \in Pair
        PROVE  IsFiniteSet(ObservationsOf(p)') /\ Cardinality(ObservationsOf(p)') <= seen'[p]
    <3>1. /\ IsFiniteSet(ObservationsOf(p)')
          /\ Cardinality(ObservationsOf(p)') <= Cardinality(ObservationsOf(p))
      BY <2>1, FS_Subset DEF BackedInv
    <3>2. Cardinality(ObservationsOf(p)') \in Nat
      BY <3>1, FS_CardinalityType
    <3> QED
      BY <1>a, <1>c, <2>2, <3>1, <3>2 DEF BackedInv
  <2> QED
    BY <2>2, <2>3 DEF BackedInv
<1>4. CASE Tick \/ UNCHANGED vars
  BY <1>4, BackedUnchanged DEF Tick, vars
<1>5. ASSUME NEW d \in drafts, NEW action \in RuleAction, ActivateDraft(d, action)
      PROVE  BackedInv'
  BY <1>5, BackedUnchanged DEF ActivateDraft
<1>6. ASSUME NEW d \in drafts, NEW p \in Pair, UpdateDraft(d, p) PROVE BackedInv'
  <2>1. [d EXCEPT !.pair = p, !.edited = TRUE].edited
    BY <1>b DEF Draft
  <2> QED
    BY <1>6, <2>1, BackedUnchanged DEF UpdateDraft
<1>7. ASSUME NEW r \in rules, NEW action \in RuleAction, SetRuleAction(r, action)
      PROVE  BackedInv'
  BY <1>7, BackedUnchanged DEF SetRuleAction
<1>8. ASSUME NEW r \in rules, NEW enabled \in BOOLEAN, SetRuleEnabled(r, enabled)
      PROVE  BackedInv'
  BY <1>8, BackedUnchanged DEF SetRuleEnabled
<1>9. ASSUME NEW r \in rules, DeleteRule(r) PROVE BackedInv'
  BY <1>9, BackedUnchanged DEF DeleteRule
<1>10. CASE PurgeLearning
  <2>1. drafts' = {} /\ \A p \in Pair : ObservationsOf(p)' = {}
    BY <1>10 DEF PurgeLearning, purgeDrafts, ObservationsOf
  <2>2. \A p \in Pair : InFlight(p)' = InFlight(p) /\ seen'[p] = Cardinality(InFlight(p))
    BY <1>10 DEF PurgeLearning, InFlight
  <2>3. \A p \in Pair : Cardinality(InFlight(p)') <= seen'[p]
    BY <1>a, <2>2
  <2>4. \A p \in Pair : IsFiniteSet(ObservationsOf(p)') /\ Cardinality(ObservationsOf(p)') <= seen'[p]
    BY <1>a, <2>1, <2>2, FS_EmptySet
  <2> QED
    BY <2>1, <2>3, <2>4 DEF BackedInv
<1> QED
  BY <1>1, <1>2, <1>3, <1>4, <1>5, <1>6, <1>7, <1>8, <1>9, <1>10 DEF Next, Record, Learn

\* The evidence of a draft that nobody edited, and the observations kept of a
\* pair, never exceed the pairs recorded since the last purge: not when a
\* purge falls between the two commits of RecordLearningPair, nor when a
\* recorder gives up between them.
THEOREM StoreBacked == Spec => []StoreIsBacked
<1>1. Init => BackedInv
  <2> SUFFICES ASSUME Init PROVE BackedInv
    OBVIOUS
  <2>1. drafts = {} /\ \A p \in Pair : seen[p] = 0 /\ InFlight(p) = {} /\ ObservationsOf(p) = {}
    BY StoreAssumption DEF Init, InFlight, ObservationsOf
  <2> QED
    BY <2>1, FS_EmptySet DEF BackedInv
<1>2. StoreInv /\ BackedInv /\ [Next]_vars => BackedInv'
  BY NextBacked
<1>3. StoreInv /\ BackedInv => StoreIsBacked
  <2> SUFFICES ASSUME TypeOK, BackedInv PROVE StoreIsBacked
    BY DEF StoreInv
  <2>1. ASSUME NEW d \in drafts, ~d.edited PROVE d.evidence <= seen[d.pair]
    <3>1. d.evidence \in Nat /\ d.pair \in Pair /\ seen[d.pair] \in Nat
      BY DEF TypeOK, Draft
    <3> QED
      BY <2>1, <3>1, InFlightFinite DEF BackedInv
  <2> QED
    BY <2>1 DEF StoreIsBacked, BackedInv, ObservationsOf
<1> QED
  BY <1>1, <1>2, <1>3, StoreInvariant, PTL DEF Spec
=============================================================================
