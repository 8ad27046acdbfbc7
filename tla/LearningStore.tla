---------------------------- MODULE LearningStore ----------------------------
(***************************************************************************)
(* The learning database, internal/localstate (store.go and rules.go), as  *)
(* the daemon's post-success handlers and the `solomon learn` command use  *)
(* it from different processes.                                            *)
(*                                                                         *)
(* Each SQL transaction is atomic (SQLite).  RecordLearningPair is two of  *)
(* them: the observation is committed before the draft's evidence, and the *)
(* request's deadline or the end of the daemon may come between.  Row      *)
(* identifiers are SQLite rowids: one above the largest in the table, so   *)
(* those of deleted rows come back.                                        *)
(***************************************************************************)
EXTENDS Integers, FiniteSets

CONSTANTS
  Pair,       \* (failed command, corrected command)
  Recorder,   \* post-success handlers that record a pair
  Idle,       \* what a handler records when it records nothing
  Threshold,  \* DraftEvidenceThreshold
  Retention,  \* learning_retention_days
  MaxId, MaxSeen, MaxTime \* bounds of the model

ASSUME StoreAssumption ==
  /\ Idle \notin Pair /\ IsFiniteSet(Recorder)
  /\ Threshold \in Nat /\ Threshold > 0 /\ Retention \in Nat
  /\ MaxId \in Nat /\ MaxSeen \in Nat /\ MaxTime \in Nat

VARIABLES
  now,          \* time in days
  observations, \* table observations
  drafts,       \* table learned_rule_drafts
  rules,        \* table learned_rules
  recording,    \* the pair whose evidence each handler has still to commit
  seen          \* history: pairs committed, or being recorded, since the last purge

vars == <<now, observations, drafts, rules, recording, seen>>

Id == 1 .. MaxId
RuleAction == {"off", "hint", "rewrite"}
\* edited is history: the row's text has been changed by the user.
Draft == [id : Id, pair : Pair, evidence : Nat \ {0}, edited : BOOLEAN]
Rule == [id : Id, draft : Id, action : RuleAction, enabled : BOOLEAN]

TypeOK ==
  /\ now \in Nat
  /\ observations \subseteq [pair : Pair, at : Nat, n : Nat]
  /\ drafts \subseteq Draft
  /\ rules \subseteq Rule
  /\ recording \in [Recorder -> Pair \cup {Idle}]
  /\ seen \in [Pair -> Nat]

Init ==
  /\ now = 0
  /\ observations = {} /\ drafts = {} /\ rules = {}
  /\ recording = [h \in Recorder |-> Idle]
  /\ seen = [p \in Pair |-> 0]

\* The identifiers an INSERT may use: one above those in the table.
Fresh(table) ==
  {n \in Id : (\A r \in table : r.id < n) /\ \A m \in Id : m < n => \E r \in table : r.id >= m}

Tick ==
  /\ now < MaxTime
  /\ now' = now + 1
  /\ UNCHANGED <<observations, drafts, rules, recording, seen>>

-----------------------------------------------------------------------------
(***************************************************************************)
(* The daemon.                                                             *)
(***************************************************************************)

\* RecordLearningPair's first commit.
RecordObservation(h, p) ==
  /\ recording[h] = Idle
  /\ seen[p] < MaxSeen
  /\ observations' = observations \cup {[pair |-> p, at |-> now, n |-> seen[p]]}
  /\ recording' = [recording EXCEPT ![h] = p]
  /\ seen' = [seen EXCEPT ![p] = @ + 1]
  /\ UNCHANGED <<now, drafts, rules>>

\* The draft with the text of pair p, if any.
DraftOf(p) == {d \in drafts : d.pair = p}

\* Its second transaction: one more piece of evidence for the draft.
CountEvidence(h) ==
  /\ \E d \in DraftOf(recording[h]) :
       drafts' = (drafts \ {d}) \cup {[d EXCEPT !.evidence = @ + 1]}
  /\ UNCHANGED <<now, observations, rules, seen>>

\* The same, for a pair without a draft.
InsertDraft(h) ==
  /\ DraftOf(recording[h]) = {}
  /\ \E n \in Fresh(drafts) :
       drafts' = drafts \cup {[id |-> n, pair |-> recording[h], evidence |-> 1, edited |-> FALSE]}
  /\ UNCHANGED <<now, observations, rules, seen>>

RecordEvidence(h) ==
  /\ recording[h] # Idle
  /\ CountEvidence(h) \/ InsertDraft(h)
  /\ recording' = [recording EXCEPT ![h] = Idle]

\* The deadline, an error or the end of the process comes first: the
\* observation stays without its evidence.
Abandon(h) ==
  /\ recording[h] # Idle
  /\ recording' = [recording EXCEPT ![h] = Idle]
  /\ UNCHANGED <<now, observations, drafts, rules, seen>>

\* `daemon serve` calls DeleteObservationsBefore, before it finds out whether
\* another daemon is running.
Serve ==
  /\ observations' = {o \in observations : o.at >= now - Retention}
  /\ UNCHANGED <<now, drafts, rules, recording, seen>>

-----------------------------------------------------------------------------
(***************************************************************************)
(* The learn command.                                                      *)
(***************************************************************************)

\* Mutant: drafts need no evidence.
Reviewable_Any(d) == TRUE

\* What ListReviewableDrafts shows and ActivateDraft accepts.
Reviewable(d) == d.evidence >= Threshold

\* INSERT ... ON CONFLICT(draft_id) DO UPDATE.
ActivateDraft(d, action) ==
  /\ d \in drafts /\ Reviewable(d)
  /\ \/ \E r \in rules :
          /\ r.draft = d.id
          /\ rules' = (rules \ {r}) \cup {[r EXCEPT !.action = action, !.enabled = TRUE]}
     \/ /\ \A r \in rules : r.draft # d.id
        /\ \E n \in Fresh(rules) :
             rules' = rules \cup {[id |-> n, draft |-> d.id, action |-> action, enabled |-> TRUE]}
  /\ UNCHANGED <<now, observations, drafts, recording, seen>>

\* Mutant: the UNIQUE constraint is missing.
TextIsFree_Always(d, p) == TRUE

\* UNIQUE(normalized_failure, normalized_correction).
TextIsFree(d, p) == DraftOf(p) \subseteq {d}

\* The text changes; the evidence of the old text stays.
UpdateDraft(d, p) ==
  /\ d \in drafts /\ TextIsFree(d, p)
  /\ drafts' = (drafts \ {d}) \cup {[d EXCEPT !.pair = p, !.edited = TRUE]}
  /\ UNCHANGED <<now, observations, rules, recording, seen>>

SetRuleAction(r, action) ==
  /\ r \in rules
  /\ rules' = (rules \ {r}) \cup {[r EXCEPT !.action = action]}
  /\ UNCHANGED <<now, observations, drafts, recording, seen>>

SetRuleEnabled(r, enabled) ==
  /\ r \in rules
  /\ rules' = (rules \ {r}) \cup {[r EXCEPT !.enabled = enabled]}
  /\ UNCHANGED <<now, observations, drafts, recording, seen>>

DeleteRule(r) ==
  /\ r \in rules
  /\ rules' = rules \ {r}
  /\ UNCHANGED <<now, observations, drafts, recording, seen>>

\* Mutant: drafts with an active rule survive.
purgeDrafts_KeepActive == {d \in drafts : \E r \in rules : r.draft = d.id}

\* DELETE FROM learned_rule_drafts.
purgeDrafts == {}

\* One transaction over the three tables.
PurgeLearning ==
  /\ rules' = {} /\ drafts' = purgeDrafts /\ observations' = {}
  /\ seen' = [p \in Pair |-> Cardinality({h \in Recorder : recording[h] = p})]
  /\ UNCHANGED <<now, recording>>

-----------------------------------------------------------------------------
Record(h) ==
  (\E p \in Pair : RecordObservation(h, p)) \/ RecordEvidence(h) \/ Abandon(h)

Learn ==
  \/ \E d \in drafts, action \in RuleAction : ActivateDraft(d, action)
  \/ \E d \in drafts, p \in Pair : UpdateDraft(d, p)
  \/ \E r \in rules, action \in RuleAction : SetRuleAction(r, action)
  \/ \E r \in rules, enabled \in BOOLEAN : SetRuleEnabled(r, enabled)
  \/ \E r \in rules : DeleteRule(r)
  \/ PurgeLearning

Next == (\E h \in Recorder : Record(h)) \/ Learn \/ Serve \/ Tick

Spec == Init /\ [][Next]_vars

-----------------------------------------------------------------------------
(***************************************************************************)
(* Properties.                                                             *)
(***************************************************************************)

\* Every rule the daemon may load belongs to a draft with enough evidence,
\* through edits, upserts and a purge between any two other steps.
RulesAreEarned ==
  \A r \in rules : \E d \in drafts : d.id = r.draft /\ d.evidence >= Threshold

\* One draft per text, one rule per draft, and identifiers tell rows apart
\* although those of deleted rows are used again.
KeysAreUnique ==
  /\ \A d, e \in drafts : d.id = e.id \/ d.pair = e.pair => d = e
  /\ \A r, s \in rules : r.id = s.id \/ r.draft = s.draft => r = s

\* The evidence of a draft nobody edited is backed by as many recorded pairs
\* since the last purge (one being recorded during the purge included), and
\* so are the observations: a purge forgets, and no pair counts twice.
StoreIsBacked ==
  /\ \A d \in drafts : ~d.edited => d.evidence <= seen[d.pair]
  /\ \A p \in Pair : Cardinality({o \in observations : o.pair = p}) <= seen[p]
=============================================================================
