-------------------------- MODULE OfflineMonitoring --------------------------
(***************************************************************************)
(* The offline monitoring of registered models: prediction ledgers, the    *)
(* evaluation of their delayed outcomes, ledgers of provider feedback and  *)
(* their evaluation, distribution snapshots, and investigation packets     *)
(* over all of them.  Every artifact is a directory named by a hash of     *)
(* what it is computed from, so here an artifact is that record itself and *)
(* its content is a function of it.  A command verifies the artifacts it   *)
(* reads, claims the directory, writes it, and ends; there is no lock.     *)
(***************************************************************************)
EXTENDS ProviderFeedback, SequencesExt

CONSTANTS
  Model,     \* registered and assessed model -> [labels, asOf, split] it was trained with
  LabelFile, \* label file of a corpus -> its labels
  Batch,     \* feedback batch -> its records
  Intervals, \* [from, to] that commands are given, of scoring and of drift windows
  Cutoffs,   \* evaluation times that commands are given
  Procs,     \* processes that run commands
  MaxOf,        \* bound: kind of artifact -> directories of it ever claimed
  MaxArtifacts, \* bound: directories ever claimed
  MaxAbandoned  \* bound: directories left incomplete

ASSUME ModelsTrained == \A m \in DOMAIN Model : Trained(Model[m])
ASSUME BoundsNat ==
  /\ MaxArtifacts \in Nat /\ MaxAbandoned \in Nat
  /\ \A k \in DOMAIN MaxOf : MaxOf[k] \in Nat

\* Times are numbers, and a batch of feedback is a file.
ASSUME TimesNat ==
  /\ \A w \in Intervals : w.from \in Nat /\ w.to \in Nat
  /\ Cutoffs \subseteq Nat
  /\ \A m \in DOMAIN Model :
       /\ Model[m].split.trainEnd \in Nat
       /\ \A k \in Model[m].labels : k.observed \in Nat
  /\ \A f \in DOMAIN LabelFile : \A k \in LabelFile[f] : k.observed \in Nat
ASSUME FilesFinite ==
  /\ \A f \in DOMAIN LabelFile : IsFiniteSet(LabelFile[f])
  /\ \A n \in DOMAIN Batch : IsFiniteSet(Batch[n]) /\ \A r \in Batch[n] : r.received \in Nat

\* No artifact.
None == [kind |-> "none"]

VARIABLES
  claimed,   \* artifacts whose directory exists
  published, \* those that are complete
  writing    \* process -> artifact it is writing

vars == <<claimed, published, writing>>

Init == claimed = {} /\ published = {} /\ writing = [p \in Procs |-> None]

-----------------------------------------------------------------------------
(* What artifacts contain.                                                 *)

In(e, w) == w.from <= Ingested[e] /\ Ingested[e] < w.to

\* A ledger: the predictions of a model for the events ingested in a window.
Ledger(m, w) == [kind |-> "ledger", model |-> m, window |-> w]
Scored(l) == {e \in Events : In(e, l.window)}
TrainEnd(m) == Model[m].split.trainEnd
CohortsOf == [m \in DOMAIN Model |-> Cohorts(Model[m])]

\* A monitoring snapshot: what a label file shows of a ledger at asOf.
Outcomes(l, file, asOf) == [kind |-> "outcomes", ledger |-> l, file |-> file, asOf |-> asOf]
Known(s) == {l \in ResolveLabels(LabelFile[s.file], s.asOf) : l.event \in Scored(s.ledger)}

\* A feedback ledger: its chain of batches, the base ledger being all but the last.
Feedback(batches) == [kind |-> "feedback", batches |-> batches]
RecordsIn(f) == UNION {Batch[f.batches[i]] : i \in DOMAIN f.batches}

Evaluation(l, f, asOf) == [kind |-> "evaluation", ledger |-> l, feedback |-> f, asOf |-> asOf]
ConfirmedIn(v) == Confirmed(RecordsIn(v.feedback), v.asOf, Scored(v.ledger))
CoverageIn(v) == Coverage(RecordsIn(v.feedback), v.asOf, Scored(v.ledger))

\* A drift snapshot: two populations [from, to) of one ledger.
Drift(l, reference, comparison) ==
  [kind |-> "drift", ledger |-> l, reference |-> reference, comparison |-> comparison]
Cohort(l, w) == {e \in Scored(l) : In(e, w)}

\* The assessment dossier of a model, published elsewhere.
Dossier(m) == [kind |-> "dossier", model |-> m]

Packet(d, earlier, later, dossier) ==
  [kind |-> "packet", drift |-> d, earlier |-> earlier, later |-> later, dossier |-> dossier]

\* The findings of a packet, each with the artifact it cites.
Findings(k) ==
  {<<c, k.drift>> : c \in {"missingness", "numeric", "categorical", "score", "currency"}}
    \cup (IF k.earlier = None
          THEN {<<"label evidence absent", k.drift>>}
          ELSE {<<"label coverage", k.earlier>>, <<"label coverage", k.later>>,
                <<"label revisions", k.earlier>>, <<"label revisions", k.later>>})
    \cup (IF k.dossier = None
          THEN {<<"dossier absent", k.drift>>}
          ELSE {<<"research only", k.dossier>>})

Abandoned == claimed \ (published \cup {writing[p] : p \in Procs})
Of(kind) == {a \in claimed : a.kind = kind}

-----------------------------------------------------------------------------
\* Mutation: an incomplete directory may be claimed again.
ClaimAgain(p, a) ==
  /\ writing[p] = None
  /\ a \notin published
  /\ Cardinality(Of(a.kind)) < MaxOf[a.kind] /\ Cardinality(claimed) < MaxArtifacts
  /\ claimed' = claimed \cup {a}
  /\ writing' = [writing EXCEPT ![p] = a]
  /\ UNCHANGED published

\* The directory is created exclusively; a command that finds it there inspects
\* it and ends, changing nothing.
Claim(p, a) ==
  /\ writing[p] = None
  /\ a \notin claimed
  /\ Cardinality(Of(a.kind)) < MaxOf[a.kind] /\ Cardinality(claimed) < MaxArtifacts
  /\ claimed' = claimed \cup {a}
  /\ writing' = [writing EXCEPT ![p] = a]
  /\ UNCHANGED published

\* Mutation: inspection does not ask for the complete set of files.
InspectedClaimed(a) == a \in claimed

\* An inspection checks files, hashes and identity, and with them completeness.
Inspected(a) == a \in published

SplitOf(split, e) ==
  CASE Ingested[e] < split.trainEnd      -> "train"
    [] Ingested[e] >= split.testEnd      -> "outside"
    [] Ingested[e] < split.validationEnd -> "validation"
    [] OTHER                             -> "test"

\* _archived_comparison: every archived prediction of a scored event is found again.
ArchiveMatched(l) ==
  LET A == Archived(CohortsOf[l.model]) IN
  {<<SplitOf(Model[l.model].split, e), e>> : e \in Scored(l)} \cap A = {k \in A : k[2] \in Scored(l)}

BuildLedger(p, m, w) ==
  LET l == Ledger(m, w) IN
  /\ Claim(p, l)
  /\ w.from < w.to /\ TrainEnd(m) <= w.from
  /\ Scored(l) # {} /\ ArchiveMatched(l)

\* All labels must be of events of the corpus, also those not yet observed.
EvaluateOutcomes(p, l, file, asOf) ==
  /\ Claim(p, Outcomes(l, file, asOf))
  /\ Inspected(l) /\ l.window.to <= asOf
  /\ ValidRevisions(LabelFile[file]) /\ Causal(LabelFile[file])
  /\ {k.event : k \in LabelFile[file]} \subseteq Events

\* One bad record refuses the whole batch.
BuildFeedback(p, base, batch) ==
  LET f == Feedback(Append(base, batch)) IN
  /\ Claim(p, f)
  /\ base # <<>> => Inspected(Feedback(base))
  /\ Validated(RecordsIn(f))

\* Providers that disagree about one scored event refuse the whole evaluation.
EvaluateFeedback(p, l, f, asOf) ==
  /\ Claim(p, Evaluation(l, f, asOf))
  /\ Inspected(l) /\ Inspected(f) /\ l.window.to <= asOf
  /\ \A e \in Scored(l) : State(RecordsIn(f), asOf, e) # "AMBIGUOUS"

Windows(l, r, c) ==
  l.window.from <= r.from /\ r.from < r.to /\ r.to <= c.from /\ c.from < c.to /\ c.to <= l.window.to

BuildDrift(p, l, r, c) ==
  /\ Claim(p, Drift(l, r, c))
  /\ Inspected(l)
  /\ Windows(l, r, c)
  /\ Cohort(l, r) # {} /\ Cohort(l, c) # {}

\* compare_snapshots refuses other ledgers, other orders, and labels lost.
Comparable(s, t) ==
  /\ s.ledger = t.ledger
  /\ s.asOf <= t.asOf
  /\ {l.event : l \in Known(s)} \subseteq {l.event : l \in Known(t)}

\* Mutation: the snapshots are only compared with each other.
LoadEvidenceUnbound(d, earlier, later, dossier) ==
  /\ Inspected(d)
  /\ (earlier = None) = (later = None)
  /\ earlier # None => Inspected(earlier) /\ Inspected(later) /\ Comparable(earlier, later)
  /\ dossier # None => dossier.model = d.ledger.model

LoadEvidence(d, earlier, later, dossier) ==
  /\ Inspected(d) /\ Inspected(d.ledger)
  /\ (earlier = None) = (later = None)
  /\ earlier # None =>
       /\ Inspected(earlier) /\ Inspected(later)
       /\ earlier.ledger = d.ledger /\ later.ledger = d.ledger
       /\ Comparable(earlier, later)
  /\ dossier # None => dossier.model = d.ledger.model

BuildPacket(p, d, earlier, later, dossier) ==
  /\ Claim(p, Packet(d, earlier, later, dossier))
  /\ LoadEvidence(d, earlier, later, dossier)

Write(p) ==
  /\ writing[p] # None
  /\ published' = published \cup {writing[p]}
  /\ writing' = [writing EXCEPT ![p] = None]
  /\ UNCHANGED claimed

\* A kill or an I/O error: the directory stays, incomplete.
Stop(p) ==
  /\ writing[p] # None /\ Cardinality(Abandoned) < MaxAbandoned
  /\ writing' = [writing EXCEPT ![p] = None]
  /\ UNCHANGED <<claimed, published>>

Next == \E p \in Procs :
  \/ \E m \in DOMAIN Model, w \in Intervals : BuildLedger(p, m, w)
  \/ \E l \in Of("ledger"), f \in DOMAIN LabelFile, t \in Cutoffs : EvaluateOutcomes(p, l, f, t)
  \/ \E b \in {<<>>} \cup {f.batches : f \in Of("feedback")}, n \in DOMAIN Batch : BuildFeedback(p, b, n)
  \/ \E l \in Of("ledger"), f \in Of("feedback"), t \in Cutoffs : EvaluateFeedback(p, l, f, t)
  \/ \E l \in Of("ledger"), r, c \in Intervals : BuildDrift(p, l, r, c)
  \/ \E d \in Of("drift"), s, t \in {None} \cup Of("outcomes"), k \in {None} \cup {Dossier(m) : m \in DOMAIN Model} :
       BuildPacket(p, d, s, t, k)
  \/ Write(p)
  \/ Stop(p)

Spec == Init /\ [][Next]_vars

-----------------------------------------------------------------------------
Kinds == {"ledger", "outcomes", "feedback", "evaluation", "drift", "packet", "plan", "execution", "parity"}

TypeOK ==
  /\ \A a \in claimed : a.kind \in Kinds
  /\ published \subseteq claimed
  /\ writing \in [Procs -> (claimed \ published) \cup {None}]
  /\ \A p, q \in Procs : writing[p] = writing[q] => p = q \/ writing[p] = None

\* What was read to make an artifact (the last three kinds are ShadowReplay's).
Sources(a) ==
  CASE a.kind = "ledger"     -> {}
    [] a.kind = "outcomes"   -> {a.ledger}
    [] a.kind = "feedback"   -> IF Len(a.batches) = 1 THEN {} ELSE {Feedback(Front(a.batches))}
    [] a.kind = "evaluation" -> {a.ledger, a.feedback}
    [] a.kind = "drift"      -> {a.ledger}
    [] a.kind = "packet"     -> {a.drift, a.earlier, a.later} \ {None}
    [] a.kind = "plan"       -> {}
    [] a.kind = "execution"  -> {a.plan}
    [] a.kind = "parity"     -> {a.execution, a.ledger}

\* inspect_*: every directory has one writer, and nothing is ever built on one
\* that was left incomplete.
SourcesComplete == TypeOK /\ \A a \in claimed : Sources(a) \subseteq published

\* partition_rows and build_ledger: no event a model was fitted on is scored
\* with it, and all it was fitted on was known before the first scored event.
TrainedOnThePast ==
  \A l \in Of("ledger") : \A r \in CohortsOf[l.model].train :
    r.event \notin Scored(l) /\ \A e \in Scored(l) : r.observed <= Ingested[e]

\* compare_snapshots does not refuse two snapshots of a ledger when time and
\* label file only moved on: a label once known stays known, in the same or a
\* later revision, and changes only by a new revision.
LabelsMature ==
  \A s, t \in Of("outcomes") :
    s.ledger = t.ledger /\ s.asOf <= t.asOf /\ LabelFile[s.file] \subseteq LabelFile[t.file] =>
      /\ Comparable(s, t)
      /\ \A k \in Known(s), l \in Known(t) :
           k.event = l.event => k.revision < l.revision \/ k = l

\* "A later retraction removes eligibility at later cutoffs, without changing
\* earlier snapshots": at asOf a ledger that only adds records received later
\* selects the same revisions and confirms the same outcomes.  It may tell more
\* of what has no current revision, and nothing else: an event without a case
\* may have one that is not yet observed, so only these two are counted anew.
FeedbackPastStable ==
  \A v, w \in Of("evaluation") :
    /\ v.ledger = w.ledger /\ v.asOf = w.asOf
    /\ RecordsIn(v.feedback) \subseteq RecordsIn(w.feedback)
    /\ \A r \in RecordsIn(w.feedback) \ RecordsIn(v.feedback) : v.asOf < r.received
    => LET R == RecordsIn(v.feedback) Q == RecordsIn(w.feedback) IN
       /\ Selected(Q, v.asOf) = Selected(R, v.asOf) /\ ConfirmedIn(w) = ConfirmedIn(v)
       /\ \A e \in Scored(v.ledger) :
            /\ CaseCount(R, e) <= CaseCount(Q, e)
            /\ \/ State(Q, v.asOf, e) = State(R, v.asOf, e)
               \/ State(R, v.asOf, e) = "NO_CASE" /\ State(Q, v.asOf, e) = "NOT_YET_OBSERVED"
       /\ \A s \in States \ {"NO_CASE", "NOT_YET_OBSERVED"} : CoverageIn(w)[s] = CoverageIn(v)[s]

\* What is evaluated as of a time is what was known then, whatever came later.
PointInTime == TrainedOnThePast /\ LabelsMature /\ FeedbackPastStable

\* build_feedback_ledger: over any chain of batches, in any order and with
\* deliveries repeated, the revisions of a case stay contiguous, of one event,
\* and each delivered under one identity.
FeedbackHistories ==
  \A f \in Of("feedback") : LET R == RecordsIn(f) IN
    /\ \A r \in R : \A n \in 1 .. r.revision :
         Cardinality({s \in R : Case(s) = Case(r) /\ s.revision = n /\ s.event = r.event}) = 1
    /\ \A r, s \in R : r.provider = s.provider /\ r.id = s.id => r = s

\* A packet compares disjoint populations of one ledger, earlier ones with later
\* ones, with label evidence of that ledger only, and cites nothing else.
PacketCoherent ==
  \A k \in Of("packet") :
    LET l == k.drift.ledger IN
    /\ \A d \in Cohort(l, k.drift.reference), e \in Cohort(l, k.drift.comparison) : Ingested[d] < Ingested[e]
    /\ \A f \in Findings(k) : f[2] = k.drift \/ f[2] = Dossier(l.model) \/ (f[2].kind = "outcomes" /\ f[2].ledger = l)

\* Evidence that is put together belongs together.
EvidenceCoherent == FeedbackHistories /\ PacketCoherent

\* What is published is never withdrawn, and what was abandoned is never completed.
NothingCompletedLater == [][published \subseteq published' /\ Abandoned \subseteq Abandoned']_vars
=============================================================================
