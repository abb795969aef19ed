---------------------------- MODULE OutcomeLabels ----------------------------
(***************************************************************************)
(* Delayed outcome labels: which revision of an event's label is known at  *)
(* a given time, the dataset built from what is known, and its temporal    *)
(* partition into the cohorts a model is fitted and evaluated on.  A label *)
(* is a record [event, revision, outcome, observed]; a label file is a set *)
(* of them.  Times are natural numbers.                                    *)
(***************************************************************************)
EXTENDS Naturals, FiniteSets

CONSTANTS
  Ingested, \* event -> ingestion time, the rows of the pinned feature table
  MinRows   \* least number of rows of a cohort, and of rows a metric is given for

ASSUME IngestedTimes == DOMAIN Ingested # {} /\ \A e \in DOMAIN Ingested : Ingested[e] \in Nat
ASSUME MinRowsPositive == MinRows \in Nat \ {0}

Events == DOMAIN Ingested
History(labels, e) == {l \in labels : l.event = e}

\* Revisions of an event are 1 .. n, observed in that order.
ValidRevisions(labels) ==
  \A e \in {l.event : l \in labels} :
    LET H == History(labels, e) IN
    /\ {l.revision : l \in H} = 1 .. Cardinality(H)
    /\ \A k, l \in H : k.revision < l.revision => k.observed <= l.observed

Causal(labels) == \A l \in labels : l.event \in Events => Ingested[l.event] <= l.observed

\* The highest revision of each event among those observed by asOf.
ResolveLabels(labels, asOf) ==
  {l \in labels : /\ l.observed <= asOf
                  /\ \A k \in History(labels, l.event) : k.observed <= asOf => k.revision <= l.revision}

\* Future labels of unknown events are let through until they are observed.
DatasetAccepted(labels, asOf) ==
  /\ ValidRevisions(labels) /\ Causal(labels)
  /\ \A l \in ResolveLabels(labels, asOf) : l.event \in Events /\ Ingested[l.event] <= asOf

Between(rows, from, to) == {l \in rows : from <= Ingested[l.event] /\ Ingested[l.event] < to}

\* Rows of the training period whose label came later are in no cohort.
Partition(rows, split) ==
  LET period == Between(rows, 0, split.trainEnd) IN
  [train      |-> {l \in period : l.observed <= split.trainEnd},
   delayed    |-> {l \in period : l.observed > split.trainEnd},
   validation |-> Between(rows, split.trainEnd, split.validationEnd),
   test       |-> Between(rows, split.validationEnd, split.testEnd)]

Supported(rows) == Cardinality(rows) >= MinRows /\ {l.outcome : l \in rows} = {"FRAUD", "LEGIT"}

SplitOrdered(split) == split.trainEnd < split.validationEnd /\ split.validationEnd < split.testEnd

\* A model: the label file, the time of its dataset, and the split it was trained with.
Cohorts(m) == Partition(ResolveLabels(m.labels, m.asOf), m.split)

Trained(m) ==
  /\ SplitOrdered(m.split) /\ m.split.testEnd <= m.asOf
  /\ DatasetAccepted(m.labels, m.asOf)
  /\ \A c \in {"train", "validation", "test"} : Supported(Cohorts(m)[c])

\* What a training run archives, and its candidate must reproduce: the
\* predictions of the labelled validation and test rows, not of the fitted ones.
Archived(cohorts) == UNION {{<<s, l.event>> : l \in cohorts[s]} : s \in {"validation", "test"}}
=============================================================================
