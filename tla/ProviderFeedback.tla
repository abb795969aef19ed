--------------------------- MODULE ProviderFeedback ---------------------------
(***************************************************************************)
(* Feedback of case providers.  A record is one delivery of one revision   *)
(* of a case: [provider, id, case, revision, event, status, updated,       *)
(* received], about an event of the same feature table.  A ledger holds    *)
(* the records of a chain of batches; at a time asOf a case shows the last *)
(* revision all of whose predecessors had been received by then.           *)
(***************************************************************************)
EXTENDS OutcomeLabels, Sequences, FiniteSetsExt

Statuses == {"PENDING", "CONFIRMED_FRAUD", "CONFIRMED_LEGIT", "RETRACTED"}

WellFormed(r) ==
  /\ r.status \in Statuses
  /\ r.revision \in Nat \ {0}
  /\ r.updated <= r.received

Case(r) == <<r.provider, r.case>>
CasesOf(records) == {Case(r) : r \in records}
CaseHistory(records, c) == {r \in records : Case(r) = c}

\* A repeated delivery of an equal record counts once.
Validated(records) ==
  /\ \A r \in records : WellFormed(r) /\ r.event \in Events /\ Ingested[r.event] <= r.received
  /\ \A r, s \in records :
       \/ r = s
       \/ <<r.provider, r.id>> # <<s.provider, s.id>> /\ <<Case(r), r.revision>> # <<Case(s), s.revision>>
  /\ \A c \in CasesOf(records) :
       LET H == CaseHistory(records, c) IN
       /\ {r.revision : r \in H} = 1 .. Cardinality(H)
       /\ Cardinality({r.event : r \in H}) = 1

Predecessors(records, r) == {s \in CaseHistory(records, Case(r)) : s.revision <= r.revision}

\* Mutation: a revision counts from when its provider made it.
AvailableAtUpdated(records, r) == Max({s.updated : s \in Predecessors(records, r)})

\* effective_available_at: once it and all its predecessors are received.
AvailableAt(records, r) == Max({s.received : s \in Predecessors(records, r)})

\* The selected revision of each case, where there is one.
Selected(records, asOf) ==
  {r \in records : /\ AvailableAt(records, r) <= asOf
                   /\ \A s \in CaseHistory(records, Case(r)) :
                        AvailableAt(records, s) <= asOf => s.revision <= r.revision}

Current(records, asOf, e) == {r.status : r \in {s \in Selected(records, asOf) : s.event = e}}

\* Every case about e that the ledger holds counts, also one received after asOf.
CaseCount(records, e) == Cardinality(CasesOf({r \in records : r.event = e}))

States == {"AMBIGUOUS", "FRAUD", "LEGIT", "RETRACTED", "PENDING", "NOT_YET_OBSERVED", "NO_CASE"}

\* What the providers' cases say together about an event; one without a current
\* revision has cases that are not yet observed, or none.
State(records, asOf, e) ==
  LET current == Current(records, asOf, e) IN
  IF {"CONFIRMED_FRAUD", "CONFIRMED_LEGIT"} \subseteq current THEN "AMBIGUOUS"
  ELSE IF "CONFIRMED_FRAUD" \in current THEN "FRAUD"
  ELSE IF "CONFIRMED_LEGIT" \in current THEN "LEGIT"
  ELSE IF "RETRACTED" \in current THEN "RETRACTED"
  ELSE IF "PENDING" \in current THEN "PENDING"
  ELSE IF CaseCount(records, e) > 0 THEN "NOT_YET_OBSERVED" ELSE "NO_CASE"

\* Pending, retracted and unknown are never an outcome.
Confirmed(records, asOf, events) ==
  {[event |-> e, outcome |-> State(records, asOf, e)]
     : e \in {d \in events : State(records, asOf, d) \in {"FRAUD", "LEGIT"}}}

\* The number of events in each state.
Coverage(records, asOf, events) ==
  [s \in States |-> Cardinality({e \in events : State(records, asOf, e) = s})]
=============================================================================
