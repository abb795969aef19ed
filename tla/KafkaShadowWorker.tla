-------------------------- MODULE KafkaShadowWorker --------------------------
(***************************************************************************)
(* The worker that scores the ready events of one sealed inbox.  Several   *)
(* commands may run at once, with different registered versions of the     *)
(* candidate or different windows, and be killed anywhere.  Each takes     *)
(* what is durable from one listing at its start and then claims its       *)
(* results, in the order of the source, by an exclusive link; when all     *)
(* have one, it compares them with a reference ledger and publishes a run. *)
(* A result's name holds neither the window nor the registered version.    *)
(***************************************************************************)
EXTENDS LocalProcesses, Naturals, Sequences, FiniteSets, SequencesExt, Functions

CONSTANTS
  Inboxes,    \* sealed inboxes: [events, receipts, ranges, physical, duplicates]
  Commands,   \* command lines: [base, reference, maximum], where the base is the
              \* registered version and the window, what all of its results hold,
              \* maximum bounds its attempts, and the reference is a ledger, of
              \* [window, events, far]; far: events with another probability
  Visible,    \* event of the source -> the Delta version that brought it
  Outside,    \* window -> events that are not in it
  Invalid,    \* events whose row the candidate's input contract refuses
  Workers,
  MaxFailures \* bound: inferences that raise

Statuses == {"SCORED", "OUT_OF_SCOPE", "INPUT_REJECTED", "INFERENCE_FAILED"}

VARIABLES
  inbox,   \* the sealed inbox
  line,    \* process -> the command line it is run with, time and again
  results, \* event -> [base, status], for the events with a durable result
  runs,    \* <<base, reference>> -> files written in the run's directory
  work,    \* process -> the state of its command, or None
  failures \* inferences that raised

durable == <<inbox, line, results, runs>>
workerVars == <<inbox, line, results, runs, work, failures, kills>>

Events == ToSet(inbox.events)

\* _source_rows: the events in the order of the source, not of the topic.
InOrder(events) == SetToSortSeq(events, LAMBDA d, e : Visible[d] < Visible[e])
Queue == InOrder(Events)
RunFiles == 4

-----------------------------------------------------------------------------
\* The receipt of every event, and none else, each with its first position.
ReceiptsComplete(i) ==
  /\ DOMAIN i.receipts = ToSet(i.events)
  /\ \A e \in DOMAIN i.receipts : i.receipts[e] \in (DOMAIN i.ranges) \X Nat

\* The group has read what the broker holds, all of it events of the batch.
Reconciled(i) ==
  /\ \A p \in DOMAIN i.ranges :
       i.ranges[p].beginning <= i.ranges[p].end /\ i.ranges[p].end = i.ranges[p].committed
  /\ LET physical == FoldFunction(LAMBDA r, n : n + (r.end - r.beginning), 0, i.ranges)
     IN physical = i.physical /\ physical - i.duplicates = Len(i.events)

InspectInbox(i) ==
  /\ i.events # <<>> /\ IsInjective(i.events)
  /\ ReceiptsComplete(i) /\ Reconciled(i)

\* WorkerConfig.__post_init__: an attempt at least.
Configured == {c \in Commands : c.maximum \in Nat \ {0}}

WorkerInit ==
  /\ inbox \in Inboxes /\ line \in [Workers -> Configured]
  /\ results = <<>> /\ runs = <<>>
  /\ work = [w \in Workers |-> None]
  /\ failures = 0 /\ kills = 0

At(w, at) == work[w] # None /\ work[w].at = at
Go(w, at) == work' = [work EXCEPT ![w].at = at]
End(w) == work' = [work EXCEPT ![w] = None]

\* The evidence is checked, then the durable results are listed, once.
Start(w) ==
  /\ work[w] = None
  /\ InspectInbox(inbox) /\ Events = DOMAIN Visible
  /\ work' = [work EXCEPT ![w] =
       [at |-> "next", next |-> 1, prior |-> results, attempts |-> 0, status |-> None]]
  /\ UNCHANGED <<durable, failures, kills>>

\* evaluate_one: the scope comes first, and a refused row reaches no model.
Evaluations(base, e) ==
  IF e \in Outside[base.window] THEN {"OUT_OF_SCOPE"}
  ELSE IF e \in Invalid THEN {"INPUT_REJECTED"}
  ELSE {"SCORED"} \cup (IF failures < MaxFailures THEN {"INFERENCE_FAILED"} ELSE {})

\* Mutation: a result that is there is skipped whatever it was made for.
NextRequestUnchecked(w) ==
  /\ At(w, "next")
  /\ LET c == work[w] q == Queue e == q[c.next] IN
     IF c.next > Len(q)
     THEN Go(w, "reconcile") /\ UNCHANGED failures
     ELSE IF e \in DOMAIN c.prior
     THEN work' = [work EXCEPT ![w].next = @ + 1] /\ UNCHANGED failures
     ELSE IF c.attempts >= line[w].maximum
     THEN Go(w, "reconcile") /\ UNCHANGED failures
     ELSE \E s \in Evaluations(line[w].base, e) :
       /\ work' = [work EXCEPT ![w].at = "claim", ![w].status = s]
       /\ failures' = IF s = "INFERENCE_FAILED" THEN failures + 1 ELSE failures
  /\ UNCHANGED <<durable, kills>>

\* The next request: a result of the listing must be of the same base and is
\* skipped; one without a result is evaluated, up to maximum_attempts.
NextRequest(w) ==
  /\ At(w, "next")
  /\ LET c == work[w] q == Queue e == q[c.next] IN
     IF c.next > Len(q)
     THEN Go(w, "reconcile") /\ UNCHANGED failures
     ELSE IF e \in DOMAIN c.prior
     THEN /\ UNCHANGED failures
          /\ IF c.prior[e].base # line[w].base THEN End(w)
             ELSE work' = [work EXCEPT ![w].next = @ + 1]
     ELSE IF c.attempts >= line[w].maximum
     THEN Go(w, "reconcile") /\ UNCHANGED failures
     ELSE \E s \in Evaluations(line[w].base, e) :
       /\ work' = [work EXCEPT ![w].at = "claim", ![w].status = s]
       /\ failures' = IF s = "INFERENCE_FAILED" THEN failures + 1 ELSE failures
  /\ UNCHANGED <<durable, kills>>

Made(w) == [base |-> line[w].base, status |-> work[w].status]
Claimed(w) == [work EXCEPT ![w].at = "next", ![w].next = @ + 1, ![w].attempts = @ + 1, ![w].status = None]

\* Mutation: the file is written in place.
ClaimReplacing(w) ==
  /\ At(w, "claim")
  /\ LET e == Queue[work[w].next]
     IN results' = [x \in DOMAIN results \cup {e} |-> IF x = e THEN Made(w) ELSE results[x]]
  /\ work' = Claimed(w)
  /\ UNCHANGED <<inbox, line, runs, failures, kills>>

\* The link is exclusive; whoever finds a result must find its own.
Claim(w) ==
  /\ At(w, "claim")
  /\ LET e == Queue[work[w].next] IN
     IF e \in DOMAIN results
     THEN /\ UNCHANGED results
          /\ IF results[e] = Made(w) THEN work' = Claimed(w) ELSE End(w)
     ELSE /\ results' = [x \in DOMAIN results \cup {e} |-> IF x = e THEN Made(w) ELSE results[x]]
          /\ work' = Claimed(w)
  /\ UNCHANGED <<inbox, line, runs, failures, kills>>

\* compare_rows: the scored events are those of the reference, and as scored.
Parity(c, have) ==
  /\ c.reference.window = c.base.window
  /\ {e \in DOMAIN have : have[e].status = "SCORED"} = c.reference.events
  /\ c.reference.far \cap c.reference.events = {}

\* Mutation: requests without a result are not missed.
ReconcileUnresolved(w) ==
  /\ At(w, "reconcile")
  /\ IF \/ \E e \in DOMAIN results : results[e].status \in {"INPUT_REJECTED", "INFERENCE_FAILED"}
        \/ ~Parity(line[w], results)
     THEN End(w)
     ELSE Go(w, "publish")
  /\ UNCHANGED <<durable, failures, kills>>

\* The durable results are listed afresh: INCOMPLETE, DIAGNOSTIC_ONLY, no
\* parity, or a run to publish.
Reconcile(w) ==
  /\ At(w, "reconcile")
  /\ IF \/ DOMAIN results # Events
        \/ \E e \in Events : results[e].status \in {"INPUT_REJECTED", "INFERENCE_FAILED"}
        \/ ~Parity(line[w], results)
     THEN End(w)
     ELSE Go(w, "publish")
  /\ UNCHANGED <<durable, failures, kills>>

Run(w) == <<line[w].base, line[w].reference>>
Written(run) == IF run \in DOMAIN runs THEN runs[run] ELSE None

\* A run that is there is inspected, and must be complete; mkdir is exclusive.
OpenRun(w) ==
  /\ At(w, "publish")
  /\ IF Run(w) \in DOMAIN runs
     THEN End(w) /\ UNCHANGED runs
     ELSE /\ runs' = [r \in DOMAIN runs \cup {Run(w)} |-> IF r = Run(w) THEN 0 ELSE runs[r]]
          /\ Go(w, "write")
  /\ UNCHANGED <<inbox, line, results, failures, kills>>

WriteRun(w) ==
  /\ At(w, "write")
  /\ runs' = [runs EXCEPT ![Run(w)] = @ + 1]
  /\ IF runs'[Run(w)] = RunFiles THEN End(w) ELSE UNCHANGED work
  /\ UNCHANGED <<inbox, line, results, failures, kills>>

\* A temporary file that a kill leaves is in nobody's way: results are *.json.
Kill(w) ==
  /\ work[w] # None /\ kills < MaxKills
  /\ End(w) /\ kills' = kills + 1
  /\ UNCHANGED <<durable, failures>>

Step(w) == NextRequest(w) \/ Claim(w) \/ Reconcile(w) \/ OpenRun(w) \/ WriteRun(w)

WorkerNext == \E w \in Workers : Start(w) \/ Step(w) \/ Kill(w)

WorkerSpec == WorkerInit /\ [][WorkerNext]_workerVars

-----------------------------------------------------------------------------
\* Results are made for one registered version and one window, although their
\* names would let two commands fill one namespace between them: each command
\* meets the first result of the order before it adds one of its own.
OneBase == \A e, f \in DOMAIN results : results[e].base = results[f].base

\* A durable result is never another one later.
ResultsNeverReplaced ==
  [][\A e \in DOMAIN results : e \in DOMAIN results' /\ results'[e] = results[e]]_results

\* A complete run vouches for the whole inbox: every event has a result of the
\* run's base without a failure, and those in scope are the reference's.
RunsVouch ==
  \A run \in DOMAIN runs : Written(run) = RunFiles =>
    /\ Events \subseteq DOMAIN results
    /\ \A e \in Events : results[e].base = run[1] /\ results[e].status \in {"SCORED", "OUT_OF_SCOPE"}
    /\ {e \in Events : results[e].status = "SCORED"} = run[2].events

\* Commands run again and again resolve the whole inbox, however few attempts
\* each may make, and although some are of a base whose commands all fail.
Resolved == InspectInbox(inbox) /\ Events = DOMAIN Visible => <>(DOMAIN results = Events)
=============================================================================
