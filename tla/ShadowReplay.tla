----------------------------- MODULE ShadowReplay -----------------------------
(***************************************************************************)
(* The local replay of a registered model: a plan orders the requests of a *)
(* window of the fixed feature source, an execution gives each of them one *)
(* terminal outcome, and a parity certificate compares an execution with a *)
(* prediction ledger.  Each is an artifact like those of OfflineMonitoring *)
(* but the outcomes are no part of the name of an execution: of two        *)
(* commands that execute a plan, the first to make the directory decides.  *)
(***************************************************************************)
EXTENDS OfflineMonitoring

CONSTANTS
  Refused,     \* events whose row the input contract refuses
  ReplayWindows, \* [from, to] that plans are given
  Bounds,      \* values given for maximum
  Deliverable, \* requests that deliveries are tried with
  MaxDeliveries \* bound: of those

VARIABLES
  executed,  \* execution -> what RunDeliveries gave the command that claimed it
  deliveries \* requests delivered, to try RunDeliveries with repetitions

replayVars == <<vars, executed, deliveries>>

ReplayInit == Init /\ executed = <<>> /\ deliveries = <<>>

Plan(m, w) == [kind |-> "plan", model |-> m, window |-> w]
Execution(plan, maximum) == [kind |-> "execution", plan |-> plan, maximum |-> maximum]
Parity(x, l) == [kind |-> "parity", execution |-> x, ledger |-> l]

Planned(plan) == {e \in Events : In(e, plan.window)}

\* One request for each row of the window, by ingestion time and then event.
Requests(plan) ==
  LET order == SetToSortSeq(Planned(plan), LAMBDA d, e : Ingested[d] < Ingested[e]) IN
  [i \in DOMAIN order |-> [id |-> <<plan, order[i]>>, event |-> order[i], sequence |-> i - 1, row |-> order[i]]]

-----------------------------------------------------------------------------
(* run_deliveries: the requests that have an outcome, the outcomes in their *)
(* order, the audit, and whether a request was met that raises.             *)

NoDelivery == [committed |-> <<>>, results |-> <<>>, audit |-> <<>>, duplicates |-> 0, raised |-> FALSE]

\* row is what the request's fingerprint stands for.
Outcome(d, failing) ==
  IF d.row # d.event \/ d.event \in Refused THEN "INPUT_REJECTED"
  ELSE IF d.event \in failing THEN "EXECUTION_FAILED" ELSE "SCORED"

\* The events of the audit for a request with its outcome.
Lifecycle(id, status) ==
  CASE status = "INPUT_REJECTED" -> <<<<"REQUEST_ACCEPTED", id>>, <<"INPUT_REJECTED", id>>>>
    [] status = "SCORED" -> <<<<"REQUEST_ACCEPTED", id>>, <<"REQUEST_VALIDATED", id>>,
                              <<"INFERENCE_ATTEMPTED", id>>, <<"INFERENCE_SUCCEEDED", id>>>>
    [] OTHER -> <<<<"REQUEST_ACCEPTED", id>>, <<"REQUEST_VALIDATED", id>>,
                  <<"INFERENCE_ATTEMPTED", id>>, <<"INFERENCE_FAILED", id>>>>

Completed(audit) == Append(audit, <<"EXECUTION_COMPLETED", None>>)

\* The audit that results call for, if no request came twice.
AddLifecycle(audit, r) == audit \o Lifecycle(r.id, r.status)
Lifecycles(results) == FoldLeft(AddLifecycle, <<>>, results)
Told(results) == Completed(Lifecycles(results))

Evaluated(s, d, failing) ==
  LET status == Outcome(d, failing) IN
  [s EXCEPT !.committed = [i \in DOMAIN @ \cup {d.id} |-> IF i = d.id THEN d ELSE @[i]],
            !.results = Append(@, [id |-> d.id, event |-> d.event, status |-> status]),
            !.audit = @ \o Lifecycle(d.id, status)]

\* Mutation: only a repetition of the request before is a duplicate.
DeliverAdjacent(s, d, failing) ==
  CASE s.raised -> s
    [] ~s.raised /\ s.results # <<>> /\ Last(s.results).id = d.id ->
         [s EXCEPT !.duplicates = @ + 1, !.audit = Append(@, <<"DUPLICATE_DELIVERY", d.id>>)]
    [] OTHER -> Evaluated(s, d, failing)

\* A repetition has the first outcome; another request of its name raises.
Deliver(s, d, failing) ==
  CASE s.raised -> s
    [] ~s.raised /\ d.id \notin DOMAIN s.committed -> Evaluated(s, d, failing)
    [] ~s.raised /\ d.id \in DOMAIN s.committed ->
         IF s.committed[d.id] # d THEN [s EXCEPT !.raised = TRUE]
         ELSE [s EXCEPT !.duplicates = @ + 1, !.audit = Append(@, <<"DUPLICATE_DELIVERY", d.id>>)]

Delivered(ds, failing) == FoldLeft(LAMBDA s, d : Deliver(s, d, failing), NoDelivery, ds)
RunDeliveries(ds, failing) == [Delivered(ds, failing) EXCEPT !.audit = Completed(@)]

-----------------------------------------------------------------------------
BuildPlan(p, m, w, maximum) ==
  /\ Claim(p, Plan(m, w))
  /\ w.from < w.to /\ Planned(Plan(m, w)) # {}
  /\ Cardinality(Planned(Plan(m, w))) <= maximum
  /\ UNCHANGED <<executed, deliveries>>

\* Mutation: the outcomes are written before the directory is claimed.
ExecutePlanUnclaimed(p, plan, maximum, failing) ==
  LET x == Execution(plan, maximum) run == RunDeliveries(Requests(plan), failing) IN
  /\ Inspected(plan)
  /\ Len(Requests(plan)) <= maximum
  /\ writing[p] = None
  /\ executed' = [a \in DOMAIN executed \cup {x} |-> IF a = x THEN run ELSE executed[a]]
  /\ IF x \in claimed THEN UNCHANGED <<claimed, writing, published>> ELSE Claim(p, x)
  /\ UNCHANGED deliveries

\* The model scores, and may raise for some requests, before the directory is
\* made; what was computed is dropped when there is one by then.
ExecutePlan(p, plan, maximum, failing) ==
  LET x == Execution(plan, maximum) run == RunDeliveries(Requests(plan), failing) IN
  /\ Claim(p, x)
  /\ Inspected(plan)
  /\ Len(Requests(plan)) <= maximum
  /\ Len(run.results) = Len(Requests(plan)) /\ run.duplicates = 0
  /\ executed' = [a \in DOMAIN executed \cup {x} |-> IF a = x THEN run ELSE executed[a]]
  /\ UNCHANGED deliveries

Results(x) == ToSet(executed[x].results)

\* _comparison, compare_rows: the same model and events, and each one scored.
Compared(x, l) ==
  /\ x.plan.model = l.model
  /\ {r.event : r \in Results(x)} = Scored(l)
  /\ \A r \in Results(x) : r.status = "SCORED"

\* inspect_execution: one result for each request of the plan, in its order,
\* and the audit that these results call for.
InspectExecution(x) ==
  LET run == executed[x] requests == Requests(x.plan) IN
  /\ Inspected(x) /\ Inspected(x.plan)
  /\ [i \in DOMAIN run.results |-> run.results[i].id] = [i \in DOMAIN requests |-> requests[i].id]
  /\ run.audit = Told(run.results) /\ run.duplicates = 0

VerifyParity(p, x, l) ==
  /\ Claim(p, Parity(x, l))
  /\ InspectExecution(x) /\ Inspected(l)
  /\ Compared(x, l)
  /\ UNCHANGED <<executed, deliveries>>

\* A row that is refused would have ended the build of the ledger.
ReferenceLedger(p, m, w) ==
  /\ BuildLedger(p, m, w)
  /\ Scored(Ledger(m, w)) \cap Refused = {}
  /\ UNCHANGED <<executed, deliveries>>

AddDelivery(d) ==
  /\ claimed = {} /\ Len(deliveries) < MaxDeliveries
  /\ deliveries' = Append(deliveries, d)
  /\ UNCHANGED <<vars, executed>>

ReplayNext ==
  \E p \in Procs :
       \/ \E m \in DOMAIN Model, w \in ReplayWindows, b \in Bounds : BuildPlan(p, m, w, b)
       \/ \E q \in Of("plan"), b \in Bounds, failing \in {{}} \cup {{e} : e \in Events} :
            failing \subseteq Planned(q) /\ ExecutePlan(p, q, b, failing)
       \/ \E x \in Of("execution"), l \in Of("ledger") : VerifyParity(p, x, l)
       \/ \E m \in DOMAIN Model, w \in Intervals : ReferenceLedger(p, m, w)
       \/ (Write(p) \/ Stop(p)) /\ UNCHANGED <<executed, deliveries>>

\* The commands of both modules side by side, on one directory of artifacts.
OfflineNext ==
  \/ Next /\ UNCHANGED <<executed, deliveries>>
  \/ ReplayNext
  \/ \E d \in Deliverable : AddDelivery(d)
OfflineSpec == ReplayInit /\ [][OfflineNext]_replayVars

-----------------------------------------------------------------------------
\* The requests by the first delivery of each.
AddFirst(ids, d) == IF d.id \in ToSet(ids) THEN ids ELSE Append(ids, d.id)
FirstIds(ds) == FoldLeft(AddFirst, <<>>, ds)

\* An audit with its duplicates left aside.
AddUnlessDuplicate(kept, a) == IF a[1] = "DUPLICATE_DELIVERY" THEN kept ELSE Append(kept, a)
WithoutDuplicates(audit) == FoldLeft(AddUnlessDuplicate, <<>>, audit)

\* "A repeated delivery returns the first terminal outcome": in whatever order
\* and number requests come, each has one outcome, in the order they first came.
FirstOutcomeStands ==
  LET run == RunDeliveries(deliveries, {}) IN
  ~run.raised =>
    /\ [i \in DOMAIN run.results |-> run.results[i].id] = FirstIds(deliveries)
    /\ run.duplicates = Len(deliveries) - Len(run.results)

\* inspect_execution: the audit, its duplicates left aside, is what the results
\* alone tell of it, also with failures in between.
AuditTellsResults ==
  \A failing \in {{}} \cup {{d.event} : d \in Deliverable} :
    LET run == RunDeliveries(deliveries, failing)
    IN WithoutDuplicates(run.audit) = Told(run.results)

\* A parity certificate is of an execution that scored every event of the ledger
\* and no other, although another execution of the plan may have failed.
ParitySound ==
  \A c \in Of("parity") :
    /\ executed[c.execution].duplicates = 0
    /\ {<<r.event, r.status>> : r \in Results(c.execution)} = Scored(c.ledger) \X {"SCORED"}

\* Results, audit and parity tell what was delivered and what came of it.
ReplayTold == FirstOutcomeStands /\ AuditTellsResults /\ ParitySound

\* The outcomes of an execution are those of the command that claimed it.
ExecutionFixed == [][\A x \in DOMAIN executed : x \in DOMAIN executed' /\ executed'[x] = executed[x]]_executed

\* What a command left under a name stays as it is, whoever comes later.
ArtifactsStay == NothingCompletedLater /\ ExecutionFixed
=============================================================================
