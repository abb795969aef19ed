--------------------------- MODULE IncrementalShadow ---------------------------
(***************************************************************************)
(* The incremental shadow path: committed Delta versions are discovered    *)
(* one after another, prepared as publication batches, published and       *)
(* accepted within capacity, and scored by restartable workers.  Every     *)
(* command reads its view of the stream from files, step by step, while    *)
(* other commands add files; there is no cursor and no lock.               *)
(*                                                                         *)
(* Version v of the source has Size[v] new rows.  A version with rows is   *)
(* also the name of its publication batch, and its events are <<v, k>>.    *)
(* The transport of a batch is FeatureReadyTransport; here a batch is      *)
(* acknowledged and later accepted, in turn, as that module promises.  An  *)
(* accept that fails leaves the journal it opened, as it does there.       *)
(* Inspection is read-only, so killing an inspector changes nothing.       *)
(***************************************************************************)
EXTENDS Integers, Sequences, FiniteSets

CONSTANTS
  Size,            \* Size[v]: rows first visible in version v; 0 for metadata only
  Discoverers,     \* discover commands that may run at a time
  Controllers,     \* authorize-publish and publish commands
  Inspectors,      \* inspect and reconcile commands
  Workers,         \* process commands
  Windows,         \* scoring windows an operator may pass to a worker
  Outcomes,        \* Outcomes[e]: statuses an evaluation of event e may have
  MaxUndiscovered, \* maximum_undiscovered_versions
  MaxUnpublished,  \* maximum_unpublished_ready_events
  MaxUnprocessed,  \* maximum_accepted_unprocessed_events
  MaxTick,         \* maximum_inference_events_per_tick
  MaxSnapshot,     \* MAX_READY_EVENTS, for the rows of a whole version
  MaxEarly,        \* bound: accepts of batches that were never published
  MaxFailures,     \* bound: kills
  HardKills        \* may a kill land while an artifact is being written?

Versions == 1..Len(Size)
Batches == {v \in Versions : Size[v] > 0}
Readers == Controllers \cup Inspectors
Events(S) == UNION {{v} \X (1..Size[v]) : v \in S}
Kinds == {"segment", "outbox", "batch", "record"}
Statuses == {"SCORED", "OUT_OF_SCOPE", "INPUT_REJECTED", "INFERENCE_FAILED"}
Failed == {"INPUT_REJECTED", "INFERENCE_FAILED"}

ASSUME StreamAssumption ==
  /\ Size \in Seq(Nat)
  /\ Outcomes \in [Events(Versions) -> SUBSET Statuses]
  /\ MaxUndiscovered \in Nat \ {0} /\ MaxUnpublished \in Nat \ {0}
  /\ MaxUnprocessed \in Nat \ {0} /\ MaxTick \in Nat \ {0}
  /\ MaxSnapshot \in Nat /\ MaxEarly \in Nat
  /\ MaxFailures \in Nat /\ HardKills \in BOOLEAN
  /\ Windows # {}

VARIABLES
  latest,      \* the source's latest version
  written,     \* <<kind, version>>: artifacts written completely
  partial,     \* <<kind, version>>: artifacts created, not (yet) complete
  journals,    \* batches with a publication journal
  acked,       \* batches whose acknowledgements are complete
  accepted,    \* batches with an acceptance file
  results,     \* result files: event -> [window, status]
  disc,        \* a discover command: version and artifact at hand
  reader,      \* a command that reads the progress of the stream
  publisher,   \* the batch a controller publishes, 0 if none, and its stage
  worker,      \* a process command
  early,       \* use of the bounds
  failures

streamVars == <<latest, written, partial>>
deliveryVars == <<journals, acked, accepted>>
vars == <<streamVars, deliveryVars, results, disc, reader, publisher, worker, early, failures>>

DiscIdle == [pc |-> "idle", version |-> 0, kind |-> "segment", own |-> FALSE]
ReaderIdle == [pc |-> "idle", report |-> "none", reconcile |-> FALSE, pass |-> 1,
               records |-> 0, next |-> 1, accepted |-> {}, active |-> 0,
               pending |-> 0, latest |-> 0]
PublisherIdle == [pc |-> "idle", batch |-> 0]
WorkerIdle(window) ==
  [pc |-> "idle", window |-> window, queue |-> {}, todo |-> {}, left |-> 0]

DiscStates ==
  [pc : {"idle", "building"}, version : 0..Len(Size), kind : Kinds, own : BOOLEAN]
ReaderStates ==
  [pc : {"idle", "walking", "results", "latest", "check"},
   report : {"none", "IDLE", "PROCESSING", "PAUSED_BACKPRESSURE", "RECONCILED"},
   reconcile : BOOLEAN, pass : {1, 2}, records : 0..Len(Size), next : 1..(Len(Size) + 1),
   accepted : SUBSET Batches, active : Nat, pending : Nat, latest : 0..Len(Size)]
PublisherStates ==
  [pc : {"idle", "authorized", "publishing"}, batch : {0} \cup Batches]
WorkerStates ==
  [pc : {"idle", "resolved", "working"}, window : Windows, queue : SUBSET Batches,
   todo : SUBSET Events(Versions), left : 0..MaxTick]

TypeOK ==
  /\ latest \in 0..Len(Size)
  /\ written \subseteq Kinds \X Versions /\ partial \subseteq Kinds \X Versions
  /\ journals \subseteq Batches /\ acked \subseteq Batches /\ accepted \subseteq Batches
  /\ DOMAIN results \subseteq Events(Versions)
  /\ \A e \in DOMAIN results : results[e] \in [window : Windows, status : Statuses]
  /\ disc \in [Discoverers -> DiscStates] /\ reader \in [Readers -> ReaderStates]
  /\ publisher \in [Controllers -> PublisherStates] /\ worker \in [Workers -> WorkerStates]
  /\ early \in 0..MaxEarly /\ failures \in 0..MaxFailures

Recorded == Cardinality({v \in Versions : <<"record", v>> \in written})

\* records() raises while a discovery record is incomplete.
Readable == \A v \in Versions : <<"record", v>> \notin partial

Pending == Events(accepted) \ DOMAIN results

Init ==
  /\ latest = 0 /\ written = {} /\ partial = {}
  /\ journals = {} /\ acked = {} /\ accepted = {}
  /\ results = <<>>
  /\ disc = [d \in Discoverers |-> DiscIdle]
  /\ reader = [r \in Readers |-> ReaderIdle]
  /\ publisher = [c \in Controllers |-> PublisherIdle]
  /\ worker = [w \in Workers |-> WorkerIdle(CHOOSE x \in Windows : TRUE)]
  /\ early = 0 /\ failures = 0

-----------------------------------------------------------------------------
(* The source and its discovery. *)

CommitVersion ==
  /\ latest < Len(Size)
  /\ latest' = latest + 1
  /\ UNCHANGED <<written, partial, deliveryVars, results, disc, reader, publisher,
                 worker, early, failures>>

\* A version is read with all of its rows, those of earlier versions too.
Within(version) == Cardinality(Events(1..version)) <= MaxSnapshot

\* discover_next takes up the version after the recorded ones, unless more
\* versions are undiscovered, or it has more rows, than the bounds allow.
StartDiscovery(d) ==
  LET version == Recorded + 1
  IN /\ disc[d].pc = "idle" /\ Readable
     /\ version <= latest
     /\ latest - version + 1 <= MaxUndiscovered
     /\ Within(version)
     /\ disc' = [disc EXCEPT ![d] = [DiscIdle EXCEPT !.pc = "building", !.version = version]]
     /\ UNCHANGED <<streamVars, deliveryVars, results, reader, publisher, worker, early, failures>>

At(d) == <<disc[d].kind, disc[d].version>>

\* A version without rows has no outbox and no batch.
Following(kind, version) ==
  CASE kind = "segment" -> IF Size[version] > 0 THEN "outbox" ELSE "record"
    [] kind = "outbox" -> "batch"
    [] OTHER -> "record"

Advance(d) ==
  disc' = [disc EXCEPT ![d] =
             IF disc[d].kind = "record" THEN DiscIdle
             ELSE [@ EXCEPT !.kind = Following(disc[d].kind, disc[d].version), !.own = FALSE]]

\* An artifact is claimed exclusively (mkdir, open "xb") ...
CreateArtifact(d) ==
  /\ disc[d].pc = "building" /\ ~disc[d].own
  /\ At(d) \notin written \cup partial
  /\ partial' = partial \cup {At(d)}
  /\ disc' = [disc EXCEPT ![d].own = TRUE]
  /\ UNCHANGED <<latest, written, deliveryVars, results, reader, publisher, worker, early, failures>>

\* ... and then written.
WriteArtifact(d) ==
  /\ disc[d].pc = "building" /\ disc[d].own
  /\ partial' = partial \ {At(d)} /\ written' = written \cup {At(d)}
  /\ Advance(d)
  /\ UNCHANGED <<latest, deliveryVars, results, reader, publisher, worker, early, failures>>

\* Mutation: an existing artifact is reused without inspecting it.
ReuseUninspected(d) ==
  /\ disc[d].pc = "building" /\ ~disc[d].own
  /\ At(d) \in written \cup partial
  /\ Advance(d)
  /\ UNCHANGED <<streamVars, deliveryVars, results, reader, publisher, worker, early, failures>>

\* An existing artifact is inspected: reused if complete; otherwise, whether
\* its writer is dead or still at it, the command fails.
ReuseArtifact(d) ==
  /\ disc[d].pc = "building" /\ ~disc[d].own
  /\ At(d) \in written \cup partial
  /\ IF At(d) \in written THEN Advance(d) ELSE disc' = [disc EXCEPT ![d] = DiscIdle]
  /\ UNCHANGED <<streamVars, deliveryVars, results, reader, publisher, worker, early, failures>>

KillDiscovery(d) ==
  /\ disc[d].pc = "building" /\ failures < MaxFailures
  /\ disc[d].own => HardKills
  /\ failures' = failures + 1
  /\ disc' = [disc EXCEPT ![d] = DiscIdle]
  /\ UNCHANGED <<streamVars, deliveryVars, results, reader, publisher, worker, early>>

-----------------------------------------------------------------------------
(* Reading the progress of the stream: records, then each batch's acceptance *)
(* and journal, then the results, then the source's latest version.          *)

Unaccepted(r) == {v \in Batches : v < reader[r].next} \ reader[r].accepted

ReadRecords(r, reconcile) ==
  /\ reader[r].pc = "idle" /\ Readable
  /\ r \in Controllers => ~reconcile /\ publisher[r].pc = "idle"
  /\ reader' = [reader EXCEPT ![r] = [ReaderIdle EXCEPT !.pc = "walking",
                                        !.reconcile = reconcile, !.records = Recorded]]
  /\ UNCHANGED <<streamVars, deliveryVars, results, disc, publisher, worker, early, failures>>

\* The next batch: an acceptance after an unaccepted batch is an error (in the
\* first pass); an unaccepted batch with a journal is active.
ReadBatch(r) ==
  LET v == reader[r].next
  IN /\ reader[r].pc = "walking" /\ v <= reader[r].records
     /\ reader' = [reader EXCEPT ![r] =
          IF v \in accepted
          THEN IF reader[r].pass = 1 /\ Unaccepted(r) # {}
               THEN ReaderIdle
               ELSE [@ EXCEPT !.next = v + 1, !.accepted = reader[r].accepted \cup {v}]
          ELSE [@ EXCEPT !.next = v + 1,
                           !.active = reader[r].active + (IF v \in journals THEN 1 ELSE 0)]]
     /\ UNCHANGED <<streamVars, deliveryVars, results, disc, publisher, worker, early, failures>>

FinishWalk(r) ==
  /\ reader[r].pc = "walking" /\ reader[r].next > reader[r].records
  /\ reader' = [reader EXCEPT ![r] =
       IF reader[r].pass = 1 /\ reader[r].active > 1 THEN ReaderIdle
       ELSE [@ EXCEPT !.pc = "results"]]
  /\ UNCHANGED <<streamVars, deliveryVars, results, disc, publisher, worker, early, failures>>

\* A result of a batch that was not accepted when it was read is an error.
ReadResults(r) ==
  /\ reader[r].pc = "results" /\ reader[r].pass = 1
  /\ reader' = [reader EXCEPT ![r] =
       IF DOMAIN results \subseteq Events(reader[r].accepted)
       THEN [@ EXCEPT !.pc = "latest",
                      !.pending = Cardinality(Events(reader[r].accepted) \ DOMAIN results)]
       ELSE ReaderIdle]
  /\ UNCHANGED <<streamVars, deliveryVars, results, disc, publisher, worker, early, failures>>

Backlog(r) ==
  Cardinality(Events({v \in Batches : v <= reader[r].records} \ reader[r].accepted))

\* Mutation: what is prepared and not accepted does not count as work.
StateIgnoringTransport(r) ==
  IF reader[r].pending >= MaxUnprocessed THEN "PAUSED_BACKPRESSURE"
  ELSE IF latest > reader[r].records \/ reader[r].pending > 0
       THEN "PROCESSING" ELSE "IDLE"

StateOf(r) ==
  IF reader[r].pending >= MaxUnprocessed THEN "PAUSED_BACKPRESSURE"
  ELSE IF latest > reader[r].records \/ Backlog(r) > 0 \/ reader[r].pending > 0
       THEN "PROCESSING" ELSE "IDLE"

\* The last read; inspect reports, reconcile reads all but the latest again,
\* and the controller goes on to its checks.
ReadLatest(r) ==
  /\ reader[r].pc = "latest"
  /\ reader' = [reader EXCEPT ![r] =
       IF r \in Controllers THEN [@ EXCEPT !.pc = "check"]
       ELSE IF ~reader[r].reconcile THEN [ReaderIdle EXCEPT !.report = StateOf(r)]
       ELSE IF latest > reader[r].records \/ ~Readable THEN ReaderIdle
       ELSE [ReaderIdle EXCEPT !.pc = "walking", !.reconcile = TRUE, !.pass = 2,
                               !.records = Recorded, !.latest = latest]]
  /\ UNCHANGED <<streamVars, deliveryVars, results, disc, publisher, worker, early, failures>>

\* Sources, acceptances and results must be the same sets, without failures.
Complete(r) ==
  /\ Backlog(r) = 0
  /\ DOMAIN results = Events(reader[r].accepted)
  /\ \A e \in DOMAIN results : results[e].status \notin Failed

FinishReconcile(r) ==
  /\ reader[r].pc = "results" /\ reader[r].pass = 2
  /\ reader' = [reader EXCEPT ![r] =
       IF Complete(r)
       THEN [ReaderIdle EXCEPT !.report = "RECONCILED", !.latest = reader[r].latest]
       ELSE ReaderIdle]
  /\ UNCHANGED <<streamVars, deliveryVars, results, disc, publisher, worker, early, failures>>

-----------------------------------------------------------------------------
(* Publication and acceptance. *)

\* The files as they are now, not as the summary saw them.
EarliestUnaccepted(b) ==
  /\ b \in Batches /\ b <= Recorded /\ b \notin accepted
  /\ \A v \in Batches : v < b => v \in accepted

\* Mutation: another batch may be active.
CheckIgnoringActive(c) ==
  /\ reader[c].pc = "check"
  /\ \E b \in Batches :
       /\ EarliestUnaccepted(b)
       /\ reader[c].pending + Size[b] <= MaxUnprocessed
       /\ Backlog(c) <= MaxUnpublished
       /\ publisher' = [publisher EXCEPT ![c] = [pc |-> "authorized", batch |-> b]]
  /\ reader' = [reader EXCEPT ![c] = ReaderIdle]
  /\ UNCHANGED <<streamVars, deliveryVars, results, disc, worker, early, failures>>

Authorized(c, b) ==
  /\ EarliestUnaccepted(b)
  /\ reader[c].active > 0 => b \in journals
  /\ reader[c].pending + Size[b] <= MaxUnprocessed
  /\ Backlog(c) <= MaxUnpublished

\* authorize_publication: the earliest unaccepted batch, no other batch active,
\* within the capacities that the summary left.
Check(c) ==
  /\ reader[c].pc = "check"
  /\ \E b \in Batches :
       /\ Authorized(c, b)
       /\ publisher' = [publisher EXCEPT ![c] = [pc |-> "authorized", batch |-> b]]
  /\ reader' = [reader EXCEPT ![c] = ReaderIdle]
  /\ UNCHANGED <<streamVars, deliveryVars, results, disc, worker, early, failures>>

Refused(c) ==
  /\ reader[c].pc = "check" /\ ~\E b \in Batches : Authorized(c, b)
  /\ reader' = [reader EXCEPT ![c] = ReaderIdle]
  /\ UNCHANGED <<streamVars, deliveryVars, results, disc, publisher, worker, early, failures>>

\* The publish command opens the journal of the batch ...
OpenJournal(c) ==
  /\ publisher[c].pc = "authorized"
  /\ journals' = journals \cup {publisher[c].batch}
  /\ publisher' = [publisher EXCEPT ![c].pc = "publishing"]
  /\ UNCHANGED <<streamVars, acked, accepted, results, disc, reader, worker, early, failures>>

\* ... and ends when every record of it is acknowledged.
FinishPublication(c) ==
  /\ publisher[c].pc = "publishing"
  /\ acked' = acked \cup {publisher[c].batch}
  /\ publisher' = [publisher EXCEPT ![c] = PublisherIdle]
  /\ UNCHANGED <<streamVars, journals, accepted, results, disc, reader, worker, early, failures>>

KillPublication(c) ==
  /\ publisher[c].pc # "idle" /\ failures < MaxFailures
  /\ failures' = failures + 1
  /\ publisher' = [publisher EXCEPT ![c] = PublisherIdle]
  /\ UNCHANGED <<streamVars, deliveryVars, results, disc, reader, worker, early>>

\* The operator may accept any batch that is prepared.  The command opens the
\* journal, and so makes it, before it looks for the acknowledgements; the
\* transport then seals the range of the batch whose turn it is, and no other.
Accept(b) ==
  /\ <<"batch", b>> \in written
  /\ b \in journals \/ early < MaxEarly
  /\ early' = IF b \in journals THEN early ELSE early + 1
  /\ journals' = journals \cup {b}
  /\ accepted' = IF b \in acked /\ EarliestUnaccepted(b) THEN accepted \cup {b} ELSE accepted
  /\ UNCHANGED <<streamVars, acked, results, disc, reader, publisher, worker, failures>>

-----------------------------------------------------------------------------
(* Inference. *)

Precedes(e, f) == e[1] < f[1] \/ (e[1] = f[1] /\ e[2] < f[2])
First(S) == CHOOSE e \in S : \A f \in S \ {e} : Precedes(e, f)

\* resolved_work: the accepted batches, up to the first that is not accepted.
Resolve(w, window) ==
  /\ worker[w].pc = "idle" /\ Readable
  /\ worker' = [worker EXCEPT ![w] =
       [WorkerIdle(window) EXCEPT !.pc = "resolved", !.queue = accepted]]
  /\ UNCHANGED <<streamVars, deliveryVars, results, disc, reader, publisher, early, failures>>

\* The durable results are read once.  One outside the resolved queue, or one
\* with other request values, ends the command: results are a prefix of the
\* queue (ResultsPrefix), so the conflict is met before any evaluation.
ReadExisting(w) ==
  /\ worker[w].pc = "resolved"
  /\ worker' = [worker EXCEPT ![w] =
       IF /\ DOMAIN results \subseteq Events(worker[w].queue)
          /\ \A e \in DOMAIN results : results[e].window = worker[w].window
       THEN [@ EXCEPT !.pc = "working", !.queue = {}, !.left = MaxTick,
                      !.todo = Events(worker[w].queue) \ DOMAIN results]
       ELSE WorkerIdle(worker[w].window)]
  /\ UNCHANGED <<streamVars, deliveryVars, results, disc, reader, publisher, early, failures>>

TakeNext(w, e) == [worker EXCEPT ![w].todo = @ \ {e}, ![w].left = @ - 1]

\* Mutation: a later result replaces the one another worker wrote.
EvaluateOverwriting(w) ==
  /\ worker[w].pc = "working" /\ worker[w].left > 0 /\ worker[w].todo # {}
  /\ LET e == First(worker[w].todo) IN
     \E status \in Outcomes[e] :
       /\ results' = [f \in DOMAIN results \cup {e} |->
                        IF f = e THEN [window |-> worker[w].window, status |-> status]
                        ELSE results[f]]
       /\ worker' = TakeNext(w, e)
  /\ UNCHANGED <<streamVars, deliveryVars, disc, reader, publisher, early, failures>>

\* Mutation: the queue is worked off in no particular order.
EvaluateAnyOrder(w) ==
  /\ worker[w].pc = "working" /\ worker[w].left > 0
  /\ \E e \in worker[w].todo \ DOMAIN results, status \in Statuses :
       /\ status \in Outcomes[e]
       /\ results' = [f \in DOMAIN results \cup {e} |->
                        IF f = e THEN [window |-> worker[w].window, status |-> status]
                        ELSE results[f]]
       /\ worker' = TakeNext(w, e)
  /\ UNCHANGED <<streamVars, deliveryVars, disc, reader, publisher, early, failures>>

\* The next event is evaluated and its result claimed.  A result that another
\* worker wrote meanwhile must be the same, or the command ends.
Evaluate(w) ==
  /\ worker[w].pc = "working" /\ worker[w].left > 0 /\ worker[w].todo # {}
  /\ LET e == First(worker[w].todo) IN
     \E status \in Outcomes[e] :
       LET result == [window |-> worker[w].window, status |-> status] IN
       IF e \in DOMAIN results
       THEN /\ worker' = IF results[e] = result THEN TakeNext(w, e)
                         ELSE [worker EXCEPT ![w] = WorkerIdle(@.window)]
            /\ UNCHANGED results
       ELSE /\ results' = [f \in DOMAIN results \cup {e} |->
                             IF f = e THEN result ELSE results[f]]
            /\ worker' = TakeNext(w, e)
  /\ UNCHANGED <<streamVars, deliveryVars, disc, reader, publisher, early, failures>>

FinishTick(w) ==
  /\ worker[w].pc = "working" /\ (worker[w].left = 0 \/ worker[w].todo = {})
  /\ worker' = [worker EXCEPT ![w] = WorkerIdle(@.window)]
  /\ UNCHANGED <<streamVars, deliveryVars, results, disc, reader, publisher, early, failures>>

KillWorker(w) ==
  /\ worker[w].pc # "idle" /\ failures < MaxFailures
  /\ failures' = failures + 1
  /\ worker' = [worker EXCEPT ![w] = WorkerIdle(@.window)]
  /\ UNCHANGED <<streamVars, deliveryVars, results, disc, reader, publisher, early>>

-----------------------------------------------------------------------------
Discover(d) == StartDiscovery(d) \/ CreateArtifact(d) \/ WriteArtifact(d) \/ ReuseArtifact(d)

Read(r) ==
  \/ \E reconcile \in BOOLEAN : ReadRecords(r, reconcile)
  \/ ReadBatch(r) \/ FinishWalk(r) \/ ReadResults(r) \/ ReadLatest(r) \/ FinishReconcile(r)

PublishBatch(c) == Check(c) \/ Refused(c) \/ OpenJournal(c) \/ FinishPublication(c)

Process(w) ==
  \/ \E window \in Windows : Resolve(w, window)
  \/ ReadExisting(w) \/ Evaluate(w) \/ FinishTick(w)

Next ==
  \/ CommitVersion
  \/ \E d \in Discoverers : Discover(d) \/ KillDiscovery(d)
  \/ \E r \in Readers : Read(r)
  \/ \E c \in Controllers : PublishBatch(c) \/ KillPublication(c)
  \/ \E b \in Batches : Accept(b)
  \/ \E w \in Workers : Process(w) \/ KillWorker(w)

Spec == Init /\ [][Next]_vars

\* The operator runs every command again and again, and accept for a published
\* batch; the source commits its versions.  Inspection is optional.
Fairness ==
  /\ WF_vars(CommitVersion)
  /\ \A d \in Discoverers : WF_vars(Discover(d))
  /\ \A c \in Controllers : WF_vars(Read(c)) /\ WF_vars(PublishBatch(c))
  /\ WF_vars(\E b \in acked : Accept(b))
  /\ \A w \in Workers : WF_vars(Process(w))

FairSpec == Spec /\ Fairness

-----------------------------------------------------------------------------
(* A discovery record is a promise: its version's artifacts are complete and  *)
(* every earlier version has its own, whatever commands raced or died.        *)
RecordsComplete ==
  \A v \in Versions : <<"record", v>> \in written =>
     /\ \A u \in 1..v : {<<"segment", u>>, <<"record", u>>} \subseteq written
     /\ Size[v] > 0 => {<<"outbox", v>>, <<"batch", v>>} \subseteq written

\* Accepted, unscored notifications never exceed their bound, although the
\* controller decides on a summary that was read while batches were being
\* accepted and scored.
AcceptedBounded == Cardinality(Pending) <= MaxUnprocessed

\* The state of a stream is well formed and, unless a batch was accepted before
\* it was published, within its capacity: the journal that such an accept makes
\* lets authorize-publication pass a batch on a summary it should refuse.
BacklogBounded == TypeOK /\ (early = 0 => AcceptedBounded)

\* Results grow as a prefix of the accepted queue in its order: a tick skips
\* nothing, and nothing is scored that was not accepted.
ResultsPrefix ==
  /\ DOMAIN results \subseteq Events(accepted)
  /\ \A e \in DOMAIN results, f \in Events(accepted) : Precedes(f, e) => f \in DOMAIN results

\* Workers started with different windows never mix their results.
OneWindow ==
  \A e, f \in DOMAIN results : results[e].window = results[f].window

\* What ticks leave is what one worker alone would have left.
ResultsInOrder == ResultsPrefix /\ OneWindow

\* A result, once durable, is never replaced, however many workers race for it.
ResultsStable ==
  [][\A e \in DOMAIN results : e \in DOMAIN results' /\ results'[e] = results[e]]_vars

\* IDLE is true when it is reported: every committed version is discovered,
\* accepted and scored, although the inspector read them one after another.
AllDone(last) ==
  /\ \A v \in Batches : v <= last => v \in accepted
  /\ Events({v \in Batches : v <= last}) \subseteq DOMAIN results

IdleIsTrue ==
  [][\A r \in Inspectors : reader[r].pc # "idle" /\ reader'[r].report = "IDLE" =>
        Recorded = latest /\ AllDone(latest)]_vars

\* A successful reconciliation covers every version that was committed when it
\* read the source, and none of its results failed.
ReconciledIsTrue ==
  [][\A r \in Inspectors : reader[r].pc # "idle" /\ reader'[r].report = "RECONCILED" =>
        /\ AllDone(reader[r].latest)
        /\ \A e \in DOMAIN results : results[e].status \notin Failed]_vars

\* What inspect and reconcile report is true.
ReportsTrue == IdleIsTrue /\ ReconciledIsTrue

\* An accept that came too early left the journal of a batch whose turn it is
\* not: the batch before it may not be published any more.
OutOfTurn ==
  \E b \in journals \ accepted : \E v \in Batches : v < b /\ v \notin accepted

\* Every row of a version that can be read is scored in the end, if the limits
\* admit each batch, no artifact is cut short by a kill, one window is used, and
\* no accept out of turn stays in the way.
EverythingScored ==
  \/ <>(latest = Len(Size) /\ \A v \in Batches : Within(v) =>
           v \in accepted /\ Events({v}) \subseteq DOMAIN results)
  \/ <>[]OutOfTurn

\* Prepared events stay within their bound.
PreparedBacklogBounded ==
  Cardinality(Events({v \in Batches : v <= Recorded} \ accepted)) <= MaxUnpublished
=============================================================================
