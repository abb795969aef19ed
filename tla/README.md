# A verification project for SentinelAegisForge

This directory holds TLA+ models of the parts of SentinelAegisForge whose
correctness depends on order, crashes, concurrency and stale views, the TLC runs
that check them on small instances, and proofs that the most important safety
properties hold for every value of the constants.

Paths below are relative to the repository. `streaming/` stands for
`streaming-engine/src/main/scala/io/sentinelaegisforge/streaming/`, and
`control_plane/` for
`model-control-plane/src/sentinelaegisforge_control_plane/`.

## 1. The system

Transactions travel one way through two programs that share no process, no
database and no lock; only Kafka, Delta tables and files connect them.

    producer -> Kafka -> ingestion -> Delta (validated)
      -> deduplication -> rolling features / customer state
      -> statistical features (Delta) -> risk decisions
                        |
                        v  committed Delta versions
      discovery -> segments, outboxes, batches (files)
      -> publisher -> Kafka features.ready -> acceptor -> acceptance ranges
      -> inference worker -> results -> progress, reconciliation

      local outbox -> research receiver (receipts, attempts)
      sealed inbox -> Kafka shadow worker -> results -> run

    pinned Delta version + labels -> dataset -> training run -> tracked run
      -> candidate -> registry version -> assessment
      -> prediction ledger -> outcomes, feedback, drift -> investigation packet
      -> replay plan -> execution -> parity

    lineage (files + broker volume) -> cutoff -> bundle -> restore -> rehearsal

The first line is the Scala streaming engine (Spark micro-batches with
checkpoints and idempotent Delta sinks).  The second part, the *incremental
shadow path* and the local deliveries beside it, is made of short commands an
operator runs from the Makefile, in Scala (everything that touches Kafka) and
Python (everything else).  The third part, the *offline research* of models, is
Python only: commands that derive content-addressed directories from pinned
inputs, with an MLflow store in SQLite between them.  The last one backs a
lineage up and rehearses its restoration.  Each command rebuilds its view from
immutable files claimed by exclusive creation, does a bounded piece of work, and
may be killed at any time.

### Inventory

| Component | State it keeps | Operations | Interacts with | What is hard |
|---|---|---|---|---|
| Transaction domain, Avro codec (`streaming/domain`, `serialization`) | none | validate, encode, decode | producer, ingestion | nothing over time |
| Producer, ingestion (`kafka/producer`, `kafka/ingestion`) | Spark checkpoint | send; decode, route diagnostics | Kafka, Delta | redelivery after a crash |
| Delta sinks (`persistence/delta`) | Delta log with txnAppId/txnVersion; checkpoint | foreachBatch append, restart | all processors | crash between the Delta commit and the checkpoint commit |
| Deduplication (`processing/deduplication`) | ids within the watermark | accept or drop | Delta | late rows, watermark advance |
| Customer activity, rolling and statistical features (`processing/*`) | per-key map or value state, timers | process rows, expire timers | Delta | event time against observation order, stale timers, equal-time peers |
| Risk (`processing/risk`) | none | decide | features | precedence of rules |
| Feature-ready transport (`kafka/featureavailability`) | journal, receipts, observations, fence and acceptance files; topic; group offsets | initialize, publish, replay, accept | discovery, progress | duplicates, uncertain sends, receipt before commit, fenced ranges |
| Ready events (`availability/discovery`, `outbox`, `kafka_export`) | segments, outboxes, publication batches | discover versions, build, inspect | source table, transport | versions read one by one from a table that may be replaced; overlapping ranges |
| Local research receiver (`availability/handoff`) | receipts, attempts, temporary files | bounded handoff, replay, inspect | outbox | two links per event, kills and races between them |
| Progress and backpressure (`incremental_shadow`) | version records; journals, acceptances and results read | discover, authorize-publish, inspect, reconcile | source table, transport, worker | no lock, no cursor: every view is read file by file |
| Inference worker (`incremental_shadow/worker.py`) | result files | process a bounded tick | progress | concurrent and restarted workers |
| Kafka shadow worker (`kafka_shadow`) | result files, runs | process a bounded part of a sealed inbox, reconcile, publish a run | inbox, ledger | one listing of the results, used for the whole command |
| Datasets, training (`datasets`, `training`) | content-addressed directories | build, train, inspect | pinned snapshots | as-of labels, interrupted writes |
| Tracking, candidates, registry, validation | MLflow store (SQLite), lock files, directories, receipts | track, build, register, assess | one another | partial failure between store and files |
| Feedback, monitoring (`feedback`, `monitoring`) | ledgers, snapshots, packets | ingest, evaluate, compare, investigate | assessed models, labels | corrections and as-of views |
| Shadow replay (`shadow`) | plans, executions, parity certificates | plan, execute, verify | registry, ledgers | repeated, conflicting and failing deliveries |
| Recovery (`recovery`) | cutoffs, bundles, restored roots, rehearsals | capture, build, restore, rehearse | all stores of a lineage | a source that goes on while it is copied |
| Reliability (`reliability`) | experiment evidence | inject faults | everything | drives the others |
| Synthetic data, simulation | generated inputs | batch computations | producer | numerics, not order |

`PROJECT.json` lists every component with its sources and what is not modelled,
and every hazard with its line and the properties that would catch it.

### Which properties make the modelled parts correct

*Streaming engine.*  Each micro-batch is in its target table exactly once, however
often its application is killed, run again or reset, and holds what the batch
outputs from its logged input, watermarks and prior state.  A feature is the one
its event has in the full history, though history is pruned by timers and events
arrive out of order.  A baseline or a lifecycle loses an event only through
inactivity.  An event has one row and counts once downstream of deduplication,
and the log-order check of the statistics never stops the application because of
a retry or a copy.

*Transport.*  An acknowledgement names a record the broker holds.  No offset is
committed before the evidence for it is durable.  An accepted batch is an offset
range that holds exactly the ids of the batch (with duplicates allowed), starts
where the previous one ended, and keeps verifying for ever.  One batch at a time
is being published, whatever journals accept commands leave that came too early.
Restarts finish the work, unless such a journal stops it.

*Incremental shadow.*  A discovery record vouches for complete artifacts of its
version and of all before it, and an artifact holds what one table held.
Accepted work waiting for inference is bounded, unless a batch was accepted before
it was published.  Results form a prefix of the
accepted queue, in one window, each written once.  What `inspect` and
`reconcile` report is true although nothing is locked.

*Local delivery.*  An attempt that tells of a delivery has its receipt, an event
is ACCEPTED once, and an acknowledged version is never ahead of the receipts.
The results of a sealed inbox are of one registered version and one window,
never replaced, and a run is published only over all of them.  Bounded commands,
run again and again, deliver everything that no kill made undeliverable.

*Lifecycle.*  A training run is tracked once and a candidate registered once.  A
receipt is issued over complete evidence only; what was left half-written is
never completed by another command; a run is tracked and a model assessed only
over complete evidence; and retries get every model assessed unless
what was left is something the code refuses to repair.

*Monitoring and replay.*  Nothing is built on an incomplete artifact.  What a
model learnt was known before the first event it is scored on.  Records received
after a time change no outcome confirmed at it; they only show that there are
cases which were not observed yet.  A packet is about one
ledger.  The distances reported are the defined ones, ties included.  The first
outcome of a request stands, also against a second execution of the same plan,
and parity is certified only of what was wholly scored.

*Recovery.*  Commands are resumed only over copies that belong to one moment of
the source.

## 2. The modules

| Module | What it is |
|---|---|
| `FeatureReadyTransport` | publisher, broker, acceptor and their crashes, in detail |
| `ReadyDelivery` | what the transport promises: batches take turns on the topic |
| `FeatureReadyTransportProofs` | the two inductive invariants of the transport, six properties and the refinement |
| `IncrementalShadow`, `IncrementalShadowProofs` | discovery, progress reading, backpressure, inference; its invariant and five properties |
| `ReadyOutbox` | reading of versions, segments, outbox and batch, against a changing table |
| `LocalProcesses` | what the models of killable local commands share |
| `LocalReceiver` | the research receiver |
| `KafkaShadowWorker` | scoring of a sealed inbox |
| `ReadyEventsProofs` | `ReadyOutbox`, `LocalReceiver` and `KafkaShadowWorker`: their invariants, a property of each of the first two, three of the last |
| `MicroBatchQuery` | the life of one streaming application, for any operator |
| `KeyedQuery` | what the applications with a state for each key share: a key's rows in a batch, up to a batch, and in the table |
| `MicroBatchQueryProofs` | its two inductive invariants and three properties, for any operator; then the property of each of the four stateful operators |
| `EventTime` | event times, watermarks, late rows and due timers |
| `Deduplication`, `CustomerActivity`, `RollingFeatures`, `AmountStatistics` | the four stateful operators |
| `...Query` of each of the four | the operator as an application, and its properties |
| `FeatureChain`, `FeatureChainProofs` | deduplication feeding the statistics; the invariant of both and three properties |
| `ModelLifecycle`, `ModelLifecycleProofs` | dataset, training, tracking, candidate, registry, assessment; its invariant and four properties |
| `OutcomeLabels`, `ProviderFeedback` | what is known of an event at a time: label revisions, provider cases |
| `OfflineMonitoring` | ledgers, outcomes, feedback evaluation, drift, investigation packets |
| `Distributions` | the distances reported by drift snapshots |
| `ShadowReplay` | plans, executions, parity certificates |
| `Recovery` | capture, bundle, restore, rehearsal |
| `OfflineMonitoringProofs` | monitoring and replay side by side (`OfflineSpec`): the invariant and six properties; the invariant and theorem of `Recovery`; the distances of `Distributions` |
| `FoldFacts` | what the proofs about folds, sorted data and sums rest on: least counterexamples, maxima, finite sets in an order, left folds |
| `MC...` | instances for TLC; `MCFeatureApplications` has three applications, `MCShadowProcesses`, `MCLocalDelivery` and `MCOfflineMonitoring` each several components as *scenes*: a behaviour is of one of them, the others stand still |

### FeatureReadyTransport

A file claimed by `FeatureReadyFiles.claim` (write a temporary, link it, delete
the temporary) is an element of a set: `acks`, `receipts`, `observed`, `tries`,
`sealed`, `fence`.  A claim adds and never replaces, so the sets only grow.  What
a claim leaves behind when it is killed inside (`.pending-*.json` in a directory
whose every entry is inspected) is recorded in `damaged`, and so is an attempt
directory without `start.json`.  The topic is `log`, one sequence per partition;
a partition is a function of the id, as Kafka's partitioner makes it of the key.

| Code | Actions |
|---|---|
| `FeatureReadyOperationalTransport.initialize` | `ClaimFence`, `CommitFence` |
| `authorize_publication` (Python) | `Authorize` |
| `FeatureReadyKafkaPublisher.publish`, `FeatureReadyPublicationJournal` | `OpenAttempt`, `StartAttempt`, `Send`, `NoteDelivery`, `RecordAck`, `CompleteAttempt` |
| producer time-outs, late sends | `SendUncertain`, `Land` |
| `FeatureReadyOperationalTransport.accept`, `FeatureReadyKafkaConsumer.consume` | `OpenAccept`, `Fence`, `Receive`, `Commit` |
| `FeatureReadyReceiptStore.accept` | `Receive`, `Observe`, `RecordTry` |
| `seal`, `verifyEvidence` | `Seal`, `VerifyEvidence` |
| kills | `KillPublisher`, `KillInClaim`, `KillAcceptor`, `KillInStoreClaim` |
| broker and neighbours | `AppendForeign`, `Expire`, `Land` |

Every durable step is an action of its own, so that a kill, a second publisher
or a late record can come between any two.  `require` failures end the command:
the action that meets one resets the process (`PubExit`, `AccExit`).  The
operator's freedom is kept: any boundary file may be named, any bound passed, any
batch accepted, and publication repeated or replayed.  The consumer group has one
member, as the code requires ("did not acquire all three topic partitions").

Abstracted: identities, hashes and contract fields of files nobody tampers with
(always equal here, so their checks never fail); bytes of envelopes; polling and
its 30 second limits (a command that times out is a `KillAcceptor`); the
re-acceptance of an accepted batch, which changes no state and whose success is
the invariant `EvidenceStaysValid`.

`accept` opens the journal of its batch, which makes the directories and claims
the identity, *before* it requires that every id is acknowledged.  `OpenAccept`
therefore adds the batch to `journals` whatever becomes of the command, and goes on
only if the batch is `Acceptable`.  A batch that is accepted before its turn is
thus `Active` (a journal, no acceptance) for every later command: if another batch
is active too, `progress` refuses with "More than one active publication batch", and
if it is the only one, `authorize-publish` refuses the batch whose turn it is.
Nothing removes a journal, so that the stream stops; `OutOfTurn` names the state.

`DeliverySpec` says that the transport implements `ReadyDelivery` with
`published` the ids on the topic and `accepted` the sealed batches.

### IncrementalShadow

Version `v` of the source table has `Size[v]` new rows; a version with rows is
the name of its batch.  An artifact (segment, outbox, batch, record) is
`partial` from its exclusive creation until its last byte, then `written`.

| Code | Actions |
|---|---|
| source commits | `CommitVersion` |
| `discover_next`, `build_segments`, `build_outbox`, `prepare_batch`, `publish` | `StartDiscovery`, `CreateArtifact`, `WriteArtifact`, `ReuseArtifact` |
| `progress` | `ReadRecords`, `ReadBatch`, `FinishWalk`, `ReadResults`, `ReadLatest` |
| `authorize_publication` | the reads above, then `Check` or `Refused` |
| `reconcile` | the reads above, the second pass, `FinishReconcile` |
| publish command | `OpenJournal`, `FinishPublication` (detail in the transport) |
| accept command | `Accept`, of any prepared batch: it makes the journal, then seals the range of a published batch in turn (detail in the transport) |
| `resolved_work`, `process_resolved`, `_claim` | `Resolve`, `ReadExisting`, `Evaluate`, `FinishTick` |
| kills | `KillDiscovery`, `KillPublication`, `KillWorker` |

The reading of the progress is the interesting part.  `progress()` lists the
records, then looks for each batch's acceptance and journal in turn, then lists
the results, then asks the table for its version; discoverers, publishers, the
acceptor and workers add files in between.  The model reads in the same order,
one read per step, with the same early errors.  `Check` evaluates the controller's
conditions on that snapshot, except for those that `authorize_publication` reads
again.  Killing an inspector changes nothing and is left out.

`early` counts the accept commands that made a journal, at most `MaxEarly`.  The
journal of the batch whose turn it is makes it the active one, and a controller
does not hold an active batch against the capacity it read earlier: that is how
the accepted bound can be passed.  `Within` is the limit on the rows of a version
(`discovery.py`, 5,000): a version is read with the rows of all before it, so a
table that outgrows the limit is never discovered further.

A worker's error on a result of another window is raised where the loop meets
it; because results are a prefix of the queue (`ResultsPrefix`), that is before
anything is evaluated, so `ReadExisting` raises it at once.

### MicroBatchQuery and the operators

Every stateful application of the engine has the same shape: it reads a Delta
table as a stream under `Trigger.AvailableNow`, transforms each micro-batch, and
appends the result in `foreachBatch` under a constant `txnAppId` with the batch
id as `txnVersion`.  `MicroBatchQuery` is that shape, with the operator as a
constant `Process(state, rows, late, due)`: the possible results of a batch that
meets `rows` in `state`, drops rows late by `late` and fires timers due by `due`.

| Code | Actions |
|---|---|
| upstream commit | `Arrive` |
| `main` of an application, `awaitTermination` | `Start`, `Finish` |
| offset log (Spark) | `PlanData`, `PlanNoData` |
| the batch's tasks, `persist` and the schema checks of a sink | `Compute` |
| `DeltaTransactionSink.writeStorageBatch` | `WriteBatch` |
| commit log (Spark) | `CommitBatch` |
| kills, `DeltaPostCommitHook` | `Crash` |
| `scripts/reset-local-*-features.sh` | `RemoveTable`, `RemoveCheckpoint`, `KillReset` |

What Spark does is external: it is modelled from what the code relies on.  Rows
are late by the watermark of the batch *before* theirs; timers fire below the
batch's *own* watermark, after its rows were handled; a watermark never moves
back; an `AvailableNow` run fixes its end at its start, cuts what is available
into any number of batches of whole versions (local volumes stay below Delta's
default of files per trigger), and adds a batch without rows when the watermark
moved.  A batch in the offset log and not in the commit log is run again with the
logged end and watermark, from the state the batch before it left; its result may
differ from the first run's only where the operator has a choice (deduplication's
winning copy depends on the shuffle).

The operators keep per key the state of their processor class, the timer it
stored and the timers Spark has registered, so that a stale timer is a reachable
case.  Sums are kept as the sets they add up, which tells more than a total;
decimals, overflow and Welford's arithmetic on doubles are left out.  Event times
are microseconds and timers milliseconds, so that rounding is in the model.
`dropDuplicatesWithinWatermark` forgets an id when its time plus the delay is not
above the watermark.

`FeatureChain` adds a second application to `DeduplicationQuery`, an instance of
`MicroBatchQuery` with the statistics as operator that reads the versions of the
first one's table, each with its own checkpoint and watermark.
Rolling features stand between them in the engine and pass on the rows on time
(`RowPerAcceptedEvent`); deduplication is not reset in the chain, since Delta
refuses a replaced source table.

### ReadyOutbox, LocalReceiver and KafkaShadowWorker

`ReadyOutbox` is the reading behind a discovery: versions are read one after
another from the table at a path, each as the difference of two snapshots, and
the table may be deleted and made anew in between (`ResetTable`, the local
reset).  An artifact is its content and the identity of its table.  It is
claimed by `mkdir`, then written.  `ReadVersion` refuses a version with more than
`MaxReady` rows, those of earlier versions included.  An artifact
that is there already is inspected by deriving it again (`Reproduced`), down to its
segments.

| Code | Actions |
|---|---|
| `discover_versions`, `_read` | `Begin`, `ReadVersion` |
| `build_segments`, `build_outbox`, `prepare_batch`, `publish` (`contract.py`) | `ClaimArtifact`, `InputsInspected`, `Write`, `KillBuilder` |
| the feature query, `scripts/reset-local-statistical-features.sh` | `AppendVersion`, `ResetTable` |

In `LocalReceiver` a file appears by linking a temporary one, which stays in the
directory until it is unlinked; each of the three steps is an action, so that a
kill can leave a temporary file (which later inspections reject) or a receipt
without its attempt (which they accept).

| Code | Actions |
|---|---|
| `LocalResearchReceiver.__init__` | `StartHandoff`, `CreateRoot` |
| `inspect`, receipts and then attempts | `InspectReceipts`, `InspectAttempts` |
| `handoff`, `deliver` | `NextEvent`, `WriteReceipt`, `LinkReceipt`, `UnlinkReceipt`, `WriteAttempt`, `LinkAttempt`, `UnlinkAttempt` |
| kills and the injected failure | `KillHandoff`; `fail` of `StartHandoff` |

In `KafkaShadowWorker` a command inspects the inbox, lists the durable results
once (`Start`) and goes through the queue in order (`NextRequest`): a listed
result is compared with the command's base, a missing one is evaluated and
claimed by an exclusive link (`Claim`), where the loser of a race stops if the
file differs from its own.  `Reconcile` reads the results again, and only a
complete and parity-true set is published as a run (`OpenRun`, `WriteRun`).  A
result's name holds neither the registered version nor the window, so that the
first result of the queue decides whose results the rest can be: this is what
`OneBase` is about, and its proof.

### ModelLifecycle

A model stands for one training configuration over one dataset, and with it for
the identities that are hashes of its content.  Directories are `absent`,
`partial` or `whole`; `tracked` and `versions` are the rows of the MLflow store;
`lock` holds the three kinds of file locks.

| Code | Actions |
|---|---|
| `build_dataset`, `train_baseline` | `ClaimSnapshot`, `WriteSnapshot`, `ClaimRun`, `WriteRun` |
| `track_run` | `StartTrack`, `LockTrack`, `FindRun`, `MissRun`, `CreateRun`, `LogRun`, `FinishRun`, `ReadBack`, `FailRun` |
| `build_candidate` | `StartCandidate`, `LockCandidate`, `FindCandidate`, `ClaimCandidate`, `MoveCandidate` |
| `register_candidate`, `_publish_receipt` | `StartRegister`, `LockRegistry`, `FindVersion`, `MissVersion`, `CreateVersion`, `CompleteVersion`, `ClaimReceipt`, `WriteReceipt`, `RefuseVersion` |
| `assess_model` | `ClaimDossier`, `WriteDossier` |
| kills, errors outside the tracked section | `Stop` |

A run is marked FINISHED before its last read-back, and FAILED if that raises:
a candidate may have been built on it in between.  That is why `SourceWasFinished`
says what the candidate may rely on, and not that its run is FINISHED.  Locks are
released by the kernel or by `finally`; nothing else is undone.

### OutcomeLabels, ProviderFeedback, OfflineMonitoring, Distributions

Artifacts of the offline commands are directories named by a hash of what they
are computed from, so here an artifact *is* that record, and its content (rows
scored, labels known, cases selected) a function of it.  A command verifies what
it reads (`Inspected`), claims the directory (`Claim`), writes it (`Write`) and
ends; a `Stop` leaves it incomplete for good.  An evaluation publishes, of every
scored event, the state of its cases (`State`, one of the seven of
`resolution.py`, with the precedence of the code) and their number (`CaseCount`),
and counts the states (`Coverage`).  Cases are counted over *all* records of the
ledger, also those received after the cutoff, as the code does: an event is
`NO_CASE` if the ledger knows none, and `NOT_YET_OBSERVED` if it knows one of which
no revision was available.

| Code | Definitions |
|---|---|
| `datasets/labels.py`, `build_dataset`, `partition_rows` | `ResolveLabels`, `Causal`, `DatasetAccepted`, `Cohorts` |
| `feedback/ingestion.py`, `resolution.py` | `Validated`, `AvailableAt`, `Current`, `Selected`, `State`, `CaseCount`, `Confirmed`, `Coverage` |
| `build_ledger`, `_archived_comparison` | `BuildLedger`, `ArchiveMatched` |
| `evaluate_outcomes`, `compare_snapshots` | `EvaluateOutcomes`, `Comparable` |
| `build_feedback_ledger`, `evaluate_feedback_outcomes` | `BuildFeedback`, `EvaluateFeedback` |
| `build_drift_snapshot`, `build_investigation` | `BuildDrift`, `LoadEvidence`, `BuildPacket`, `Findings` |
| `distributions.py` | `Percentile`, `KSDistance`, `Boundaries`, `BinOf`, `PsiStatus`, `TotalVariation` |

`Distributions` translates the sorted walk of `ks_distance`, with its handling of
ties, and the binning of `psi`, and compares them with definitions on the whole
population; its state only enumerates populations.  Sorting is defined by ranks
(`Sorted`): the value at place `k` is the one that `k - 1` others precede.
Logarithms are left out.

### ShadowReplay

A plan orders the requests of a window, of which there may be no more than the
maximum it was asked for; `RunDeliveries` is `run_deliveries` as a
fold over deliveries, with the terminal outcome and the audit trail it keeps per
request; an execution's directory is named by plan and bound only, so that of two
commands whose inferences fail differently the first decides (`executed`).
`VerifyParity` compares an execution with a ledger.

### Recovery

The source of a lineage is a content per place (stored files and topics of the
broker's volume), where a place grows only from what it is made of (`Needs`).
That makes some combinations of copies impossible at any one moment
(`Consistent`).  Work of the operator goes on, stops and starts at any time.

| Code | Actions |
|---|---|
| the operator's commands and `docker compose` (external) | `StartWork`, `Work`, `EndWork`, `StopSource`, `RestartBroker` |
| `inventory`, `kafka_snapshot`, archive copies, place by place | `Read` |
| `capture` | `StartCapture`, `CaptureOn`, `StopBroker`, `PublishCutoff` |
| `build`, `verify` | `StartBuild`, `BuildOn`, `PublishBundle` |
| `restore_files`, `extract_archive` | `StartRestore`, `Extract` |
| `stage`, `run_runtime`, `start`, `resume`, `finish` | `Stage`, `Preflight`, `StartRestored`, `Resume`, `ResumedWork`, `EndResume`, `Finish` |
| an error or a kill | `Exit` |

`capture` identifies files and broker while both may still change, stops the
broker, and copies files and volume afterwards; it checks for writers at two
instants only, so a cutoff may be torn: its files may be older or newer than its
volume.  What refuses such a cutoff comes later.  `InspectRestored` compares the
restored files with the bytes and with the identities probed at capture, and
`StartRestored` compares the restored broker with the one that was probed, both
before anything is resumed.

## 3. What each run checks

All runs use breadth-first TLC and take between seconds and three minutes.
Deadlock is not checked in the runs of the transport and of the shadow path: work
is finite there, and a finished system stops.  It is not checked either in the
runs of the local deliveries, the lifecycle and the offline commands, for the
same reason.  In the streaming runs it is checked: an application can always be
started again.

| Run | Instance | Shows |
|---|---|---|
| `transport_crashes` | 1 publisher, 2 failures, 1 replay, hard kills, late sends | `TypeOK`, `AckedOnBroker`, `AcceptedEvidence`: duplicates, lost sends and kills never separate the evidence from the log, and an accepted range is sealed exactly, at what is committed, and keeps verifying |
| `transport_concurrent` | 2 publishers, 1 failure, accept of any batch at any time | `BatchesTakeTurns` (ranges are contiguous, one batch is being published, though accepts that came too early leave journals) and the refinement `DeliverySpec` |
| `transport_restart` | 1 publisher, 2 failures between claims (no kill inside one, no late landing, no replay: the first is the finding below, the others are in `transport_crashes`), a foreign record, a retention step, fairness | `CommittedIsObserved`, `OffsetsNeverRewind`, `EveryBatchAccepted`: nothing is skipped, nothing read twice by offset, and the work ends unless a foreign or deleted record is in its way, where the code stops on purpose, or the journal of an accept out of turn |
| `transport_killed_start` | a kill inside the creation of an attempt | violated: see the findings |
| `progress` | one process of each kind over an empty version and 2 batches, 1 kill, 1 accept of a batch without a journal | `BacklogBounded` (unless there was such an accept), `ReportsTrue` (IDLE and RECONCILED are true when reported) |
| `shadow_processes` | scene *stream*: 2 discoverers and 2 workers, 2 windows, 1 kill, also while writing; scene *outbox*: 2 builders of overlapping ranges, 3 events, 2 tables, versions of 0, 1 or 3 new rows and a limit of 2 rows, 1 kill | `RecordsComplete`, `ResultsInOrder` (a prefix of the queue, one window), `ResultsStable`, `ArtifactsTrue` (artifacts hold what one table held, an event is ready once, batches stay reproducible) |
| `shadow_prepared` | bound of 2 prepared events | violated: see the findings |
| `delivery` | scene *receiver*: 2 handoffs, 2 events, 1 replay; scene *scorer*: 2 workers, 4 command lines (two versions, two windows, two bounds), 3 events, one failing evaluation; scene *stream*: a version beyond the row limit may come, 1 accept of a batch without a journal; 1 kill each, fairness | `AttemptsTrue`, `OneBase`, `RunsVouch`, `ResultsNeverReplaced`, `EverythingDelivered` |
| `applications` | rolling: 4 events in two currencies; statistics: 3 rows of two pairs, one may change its partition, 1 reset; activity: 2 customers, 3 events; 1 kill, fairness | `TypeOK`, `TableSound`, `TableComplete`, `RollingFeaturesSound`, `BaselinesSound`, `LifecyclesSound`, `ActivityDrained` |
| `chain` | 3 copies of up to 3 events, 1 kill of each application, 1 reset | `EachEventOnce` (one row per event, none lost), `FedOnceInOrder` (behind it, the statistics meet each event once and in log order) |
| `lifecycle` | 1 model, 2 trackers, 2 candidate builders, 2 registrars, 1 other process, 1 stop, fairness | `TypeOK`, `RegisteredOnce`, `EvidenceVouched` (of tracked runs, candidates, receipts and dossiers), `NothingRepaired`, `EverythingAssessed` |
| `monitoring` | scene *monitoring*: 2 processes, 5 artifacts, 8 events over three periods, two label files, six feedback batches; populations up to 4 and 3 rows; scene *replay*: two plans and executions, 4 deliveries; scene *recovery*: 5 places, 2 cutoffs, 1 growth, 1 restart | `SourcesComplete`, `PointInTime` (training and labels; of feedback, what later records may change and what not), `EvidenceCoherent`, `DistancesDefined`, `ReplayTold`, `ArtifactsStay`, `ResumesOneInstant` |

A property with several parts is stated as the conjunction of named ones, which
the modules define and comment each by itself.

**Why the bounds are enough.**  Two batches are the least with a predecessor and
a successor; the first batch spans both partitions and the second shares one, so
ranges can be wrong in each of them (a third partition would behave as the
second).  Two failures allow a failure during the recovery from another; each
further one restarts from a state of the same shape, since the sets of files and
the log are all that survives.  A publication bound of 1 cuts a batch of two in
the middle.  In the shadow model the first batch fills the accepted capacity
(size 2, capacity 2), an empty version comes before the batches, the tick is one event, and a result of the last version may fail.  `shadow_processes` treats the
discoverers, the workers and the windows as interchangeable (symmetry), which is
sound for its properties as none names one of them; `monitoring` does so with its processes.

In the streaming runs a millisecond has two microseconds, so that an expiry can
fall between two timers, and the event times are chosen around the windows and
the watermark delay: equal, within a window, just beyond it, late, and far enough
ahead to let the watermark pass several expiries.  Four events are the least that
show a premature pruning (two in the history, one that moves the watermark, one
that reads).  One kill is enough: a batch that is run again starts from the same
logs as one that was never interrupted, and `TableSound` and `TableComplete` are
proved for any number.  Partitions and currencies matter only for being equal or
not, hence two.

In `delivery` two handoffs of one event each over two events race for the same
one; the four command lines of the scorer differ in one respect each from
another; the third event is outside both windows.  Two tables and
two versions are what a replaced table needs, two overlapping ranges what a
shared segment needs.  In `lifecycle` two processes of each kind of command that
takes a lock are the least that race, and one model suffices since models share
no identity, only the locks of the tracking store and of the registry, which
order their commands; a second stop leaves a system that is
stuck already, or one that the first had left untouched.  In `monitoring` the labels and
feedback files hold corrections around the cutoffs, a duplicate, a
conflicting identity and a record whose predecessor arrives after it; five
artifacts are the chain from a ledger to a packet with two snapshots; populations
of four and three over three numbers and a missing value have every arrangement
of ties.  In *recovery* two cutoffs let a bundle be of another cutoff than the
one just captured, and a growth of one per place is enough to tell two moments
apart; the theorem holds for any number.

**Fairness.**  `FeatureReadyTransport!FairSpec` assumes that the operator runs
every command again after it ended (weak fairness of the steps of a running
command and of starting one), with a sufficient bound and with the latest
boundary; accepting a published batch (`OperatorAccepts`) needs strong fairness, because a
running acceptor disables it in between.  The operator *may* accept any other batch
as well; an accept out of turn is no failure that fairness could repair, and the
liveness properties except the behaviours in which its journal stays
(`<>[]OutOfTurn`).
`IncrementalShadow!FairSpec` assumes the same for discovery, publication,
acceptance of published batches and processing, as
`docs/architecture/incremental-shadow-operations.md` describes the command sequence
of each wave.  Nothing is assumed of inspectors,
kills, replays, late sends or retention.  `MicroBatchQuery!FairSpec` assumes that
the operator runs the application again after it ended or was killed, as every
script in `scripts/` does, and that a running one makes progress (weak fairness
of `Run`), and that a started reset goes on to remove the checkpoint; in
`applications` only the activity application is assumed to run on, as its
liveness is the one that is checked.  `MCLocalDelivery` assumes that a plain
handoff and a worker are started again and that a started command goes on; the
stream is as in `IncrementalShadow!FairSpec`.  `ModelLifecycle!FairSpec` assumes
that a process goes on, with a started command or with another one it may give
(weak fairness of both together): a waiter on a lock may be overtaken for ever.
Nothing is assumed of stops, kills, failing inferences, replays or resets, nor
anywhere in `monitoring`, which has no liveness property.

## 4. Findings

* `transport_killed_start` (code against doc).  A publisher killed between
  `Files.createDirectory` and the claim of `start.json` leaves a directory that
  `inspectAttempts` rejects, so every later publish command of the batch throws
  and the journal is never completed.  The architecture document says a normal
  restart sends the ids without acknowledgement.
* `shadow_prepared` (code against doc).  The documented bound on prepared events
  is not enforced where events are prepared.  It is only compared when a batch is
  to be published, where exceeding it stops the one command that would reduce
  the backlog.

One more disagreement was met, and is in the models without a run of its own.
`docs/architecture/incremental-shadow-operations.md:28` says "One active publication
batch is permitted".  The code enforces this where a batch is published, but
`accept` makes a journal before it looks for acknowledgements
(`FeatureReadyOperationalTransport.scala:152`), and a batch with a journal is active
(`progress.py:269`).  An accept that comes too early may therefore leave two active
batches, or one out of turn, and no command gets the stream out of it.  What
remains true is stated by `OnePublished` and `BacklogBounded`; where the disjunct
`<>[]OutOfTurn` is dropped from `EveryBatchAccepted`, TLC finds this behaviour.

## 5. What is proved

Everything below is proved for every value of the constants that satisfies the
named assumptions of the modules, which TLC evaluates on every run.  Where two
theorems of a module are of the form *invariant* and *property*, the second
follows from the first.

### The transport

`FeatureReadyTransportProofs`, for every number of partitions, batches, ids,
publishers, failures and bounds, from `TransportAssumption` and
`BatchesDisjoint`:

| Theorem | Statement |
|---|---|
| `TypeCorrect` | `Spec => []TypeOK` |
| `AcknowledgedIsStored` | `Spec => []AckedOnBroker` |
| `ReceiptBeforeCommit` | `Spec => []CommittedIsObserved` |
| `NoRewind` | `Spec => OffsetsNeverRewind` |
| `TurnInvariance` | `Spec => [](IInv /\ TurnInv)` |
| `AcceptedEvidenceHolds` | `Spec => []AcceptedEvidence` |
| `BatchesTakeTurnsHolds` | `Spec => []BatchesTakeTurns`: contiguous ranges, and one batch being published |
| `DeliveryImplemented` | `Spec => DeliverySpec` |

The argument.  `TypeOK` and the first safety properties are not inductive: whether
`RecordAck` writes a true acknowledgement depends on the coordinates the
publisher carries since `Send`, and whether `Commit` is justified depends on what
`Receive` and `Observe` made durable two steps earlier.  `IInv` therefore adds
what each process knows at each program counter: the coordinates a publisher
holds are in the log (which only grows), the acceptor's next offsets equal the
group's committed offsets while it runs and lie between fence and fenced end,
the record at hand has its receipt once the counter says so, and its observation
one step later.  `NoRewind` follows because a commit writes the acceptor's next
offset plus one, which `IInv` equates with the committed offset plus one, and the
fence is committed only when no offset is.

`TurnInv` is about the order of batches.  A publisher works only on a batch in
turn (all before it accepted), and so is every acknowledgement and send
under way (`PublishersHold`, `SentInTurn`), though not every journal; the accept
command works on a batch that is acknowledged and not accepted, from a boundary
(`AcceptorHolds`); observations
are of records on the broker; and sealed ranges follow one another from the fence
to the committed offsets (`RangesOrdered`, `SealedContiguous`).  The operator may
name *any* older boundary file when accepting; the lemma `SealFollows` shows why the
code need not check which: a range that starts too early holds a coordinate of an
earlier batch, and the exact comparison of ids refuses it, because ids of batches
are disjoint and no batch is empty.  That evidence keeps verifying
(`EvidenceStaysValid`) needs that neither retention nor foreign records change
what was observed.
`DeliveryImplemented` maps each step to one of `ReadyDelivery` or to a stutter:
`Seal` to an acceptance, which the invariant shows enabled in the abstract state,
and a landing record to a publication of a batch that has its turn.

### The incremental shadow path

`IncrementalShadowProofs`, from `StreamAssumption`:

| Theorem | Statement |
|---|---|
| `StreamInvariant` | `Spec => []StreamInv` |
| `RecordsCompleteHolds` | `Spec => []RecordsComplete` |
| `ResultsInOrderHolds` | `Spec => []ResultsInOrder` |
| `BacklogBoundedHolds` | `OneController => (Spec => []BacklogBounded)` |
| `ResultsStableHolds` | `Spec => ResultsStable` |
| `ReportsTrueHolds` | `Spec => ReportsTrue` |

The argument.  Nothing is locked, so the invariant says how old what a command
holds may be.  What a discoverer is about to build on is written
(`DiscoveryInv`).  A batch that is acknowledged, or one a controller authorized, has
all before it accepted; so has one with a journal, if no accept made one
(`DeliveryInv`).  What a reader has read is a part of what is
there now, and the pending rows it counted are no fewer than those left of what it
saw accepted (`ReaderInv`), so that what it reports as done is done (`ReportsTrue`).
Whatever precedes a row on a worker's list is on its list too, or has a result;
and a worker of another window than the results still has every earlier row on
its list (`WorkerInv`): it meets the first result before it could add one, which
is why races leave a prefix, and one window.  `CapacityInv` adds, for one
controller and as long as no accept made a journal (`WithinCapacity`), that a batch
with a journal leaves room for every row, since no journal is opened while its only
controller reads.

`BacklogBounded` is proved for one controller at a time (`OneController`), and
fails for two, as TLC shows: one of them reads before the other's batch is
published and accepted, and authorizes on the stale summary.
`authorize-publish` is a check without a lock, made for an operator who runs the
commands of a wave one after another, as
`docs/architecture/incremental-shadow-operations.md` describes; the other five
theorems hold for any number of controllers.

### Streaming applications

`MicroBatchQueryProofs` proves about every application of the engine at once: the
operator, its state, the source and the watermark are parameters of the theorems.
The one assumption of the first five is `SourceOf(Rows)`: versions of the source
are finite sets of rows, and `WatermarkOf` maps each to a natural number.

| Theorem | Statement | About |
|---|---|---|
| `InvariantHolds` | `Spec => []IInv(Rows)` | any operator |
| `TypeCorrect` | `Spec => []TypeOK` | |
| `EveryVersionSound` | `Spec => []TableSound` | |
| `NoBatchLost` | `Spec => []TableComplete` | |
| `EngineInvariant` | `Spec => []EngineInv(Rows)` | |
| `DeduplicationInvariant` | `Spec => []DedupInv(Rows)` | deduplication |
| `EachEventOnceHolds` | `Spec => []EachEventOnce` | |
| `LifecyclesSoundHolds` | `Spec => []LifecyclesSound` | customer activity |
| `RollingFeaturesSoundHolds` | `Spec => []RollingFeaturesSound` | rolling features |
| `BaselinesSoundHolds` | `Spec => []BaselinesSound` | amount statistics |

The argument.  `TableSound` alone is not preserved by `WriteBatch`: that the frame
at hand is an output of the logged batch was established by `Compute`.
`TableComplete` alone is not preserved by `CommitBatch`: that the batch at hand is
in the table was established by `WriteBatch`, also where Delta ignored the append
because the last version's transaction is the batch's own.  `IInv` carries both
facts from stage to stage (`BatchComputed`, `BatchWritten`).  A kill only forgets
the frame.  What a batch outputs depends on logs that are only extended
(`Results(b)` is unchanged by every action but the reset, which leaves no table),
so versions stay sound.  The reset is covered because the table goes first:
`torn` excuses missing batches until the checkpoint is gone too, when none is
committed.  `EngineInv` adds what batches have to do with each other: positions and
watermarks never go back from batch to batch (`LogGrows`), and the state a batch
left is one that its input makes of the state before (`Traced`).

*Deduplication*, which `DeduplicationOf` describes: the operator is `DedupBatch`,
event times are natural numbers, and rows of one id have one event time (a copy is
the same event at another Kafka offset).  Ids are forgotten, so that an id is absent
says nothing by itself.  `DedupInv` adds to the engine's invariant two facts about
the memory a batch leaves.  `Remembers`: of every row accepted up to then, the entry
is there, or the watermark has passed its expiry; a further copy of an event with
such an entry is refused, and one of an event without is late (`NoSecondRow`).
`Grounded`: every entry is of a row that some logged batch took as new, so a copy
refused as a duplicate has another in the table (`FreshWritten`).  Neither mentions
*which* copy won: a batch that is run again may choose another one, and both leave
the same memory because the entry holds id and event time only (`CopiesAlike`).

*The other three operators* keep a state for each key and handle a batch's rows and
timers one after another.  Each has a predicate that relates the state of a key to
all rows of the key seen so far and to the watermark; it holds of the state every
batch starts from and leaves.  If not, there is a first batch that left an unsound
state, and the one before it was sound (`EngineInv` has each state come of the one
before), which contradicts the lemma about one batch.

* `LifecycleSound`: the open lifecycle is of rows that were seen, has exactly its
  own timer registered, not below the watermark, and every seen row that is not in
  it is a full timeout older than each row that is, and behind the watermark.  So a
  due timer ends a lifecycle and a stale one does nothing, a late batch cannot extend
  a lifecycle that ended, and the lifecycle a batch found is what the last snapshots
  of the batches before said of it (`BatchByBatch`).
* `HistorySound`: the one registered timer is the earliest clean-up time of what is
  kept, and what was pruned has its clean-up time at or below the watermark.  A row
  on time cannot have such an event in any of its windows (`PrunedIsOut`), so its
  features from the pruned history are those of the full one; rows of equal time do
  not see each other because the times of a batch are handled in turn
  (`HandledTimes`).
* `BaselineSound`: the baseline is of one partition up to the offset it remembers,
  its timer is that of the *latest event time* and not of the last row, and what is
  no longer in it is older than the timeout behind the watermark, and behind each
  event that is in it (`Forgets`).  A row is refused only if it does not advance
  in its partition.

They are assumed to get what the code gets (`KeyedSource`: natural event times;
`ActivityOf`, `RollingOf`, `StatisticsOf`: for the keys in question, the operator
is the modelled one; all three at once describe `MCFeatureApplications`, which runs the
operators as one application).  In `ActivityOf` each row arrives once, as the
deduplicated table gives it.  In `StatisticsOf` the rows of a pair that are of one
partition come in the order of its log (`InPartitionOrder`), which is Kafka's order
and the reason why the processor may refuse others.

Folds are reasoned about in `FoldFacts`.  The library's theorems about recursive
definitions take an operator as a parameter, which tlapm cannot instantiate, so a
fold is described by a function of pairs, its chain of intermediate values shown to
exist (`ChainExists`) and to end in what `FoldLeft` chooses (`FoldRuns`); what holds
of every chain then holds of the fold.  Induction over sequences and finite sets is
by least counterexample (`AllSequences`, `OrderedElements`).

### Deduplication and the statistics in a row

`FeatureChainProofs`, for any copies of events, cuts into batches, kills of both
applications and resets of the statistics:

| Theorem | Statement |
|---|---|
| `ChainInvariant` | `ChainSpec => []ChainInv(Rows, Sources)` |
| `FedOnceInOrderHolds` | `ChainSpec => []FedOnceInOrder` |
| `ChainKeepsEachEvent` | `ChainSpec => []EachEventOnce` |
| `ChainBaselinesSound` | `ChainSpec => []Fed!BaselinesSound` |

The assumption `ChainOf` is about what Kafka delivers to deduplication: rows of one
pair are of one partition, in the order of its log (ADR-006: the topic is keyed by
the customer, and its number of partitions is stable).  `MCFeatureChain` is an
instance.

The argument.  The statistics are a second instance of `MicroBatchQueryProofs`
(`Fed`), whose source is the table of the first application; that source has no
`Arrive` of its own and gains a version (`Supplied`) when deduplication writes one,
so both invariants hold side by side (`ChainInvariant`).  What the statistics assume
of a source is then shown of the table.  A later version is of a later batch, whose
rows are of later versions of the topic, *whichever copy of an event was kept*, so
that rows of a pair stay in the order of the log (`FedInOrder`); and an event has
one row, by the theorem about deduplication (`FedOncePerEvent`).  Hence no row is
refused (`NeverRefused`) and none is counted twice (`CountedOnce`), and the
baselines of the chain are sound.

### Local deliveries

`ReadyEventsProofs`, for any inboxes, command lines, workers, reference ledgers,
failures and kills of the Kafka shadow worker:

| Theorem | Statement |
|---|---|
| `WorkerInvariant` | `WorkerSpec => []WorkerInv` |
| `OneBaseHolds` | `WorkerSpec => []OneBase` |
| `RunsVouchHolds` | `WorkerSpec => []RunsVouch` |
| `NeverReplaced` | `WorkerSpec => ResultsNeverReplaced` |

The argument.  The base of a result (registered version and window) is compared
with the command's own only if the result was in the listing the command made at
its start, so two commands with different bases may both have listed nothing.
What saves `OneBase` is the order: every command begins with the first request of
the queue, and whoever is past it has met, written or lost to the result of that
request, and stops if it is of another base.  `WorkerInv` says so: the first
result is there before any other, all results have its base, and every command
past the first request has that base too.  `RunsVouch` needs that a run is only
opened over complete results (`Complete`), which only grow.

The same module, for any tables, builders, kills and times the table is made
anew, from `Parameters` (the rows of a table are distinct events, and a range given
to a command is of versions in order): `OutboxInvariant`
(`OutboxSpec => []OutboxInv`) and `ArtifactsTrueHolds`
(`OutboxSpec => []ArtifactsTrue`).  A command reads versions one after another while
the table is added to, or deleted and made anew under the same name.  The invariant
says that what it has read so far is a stretch of versions of *one* table
(`ReadOf`), the one whose identity it took with its first read and checks with
every later one; until then nothing has to be of a table (`NothingRead`).  A
version holds all rows of the versions before it (`GrowingTable`), so an event is
new in one version only, whatever range finds it, and the segments of a range make
up its outbox; a new version changes nothing of what was made from older ones
(`TrueWhileGrowing`), and a new table none of what was made from others.  A batch
is complete only with what it is reproduced from, because the command that makes
it has completed or met those before (`Supports`).

The same module, for any outbox, handoffs, maxima, replays, failures and
kills: `ReceiverInvariant` (`ReceiverSpec => []ReceiverInv`) and
`AttemptsTrueHolds` (`ReceiverSpec => []AttemptsTrue`).  What is between the two
links is the point: a handoff that is about to write an attempt knows that the
receipt is linked (receipts only grow), and at most one handoff is about to write
ACCEPTED for an event, the one whose link succeeded, as long as no attempt tells
it yet.

### The lifecycle of models

`ModelLifecycleProofs`, for any models, processes and stops:

| Theorem | Statement |
|---|---|
| `LifecycleInvariant` | `Spec => []LifecycleInv` |
| `LifecycleTypes` | `Spec => []TypeOK` |
| `RegisteredOnceHolds` | `Spec => []RegisteredOnce` |
| `EvidenceVouchedHolds` | `Spec => []EvidenceVouched` |
| `NothingRepairedHolds` | `Spec => NothingRepaired` |

The argument.  A command looks something up, and acts on it several steps later.
`ProcInv` says for each step that what was found is still so, for one of two
reasons: the command holds the lock under which alone it can change (`HoldsLocks`:
no second run of a model while a tracker that missed it holds the store, no second
version while a registrar does), or it is of the kind that only grows (whole
directories, finished runs, complete versions).  The difficult place is a run that
is FINISHED and then marked FAILED: `SourcesFinished` records that a candidate's
run had been read back complete when the candidate was built, which stays true,
while its status may not.  `BuiltInv` says of a tracker past its checks that the run
is complete over a complete snapshot, and of an assessment that the receipt is.  `ReceiptsVouched`
says of a receipt what its registrar had verified, also of the run.

### Monitoring and replay

`OfflineMonitoringProofs`, for the commands of `OfflineMonitoring` and
`ShadowReplay` side by side on one directory of artifacts (`OfflineSpec`; the
`monitoring` run checks them as separate scenes), from `ModelsTrained`, `TimesNat`
and `FilesFinite` (times are natural numbers, files are finite):

| Theorem | Statement |
|---|---|
| `ArtifactsInvariant` | `OfflineSpec => []ArtifactsInv` |
| `SourcesCompleteHolds` | `OfflineSpec => []SourcesComplete` |
| `PointInTimeHolds` | `OfflineSpec => []PointInTime` |
| `EvidenceCoherentHolds` | `OfflineSpec => []EvidenceCoherent` |
| `ParitySoundHolds` | `OfflineSpec => []ParitySound` |
| `ReplayToldHolds` | `OfflineSpec => []ReplayTold` |
| `ArtifactsStayHolds` | `OfflineSpec => ArtifactsStay` |

The argument.  An artifact is its content, so what its command verified of the
sources can be said of the artifact (`Made`), and stays true because published
artifacts and executions are fixed (`MadeStays`).  The rest is about data.  A label
once known has a last known revision at any later time (`LastRevision`, from the
existence of a maximum), and a revision identifies a label since a history of `n`
labels has the revisions `1 .. n` (`LabelHistories`, by counting).  A longer ledger
adds no predecessors to a provider's revision, as those were contiguous already
(`SamePredecessors`); so it is available at the same time as before, and what
arrived after a cutoff is available after it (`SelectedStays`).  The same records
are therefore selected; a longer ledger may only know more cases (`CasesGrow`), so
that every state stays but `NO_CASE`, which may become `NOT_YET_OBSERVED`, and every
other count of the coverage stays.  What a replay tells
(`ReplayTold`) is about `RunDeliveries`, a fold over deliveries: what is known of a
request after each of them, and what the audit says, is told for every prefix
and carried by one further delivery, so that the first outcome stands whatever
comes again, and the audit has the results and nothing else but duplicates.

### The distances of drift snapshots

The same module, for populations of any size over any integers
(`NumbersAssumption`; a column of scaled fractions is one) and for any number of
bins and required rows: `DistancesDefinedHolds`
(`PopulationsSpec => []DistancesDefined`).  The walk of `ks_distance` goes over the
sorted values and keeps two positions and the largest gap met.  After any number
of values, the positions are the numbers of elements up to the last value, and the
gap is the largest at those values (`WalkTells`), because in a sorted population the
elements up to a value are a prefix (`UpToPrefix`) and the inner loops leave it
at its end (`AdvancePasses`), also over ties.  Quantiles are interpolated at
positions that grow, so they grow (`QuantilesGrow`: within one gap between
neighbours, or over the value in between); the inner boundaries lie strictly
between the extremes, so each extreme has its outer bin (`OuterBins`). Sums over
bins and categories are taken in no particular order: each is a count of pairs
(`Total`), so that a sum of counts is a count (`TotalOfCounts`), and the
inequalities of the total variation are added up category by category
(`TotalDifference`).

### Recovery

`OfflineMonitoringProofs`, from `PlacesAssumption` (no place is both a file and a topic,
and every place is made of places): `RecoveryInvariant`
(`RecoverySpec => []RecoveryInv`) and `ResumesOneInstantHolds`
(`RecoverySpec => ResumesOneInstant`).  Stored contents are read at different
moments and no check compares them all.  The invariant names the moment instead
of looking for it: between what a cutoff *identified* and what it *stores* lies
the consistent content of the source when its broker was stopped.  A rehearsal
resumes only if the restored files equal what was identified *and* what was
stored, and its broker runs only if the same holds of the volume, so that moment
has no choice but to be what is restored.

### What is only model-checked

Liveness under fairness (`EveryBatchAccepted`, `ActivityDrained`,
`EverythingDelivered`, `EverythingAssessed`) is out of the prover's reach, as is
`ENABLED`.  Every other property of a passing run is stated by a theorem.  The
theorems say nothing about what the models leave out (section 6), and take
external behaviour as modelled: Kafka's log, Spark's offset log, commit log and
watermarks, Delta's transaction identifiers.

## 6. What is not modelled, and the plan

Not modelled, as nothing in it depends on order, time or failure: the
transaction's validator and the Avro codec (pure functions of one event), the
producer (sends one event at a time and keeps nothing), risk decisions (a pure
function of one row), generation of synthetic scenarios and corpora, argument
parsing, telemetry and reports, Gradle, Docker and shell recipes except where
their order is used above.  Kafka, Spark, Delta Lake, MLflow and SQLite are
external, modelled as far as the code relies on them.

Left out of modelled parts: fingerprints and identity checks of files nobody
tampers with; arithmetic (Welford's recurrence, logarithms, tolerances of two
probabilities, metrics); read-only inspection and comparison commands; of
recovery, the copy of a verified bundle, the runtime image, SQLite's logical copy
and the records the Schema Registry writes when it starts.  `PROJECT.json` names
them component by component.

Worth doing next, in this order:

1. The research lineage (`FeatureReadyReconciliation`, `FeatureReadyShadowInbox`)
   and the Kafka source of ingestion with several partitions, as instances of
   `FeatureReadyTransport`'s acceptor and of `MicroBatchQuery`.
2. An abstract exactly-once specification that `MicroBatchQuery` implements, and
   the chain with rolling features in between.
3. The stateful integration and the reliability experiments, which drive the
   components above end to end.
4. Proofs: the abstract specification of point 2 as a refinement, and the chain
   with rolling features in it as a third instance of `MicroBatchQueryProofs`.
