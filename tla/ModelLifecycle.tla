--------------------------- MODULE ModelLifecycle ---------------------------
(***************************************************************************)
(* From one dataset snapshot to assessed models: building the snapshot,    *)
(* training, tracking in MLflow, the candidate artifact, its registration  *)
(* and its assessment.  Every step is a command of its own process; the    *)
(* commands meet only in the artifact directories, in the SQLite store of  *)
(* tracked runs and registry versions, and in three kinds of file locks.   *)
(* A model stands for one training configuration over the snapshot, and    *)
(* with it for the training run, candidate and dossier identities that are *)
(* hashes of their content.                                                *)
(***************************************************************************)
EXTENDS Naturals, Sequences, FiniteSets

CONSTANTS
  Models,      \* training configurations over the one snapshot
  Commands,    \* processes that run build, train and assess commands
  Trackers,    \* processes that run track commands
  Candidators, \* processes that run build-candidate commands
  Registrars,  \* processes that run register commands
  None,        \* no process, no tracked run
  MaxStops     \* bound: commands killed or failing on an I/O or store error

Procs == Commands \cup Trackers \cup Candidators \cup Registrars

ASSUME RolesDisjoint ==
  /\ Commands \cap (Trackers \cup Candidators \cup Registrars) = {}
  /\ Trackers \cap (Candidators \cup Registrars) = {}
  /\ Candidators \cap Registrars = {}
  /\ None \notin Procs
ASSUME MaxStopsNat == MaxStops \in Nat

VARIABLES
  dir,      \* artifact -> whether its directory (or receipt file) is absent, partial or whole
  tracked,  \* MLflow runs in order of creation
  source,   \* model -> index of the run its candidate manifest names, 0 for null
  versions, \* registry versions in order of creation
  receipt,  \* model -> version its receipt names
  lock,     \* lock file -> process holding it
  pc,       \* process -> the step it is at
  stops     \* commands stopped so far

vars == <<dir, tracked, source, versions, receipt, lock, pc, stops>>

Snapshot == <<"snapshot">>
Run(m) == <<"run", m>>
Candidate(m) == <<"candidate", m>>
Receipt(m) == <<"receipt", m>>
Dossier(m) == <<"dossier", m>>
Artifacts == {Snapshot} \cup UNION {{Run(m), Candidate(m), Receipt(m), Dossier(m)} : m \in Models}

Tracking == <<"tracking.lock">>
Registry == <<"registry.lock">>
CandidateLock(m) == <<"candidate.lock", m>>
Locks == {Tracking, Registry} \cup {CandidateLock(m) : m \in Models}

\* of: the model; arg: the run or version worked on; corpus: whether lineage paths were given
Idle == [at |-> "idle", of |-> None, arg |-> 0, corpus |-> FALSE]
At(p, s) == pc[p].at = s
Goto(p, s) == pc' = [pc EXCEPT ![p].at = s]
Starts(p, s, m, n, c) == At(p, "idle") /\ pc' = [pc EXCEPT ![p] = [at |-> s, of |-> m, arg |-> n, corpus |-> c]]
Ends(p) == pc' = [pc EXCEPT ![p] = Idle]
Acquires(p, l) == lock[l] = None /\ lock' = [lock EXCEPT ![l] = p]
Releases(p) == lock' = [l \in Locks |-> IF lock[l] = p THEN None ELSE lock[l]]
Sets(a, s) == dir' = [dir EXCEPT ![a] = s]
Whole(a) == dir[a] = "whole"

Init ==
  /\ dir = [a \in Artifacts |-> "absent"]
  /\ tracked = <<>>
  /\ source = [m \in Models |-> 0]
  /\ versions = <<>>
  /\ receipt = [m \in Models |-> 0]
  /\ lock = [l \in Locks |-> None]
  /\ pc = [p \in Procs |-> Idle]
  /\ stops = 0

-----------------------------------------------------------------------------
(* Snapshot and training run.  The directory is claimed by an exclusive    *)
(* mkdir without a lock; a command that finds it inspects it and ends,     *)
(* having changed nothing whether it is whole, partial or being written.   *)

ClaimSnapshot(p) ==
  /\ dir[Snapshot] = "absent"
  /\ Starts(p, "snapshot", None, 0, FALSE)
  /\ Sets(Snapshot, "partial")
  /\ UNCHANGED <<tracked, source, versions, receipt, lock, stops>>

WriteSnapshot(p) ==
  /\ At(p, "snapshot")
  /\ Sets(Snapshot, "whole")
  /\ Ends(p)
  /\ UNCHANGED <<tracked, source, versions, receipt, lock, stops>>

\* inspect_snapshot: exactly the two artifacts, consistent with each other and the name.
SnapshotSound == Whole(Snapshot)

ClaimRun(p, m) ==
  /\ SnapshotSound
  /\ dir[Run(m)] = "absent"
  /\ Starts(p, "train", m, 0, FALSE)
  /\ Sets(Run(m), "partial")
  /\ UNCHANGED <<tracked, source, versions, receipt, lock, stops>>

WriteRun(p) ==
  /\ At(p, "train")
  /\ Sets(Run(pc[p].of), "whole")
  /\ Ends(p)
  /\ UNCHANGED <<tracked, source, versions, receipt, lock, stops>>

\* inspect_run, and the snapshot it was trained on.
RunSound(m) == Whole(Run(m))
SourceValid(m) == RunSound(m) /\ SnapshotSound

-----------------------------------------------------------------------------
(* Tracking, one writer at a time by the lock beside the SQLite file.      *)

Evidence(m) == RunSound(m) /\ SnapshotSound

RunsForIdentity(m) == {i \in DOMAIN tracked : tracked[i].of = m}

\* Evidence, tags (the corpus is one), metrics and artifacts equal what is given now.
ReadsBack(i, m, c) == tracked[i] = [of |-> m, corpus |-> c, logged |-> TRUE, status |-> "FINISHED"]

StartTrack(p, m, c) ==
  /\ Evidence(m)
  /\ Starts(p, "track", m, 0, c)
  /\ UNCHANGED <<dir, tracked, source, versions, receipt, lock, stops>>

\* Mutation: the lookup is not serialized.
LockTrackNot(p) ==
  /\ At(p, "track")
  /\ Goto(p, "lookup run")
  /\ UNCHANGED <<dir, tracked, source, versions, receipt, lock, stops>>

LockTrack(p) ==
  /\ At(p, "track")
  /\ Acquires(p, Tracking)
  /\ Goto(p, "lookup run")
  /\ UNCHANGED <<dir, tracked, source, versions, receipt, stops>>

\* Whether the run reads back decides the command's result, never the store.
FindRun(p) ==
  /\ At(p, "lookup run")
  /\ RunsForIdentity(pc[p].of) # {}
  /\ Releases(p)
  /\ Ends(p)
  /\ UNCHANGED <<dir, tracked, source, versions, receipt, stops>>

MissRun(p) ==
  /\ At(p, "lookup run")
  /\ RunsForIdentity(pc[p].of) = {}
  /\ Goto(p, "create run")
  /\ UNCHANGED <<dir, tracked, source, versions, receipt, lock, stops>>

CreateRun(p) ==
  /\ At(p, "create run")
  /\ tracked' = Append(tracked,
       [of |-> pc[p].of, corpus |-> pc[p].corpus, logged |-> FALSE, status |-> "RUNNING"])
  /\ pc' = [pc EXCEPT ![p].at = "log", ![p].arg = Len(tracked) + 1]
  /\ UNCHANGED <<dir, source, versions, receipt, lock, stops>>

\* Parameters, metrics and the three artifacts.
LogRun(p) ==
  /\ At(p, "log")
  /\ tracked' = [tracked EXCEPT ![pc[p].arg].logged = TRUE]
  /\ Goto(p, "finish")
  /\ UNCHANGED <<dir, source, versions, receipt, lock, stops>>

FinishRun(p) ==
  /\ At(p, "finish")
  /\ tracked[pc[p].arg].logged
  /\ tracked' = [tracked EXCEPT ![pc[p].arg].status = "FINISHED"]
  /\ Goto(p, "read back")
  /\ UNCHANGED <<dir, source, versions, receipt, lock, stops>>

ReadBack(p) ==
  /\ At(p, "read back")
  /\ ReadsBack(pc[p].arg, pc[p].of, pc[p].corpus)
  /\ Releases(p)
  /\ Ends(p)
  /\ UNCHANGED <<dir, tracked, source, versions, receipt, stops>>

\* Mutation: the run is marked as killed.
FailRunKilled(p) ==
  /\ pc[p].at \in {"log", "finish", "read back"}
  /\ stops < MaxStops /\ stops' = stops + 1
  /\ tracked' = [tracked EXCEPT ![pc[p].arg].status = "KILLED"]
  /\ Releases(p)
  /\ Ends(p)
  /\ UNCHANGED <<dir, source, versions, receipt>>

\* A store error while logging or reading back: the run is marked FAILED, also
\* after it was FINISHED.
FailRun(p) ==
  /\ pc[p].at \in {"log", "finish", "read back"}
  /\ stops < MaxStops /\ stops' = stops + 1
  /\ tracked' = [tracked EXCEPT ![pc[p].arg].status = "FAILED"]
  /\ Releases(p)
  /\ Ends(p)
  /\ UNCHANGED <<dir, source, versions, receipt>>

-----------------------------------------------------------------------------
(* The candidate, optionally naming a tracked run; one lock per candidate. *)

\* _verify_tracking ignores the provenance hash, and with it the corpus.
TrackingVerified(m, i) ==
  /\ i \in DOMAIN tracked
  /\ tracked[i].of = m /\ tracked[i].logged /\ tracked[i].status = "FINISHED"

CandidateSound(m) ==
  /\ Whole(Candidate(m))
  /\ SourceValid(m)
  /\ source[m] # 0 => TrackingVerified(m, source[m])

StartCandidate(p, m, i) ==
  /\ SourceValid(m)
  /\ i # 0 => TrackingVerified(m, i)
  /\ Starts(p, "candidate", m, i, FALSE)
  /\ UNCHANGED <<dir, tracked, source, versions, receipt, lock, stops>>

LockCandidate(p) ==
  /\ At(p, "candidate")
  /\ Acquires(p, CandidateLock(pc[p].of))
  /\ Goto(p, "lookup candidate")
  /\ UNCHANGED <<dir, tracked, source, versions, receipt, stops>>

\* Returned when sound and of the same tracked run, else an error.
FindCandidate(p) ==
  /\ At(p, "lookup candidate")
  /\ dir[Candidate(pc[p].of)] # "absent"
  /\ Releases(p)
  /\ Ends(p)
  /\ UNCHANGED <<dir, tracked, source, versions, receipt, stops>>

\* Mutation: the target directory may exist already.
ClaimCandidateExisting(p) ==
  /\ At(p, "lookup candidate")
  /\ ~Whole(Candidate(pc[p].of))
  /\ Sets(Candidate(pc[p].of), "partial")
  /\ Goto(p, "move")
  /\ UNCHANGED <<tracked, source, versions, receipt, lock, stops>>

\* Built and verified in a scratch directory, then moved one artifact at a time.
ClaimCandidate(p) ==
  /\ At(p, "lookup candidate")
  /\ dir[Candidate(pc[p].of)] = "absent"
  /\ Sets(Candidate(pc[p].of), "partial")
  /\ Goto(p, "move")
  /\ UNCHANGED <<tracked, source, versions, receipt, lock, stops>>

\* The manifest is moved last.
MoveCandidate(p) ==
  /\ At(p, "move")
  /\ Sets(Candidate(pc[p].of), "whole")
  /\ source' = [source EXCEPT ![pc[p].of] = pc[p].arg]
  /\ Releases(p)
  /\ Ends(p)
  /\ UNCHANGED <<tracked, versions, receipt, stops>>

-----------------------------------------------------------------------------
(* Registration, serialized by the registry lock.                          *)

\* A nonblank source run is part of eligibility.
Eligible(m) == source[m] # 0

SourceSound(m) ==
  /\ Whole(Candidate(m))
  /\ SourceValid(m)
  /\ TrackingVerified(m, source[m])
  /\ Eligible(m)

Claims(m) == {v \in DOMAIN versions : versions[v].of = m}

\* Mutation: the expected status is not passed on.
VersionSoundComplete(v, status) ==
  /\ v \in DOMAIN versions
  /\ SourceSound(versions[v].of)
  /\ Claims(versions[v].of) = {v}
  /\ versions[v].status = "COMPLETE"

VersionSound(v, status) ==
  /\ v \in DOMAIN versions
  /\ SourceSound(versions[v].of)
  /\ Claims(versions[v].of) = {v}
  /\ versions[v].status = status

StartRegister(p, m) ==
  /\ CandidateSound(m) /\ Eligible(m) /\ SourceSound(m)
  /\ Starts(p, "register", m, 0, FALSE)
  /\ UNCHANGED <<dir, tracked, source, versions, receipt, lock, stops>>

LockRegistry(p) ==
  /\ At(p, "register")
  /\ Acquires(p, Registry)
  /\ Goto(p, "lookup version")
  /\ UNCHANGED <<dir, tracked, source, versions, receipt, stops>>

\* A complete version with its receipt is returned, anything else refused: the
\* receipt of a complete version is not supplied later.
FindVersion(p) ==
  /\ At(p, "lookup version")
  /\ Claims(pc[p].of) # {}
  /\ Releases(p)
  /\ Ends(p)
  /\ UNCHANGED <<dir, tracked, source, versions, receipt, stops>>

MissVersion(p) ==
  /\ At(p, "lookup version")
  /\ Claims(pc[p].of) = {}
  /\ Goto(p, "create version")
  /\ UNCHANGED <<dir, tracked, source, versions, receipt, lock, stops>>

CreateVersion(p) ==
  /\ At(p, "create version")
  /\ versions' = Append(versions, [of |-> pc[p].of, status |-> "INCOMPLETE"])
  /\ pc' = [pc EXCEPT ![p].at = "verify", ![p].arg = Len(versions) + 1]
  /\ UNCHANGED <<dir, tracked, source, receipt, lock, stops>>

CompleteVersion(p) ==
  /\ At(p, "verify")
  /\ VersionSound(pc[p].arg, "INCOMPLETE")
  /\ versions' = [versions EXCEPT ![pc[p].arg].status = "COMPLETE"]
  /\ Goto(p, "confirm")
  /\ UNCHANGED <<dir, tracked, source, receipt, lock, stops>>

\* Mutation: the receipt is published before the version is marked complete.
ClaimReceiptEarly(p) ==
  /\ At(p, "verify")
  /\ VersionSound(pc[p].arg, "INCOMPLETE")
  /\ dir[Receipt(pc[p].of)] = "absent"
  /\ Sets(Receipt(pc[p].of), "partial")
  /\ Goto(p, "receipt")
  /\ UNCHANGED <<tracked, source, versions, receipt, lock, stops>>

\* The receipt file is created exclusively ...
ClaimReceipt(p) ==
  /\ At(p, "confirm")
  /\ VersionSound(pc[p].arg, "COMPLETE")
  /\ dir[Receipt(pc[p].of)] = "absent"
  /\ Sets(Receipt(pc[p].of), "partial")
  /\ Goto(p, "receipt")
  /\ UNCHANGED <<tracked, source, versions, receipt, lock, stops>>

\* ... and then written.
WriteReceipt(p) ==
  /\ At(p, "receipt")
  /\ Sets(Receipt(pc[p].of), "whole")
  /\ receipt' = [receipt EXCEPT ![pc[p].of] = pc[p].arg]
  /\ Releases(p)
  /\ Ends(p)
  /\ UNCHANGED <<tracked, source, versions, stops>>

\* A verification that fails ends the command; the version stays as it is.
RefuseVersion(p) ==
  /\ \/ At(p, "verify") /\ ~VersionSound(pc[p].arg, "INCOMPLETE")
     \/ At(p, "confirm") /\ ~VersionSound(pc[p].arg, "COMPLETE")
     \/ At(p, "confirm") /\ dir[Receipt(pc[p].of)] # "absent"
  /\ Releases(p)
  /\ Ends(p)
  /\ UNCHANGED <<dir, tracked, source, versions, receipt, stops>>

\* inspect_registered_candidate, for some version of m.
Registered(m) ==
  \E v \in Claims(m) : /\ VersionSound(v, "COMPLETE")
                       /\ Whole(Receipt(m)) /\ receipt[m] = v

-----------------------------------------------------------------------------
(* Assessment of a registered model, claimed like a snapshot.              *)

\* Every upstream artifact is inspected again and its hash becomes part of the identity.
Collected(m) == Registered(m) /\ CandidateSound(m) /\ Evidence(m)

ClaimDossier(p, m) ==
  /\ Collected(m)
  /\ dir[Dossier(m)] = "absent"
  /\ Starts(p, "assess", m, 0, FALSE)
  /\ Sets(Dossier(m), "partial")
  /\ UNCHANGED <<tracked, source, versions, receipt, lock, stops>>

WriteDossier(p) ==
  /\ At(p, "assess")
  /\ Sets(Dossier(pc[p].of), "whole")
  /\ Ends(p)
  /\ UNCHANGED <<tracked, source, versions, receipt, lock, stops>>

-----------------------------------------------------------------------------
\* A kill, or an error outside the tracked section; the kernel or the finally
\* clause releases the lock, and what was written stays.
Stop(p) ==
  /\ ~At(p, "idle")
  /\ stops < MaxStops /\ stops' = stops + 1
  /\ Releases(p)
  /\ Ends(p)
  /\ UNCHANGED <<dir, tracked, source, versions, receipt>>

Starting(p, m) ==
  \/ p \in Commands /\ (ClaimSnapshot(p) \/ ClaimRun(p, m) \/ ClaimDossier(p, m))
  \/ p \in Trackers /\ \E c \in BOOLEAN : StartTrack(p, m, c)
  \/ p \in Candidators /\ \E i \in {0} \cup DOMAIN tracked : StartCandidate(p, m, i)
  \/ p \in Registrars /\ StartRegister(p, m)

Working(p) ==
  \/ p \in Commands /\ (WriteSnapshot(p) \/ WriteRun(p) \/ WriteDossier(p))
  \/ p \in Trackers /\
       (LockTrack(p) \/ FindRun(p) \/ MissRun(p) \/ CreateRun(p) \/ LogRun(p) \/ FinishRun(p) \/ ReadBack(p))
  \/ p \in Candidators /\
       (LockCandidate(p) \/ FindCandidate(p) \/ ClaimCandidate(p) \/ MoveCandidate(p))
  \/ p \in Registrars /\
       (LockRegistry(p) \/ FindVersion(p) \/ MissVersion(p) \/ CreateVersion(p) \/ CompleteVersion(p)
         \/ ClaimReceipt(p) \/ WriteReceipt(p) \/ RefuseVersion(p))

Next == \E p \in Procs :
  \/ \E m \in Models : Starting(p, m)
  \/ Working(p)
  \/ p \in Trackers /\ FailRun(p)
  \/ Stop(p)

Spec == Init /\ [][Next]_vars

\* A process always goes on: with a started command, and after it with another
\* one it may give.  (A waiter on a lock may be overtaken for ever by the same
\* command of another process.)
FairSpec ==
  Spec /\ \A p \in Procs : WF_vars(Working(p) \/ \E m \in Models : Starting(p, m))

-----------------------------------------------------------------------------
Steps == {"idle", "snapshot", "train", "track", "lookup run", "create run", "log", "finish", "read back",
          "candidate", "lookup candidate", "move", "register", "lookup version", "create version", "verify",
          "confirm", "receipt", "assess"}

RunRecords ==
  [of : Models, corpus : BOOLEAN, logged : BOOLEAN, status : {"RUNNING", "FAILED", "FINISHED"}]
VersionRecords == [of : Models, status : {"INCOMPLETE", "COMPLETE"}]
ProcStates == [at : Steps, of : Models \cup {None}, arg : Nat, corpus : BOOLEAN]

TypeOK ==
  /\ dir \in [Artifacts -> {"absent", "partial", "whole"}]
  /\ tracked \in Seq(RunRecords) /\ source \in [Models -> Nat]
  /\ versions \in Seq(VersionRecords) /\ receipt \in [Models -> Nat]
  /\ lock \in [Locks -> Procs \cup {None}] /\ pc \in [Procs -> ProcStates]
  /\ stops \in 0 .. MaxStops

\* track_run: however many track commands race and wherever they are killed, a
\* training run is tracked at most once, and a run shown FINISHED has all its
\* parameters, metrics and artifacts.
TrackedOnce ==
  /\ \A i, j \in DOMAIN tracked : tracked[i].of = tracked[j].of => i = j
  /\ \A i \in DOMAIN tracked : tracked[i].status = "FINISHED" => tracked[i].logged

\* register_candidate: a candidate has at most one registry version, also when
\* a registration was killed and is tried again.
OneVersion == \A m \in Models, u, v \in DOMAIN versions : {u, v} \subseteq Claims(m) => u = v

\* Nothing of a model is tracked or registered twice.
RegisteredOnce == TrackedOnce /\ OneVersion

\* _publish_receipt comes last: a receipt names a complete version of its
\* candidate, whose candidate and tracked evidence are complete.
ReceiptVouches ==
  \A m \in Models : Whole(Receipt(m)) =>
    /\ receipt[m] \in DOMAIN versions
    /\ versions[receipt[m]] = [of |-> m, status |-> "COMPLETE"]
    /\ Whole(Candidate(m)) /\ SourceValid(m)
    /\ source[m] \in DOMAIN tracked /\ tracked[source[m]].logged

\* A candidate that names a tracked run names one that was FINISHED when it was
\* built: it is complete, of the same training run, and can since only have
\* been marked FAILED by the command that tracked it.
SourceWasFinished ==
  \A m \in Models : source[m] # 0 =>
    /\ source[m] \in DOMAIN tracked
    /\ tracked[source[m]].of = m /\ tracked[source[m]].logged
    /\ tracked[source[m]].status # "RUNNING"

\* track_run and assess inspect upstream evidence before they write: a run was
\* only tracked of a complete training run over a complete snapshot, and a
\* dossier, even half-written, is of a model whose receipt is complete.
BuiltOnComplete ==
  /\ \A i \in DOMAIN tracked : SourceValid(tracked[i].of)
  /\ \A m \in Models : dir[Dossier(m)] # "absent" => Whole(Receipt(m))

\* What a tracked run, candidate, receipt or dossier refers to is what it says.
EvidenceVouched == ReceiptVouches /\ SourceWasFinished /\ BuiltOnComplete

\* The process writing an artifact, if there is one.
Writing(p, a) ==
  \/ At(p, "snapshot") /\ a = Snapshot
  \/ At(p, "train") /\ a = Run(pc[p].of)
  \/ At(p, "move") /\ a = Candidate(pc[p].of)
  \/ At(p, "receipt") /\ a = Receipt(pc[p].of)
  \/ At(p, "assess") /\ a = Dossier(pc[p].of)

Abandoned(a) == dir[a] = "partial" /\ \A p \in Procs : ~Writing(p, a)

\* "Interrupted writes remain visibly incomplete, not silently repaired": an
\* artifact abandoned half-written stays so, and a whole one is never touched.
NothingRepaired ==
  [][\A a \in Artifacts : (Abandoned(a) => Abandoned(a)') /\ (Whole(a) => Whole(a)')]_vars

\* What a retry of the same command does not get past.
Stuck(m) ==
  \/ \E a \in {Snapshot, Run(m), Candidate(m), Receipt(m), Dossier(m)} : Abandoned(a)
  \/ /\ \A p \in Trackers : pc[p].at \in {"log", "finish", "read back"} => pc[p].of # m
     /\ \E i \in RunsForIdentity(m) : tracked[i].status # "FINISHED"
  \/ /\ \A p \in Registrars : pc[p].at \in {"verify", "confirm", "receipt"} => pc[p].of # m
     /\ \E v \in Claims(m) : versions[v].status = "INCOMPLETE" \/ dir[Receipt(m)] = "absent"

\* Commands given again and again get every model assessed, unless its candidate
\* was built without a tracked run, or a command was stopped and left behind what
\* the code refuses to go on from.
EverythingAssessed ==
  \A m \in Models : <>\/ Whole(Dossier(m))
                      \/ Whole(Candidate(m)) /\ ~Eligible(m)
                      \/ stops > 0 /\ Stuck(m)
=============================================================================
