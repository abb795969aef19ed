------------------------- MODULE ModelLifecycleProofs -------------------------
(***************************************************************************)
(* Proofs about ModelLifecycle, for any models and any number of build,    *)
(* train, track, candidate, register and assess commands, kills and store  *)
(* errors.                                                                 *)
(***************************************************************************)
EXTENDS ModelLifecycle, SequenceTheorems, TLAPS

\* The steps of a command that holds a lock.
TrackSteps == {"lookup run", "create run", "log", "finish", "read back"}
CandidateSteps == {"lookup candidate", "move"}
RegisterSteps == {"lookup version", "create version", "verify", "confirm", "receipt"}

\* A command with a model has one; what it has locked is its own.
HoldsLocks(p) ==
  /\ pc[p].at \notin {"idle", "snapshot"} => pc[p].of \in Models
  /\ pc[p].at \in TrackSteps => lock[Tracking] = p
  /\ pc[p].at \in CandidateSteps => lock[CandidateLock(pc[p].of)] = p
  /\ pc[p].at \in RegisterSteps => lock[Registry] = p

\* Run i of the store was FINISHED for m, whatever was made of it since.
WasFinished(i, m) ==
  /\ i \in DOMAIN tracked
  /\ tracked[i].of = m /\ tracked[i].logged /\ tracked[i].status # "RUNNING"

\* What a track, candidate or register command has found is still so.
TrackerInv(p) ==
  /\ pc[p].at = "create run" => RunsForIdentity(pc[p].of) = {}
  /\ pc[p].at \in {"log", "finish", "read back"} =>
       pc[p].arg \in DOMAIN tracked /\ tracked[pc[p].arg].of = pc[p].of

CandidateInv(p) ==
  /\ pc[p].at = "move" => dir[Candidate(pc[p].of)] = "partial"
  /\ pc[p].at \in {"candidate", "lookup candidate", "move"} /\ pc[p].arg # 0 => WasFinished(pc[p].arg, pc[p].of)

\* A complete candidate of m, with evidence, of which v is a complete version.
Vouched(m, v) ==
  /\ v \in DOMAIN versions /\ versions[v].of = m /\ versions[v].status = "COMPLETE"
  /\ Whole(Candidate(m)) /\ SourceValid(m)
  /\ source[m] \in DOMAIN tracked /\ tracked[source[m]].logged

RegistrarInv(p) ==
  /\ pc[p].at = "create version" => Claims(pc[p].of) = {}
  /\ pc[p].at \in {"verify", "confirm", "receipt"} =>
       pc[p].arg \in DOMAIN versions /\ versions[pc[p].arg].of = pc[p].of
  /\ pc[p].at = "receipt" => Vouched(pc[p].of, pc[p].arg)

ProcInv(p) == HoldsLocks(p) /\ TrackerInv(p) /\ CandidateInv(p) /\ RegistrarInv(p)

SourcesFinished == \A m \in Models : source[m] # 0 => WasFinished(source[m], m)
ReceiptsVouched == \A m \in Models : Whole(Receipt(m)) => Vouched(m, receipt[m])

StoreInv == RegisteredOnce /\ SourcesFinished /\ ReceiptsVouched

LifecycleInv == TypeOK /\ StoreInv /\ \A p \in Procs : ProcInv(p)
-----------------------------------------------------------------------------
(* Names, sequences and processes.                                         *)

Step(p) ==
  \/ \E m \in Models : Starting(p, m)
  \/ Working(p)
  \/ p \in Trackers /\ FailRun(p)
  \/ Stop(p)

\* The names of artifacts and of locks do not collide.
LEMMA NamesDistinct ==
  ASSUME NEW m, NEW n
  PROVE /\ Run(m) # Snapshot /\ Candidate(m) # Snapshot /\ Receipt(m) # Snapshot /\ Dossier(m) # Snapshot
        /\ Run(m) # Candidate(n) /\ Run(m) # Receipt(n) /\ Run(m) # Dossier(n)
        /\ Candidate(m) # Receipt(n) /\ Candidate(m) # Dossier(n) /\ Receipt(m) # Dossier(n)
        /\ Candidate(m) = Candidate(n) => m = n
        /\ Receipt(m) = Receipt(n) => m = n
        /\ Tracking # Registry /\ Tracking # CandidateLock(m) /\ Registry # CandidateLock(m)
        /\ CandidateLock(m) = CandidateLock(n) => m = n
<1>1. /\ Snapshot[1] = "snapshot"
      /\ \A k : /\ Run(k)[1] = "run" /\ Candidate(k)[1] = "candidate" /\ Candidate(k)[2] = k
               /\ Receipt(k)[1] = "receipt" /\ Receipt(k)[2] = k /\ Dossier(k)[1] = "dossier"
  BY DEF Snapshot, Run, Candidate, Receipt, Dossier
<1>2. /\ Tracking[1] = "tracking.lock" /\ Registry[1] = "registry.lock"
      /\ \A k : CandidateLock(k)[1] = "candidate.lock" /\ CandidateLock(k)[2] = k
  BY DEF Tracking, Registry, CandidateLock
<1>3. \A x, y : x[1] # y[1] => x # y
  OBVIOUS
<1>4. /\ Run(m) # Snapshot /\ Candidate(m) # Snapshot /\ Receipt(m) # Snapshot /\ Dossier(m) # Snapshot
      /\ Run(m) # Candidate(n) /\ Run(m) # Receipt(n) /\ Run(m) # Dossier(n)
      /\ Candidate(m) # Receipt(n) /\ Candidate(m) # Dossier(n) /\ Receipt(m) # Dossier(n)
  BY <1>1, <1>3
<1>5. Tracking # Registry /\ Tracking # CandidateLock(m) /\ Registry # CandidateLock(m)
  BY <1>2, <1>3
<1>6. /\ Candidate(m) = Candidate(n) => m = n
      /\ Receipt(m) = Receipt(n) => m = n
  BY <1>1
<1>7. CandidateLock(m) = CandidateLock(n) => m = n
  BY <1>2
<1> QED
  BY <1>4, <1>5, <1>6, <1>7

LEMMA NamesKnown ==
  /\ Snapshot \in Artifacts /\ Tracking \in Locks /\ Registry \in Locks
  /\ \A m \in Models : /\ {Run(m), Candidate(m), Receipt(m), Dossier(m)} \subseteq Artifacts
                       /\ CandidateLock(m) \in Locks
BY DEF Artifacts, Locks

LEMMA AppendFacts ==
  ASSUME NEW S, NEW s \in Seq(S), NEW e \in S
  PROVE /\ Append(s, e) \in Seq(S)
        /\ DOMAIN s = 1..Len(s) /\ Len(s) \in Nat
        /\ DOMAIN Append(s, e) = 1..(Len(s) + 1)
        /\ \A i \in DOMAIN s : Append(s, e)[i] = s[i]
        /\ Append(s, e)[Len(s) + 1] = e
BY AppendProperties, LenProperties

LEMMA ExceptFacts ==
  ASSUME NEW S, NEW s \in Seq(S), NEW i \in DOMAIN s, NEW e \in S
  PROVE /\ [s EXCEPT ![i] = e] \in Seq(S)
        /\ DOMAIN [s EXCEPT ![i] = e] = DOMAIN s
        /\ [s EXCEPT ![i] = e][i] = e
        /\ \A j \in DOMAIN s : j # i => [s EXCEPT ![i] = e][j] = s[j]
BY ExceptSeq, LenProperties

\* What the forms of a change of a process and of its locks leave alone.
PcAlone(p) ==
  /\ pc' \in [Procs -> ProcStates]
  /\ \A q \in Procs : q # p => pc'[q] = pc[q]

LEMMA GotoChanges ==
  ASSUME pc \in [Procs -> ProcStates], NEW p \in Procs, NEW s \in Steps, Goto(p, s)
  PROVE /\ PcAlone(p)
        /\ pc'[p].at = s /\ pc'[p].of = pc[p].of /\ pc'[p].arg = pc[p].arg /\ pc'[p].corpus = pc[p].corpus
<1>1. pc[p] \in ProcStates
  OBVIOUS
<1> QED
  BY <1>1 DEF Goto, ProcStates, PcAlone

LEMMA EndsChanges ==
  ASSUME pc \in [Procs -> ProcStates], NEW p \in Procs, Ends(p)
  PROVE PcAlone(p) /\ pc'[p].at = "idle"
BY DEF Ends, Idle, ProcStates, Steps, PcAlone

LEMMA StartsChanges ==
  ASSUME pc \in [Procs -> ProcStates], NEW p \in Procs, NEW s \in Steps, NEW m \in Models \cup {None},
         NEW n \in Nat, NEW c \in BOOLEAN, Starts(p, s, m, n, c)
  PROVE PcAlone(p) /\ pc'[p].at = s /\ pc'[p].of = m /\ pc'[p].arg = n
BY DEF Starts, ProcStates, PcAlone

LEMMA LockChanges ==
  ASSUME lock \in [Locks -> Procs \cup {None}], NEW p \in Procs
  PROVE /\ \A l \in Locks : Acquires(p, l) =>
             /\ lock' \in [Locks -> Procs \cup {None}] /\ lock'[l] = p
             /\ \A k \in Locks, q \in Procs : lock[k] = q => lock'[k] = q
        /\ Releases(p) =>
             /\ lock' \in [Locks -> Procs \cup {None}]
             /\ \A k \in Locks, q \in Procs : q # p /\ lock[k] = q => lock'[k] = q
BY RolesDisjoint DEF Acquires, Releases
-----------------------------------------------------------------------------
(* What a step does to the store, and what it leaves alone.                *)

Store == <<dir, tracked, source, versions, receipt>>

\* Steps that only look, wait, start, end or refuse.
Reads(p) ==
  \/ \E m \in Models :
       \/ \E c \in BOOLEAN : StartTrack(p, m, c)
       \/ \E i \in {0} \cup DOMAIN tracked : StartCandidate(p, m, i)
       \/ StartRegister(p, m)
  \/ LockTrack(p) \/ FindRun(p) \/ MissRun(p) \/ ReadBack(p)
  \/ LockCandidate(p) \/ FindCandidate(p)
  \/ LockRegistry(p) \/ FindVersion(p) \/ MissVersion(p) \/ RefuseVersion(p)
  \/ Stop(p)

\* A snapshot, a training run or a dossier.
Builds(p) ==
  \/ ClaimSnapshot(p) \/ WriteSnapshot(p) \/ WriteRun(p) \/ WriteDossier(p)
  \/ \E m \in Models : ClaimRun(p, m) \/ ClaimDossier(p, m)

TracksRun(p) == LogRun(p) \/ FinishRun(p) \/ FailRun(p)

LEMMA StepKinds ==
  ASSUME NEW p, Step(p)
  PROVE \/ Reads(p) \/ Builds(p) \/ CreateRun(p) \/ TracksRun(p)
        \/ ClaimCandidate(p) \/ MoveCandidate(p)
        \/ CreateVersion(p) \/ CompleteVersion(p) \/ ClaimReceipt(p) \/ WriteReceipt(p)
BY Zenon DEF Step, Starting, Working, Reads, Builds, TracksRun

LEMMA ReadsKeepStore ==
  ASSUME NEW p, Reads(p)
  PROVE UNCHANGED Store
BY DEF Reads, Store, StartTrack, LockTrack, FindRun, MissRun, ReadBack, StartCandidate, LockCandidate,
       FindCandidate, StartRegister, LockRegistry, FindVersion, MissVersion, RefuseVersion, Stop

\* Only the stepping process moves, and it takes no lock from another.
Alone(p) ==
  /\ \A q \in Procs : q # p => pc'[q] = pc[q]
  /\ \A l \in Locks, q \in Procs : q # p /\ lock[l] = q => lock'[l] = q

ProcTypes == lock \in [Locks -> Procs \cup {None}] /\ pc \in [Procs -> ProcStates] /\ stops \in 0 .. MaxStops

LEMMA StepAlone ==
  ASSUME ProcTypes, tracked \in Seq(RunRecords), versions \in Seq(VersionRecords), NEW p \in Procs, ProcInv(p), Step(p)
  PROVE ProcTypes' /\ Alone(p)
<1> DEFINE LockAlone == /\ lock' \in [Locks -> Procs \cup {None}]
                        /\ \A l \in Locks, q \in Procs : q # p /\ lock[l] = q => lock'[l] = q
<1>1. pc \in [Procs -> ProcStates]
  BY DEF ProcTypes
<1>2. /\ \A l \in Locks : Acquires(p, l) => LockAlone
      /\ Releases(p) => LockAlone
      /\ lock' = lock => LockAlone
  BY LockChanges DEF ProcTypes
<1>3. {"snapshot", "train", "track", "lookup run", "create run", "log", "finish", "read back",
       "candidate", "lookup candidate", "move", "register", "lookup version", "create version", "verify",
       "confirm", "receipt", "assess"} \subseteq Steps
  BY DEF Steps
<1>4. /\ 0 \in Nat /\ DOMAIN tracked \subseteq Nat /\ Len(tracked) + 1 \in Nat /\ Len(versions) + 1 \in Nat
      /\ FALSE \in BOOLEAN
  BY LenProperties
<1>5. stops' = stops \/ (stops < MaxStops /\ stops' = stops + 1)
  BY DEF Step, Starting, Working, ClaimSnapshot, WriteSnapshot, ClaimRun, WriteRun, ClaimDossier, WriteDossier,
         StartTrack, LockTrack, FindRun, MissRun, CreateRun, LogRun, FinishRun, ReadBack, FailRun,
         StartCandidate, LockCandidate, FindCandidate, ClaimCandidate, MoveCandidate,
         StartRegister, LockRegistry, FindVersion, MissVersion, CreateVersion, CompleteVersion,
         ClaimReceipt, WriteReceipt, RefuseVersion, Stop
<1>6. stops' \in 0 .. MaxStops
  BY <1>5, MaxStopsNat DEF ProcTypes
<1>7. LockAlone
  <2>1. pc[p].at = "candidate" => CandidateLock(pc[p].of) \in Locks
    BY NamesKnown DEF ProcInv, HoldsLocks
  <2>2. \/ lock' = lock
        \/ Releases(p)
        \/ Acquires(p, Tracking) \/ Acquires(p, Registry)
        \/ pc[p].at = "candidate" /\ Acquires(p, CandidateLock(pc[p].of))
    BY DEF Step, Starting, Working, ClaimSnapshot, WriteSnapshot, ClaimRun, WriteRun, ClaimDossier, WriteDossier,
         StartTrack, LockTrack, FindRun, MissRun, CreateRun, LogRun, FinishRun, ReadBack, FailRun,
         StartCandidate, LockCandidate, FindCandidate, ClaimCandidate, MoveCandidate,
         StartRegister, LockRegistry, FindVersion, MissVersion, CreateVersion, CompleteVersion,
         ClaimReceipt, WriteReceipt, RefuseVersion, Stop, At
  <2> HIDE DEF LockAlone
  <2> QED
    BY <1>2, <2>1, <2>2, NamesKnown
<1>8. PcAlone(p)
  <2>1. CASE Working(p)
    <3>1. (\E s \in Steps : Goto(p, s)) \/ Ends(p) \/ CreateRun(p) \/ CreateVersion(p)
      BY <2>1, <1>3 DEF Working, WriteSnapshot, WriteRun, WriteDossier,
         LockTrack, FindRun, MissRun, LogRun, FinishRun, ReadBack,
         LockCandidate, FindCandidate, ClaimCandidate, MoveCandidate,
         LockRegistry, FindVersion, MissVersion, CompleteVersion,
         ClaimReceipt, WriteReceipt, RefuseVersion
    <3>2. CASE CreateRun(p)
      BY <3>2, <1>1, <1>3, <1>4 DEF CreateRun, ProcStates, PcAlone
    <3>3. CASE CreateVersion(p)
      BY <3>3, <1>1, <1>3, <1>4 DEF CreateVersion, ProcStates, PcAlone
    <3> QED
      BY <3>1, <3>2, <3>3, <1>1, GotoChanges, EndsChanges
  <2>2. CASE Stop(p) \/ FailRun(p)
    BY <2>2, <1>1, EndsChanges DEF Stop, FailRun
  <2>3. ASSUME NEW m \in Models, Starting(p, m)
        PROVE PcAlone(p)
    <3>1. PICK s \in Steps, k \in Models \cup {None}, n \in Nat, c \in BOOLEAN : Starts(p, s, k, n, c)
      BY <2>3, <1>3, <1>4 DEF Starting, ClaimSnapshot, ClaimRun, ClaimDossier, StartTrack, StartCandidate, StartRegister
    <3> QED
      BY <3>1, <1>1, StartsChanges
  <2> QED
    BY <2>1, <2>2, <2>3 DEF Step
<1> QED
  BY <1>6, <1>7, <1>8 DEF ProcTypes, Alone, PcAlone

\* Nothing stored is lost, and nothing gets less finished or less whole.
StoreGrows ==
  /\ \A i \in DOMAIN tracked :
       /\ i \in DOMAIN tracked' /\ tracked'[i].of = tracked[i].of
       /\ tracked[i].logged => tracked'[i].logged
       /\ tracked[i].status # "RUNNING" => tracked'[i].status # "RUNNING"
  /\ \A v \in DOMAIN versions :
       /\ v \in DOMAIN versions' /\ versions'[v].of = versions[v].of
       /\ versions[v].status = "COMPLETE" => versions'[v].status = "COMPLETE"
  /\ \A a \in Artifacts : Whole(a) => dir'[a] = "whole"

\* Runs, versions and candidates are added under the lock.
AddsLocked(p) ==
  /\ \A i \in DOMAIN tracked' : i \in DOMAIN tracked \/ lock[Tracking] = p
  /\ \A v \in DOMAIN versions' : v \in DOMAIN versions \/ lock[Registry] = p
  /\ \A m \in Models : \/ dir'[Candidate(m)] = dir[Candidate(m)] /\ source'[m] = source[m]
                       \/ lock[CandidateLock(m)] = p /\ ~Whole(Candidate(m))

StoreTypes ==
  /\ dir \in [Artifacts -> {"absent", "partial", "whole"}]
  /\ tracked \in Seq(RunRecords) /\ source \in [Models -> Nat]
  /\ versions \in Seq(VersionRecords) /\ receipt \in [Models -> Nat]

StoreStep(p) == StoreTypes' /\ StoreGrows /\ AddsLocked(p)

LEMMA StoreUnchanged ==
  ASSUME StoreTypes, NEW p, UNCHANGED Store
  PROVE StoreStep(p)
BY DEF StoreStep, StoreTypes, StoreGrows, AddsLocked, Store, Whole

\* A directory is written that was not whole, and is no candidate.
LEMMA StoreArtifact ==
  ASSUME StoreTypes, NEW p, NEW a \in Artifacts, NEW s \in {"partial", "whole"}, Sets(a, s),
         Whole(a) => s = "whole", \A m \in Models : a # Candidate(m),
         UNCHANGED <<tracked, source, versions>>, receipt' \in [Models -> Nat]
  PROVE StoreStep(p)
<1>1. /\ dir' \in [Artifacts -> {"absent", "partial", "whole"}]
      /\ dir'[a] = s /\ \A b \in Artifacts : b # a => dir'[b] = dir[b]
  BY DEF Sets, StoreTypes
<1>2. \A m \in Models : dir'[Candidate(m)] = dir[Candidate(m)]
  BY <1>1, NamesKnown
<1>3. \A b \in Artifacts : Whole(b) => dir'[b] = "whole"
  BY <1>1 DEF Whole
<1> QED
  BY <1>1, <1>2, <1>3 DEF StoreStep, StoreTypes, StoreGrows, AddsLocked

\* The candidate of m is claimed, or written, under its lock.
LEMMA StoreCandidate ==
  ASSUME StoreTypes, NEW p, NEW m \in Models, NEW s \in {"partial", "whole"}, Sets(Candidate(m), s),
         ~Whole(Candidate(m)), lock[CandidateLock(m)] = p,
         source' \in [Models -> Nat], \A n \in Models : n # m => source'[n] = source[n],
         UNCHANGED <<tracked, versions, receipt>>
  PROVE StoreStep(p)
<1>1. /\ dir' \in [Artifacts -> {"absent", "partial", "whole"}]
      /\ \A b \in Artifacts : b # Candidate(m) => dir'[b] = dir[b]
  BY NamesKnown DEF Sets, StoreTypes
<1>2. \A n \in Models : n # m => dir'[Candidate(n)] = dir[Candidate(n)]
  BY <1>1, NamesKnown, NamesDistinct
<1>3. \A b \in Artifacts : Whole(b) => dir'[b] = "whole"
  BY <1>1 DEF Whole
<1> QED
  BY <1>1, <1>2, <1>3 DEF StoreStep, StoreTypes, StoreGrows, AddsLocked

\* One record of a tracked run, or of a version, is changed.
LEMMA StoreRun ==
  ASSUME StoreTypes, NEW p, NEW i \in DOMAIN tracked, NEW e \in RunRecords, tracked' = [tracked EXCEPT ![i] = e],
         e.of = tracked[i].of, tracked[i].logged => e.logged, tracked[i].status # "RUNNING" => e.status # "RUNNING",
         UNCHANGED <<dir, source, versions, receipt>>
  PROVE StoreStep(p)
<1>1. /\ tracked' \in Seq(RunRecords) /\ DOMAIN tracked' = DOMAIN tracked
      /\ tracked'[i] = e /\ \A j \in DOMAIN tracked : j # i => tracked'[j] = tracked[j]
  BY ExceptFacts DEF StoreTypes
<1> QED
  BY <1>1 DEF StoreStep, StoreTypes, StoreGrows, AddsLocked, Whole

LEMMA StoreVersion ==
  ASSUME StoreTypes, NEW p, NEW v \in DOMAIN versions, NEW e \in VersionRecords, versions' = [versions EXCEPT ![v] = e],
         e.of = versions[v].of, versions[v].status = "COMPLETE" => e.status = "COMPLETE",
         UNCHANGED <<dir, tracked, source, receipt>>
  PROVE StoreStep(p)
<1>1. /\ versions' \in Seq(VersionRecords) /\ DOMAIN versions' = DOMAIN versions
      /\ versions'[v] = e /\ \A j \in DOMAIN versions : j # v => versions'[j] = versions[j]
  BY ExceptFacts DEF StoreTypes
<1> QED
  BY <1>1 DEF StoreStep, StoreTypes, StoreGrows, AddsLocked, Whole

LEMMA BuildsStore ==
  ASSUME StoreTypes, NEW p \in Procs, ProcInv(p), Builds(p)
  PROVE StoreStep(p)
<1>1. \A m \in Models : Snapshot # Candidate(m)
  BY NamesDistinct
<1>2. \A n, m \in Models : Run(n) # Candidate(m) /\ Dossier(n) # Candidate(m)
  BY NamesDistinct
<1>3. Snapshot \in Artifacts /\ \A n \in Models : Run(n) \in Artifacts /\ Dossier(n) \in Artifacts
  BY NamesKnown
<1>4. ~At(p, "idle") /\ ~At(p, "snapshot") => pc[p].of \in Models
  BY DEF ProcInv, HoldsLocks, At
<1>5. receipt \in [Models -> Nat]
  BY DEF StoreTypes
<1>6. PICK a \in Artifacts, s \in {"partial", "whole"} :
        /\ Sets(a, s) /\ (Whole(a) => s = "whole")
        /\ \A m \in Models : a # Candidate(m)
        /\ UNCHANGED <<tracked, source, versions, receipt>>
  <2>1. CASE ClaimSnapshot(p)
    BY <2>1, <1>1, <1>3 DEF ClaimSnapshot, Whole
  <2>2. CASE WriteSnapshot(p)
    BY <2>2, <1>1, <1>3 DEF WriteSnapshot
  <2>3. CASE WriteRun(p)
    BY <2>3, <1>2, <1>3, <1>4 DEF WriteRun, At
  <2>4. CASE WriteDossier(p)
    BY <2>4, <1>2, <1>3, <1>4 DEF WriteDossier, At
  <2>5. ASSUME NEW m \in Models, ClaimRun(p, m)
        PROVE \E a \in Artifacts, s \in {"partial", "whole"} :
        /\ Sets(a, s) /\ (Whole(a) => s = "whole")
        /\ \A n \in Models : a # Candidate(n)
        /\ UNCHANGED <<tracked, source, versions, receipt>>
    BY <2>5, <1>2, <1>3 DEF ClaimRun, Whole
  <2>6. ASSUME NEW m \in Models, ClaimDossier(p, m)
        PROVE \E a \in Artifacts, s \in {"partial", "whole"} :
        /\ Sets(a, s) /\ (Whole(a) => s = "whole")
        /\ \A n \in Models : a # Candidate(n)
        /\ UNCHANGED <<tracked, source, versions, receipt>>
    BY <2>6, <1>2, <1>3 DEF ClaimDossier, Whole
  <2> QED
    BY <2>1, <2>2, <2>3, <2>4, <2>5, <2>6 DEF Builds
<1> QED
  BY <1>5, <1>6, StoreArtifact

LEMMA CreateRunStore ==
  ASSUME StoreTypes, pc \in [Procs -> ProcStates], NEW p \in Procs, ProcInv(p), CreateRun(p)
  PROVE /\ StoreStep(p)
        /\ DOMAIN tracked' = DOMAIN tracked \cup {Len(tracked) + 1}
        /\ Len(tracked) + 1 \notin DOMAIN tracked
        /\ tracked'[Len(tracked) + 1].of = pc[p].of /\ tracked'[Len(tracked) + 1].status = "RUNNING"
        /\ \A i \in DOMAIN tracked : tracked'[i] = tracked[i]
<1> DEFINE e == [of |-> pc[p].of, corpus |-> pc[p].corpus, logged |-> FALSE, status |-> "RUNNING"]
<1>1. pc[p] \in ProcStates /\ pc[p].of \in Models /\ lock[Tracking] = p
  BY DEF CreateRun, At, ProcInv, HoldsLocks, TrackSteps
<1>2. e \in RunRecords /\ e.of = pc[p].of /\ e.status = "RUNNING"
  BY <1>1 DEF RunRecords, ProcStates
<1>3. tracked' = Append(tracked, e) /\ tracked \in Seq(RunRecords)
  BY DEF CreateRun, StoreTypes
<1> HIDE DEF e
<1>4. /\ tracked' \in Seq(RunRecords) /\ DOMAIN tracked = 1..Len(tracked) /\ Len(tracked) \in Nat
      /\ DOMAIN tracked' = 1..(Len(tracked) + 1) /\ \A i \in DOMAIN tracked : tracked'[i] = tracked[i]
      /\ tracked'[Len(tracked) + 1] = e
  BY <1>2, <1>3, AppendFacts
<1>5. DOMAIN tracked' = DOMAIN tracked \cup {Len(tracked) + 1} /\ Len(tracked) + 1 \notin DOMAIN tracked
  BY <1>4
<1>6. StoreStep(p)
  BY <1>1, <1>4, <1>5 DEF CreateRun, StoreStep, StoreTypes, StoreGrows, AddsLocked, Whole
<1> QED
  BY <1>2, <1>4, <1>5, <1>6

LEMMA CreateVersionStore ==
  ASSUME StoreTypes, pc \in [Procs -> ProcStates], NEW p \in Procs, ProcInv(p), CreateVersion(p)
  PROVE /\ StoreStep(p)
        /\ DOMAIN versions' = DOMAIN versions \cup {Len(versions) + 1}
        /\ Len(versions) + 1 \notin DOMAIN versions
        /\ versions'[Len(versions) + 1].of = pc[p].of
        /\ \A v \in DOMAIN versions : versions'[v] = versions[v]
<1> DEFINE e == [of |-> pc[p].of, status |-> "INCOMPLETE"]
<1>1. pc[p] \in ProcStates /\ pc[p].of \in Models /\ lock[Registry] = p
  BY DEF CreateVersion, At, ProcInv, HoldsLocks, RegisterSteps
<1>2. e \in VersionRecords /\ e.of = pc[p].of
  BY <1>1 DEF VersionRecords
<1>3. versions' = Append(versions, e) /\ versions \in Seq(VersionRecords)
  BY DEF CreateVersion, StoreTypes
<1> HIDE DEF e
<1>4. /\ versions' \in Seq(VersionRecords) /\ DOMAIN versions = 1..Len(versions) /\ Len(versions) \in Nat
      /\ DOMAIN versions' = 1..(Len(versions) + 1) /\ \A v \in DOMAIN versions : versions'[v] = versions[v]
      /\ versions'[Len(versions) + 1] = e
  BY <1>2, <1>3, AppendFacts
<1>5. DOMAIN versions' = DOMAIN versions \cup {Len(versions) + 1} /\ Len(versions) + 1 \notin DOMAIN versions
  BY <1>4
<1>6. StoreStep(p)
  BY <1>1, <1>4, <1>5 DEF CreateVersion, StoreStep, StoreTypes, StoreGrows, AddsLocked, Whole
<1> QED
  BY <1>2, <1>4, <1>5, <1>6

\* Logging, finishing or failing changes one run and keeps its model.
LEMMA TracksRunStore ==
  ASSUME StoreTypes, NEW p \in Procs, ProcInv(p), TracksRun(p)
  PROVE /\ StoreStep(p)
        /\ DOMAIN tracked' = DOMAIN tracked
        /\ \A i \in DOMAIN tracked :
             \/ tracked'[i].status = tracked[i].status /\ (tracked[i].logged => tracked'[i].logged)
             \/ tracked'[i].status = "FAILED"
             \/ tracked'[i].logged
<1> DEFINE i == pc[p].arg
<1>1. i \in DOMAIN tracked
  BY DEF TracksRun, LogRun, FinishRun, FailRun, ProcInv, TrackerInv, At
<1>2. tracked \in Seq(RunRecords) /\ tracked[i] \in RunRecords
  BY <1>1, LenProperties, ElementOfSeq DEF StoreTypes
<1>3. PICK e \in RunRecords :
        /\ tracked' = [tracked EXCEPT ![i] = e]
        /\ e.of = tracked[i].of /\ (tracked[i].logged => e.logged)
        /\ tracked[i].status # "RUNNING" => e.status # "RUNNING"
        /\ e.status = tracked[i].status \/ e.status = "FAILED" \/ e.logged
        /\ UNCHANGED <<dir, source, versions, receipt>>
  <2>1. CASE LogRun(p)
    <3> DEFINE f == [tracked[i] EXCEPT !.logged = TRUE]
    <3>1. f \in RunRecords /\ f.of = tracked[i].of /\ f.logged /\ f.status = tracked[i].status
      BY <1>2 DEF RunRecords
    <3>2. tracked' = [tracked EXCEPT ![i] = f] /\ UNCHANGED <<dir, source, versions, receipt>>
      BY <2>1 DEF LogRun
    <3> QED
      BY <3>1, <3>2
  <2>2. CASE FinishRun(p)
    <3> DEFINE f == [tracked[i] EXCEPT !.status = "FINISHED"]
    <3>1. f \in RunRecords /\ f.of = tracked[i].of /\ f.logged = tracked[i].logged /\ f.status = "FINISHED"
      BY <1>2 DEF RunRecords
    <3>2. tracked' = [tracked EXCEPT ![i] = f] /\ UNCHANGED <<dir, source, versions, receipt>> /\ tracked[i].logged
      BY <2>2 DEF FinishRun
    <3> QED
      BY <3>1, <3>2
  <2>3. CASE FailRun(p)
    <3> DEFINE f == [tracked[i] EXCEPT !.status = "FAILED"]
    <3>1. f \in RunRecords /\ f.of = tracked[i].of /\ f.logged = tracked[i].logged /\ f.status = "FAILED"
      BY <1>2 DEF RunRecords
    <3>2. tracked' = [tracked EXCEPT ![i] = f] /\ UNCHANGED <<dir, source, versions, receipt>>
      BY <2>3 DEF FailRun
    <3> QED
      BY <3>1, <3>2
  <2> QED
    BY <2>1, <2>2, <2>3 DEF TracksRun
<1> HIDE DEF i
<1>4. /\ DOMAIN tracked' = DOMAIN tracked /\ tracked'[i] = e
      /\ \A j \in DOMAIN tracked : j # i => tracked'[j] = tracked[j]
  BY <1>1, <1>2, <1>3, ExceptFacts
<1>5. StoreStep(p)
  BY <1>1, <1>3, StoreRun
<1> QED
  BY <1>1, <1>3, <1>4, <1>5

LEMMA CompleteVersionStore ==
  ASSUME StoreTypes, NEW p \in Procs, ProcInv(p), CompleteVersion(p)
  PROVE /\ StoreStep(p)
        /\ DOMAIN versions' = DOMAIN versions
<1> DEFINE v == pc[p].arg
           e == [versions[v] EXCEPT !.status = "COMPLETE"]
<1>1. v \in DOMAIN versions
  BY DEF CompleteVersion, ProcInv, RegistrarInv, At
<1>2. versions \in Seq(VersionRecords) /\ versions[v] \in VersionRecords
  BY <1>1, LenProperties, ElementOfSeq DEF StoreTypes
<1>3. e \in VersionRecords /\ e.of = versions[v].of /\ e.status = "COMPLETE"
  BY <1>2 DEF VersionRecords
<1>4. versions' = [versions EXCEPT ![v] = e] /\ UNCHANGED <<dir, tracked, source, receipt>>
  BY DEF CompleteVersion
<1> HIDE DEF v, e
<1>5. StoreStep(p)
  BY <1>1, <1>3, <1>4, StoreVersion
<1>6. DOMAIN versions' = DOMAIN versions
  BY <1>4
<1> QED
  BY <1>5, <1>6

LEMMA CandidateStore ==
  ASSUME StoreTypes, pc \in [Procs -> ProcStates], NEW p \in Procs, ProcInv(p), ClaimCandidate(p) \/ MoveCandidate(p)
  PROVE StoreStep(p)
<1> DEFINE m == pc[p].of
<1>1. pc[p] \in ProcStates /\ m \in Models /\ lock[CandidateLock(m)] = p
  BY DEF ClaimCandidate, MoveCandidate, At, ProcInv, HoldsLocks, CandidateSteps
<1>2. source \in [Models -> Nat] /\ pc[p].arg \in Nat
  BY <1>1 DEF StoreTypes, ProcStates
<1>3. CASE ClaimCandidate(p)
  <2>1. Sets(Candidate(m), "partial") /\ ~Whole(Candidate(m)) /\ UNCHANGED <<tracked, source, versions, receipt>>
    BY <1>3 DEF ClaimCandidate, Whole
  <2> HIDE DEF m
  <2> QED
    BY <1>1, <1>2, <2>1, StoreCandidate
<1>4. CASE MoveCandidate(p)
  <2>1. /\ Sets(Candidate(m), "whole") /\ ~Whole(Candidate(m)) /\ UNCHANGED <<tracked, versions, receipt>>
        /\ source' = [source EXCEPT ![m] = pc[p].arg]
    BY <1>4 DEF MoveCandidate, Whole, At, ProcInv, CandidateInv
  <2> HIDE DEF m
  <2>2. source' \in [Models -> Nat] /\ \A n \in Models : n # m => source'[n] = source[n]
    BY <1>2, <2>1
  <2> QED
    BY <1>1, <2>1, <2>2, StoreCandidate
<1> QED
  BY <1>3, <1>4

LEMMA ReceiptStore ==
  ASSUME StoreTypes, pc \in [Procs -> ProcStates], NEW p \in Procs, ProcInv(p), ClaimReceipt(p) \/ WriteReceipt(p)
  PROVE StoreStep(p)
<1> DEFINE m == pc[p].of
<1>1. pc[p] \in ProcStates /\ m \in Models /\ pc[p].arg \in Nat
  BY DEF ClaimReceipt, WriteReceipt, At, ProcInv, HoldsLocks, ProcStates
<1>2. Receipt(m) \in Artifacts /\ \A n \in Models : Receipt(m) # Candidate(n)
  BY <1>1, NamesKnown, NamesDistinct
<1>3. receipt \in [Models -> Nat]
  BY DEF StoreTypes
<1>4. CASE ClaimReceipt(p)
  <2>1. Sets(Receipt(m), "partial") /\ ~Whole(Receipt(m)) /\ UNCHANGED <<tracked, source, versions, receipt>>
    BY <1>4 DEF ClaimReceipt, Whole
  <2> HIDE DEF m
  <2> QED
    BY <1>2, <1>3, <2>1, StoreArtifact
<1>5. CASE WriteReceipt(p)
  <2>1. /\ Sets(Receipt(m), "whole") /\ UNCHANGED <<tracked, source, versions>>
        /\ receipt' = [receipt EXCEPT ![m] = pc[p].arg]
    BY <1>5 DEF WriteReceipt
  <2> HIDE DEF m
  <2>2. receipt' \in [Models -> Nat]
    BY <1>1, <1>3, <2>1
  <2> QED
    BY <1>2, <2>1, <2>2, StoreArtifact
<1> QED
  BY <1>4, <1>5

LEMMA StepStore ==
  ASSUME StoreTypes, pc \in [Procs -> ProcStates], NEW p \in Procs, ProcInv(p), Step(p)
  PROVE StoreStep(p)
BY StepKinds, ReadsKeepStore, StoreUnchanged, BuildsStore, CreateRunStore, TracksRunStore, CandidateStore,
   CreateVersionStore, CompleteVersionStore, ReceiptStore
-----------------------------------------------------------------------------
(* What a process has found stays so under the steps of the others: it     *)
(* holds the lock under which it could change, or what it relies on only   *)
(* grows.                                                                  *)

LEMMA WasFinishedStays ==
  ASSUME StoreGrows, NEW i, NEW m, WasFinished(i, m)
  PROVE WasFinished(i, m)'
BY DEF StoreGrows, WasFinished

LEMMA WholeStays ==
  ASSUME StoreGrows, NEW a \in Artifacts, Whole(a)
  PROVE Whole(a)'
BY DEF StoreGrows, Whole

LEMMA VouchedStays ==
  ASSUME StoreGrows, NEW p, AddsLocked(p), NEW m \in Models, NEW v, Vouched(m, v)
  PROVE Vouched(m, v)'
<1>1. /\ Candidate(m) \in Artifacts /\ Run(m) \in Artifacts /\ Snapshot \in Artifacts
  BY NamesKnown
<1>2. Whole(Candidate(m)) /\ Whole(Run(m)) /\ Whole(Snapshot)
  BY DEF Vouched, SourceValid, RunSound, SnapshotSound
<1>3. Whole(Candidate(m))' /\ Whole(Run(m))' /\ Whole(Snapshot)'
  BY <1>1, <1>2, WholeStays
<1>4. source'[m] = source[m]
  BY <1>2 DEF AddsLocked
<1>5. source[m] \in DOMAIN tracked' /\ tracked'[source[m]].logged
  BY DEF Vouched, StoreGrows
<1>6. v \in DOMAIN versions' /\ versions'[v].of = m /\ versions'[v].status = "COMPLETE"
  BY DEF Vouched, StoreGrows
<1> QED
  BY <1>3, <1>4, <1>5, <1>6 DEF Vouched, SourceValid, RunSound, SnapshotSound

LEMMA OthersKeep ==
  ASSUME NEW p \in Procs, Alone(p), StoreStep(p), NEW q \in Procs, q # p, ProcInv(q)
  PROVE ProcInv(q)'
<1> DEFINE m == pc[q].of
           i == pc[q].arg
           s == pc[q].at
<1>1. pc'[q] = pc[q]
  BY DEF Alone
<1>2. \A l \in Locks : lock[l] = q => lock'[l] = q /\ lock[l] # p
  BY DEF Alone
<1>3. s \notin {"idle", "snapshot"} => m \in Models
  BY DEF ProcInv, HoldsLocks
<1>4. HoldsLocks(q)'
  <2>1. /\ s \in TrackSteps => lock'[Tracking] = q
        /\ s \in RegisterSteps => lock'[Registry] = q
    BY <1>2, NamesKnown DEF ProcInv, HoldsLocks
  <2>2. s \in CandidateSteps => lock'[CandidateLock(m)] = q
    <3>1. s \in CandidateSteps => m \in Models /\ lock[CandidateLock(m)] = q
      BY DEF ProcInv, HoldsLocks, CandidateSteps
    <3> QED
      BY <1>2, <3>1, NamesKnown
  <2> QED
    BY <1>1, <1>3, <2>1, <2>2 DEF HoldsLocks
<1>5. TrackerInv(q)'
  <2>1. s = "create run" => ~\E j \in DOMAIN tracked' : tracked'[j].of = m
    <3>1. SUFFICES ASSUME s = "create run", NEW j \in DOMAIN tracked', tracked'[j].of = m PROVE FALSE
      OBVIOUS
    <3>2. lock[Tracking] = q /\ Tracking \in Locks
      BY <3>1, NamesKnown DEF ProcInv, HoldsLocks, TrackSteps
    <3>3. j \in DOMAIN tracked
      BY <1>2, <3>2 DEF StoreStep, AddsLocked
    <3>4. tracked[j].of = m
      BY <3>1, <3>3 DEF StoreStep, StoreGrows
    <3> QED
      BY <3>1, <3>3, <3>4 DEF ProcInv, TrackerInv, RunsForIdentity
  <2>2. s \in {"log", "finish", "read back"} => i \in DOMAIN tracked' /\ tracked'[i].of = m
    BY DEF ProcInv, TrackerInv, StoreStep, StoreGrows
  <2> QED
    BY <1>1, <2>1, <2>2 DEF TrackerInv, RunsForIdentity
<1>6. CandidateInv(q)'
  <2>1. s = "move" => dir'[Candidate(m)] = "partial"
    <3>1. SUFFICES ASSUME s = "move" PROVE dir'[Candidate(m)] = "partial"
      OBVIOUS
    <3>2. m \in Models /\ lock[CandidateLock(m)] = q /\ dir[Candidate(m)] = "partial"
      BY <3>1 DEF ProcInv, HoldsLocks, CandidateInv, CandidateSteps
    <3>3. lock[CandidateLock(m)] # p
      BY <1>2, <3>2, NamesKnown
    <3> QED
      BY <3>2, <3>3 DEF StoreStep, AddsLocked
  <2>2. s \in {"candidate", "lookup candidate", "move"} /\ i # 0 =>
          /\ i \in DOMAIN tracked'
          /\ tracked'[i].of = m /\ tracked'[i].logged /\ tracked'[i].status # "RUNNING"
    BY DEF ProcInv, CandidateInv, WasFinished, StoreStep, StoreGrows
  <2> QED
    BY <1>1, <2>1, <2>2 DEF CandidateInv, WasFinished
<1>7. RegistrarInv(q)'
  <2>1. s = "create version" => ~\E v \in DOMAIN versions' : versions'[v].of = m
    <3>1. SUFFICES ASSUME s = "create version", NEW v \in DOMAIN versions', versions'[v].of = m PROVE FALSE
      OBVIOUS
    <3>2. lock[Registry] = q /\ Registry \in Locks
      BY <3>1, NamesKnown DEF ProcInv, HoldsLocks, RegisterSteps
    <3>3. v \in DOMAIN versions
      BY <1>2, <3>2 DEF StoreStep, AddsLocked
    <3>4. versions[v].of = m
      BY <3>1, <3>3 DEF StoreStep, StoreGrows
    <3> QED
      BY <3>1, <3>3, <3>4 DEF ProcInv, RegistrarInv, Claims
  <2>2. s \in {"verify", "confirm", "receipt"} => i \in DOMAIN versions' /\ versions'[i].of = m
    BY DEF ProcInv, RegistrarInv, StoreStep, StoreGrows
  <2>3. s = "receipt" => Vouched(pc[q].of, pc[q].arg)'
    <3>1. SUFFICES ASSUME s = "receipt" PROVE Vouched(pc[q].of, pc[q].arg)'
      OBVIOUS
    <3>2. PICK k, v : k = m /\ v = i
      OBVIOUS
    <3>3. k \in Models /\ Vouched(k, v)
      BY <1>3, <3>1, <3>2 DEF ProcInv, RegistrarInv
    <3>4. Vouched(k, v)'
      BY <3>3, VouchedStays DEF StoreStep
    <3> QED
      BY <1>1, <3>2, <3>4 DEF Vouched, SourceValid, RunSound, SnapshotSound, Whole
  <2> QED
    BY <1>1, <2>1, <2>2, <2>3 DEF RegistrarInv, Claims
<1> QED
  BY <1>4, <1>5, <1>6, <1>7 DEF ProcInv
-----------------------------------------------------------------------------
(* The stepping process has found what it says.                            *)

LEMMA EndedKeeps ==
  ASSUME NEW p, pc'[p].at \in {"idle", "snapshot"}
  PROVE ProcInv(p)'
BY DEF ProcInv, HoldsLocks, TrackerInv, CandidateInv, RegistrarInv, TrackSteps, CandidateSteps, RegisterSteps

LEMMA StartedKeeps ==
  ASSUME NEW p, pc'[p].at \in {"train", "track", "register", "assess"}, pc'[p].of \in Models
  PROVE ProcInv(p)'
BY DEF ProcInv, HoldsLocks, TrackerInv, CandidateInv, RegistrarInv, TrackSteps, CandidateSteps, RegisterSteps

LEMMA ReadsOwn ==
  ASSUME StoreTypes, ProcTypes, NEW p \in Procs, ProcInv(p), Reads(p)
  PROVE ProcInv(p)'
<1> DEFINE m == pc[p].of
<1>1. pc \in [Procs -> ProcStates] /\ lock \in [Locks -> Procs \cup {None}]
  BY DEF ProcTypes
<1>2. UNCHANGED Store
  BY ReadsKeepStore
<1>3. ASSUME Ends(p) PROVE ProcInv(p)'
  BY <1>1, <1>3, EndsChanges, EndedKeeps
<1>4. ASSUME NEW n \in Models, NEW s \in {"track", "register"}, NEW c \in BOOLEAN, Starts(p, s, n, 0, c)
      PROVE ProcInv(p)'
  <2>1. s \in Steps /\ n \in Models \cup {None} /\ 0 \in Nat
    BY DEF Steps
  <2>2. pc'[p].at = s /\ pc'[p].of = n
    BY <1>1, <1>4, <2>1, StartsChanges
  <2> QED
    BY <2>2, StartedKeeps
<1>5. ASSUME NEW n \in Models, NEW i \in {0} \cup DOMAIN tracked, StartCandidate(p, n, i)
      PROVE ProcInv(p)'
  <2>1. i \in Nat
    BY LenProperties DEF StoreTypes
  <2>2. Starts(p, "candidate", n, i, FALSE) /\ (i # 0 => TrackingVerified(n, i))
    BY <1>5 DEF StartCandidate
  <2>3. pc'[p].at = "candidate" /\ pc'[p].of = n /\ pc'[p].arg = i
    BY <1>1, <2>1, <2>2, StartsChanges DEF Steps
  <2>4. i # 0 => WasFinished(i, n)
    BY <2>2 DEF TrackingVerified, WasFinished
  <2> QED
    BY <1>2, <2>3, <2>4 DEF Store, ProcInv, HoldsLocks, TrackerInv, CandidateInv, RegistrarInv, WasFinished,
       TrackSteps, CandidateSteps, RegisterSteps
<1>6. CASE LockTrack(p)
  <2>1. /\ pc'[p].at = "lookup run" /\ pc'[p].of = pc[p].of /\ lock'[Tracking] = p
        /\ pc[p].of \in Models
    BY <1>1, <1>6, GotoChanges, LockChanges, NamesKnown DEF LockTrack, Steps, ProcInv, HoldsLocks, At
  <2> QED
    BY <2>1 DEF ProcInv, HoldsLocks, TrackerInv, CandidateInv, RegistrarInv, TrackSteps, CandidateSteps, RegisterSteps
<1>7. CASE MissRun(p)
  <2>1. /\ pc'[p].at = "create run" /\ pc'[p].of = pc[p].of /\ lock'[Tracking] = p
        /\ pc[p].of \in Models /\ RunsForIdentity(pc[p].of) = {}
    BY <1>1, <1>7, GotoChanges DEF MissRun, Steps, ProcInv, HoldsLocks, At, TrackSteps
  <2> QED
    BY <1>2, <2>1 DEF Store, RunsForIdentity, ProcInv, HoldsLocks, TrackerInv, CandidateInv, RegistrarInv,
       TrackSteps, CandidateSteps, RegisterSteps
<1>8. CASE LockCandidate(p)
  <2>1. /\ pc'[p].at = "lookup candidate" /\ pc'[p].of = pc[p].of /\ pc'[p].arg = pc[p].arg
        /\ pc[p].of \in Models
    BY <1>1, <1>8, GotoChanges DEF LockCandidate, Steps, ProcInv, HoldsLocks, At
  <2>2. lock'[CandidateLock(pc[p].of)] = p
    BY <1>1, <1>8, <2>1, LockChanges, NamesKnown DEF LockCandidate
  <2>3. pc[p].arg # 0 => WasFinished(pc[p].arg, pc[p].of)
    BY <1>8 DEF LockCandidate, At, ProcInv, CandidateInv
  <2> QED
    BY <1>2, <2>1, <2>2, <2>3 DEF Store, ProcInv, HoldsLocks, TrackerInv, CandidateInv, RegistrarInv, WasFinished,
       TrackSteps, CandidateSteps, RegisterSteps
<1>9. CASE LockRegistry(p)
  <2>1. /\ pc'[p].at = "lookup version" /\ pc'[p].of = pc[p].of /\ lock'[Registry] = p
        /\ pc[p].of \in Models
    BY <1>1, <1>9, GotoChanges, LockChanges, NamesKnown DEF LockRegistry, Steps, ProcInv, HoldsLocks, At
  <2> QED
    BY <2>1 DEF ProcInv, HoldsLocks, TrackerInv, CandidateInv, RegistrarInv, TrackSteps, CandidateSteps, RegisterSteps
<1>10. CASE MissVersion(p)
  <2>1. /\ pc'[p].at = "create version" /\ pc'[p].of = pc[p].of /\ lock'[Registry] = p
        /\ pc[p].of \in Models /\ Claims(pc[p].of) = {}
    BY <1>1, <1>10, GotoChanges DEF MissVersion, Steps, ProcInv, HoldsLocks, At, RegisterSteps
  <2> QED
    BY <1>2, <2>1 DEF Store, Claims, ProcInv, HoldsLocks, TrackerInv, CandidateInv, RegistrarInv,
       TrackSteps, CandidateSteps, RegisterSteps
<1>11. CASE FindRun(p) \/ ReadBack(p) \/ FindCandidate(p) \/ FindVersion(p) \/ RefuseVersion(p) \/ Stop(p)
  BY <1>3, <1>11 DEF FindRun, ReadBack, FindCandidate, FindVersion, RefuseVersion, Stop
<1>12. ASSUME NEW n \in Models, (\E c \in BOOLEAN : StartTrack(p, n, c)) \/ StartRegister(p, n)
       PROVE ProcInv(p)'
  <2>1. CASE StartRegister(p, n)
    BY <1>4, <2>1 DEF StartRegister
  <2>2. ASSUME NEW c \in BOOLEAN, StartTrack(p, n, c) PROVE ProcInv(p)'
    BY <1>4, <2>2 DEF StartTrack
  <2> QED
    BY <1>12, <2>1, <2>2
<1> QED
  BY <1>5, <1>6, <1>7, <1>8, <1>9, <1>10, <1>11, <1>12 DEF Reads

LEMMA BuildsOwn ==
  ASSUME StoreTypes, ProcTypes, NEW p \in Procs, Builds(p)
  PROVE ProcInv(p)'
<1>1. pc \in [Procs -> ProcStates] /\ 0 \in Nat /\ FALSE \in BOOLEAN
  BY DEF ProcTypes
<1>2. CASE WriteSnapshot(p) \/ WriteRun(p) \/ WriteDossier(p)
  BY <1>1, <1>2, EndsChanges, EndedKeeps DEF WriteSnapshot, WriteRun, WriteDossier
<1>3. CASE ClaimSnapshot(p)
  <2>1. Starts(p, "snapshot", None, 0, FALSE) /\ "snapshot" \in Steps /\ None \in Models \cup {None}
    BY <1>3 DEF ClaimSnapshot, Steps
  <2>2. pc'[p].at = "snapshot"
    BY <1>1, <2>1, StartsChanges
  <2> QED
    BY <2>2, EndedKeeps
<1>4. ASSUME NEW m \in Models, ClaimRun(p, m) \/ ClaimDossier(p, m)
      PROVE ProcInv(p)'
  <2>1. PICK s \in {"train", "assess"} : Starts(p, s, m, 0, FALSE)
    BY <1>4 DEF ClaimRun, ClaimDossier
  <2>2. s \in Steps /\ m \in Models \cup {None}
    BY DEF Steps
  <2>3. pc'[p].at = s /\ pc'[p].of = m
    BY <1>1, <2>1, <2>2, StartsChanges
  <2> QED
    BY <2>3, StartedKeeps
<1> QED
  BY <1>2, <1>3, <1>4 DEF Builds

LEMMA TrackerOwn ==
  ASSUME StoreTypes, ProcTypes, NEW p \in Procs, ProcInv(p), CreateRun(p) \/ TracksRun(p)
  PROVE ProcInv(p)'
<1>1. pc \in [Procs -> ProcStates] /\ pc[p] \in ProcStates
  BY DEF ProcTypes
<1>2. CASE CreateRun(p)
  <2>1. pc' = [pc EXCEPT ![p].at = "log", ![p].arg = Len(tracked) + 1] /\ lock' = lock /\ pc[p].at = "create run"
    BY <1>2 DEF CreateRun, At
  <2>2. pc'[p].at = "log" /\ pc'[p].of = pc[p].of /\ pc'[p].arg = Len(tracked) + 1
    BY <1>1, <2>1 DEF ProcStates
  <2>3. pc[p].of \in Models /\ lock'[Tracking] = p
    BY <2>1 DEF ProcInv, HoldsLocks, TrackSteps
  <2>4. Len(tracked) + 1 \in DOMAIN tracked' /\ tracked'[Len(tracked) + 1].of = pc[p].of
    BY <1>1, <1>2, CreateRunStore
  <2> QED
    BY <2>2, <2>3, <2>4 DEF ProcInv, HoldsLocks, TrackerInv, CandidateInv, RegistrarInv,
       TrackSteps, CandidateSteps, RegisterSteps
<1>3. CASE LogRun(p) \/ FinishRun(p)
  <2>1. PICK s \in {"finish", "read back"} : Goto(p, s) /\ lock' = lock /\ pc[p].at \in {"log", "finish"}
    BY <1>3 DEF LogRun, FinishRun, At
  <2>2. pc'[p].at = s /\ pc'[p].of = pc[p].of /\ pc'[p].arg = pc[p].arg
    BY <1>1, <2>1, GotoChanges DEF Steps
  <2>3. pc[p].of \in Models /\ lock'[Tracking] = p /\ pc[p].arg \in DOMAIN tracked /\ tracked[pc[p].arg].of = pc[p].of
    BY <2>1 DEF ProcInv, HoldsLocks, TrackerInv, TrackSteps
  <2>4. StoreGrows
    BY <1>3, TracksRunStore DEF TracksRun, StoreStep
  <2>5. pc[p].arg \in DOMAIN tracked' /\ tracked'[pc[p].arg].of = pc[p].of
    BY <2>3, <2>4 DEF StoreGrows
  <2> QED
    BY <2>2, <2>3, <2>5 DEF ProcInv, HoldsLocks, TrackerInv, CandidateInv, RegistrarInv,
       TrackSteps, CandidateSteps, RegisterSteps
<1>4. CASE FailRun(p)
  <2>1. Ends(p)
    BY <1>4 DEF FailRun
  <2> QED
    BY <1>1, <2>1, EndsChanges, EndedKeeps
<1> QED
  BY <1>2, <1>3, <1>4 DEF TracksRun

LEMMA CandidateOwn ==
  ASSUME StoreTypes, ProcTypes, NEW p \in Procs, ProcInv(p), ClaimCandidate(p) \/ MoveCandidate(p)
  PROVE ProcInv(p)'
<1>1. pc \in [Procs -> ProcStates]
  BY DEF ProcTypes
<1>2. CASE ClaimCandidate(p)
  <2>1. Goto(p, "move") /\ UNCHANGED <<lock, tracked>> /\ pc[p].at = "lookup candidate" /\ Sets(Candidate(pc[p].of), "partial")
    BY <1>2 DEF ClaimCandidate, At
  <2>2. pc'[p].at = "move" /\ pc'[p].of = pc[p].of /\ pc'[p].arg = pc[p].arg
    BY <1>1, <2>1, GotoChanges DEF Steps
  <2>3. pc[p].of \in Models /\ lock'[CandidateLock(pc[p].of)] = p
    BY <2>1 DEF ProcInv, HoldsLocks, CandidateSteps
  <2>4. dir'[Candidate(pc[p].of)] = "partial"
    BY <2>1, <2>3, NamesKnown DEF Sets, StoreTypes
  <2>5. pc[p].arg # 0 => WasFinished(pc[p].arg, pc[p].of)
    BY <2>1 DEF ProcInv, CandidateInv
  <2> QED
    BY <2>1, <2>2, <2>3, <2>4, <2>5 DEF ProcInv, HoldsLocks, TrackerInv, CandidateInv, RegistrarInv, WasFinished,
       TrackSteps, CandidateSteps, RegisterSteps
<1>3. CASE MoveCandidate(p)
  BY <1>1, <1>3, EndsChanges, EndedKeeps DEF MoveCandidate
<1> QED
  BY <1>2, <1>3

LEMMA RegistrarOwn ==
  ASSUME StoreTypes, ProcTypes, NEW p \in Procs, ProcInv(p),
         CreateVersion(p) \/ CompleteVersion(p) \/ ClaimReceipt(p) \/ WriteReceipt(p)
  PROVE ProcInv(p)'
<1>1. pc \in [Procs -> ProcStates] /\ pc[p] \in ProcStates
  BY DEF ProcTypes
<1>2. CASE CreateVersion(p)
  <2>1. pc' = [pc EXCEPT ![p].at = "verify", ![p].arg = Len(versions) + 1] /\ lock' = lock /\ pc[p].at = "create version"
    BY <1>2 DEF CreateVersion, At
  <2>2. pc'[p].at = "verify" /\ pc'[p].of = pc[p].of /\ pc'[p].arg = Len(versions) + 1
    BY <1>1, <2>1 DEF ProcStates
  <2>3. pc[p].of \in Models /\ lock'[Registry] = p
    BY <2>1 DEF ProcInv, HoldsLocks, RegisterSteps
  <2>4. Len(versions) + 1 \in DOMAIN versions' /\ versions'[Len(versions) + 1].of = pc[p].of
    BY <1>1, <1>2, CreateVersionStore
  <2> QED
    BY <2>2, <2>3, <2>4 DEF ProcInv, HoldsLocks, TrackerInv, CandidateInv, RegistrarInv,
       TrackSteps, CandidateSteps, RegisterSteps
<1>3. CASE CompleteVersion(p)
  <2>1. Goto(p, "confirm") /\ lock' = lock /\ pc[p].at = "verify"
    BY <1>3 DEF CompleteVersion, At
  <2>2. pc'[p].at = "confirm" /\ pc'[p].of = pc[p].of /\ pc'[p].arg = pc[p].arg
    BY <1>1, <2>1, GotoChanges DEF Steps
  <2>3. pc[p].of \in Models /\ lock'[Registry] = p /\ pc[p].arg \in DOMAIN versions /\ versions[pc[p].arg].of = pc[p].of
    BY <2>1 DEF ProcInv, HoldsLocks, RegistrarInv, RegisterSteps
  <2>4. StoreGrows
    BY <1>3, CompleteVersionStore DEF StoreStep
  <2>5. pc[p].arg \in DOMAIN versions' /\ versions'[pc[p].arg].of = pc[p].of
    BY <2>3, <2>4 DEF StoreGrows
  <2> QED
    BY <2>2, <2>3, <2>5 DEF ProcInv, HoldsLocks, TrackerInv, CandidateInv, RegistrarInv,
       TrackSteps, CandidateSteps, RegisterSteps
<1>4. CASE ClaimReceipt(p)
  <2>1. Goto(p, "receipt") /\ UNCHANGED <<lock, versions>> /\ pc[p].at = "confirm" /\ VersionSound(pc[p].arg, "COMPLETE")
    BY <1>4 DEF ClaimReceipt, At
  <2>2. pc'[p].at = "receipt" /\ pc'[p].of = pc[p].of /\ pc'[p].arg = pc[p].arg
    BY <1>1, <2>1, GotoChanges DEF Steps
  <2>3. pc[p].of \in Models /\ lock'[Registry] = p /\ pc[p].arg \in DOMAIN versions /\ versions[pc[p].arg].of = pc[p].of
    BY <2>1 DEF ProcInv, HoldsLocks, RegistrarInv, RegisterSteps
  <2>4. PICK m \in Models, v \in DOMAIN versions : m = pc[p].of /\ v = pc[p].arg
    BY <2>3
  <2>5. Vouched(m, v)
    BY <2>1, <2>3, <2>4 DEF VersionSound, SourceSound, TrackingVerified, Vouched
  <2>6. Vouched(m, v)'
    BY <1>1, <1>4, <2>5, ReceiptStore, VouchedStays DEF StoreStep
  <2>7. Vouched(pc[p].of, pc[p].arg)'
    BY <2>2, <2>4, <2>6 DEF Vouched, SourceValid, RunSound, SnapshotSound, Whole
  <2> QED
    BY <2>1, <2>2, <2>3, <2>7 DEF ProcInv, HoldsLocks, TrackerInv, CandidateInv, RegistrarInv,
       TrackSteps, CandidateSteps, RegisterSteps
<1>5. CASE WriteReceipt(p)
  BY <1>1, <1>5, EndsChanges, EndedKeeps DEF WriteReceipt
<1> QED
  BY <1>2, <1>3, <1>4, <1>5

LEMMA StepOwn ==
  ASSUME StoreTypes, ProcTypes, NEW p \in Procs, ProcInv(p), Step(p)
  PROVE ProcInv(p)'
BY StepKinds, ReadsOwn, BuildsOwn, TrackerOwn, CandidateOwn, RegistrarOwn
-----------------------------------------------------------------------------
(* What is stored refers to what it says.                                  *)

LEMMA TrackedOnceStays ==
  ASSUME StoreTypes, ProcTypes, NEW p \in Procs, ProcInv(p), Step(p), TrackedOnce
  PROVE TrackedOnce'
<1>1. pc \in [Procs -> ProcStates]
  BY DEF ProcTypes
<1>2. CASE CreateRun(p)
  <2> DEFINE n == Len(tracked) + 1
  <2>1. /\ DOMAIN tracked' = DOMAIN tracked \cup {n} /\ tracked'[n].of = pc[p].of /\ tracked'[n].status = "RUNNING"
        /\ \A i \in DOMAIN tracked : tracked'[i] = tracked[i]
    BY <1>1, <1>2, CreateRunStore
  <2>2. \A i \in DOMAIN tracked : tracked[i].of # pc[p].of
    BY <1>2 DEF CreateRun, At, ProcInv, TrackerInv, RunsForIdentity
  <2> HIDE DEF n
  <2> QED
    BY <2>1, <2>2 DEF TrackedOnce
<1>3. CASE TracksRun(p)
  <2>1. /\ DOMAIN tracked' = DOMAIN tracked
        /\ \A i \in DOMAIN tracked :
             \/ tracked'[i].status = tracked[i].status /\ (tracked[i].logged => tracked'[i].logged)
             \/ tracked'[i].status = "FAILED"
             \/ tracked'[i].logged
    BY <1>3, TracksRunStore
  <2>2. \A i \in DOMAIN tracked : tracked'[i].of = tracked[i].of
    BY <1>3, TracksRunStore DEF StoreStep, StoreGrows
  <2> QED
    BY <2>1, <2>2 DEF TrackedOnce
<1>4. CASE UNCHANGED tracked
  BY <1>4 DEF TrackedOnce
<1>5. CreateRun(p) \/ TracksRun(p) \/ UNCHANGED tracked
  BY StepKinds, ReadsKeepStore DEF Store, Builds, ClaimSnapshot, WriteSnapshot, WriteRun, WriteDossier, ClaimRun, ClaimDossier,
     ClaimCandidate, MoveCandidate, CreateVersion, CompleteVersion, ClaimReceipt, WriteReceipt
<1> QED
  BY <1>2, <1>3, <1>4, <1>5

LEMMA OneVersionStays ==
  ASSUME StoreTypes, ProcTypes, NEW p \in Procs, ProcInv(p), Step(p), OneVersion
  PROVE OneVersion'
<1>1. pc \in [Procs -> ProcStates]
  BY DEF ProcTypes
<1>2. \A u, v \in DOMAIN versions : versions[u].of \in Models /\ versions[u].of = versions[v].of => u = v
  BY DEF OneVersion, Claims
<1>3. SUFFICES \A u, v \in DOMAIN versions' : versions'[u].of \in Models /\ versions'[u].of = versions'[v].of => u = v
  BY DEF OneVersion, Claims
<1>4. CASE CreateVersion(p)
  <2> DEFINE n == Len(versions) + 1
  <2>1. /\ DOMAIN versions' = DOMAIN versions \cup {n} /\ versions'[n].of = pc[p].of
        /\ \A v \in DOMAIN versions : versions'[v] = versions[v]
    BY <1>1, <1>4, CreateVersionStore
  <2>2. \A v \in DOMAIN versions : versions[v].of # pc[p].of
    BY <1>4 DEF CreateVersion, At, ProcInv, RegistrarInv, Claims
  <2> HIDE DEF n
  <2> QED
    BY <1>2, <2>1, <2>2
<1>5. CASE CompleteVersion(p)
  <2>1. DOMAIN versions' = DOMAIN versions /\ \A v \in DOMAIN versions : versions'[v].of = versions[v].of
    BY <1>5, CompleteVersionStore DEF StoreStep, StoreGrows
  <2> QED
    BY <1>2, <2>1
<1>6. CASE UNCHANGED versions
  BY <1>2, <1>6
<1>7. CreateVersion(p) \/ CompleteVersion(p) \/ UNCHANGED versions
  BY StepKinds, ReadsKeepStore DEF Store, Builds, ClaimSnapshot, WriteSnapshot, WriteRun, WriteDossier, ClaimRun, ClaimDossier,
     ClaimCandidate, MoveCandidate, CreateRun, TracksRun, LogRun, FinishRun, FailRun, ClaimReceipt, WriteReceipt
<1> QED
  BY <1>4, <1>5, <1>6, <1>7

LEMMA SourcesStay ==
  ASSUME StoreTypes, ProcTypes, NEW p \in Procs, ProcInv(p), Step(p), SourcesFinished
  PROVE SourcesFinished'
<1>1. StoreGrows /\ pc \in [Procs -> ProcStates]
  BY StepStore DEF ProcTypes, StoreStep
<1>2. \A i, m : WasFinished(i, m) => i \in DOMAIN tracked' /\ tracked'[i].of = m /\ tracked'[i].logged /\ tracked'[i].status # "RUNNING"
  BY <1>1 DEF StoreGrows, WasFinished
<1>3. \A m \in Models : source'[m] # 0 => WasFinished(source'[m], m)
  <2>1. CASE MoveCandidate(p)
    <3>1. /\ source' = [source EXCEPT ![pc[p].of] = pc[p].arg] /\ source \in [Models -> Nat]
          /\ pc[p].arg # 0 => WasFinished(pc[p].arg, pc[p].of)
      BY <2>1 DEF MoveCandidate, At, ProcInv, CandidateInv, StoreTypes
    <3> QED
      BY <3>1 DEF SourcesFinished
  <2>2. CASE UNCHANGED source
    BY <2>2 DEF SourcesFinished
  <2>3. MoveCandidate(p) \/ UNCHANGED source
    BY StepKinds, ReadsKeepStore DEF Store, Builds, ClaimSnapshot, WriteSnapshot, WriteRun, WriteDossier, ClaimRun, ClaimDossier,
     ClaimCandidate, CreateRun, TracksRun, LogRun, FinishRun, FailRun, CreateVersion, CompleteVersion, ClaimReceipt, WriteReceipt
  <2> QED
    BY <2>1, <2>2, <2>3
<1> QED
  BY <1>2, <1>3 DEF SourcesFinished, WasFinished

\* Only the registrar that has claimed a receipt writes it.
LEMMA ReceiptWriter ==
  ASSUME StoreTypes, ProcTypes, NEW p \in Procs, ProcInv(p), Step(p), ~WriteReceipt(p), NEW m \in Models, Whole(Receipt(m))'
  PROVE Whole(Receipt(m)) /\ receipt'[m] = receipt[m]
<1>1. receipt' = receipt
  BY StepKinds, ReadsKeepStore DEF Store, Builds, ClaimSnapshot, WriteSnapshot, WriteRun, WriteDossier, ClaimRun, ClaimDossier,
     ClaimCandidate, MoveCandidate, CreateRun, TracksRun, LogRun, FinishRun, FailRun, CreateVersion, CompleteVersion, ClaimReceipt
<1>2. \/ dir' = dir
      \/ \E a \in Artifacts, s \in {"partial", "whole"} : Sets(a, s) /\ (a = Receipt(m) => s = "partial")
  <2>1. /\ Snapshot # Receipt(m) /\ Snapshot \in Artifacts
        /\ \A n \in Models : /\ Run(n) # Receipt(m) /\ Dossier(n) # Receipt(m) /\ Candidate(n) # Receipt(m)
                             /\ {Run(n), Dossier(n), Candidate(n), Receipt(n)} \subseteq Artifacts
    BY NamesDistinct, NamesKnown
  <2>2. pc[p].at \in {"train", "assess", "lookup candidate", "move", "confirm"} => pc[p].of \in Models
    BY DEF ProcInv, HoldsLocks
  <2>3. CASE Builds(p)
    BY <2>1, <2>2, <2>3 DEF Builds, ClaimSnapshot, WriteSnapshot, WriteRun, WriteDossier, ClaimRun, ClaimDossier, At
  <2>4. CASE ClaimCandidate(p) \/ MoveCandidate(p) \/ ClaimReceipt(p)
    BY <2>1, <2>2, <2>4 DEF ClaimCandidate, MoveCandidate, ClaimReceipt, At
  <2>5. CASE Reads(p) \/ CreateRun(p) \/ TracksRun(p) \/ CreateVersion(p) \/ CompleteVersion(p)
    BY <2>5, ReadsKeepStore DEF Store, CreateRun, TracksRun, LogRun, FinishRun, FailRun, CreateVersion, CompleteVersion
  <2> QED
    BY <2>3, <2>4, <2>5, StepKinds
<1>3. Receipt(m) \in Artifacts /\ dir \in [Artifacts -> {"absent", "partial", "whole"}]
  BY NamesKnown DEF StoreTypes
<1> QED
  BY <1>1, <1>2, <1>3 DEF Whole, Sets

LEMMA ReceiptsStay ==
  ASSUME StoreTypes, ProcTypes, NEW p \in Procs, ProcInv(p), Step(p), ReceiptsVouched
  PROVE ReceiptsVouched'
<1>1. StoreGrows /\ AddsLocked(p)
  BY StepStore DEF ProcTypes, StoreStep
<1>2. SUFFICES ASSUME NEW m \in Models, Whole(Receipt(m))' PROVE Vouched(m, receipt[m])'
  BY DEF ReceiptsVouched
<1>3. PICK v : v = receipt'[m]
  OBVIOUS
<1>4. Vouched(m, v)
  <2>1. CASE ~WriteReceipt(p) \/ pc[p].of # m
    <3>1. Whole(Receipt(m)) /\ receipt'[m] = receipt[m]
      <4>1. CASE WriteReceipt(p)
        <5>1. pc[p].of # m /\ Receipt(pc[p].of) # Receipt(m)
          BY <2>1, <4>1, NamesDistinct
        <5>2. /\ dir' = [dir EXCEPT ![Receipt(pc[p].of)] = "whole"]
              /\ receipt' = [receipt EXCEPT ![pc[p].of] = pc[p].arg]
          BY <4>1 DEF WriteReceipt, Sets
        <5>3. Receipt(m) \in Artifacts /\ dir \in [Artifacts -> {"absent", "partial", "whole"}] /\ receipt \in [Models -> Nat]
          BY NamesKnown DEF StoreTypes
        <5> QED
          BY <1>2, <5>1, <5>2, <5>3 DEF Whole
      <4> QED
        BY <1>2, <2>1, <4>1, ReceiptWriter
    <3> QED
      BY <1>3, <3>1 DEF ReceiptsVouched
  <2>2. CASE WriteReceipt(p) /\ pc[p].of = m
    <3>1. receipt'[m] = pc[p].arg
      BY <2>2 DEF WriteReceipt, StoreTypes
    <3>2. Vouched(m, pc[p].arg)
      BY <2>2 DEF WriteReceipt, At, ProcInv, RegistrarInv
    <3> QED
      BY <1>3, <3>1, <3>2
  <2> QED
    BY <2>1, <2>2
<1>5. Vouched(m, v)'
  BY <1>1, <1>4, VouchedStays
<1> QED
  BY <1>3, <1>5 DEF Vouched
-----------------------------------------------------------------------------
(* The invariant.                                                          *)

LEMMA TypesSplit == TypeOK <=> StoreTypes /\ ProcTypes
BY DEF TypeOK, StoreTypes, ProcTypes

LEMMA InitInvariant == Init => LifecycleInv
<1> SUFFICES ASSUME Init PROVE LifecycleInv
  OBVIOUS
<1>1. Idle \in ProcStates
  BY DEF Idle, ProcStates, Steps
<1>2. \A S : <<>> \in Seq(S)
  BY EmptySeq
<1>3. tracked = <<>> /\ versions = <<>> /\ DOMAIN <<>> = {}
  BY DEF Init
<1>4. TypeOK
  BY <1>1, <1>2, MaxStopsNat DEF Init, TypeOK
<1>5. \A p \in Procs : ProcInv(p)
  BY DEF Init, Idle, ProcInv, HoldsLocks, TrackerInv, CandidateInv, RegistrarInv, TrackSteps, CandidateSteps, RegisterSteps
<1>6. RegisteredOnce
  BY <1>3 DEF RegisteredOnce, TrackedOnce, OneVersion
<1>7. \A m \in Models : source[m] = 0 /\ ~Whole(Receipt(m))
  BY NamesKnown DEF Init, Whole
<1> QED
  BY <1>4, <1>5, <1>6, <1>7 DEF LifecycleInv, StoreInv, SourcesFinished, ReceiptsVouched

LEMMA StepInvariant ==
  ASSUME LifecycleInv, NEW p \in Procs, Step(p)
  PROVE LifecycleInv'
<1>1. StoreTypes /\ ProcTypes /\ ProcInv(p) /\ pc \in [Procs -> ProcStates]
  BY TypesSplit DEF LifecycleInv, ProcTypes
<1>2. StoreStep(p)
  BY <1>1, StepStore
<1>3. ProcTypes' /\ Alone(p)
  BY <1>1, StepAlone DEF StoreTypes
<1>4. TypeOK'
  BY <1>2, <1>3 DEF StoreStep, StoreTypes, ProcTypes, TypeOK
<1>5. ASSUME NEW q \in Procs PROVE ProcInv(q)'
  BY <1>1, <1>2, <1>3, OthersKeep, StepOwn DEF LifecycleInv
<1>6. RegisteredOnce'
  BY <1>1, TrackedOnceStays, OneVersionStays DEF LifecycleInv, StoreInv, RegisteredOnce
<1>7. SourcesFinished' /\ ReceiptsVouched'
  BY <1>1, SourcesStay, ReceiptsStay DEF LifecycleInv, StoreInv, SourcesFinished, ReceiptsVouched
<1> QED
  BY <1>4, <1>5, <1>6, <1>7 DEF LifecycleInv, StoreInv, SourcesFinished, ReceiptsVouched

LEMMA NextInvariant == LifecycleInv /\ [Next]_vars => LifecycleInv'
<1>1. ASSUME LifecycleInv, Next PROVE LifecycleInv'
  BY <1>1, StepInvariant DEF Next, Step
<1>2. ASSUME LifecycleInv, UNCHANGED vars PROVE LifecycleInv'
  <2>1. TypeOK'
    BY <1>2 DEF vars, LifecycleInv, TypeOK
  <2>2. RegisteredOnce'
    BY <1>2 DEF vars, LifecycleInv, StoreInv, RegisteredOnce, TrackedOnce, OneVersion, Claims
  <2>3. SourcesFinished' /\ ReceiptsVouched'
    BY <1>2 DEF vars, LifecycleInv, StoreInv, SourcesFinished, ReceiptsVouched, WasFinished, Vouched,
       Whole, SourceValid, RunSound, SnapshotSound
  <2>4. ASSUME NEW p \in Procs PROVE ProcInv(p)'
    <3>1. ProcInv(p)
      BY <1>2 DEF LifecycleInv
    <3>2. HoldsLocks(p)' /\ TrackerInv(p)'
      BY <1>2, <3>1 DEF vars, ProcInv, HoldsLocks, TrackerInv, RunsForIdentity
    <3>3. CandidateInv(p)' /\ RegistrarInv(p)'
      BY <1>2, <3>1 DEF vars, ProcInv, CandidateInv, RegistrarInv, WasFinished, Vouched, Claims,
         Whole, SourceValid, RunSound, SnapshotSound
    <3> QED
      BY <3>2, <3>3 DEF ProcInv
  <2> QED
    BY <2>1, <2>2, <2>3, <2>4 DEF LifecycleInv, StoreInv, SourcesFinished, ReceiptsVouched
<1> QED
  BY <1>1, <1>2

\* However many commands run, are killed and are given again, every command has
\* what it found under its lock, and the store refers to what it says.
THEOREM LifecycleInvariant == Spec => []LifecycleInv
<1> QED
  BY InitInvariant, NextInvariant, PTL DEF Spec

\* The variables keep their types.
THEOREM LifecycleTypes == Spec => []TypeOK
<1>1. LifecycleInv => TypeOK
  BY DEF LifecycleInv
<1> QED
  BY <1>1, LifecycleInvariant, PTL

\* track_run and register_candidate: no training run is tracked and no candidate
\* registered twice, and a FINISHED run has all it should.
THEOREM RegisteredOnceHolds == Spec => []RegisteredOnce
<1>1. LifecycleInv => RegisteredOnce
  BY DEF LifecycleInv, StoreInv
<1> QED
  BY <1>1, LifecycleInvariant, PTL

-----------------------------------------------------------------------------
(* What was inspected before it was built upon.                            *)

\* A track command keeps the evidence, and an assess command the receipt, it
\* found when it started.
EvidenceKept(p) ==
  /\ pc[p].at \in {"track"} \cup TrackSteps => SourceValid(pc[p].of)
  /\ pc[p].at = "assess" => Whole(Receipt(pc[p].of))

BuiltInv == BuiltOnComplete /\ \A p \in Procs : EvidenceKept(p)

\* What a process has inspected stays whole whatever another does.
LEMMA KeptWhole ==
  ASSUME LifecycleInv, NEW p \in Procs, Step(p), NEW m \in Models
  PROVE (SourceValid(m) => SourceValid(m)') /\ (Whole(Receipt(m)) => Whole(Receipt(m))')
<1>1. StoreTypes /\ ProcTypes /\ ProcInv(p)
  BY TypesSplit DEF LifecycleInv
<1>2. StoreGrows
  BY <1>1, StepStore DEF ProcTypes, StoreStep
<1>3. {Snapshot, Run(m), Receipt(m)} \subseteq Artifacts
  BY NamesKnown
<1> QED
  BY <1>2, <1>3 DEF StoreGrows, SourceValid, RunSound, SnapshotSound, Whole

\* A run is new in the store only by CreateRun.
LEMMA RunsBuilt ==
  ASSUME LifecycleInv, BuiltInv, NEW p \in Procs, Step(p), NEW i \in DOMAIN tracked'
  PROVE \E m \in Models : m = tracked'[i].of /\ SourceValid(m)'
<1>1. StoreTypes /\ ProcTypes /\ ProcInv(p)
  BY TypesSplit DEF LifecycleInv
<1>2. StoreGrows
  BY <1>1, StepStore DEF ProcTypes, StoreStep
<1>3. CASE i \in DOMAIN tracked
  <2>1. tracked'[i].of = tracked[i].of /\ SourceValid(tracked[i].of)
    BY <1>2, <1>3 DEF StoreGrows, BuiltInv, BuiltOnComplete
  <2>2. tracked[i] \in RunRecords
    BY <1>1, <1>3, ElementOfSeq, LenProperties DEF StoreTypes
  <2>3. tracked[i].of \in Models
    BY <2>2 DEF RunRecords
  <2> QED
    BY <2>1, <2>3, KeptWhole
<1>4. CASE i \notin DOMAIN tracked
  <2>1. CreateRun(p)
    <3>1. DOMAIN tracked' = DOMAIN tracked \/ CreateRun(p)
      BY StepKinds, ReadsKeepStore DEF Store, Builds, ClaimSnapshot, WriteSnapshot, WriteRun, WriteDossier, ClaimRun,
         ClaimDossier, ClaimCandidate, MoveCandidate, TracksRun, LogRun, FinishRun, FailRun, CreateVersion,
         CompleteVersion, ClaimReceipt, WriteReceipt
    <3> QED
      BY <1>4, <3>1
  <2>2. /\ pc[p].of \in Models /\ pc[p].corpus \in BOOLEAN
        /\ SourceValid(pc[p].of)
    <3>1. pc[p].at = "create run" /\ pc[p] \in ProcStates
      BY <1>1, <2>1 DEF CreateRun, At, ProcTypes
    <3> QED
      BY <1>1, <3>1 DEF ProcInv, HoldsLocks, BuiltInv, EvidenceKept, TrackSteps, ProcStates
  <2>3. tracked'[i].of = pc[p].of
    <3> DEFINE new == [of |-> pc[p].of, corpus |-> pc[p].corpus, logged |-> FALSE, status |-> "RUNNING"]
    <3>1. new \in RunRecords /\ tracked \in Seq(RunRecords)
      BY <1>1, <2>2 DEF RunRecords, StoreTypes
    <3>2. tracked' = Append(tracked, new)
      BY <2>1 DEF CreateRun
    <3>3. new.of = pc[p].of
      OBVIOUS
    <3> HIDE DEF new
    <3>4. i = Len(tracked) + 1 /\ tracked'[i] = new
      BY <1>4, <3>1, <3>2, AppendFacts
    <3> QED
      BY <3>3, <3>4
  <2> QED
    BY <2>2, <2>3, KeptWhole
<1> QED
  BY <1>3, <1>4

\* A dossier is claimed of a registered model, and written by who claimed it.
LEMMA DossierBuilt ==
  ASSUME LifecycleInv, BuiltInv, NEW p \in Procs, Step(p), NEW m \in Models, dir'[Dossier(m)] # "absent"
  PROVE Whole(Receipt(m))'
<1>1. StoreTypes /\ ProcTypes /\ ProcInv(p)
  BY TypesSplit DEF LifecycleInv
<1>2. Whole(Receipt(m))
  <2>1. CASE dir[Dossier(m)] # "absent"
    BY <2>1 DEF BuiltInv, BuiltOnComplete
  <2>2. CASE dir[Dossier(m)] = "absent"
    <3>1. \/ dir' = dir
          \/ \E a \in Artifacts : \E s : Sets(a, s) /\ a # Dossier(m)
          \/ WriteDossier(p)
          \/ \E n \in Models : ClaimDossier(p, n)
      <4>1. /\ Snapshot # Dossier(m) /\ Snapshot \in Artifacts
            /\ \A n \in Models : /\ Run(n) # Dossier(m) /\ Candidate(n) # Dossier(m) /\ Receipt(n) # Dossier(m)
                                 /\ {Run(n), Candidate(n), Receipt(n)} \subseteq Artifacts
        BY NamesDistinct, NamesKnown
      <4>2. pc[p].at \in {"train", "lookup candidate", "move", "confirm", "receipt"} => pc[p].of \in Models
        BY <1>1 DEF ProcInv, HoldsLocks
      <4>3. CASE Builds(p)
        BY <4>1, <4>2, <4>3 DEF Builds, ClaimSnapshot, WriteSnapshot, WriteRun, ClaimRun, At
      <4>4. CASE ClaimCandidate(p) \/ MoveCandidate(p) \/ ClaimReceipt(p) \/ WriteReceipt(p)
        BY <4>1, <4>2, <4>4 DEF ClaimCandidate, MoveCandidate, ClaimReceipt, WriteReceipt, At
      <4>5. CASE Reads(p) \/ CreateRun(p) \/ TracksRun(p) \/ CreateVersion(p) \/ CompleteVersion(p)
        BY <4>5, ReadsKeepStore DEF Store, CreateRun, TracksRun, LogRun, FinishRun, FailRun, CreateVersion, CompleteVersion
      <4> QED
        BY <4>3, <4>4, <4>5, StepKinds
    <3>2. Dossier(m) \in Artifacts /\ dir \in [Artifacts -> {"absent", "partial", "whole"}]
      BY <1>1, NamesKnown DEF StoreTypes
    <3>3. ~(\E a \in Artifacts : \E s : Sets(a, s) /\ a # Dossier(m)) /\ dir' # dir
      BY <2>2, <3>2 DEF Sets
    <3>4. CASE WriteDossier(p)
      <4>1. pc[p].at = "assess" /\ pc[p].of \in Models /\ Sets(Dossier(pc[p].of), "whole")
        BY <1>1, <3>4 DEF WriteDossier, At, ProcInv, HoldsLocks
      <4>2. Dossier(pc[p].of) = Dossier(m) /\ pc[p].of = m
        BY <3>3, <4>1, NamesKnown DEF Dossier
      <4> QED
        BY <4>1, <4>2 DEF BuiltInv, EvidenceKept
    <3>5. ASSUME NEW n \in Models, ClaimDossier(p, n) PROVE Whole(Receipt(m))
      <4>1. n = m
        BY <3>3, <3>5, NamesKnown DEF ClaimDossier, Dossier
      <4> QED
        BY <3>5, <4>1 DEF ClaimDossier, Collected, Registered
    <3> QED
      BY <3>1, <3>3, <3>4, <3>5
  <2> QED
    BY <2>1, <2>2
<1> QED
  BY <1>2, KeptWhole

\* A process is past an inspection only if it made it.
LEMMA EvidenceStays ==
  ASSUME LifecycleInv, BuiltInv, NEW p \in Procs, Step(p), NEW q \in Procs
  PROVE EvidenceKept(q)'
<1>1. StoreTypes /\ ProcTypes /\ ProcInv(p) /\ ProcInv(q) /\ pc \in [Procs -> ProcStates]
  BY TypesSplit DEF LifecycleInv, ProcTypes
<1> DEFINE Past == {"track"} \cup TrackSteps
<1>2. /\ pc'[q].at \in Past => pc'[q].of \in Models /\ SourceValid(pc'[q].of)
      /\ pc'[q].at = "assess" => pc'[q].of \in Models /\ Whole(Receipt(pc'[q].of))
  <2>1. CASE pc'[q] = pc[q]
    BY <1>1, <2>1 DEF BuiltInv, EvidenceKept, ProcInv, HoldsLocks, TrackSteps
  <2>2. CASE q = p /\ pc'[q] # pc[q]
    <3> DEFINE Fresh == /\ pc'[p].at \in Past => pc'[p].of \in Models /\ SourceValid(pc'[p].of)
                        /\ pc'[p].at = "assess" => pc'[p].of \in Models /\ Whole(Receipt(pc'[p].of))
               Others == Steps \ (Past \cup {"assess"})
    <3> SUFFICES Fresh
      BY <2>2
    <3>1. Others \subseteq Steps /\ Past \subseteq Steps /\ "assess" \in Steps /\ "idle" \in Others
      BY DEF Steps, TrackSteps
    <3>2. pc[p].at \in Past => pc[p].of \in Models /\ SourceValid(pc[p].of)
      BY <1>1, <2>2 DEF BuiltInv, EvidenceKept, ProcInv, HoldsLocks, TrackSteps
    <3>3. (pc'[p].at \in Others \/ pc'[p].at = "idle") => Fresh
      BY <3>1
    <3>4. Ends(p) => Fresh
      BY <1>1, <3>3, EndsChanges
    <3>5. ASSUME NEW s \in Others, Goto(p, s) PROVE Fresh
      BY <1>1, <3>1, <3>3, <3>5, GotoChanges
    <3>6. ASSUME NEW s \in TrackSteps, Goto(p, s), pc[p].at \in Past PROVE Fresh
      <4>1. s \in Steps /\ s # "assess"
        BY <3>1 DEF TrackSteps
      <4> QED
        BY <1>1, <3>2, <3>6, <4>1, GotoChanges
    <3>7. ASSUME NEW s \in Others, NEW k \in Models \cup {None}, NEW n \in Nat, NEW c \in BOOLEAN, Starts(p, s, k, n, c)
          PROVE Fresh
      BY <1>1, <3>1, <3>3, <3>7, StartsChanges
    <3>8. CASE Working(p)
      <4>1. CASE CreateRun(p)
        <5>1. pc'[p].at = "log" /\ pc'[p].of = pc[p].of /\ pc[p].at = "create run"
          BY <1>1, <4>1 DEF CreateRun, At, ProcStates
        <5> QED
          BY <3>2, <5>1 DEF TrackSteps
      <4>2. CASE CreateVersion(p)
        <5>1. pc'[p].at = "verify"
          BY <1>1, <4>2 DEF CreateVersion, ProcStates
        <5> QED
          BY <5>1 DEF TrackSteps
      <4>3. CASE LockTrack(p) \/ MissRun(p) \/ LogRun(p) \/ FinishRun(p)
        BY <3>6, <4>3 DEF LockTrack, MissRun, LogRun, FinishRun, At, TrackSteps
      <4>4. CASE \/ WriteSnapshot(p) \/ WriteRun(p) \/ WriteDossier(p) \/ FindRun(p) \/ ReadBack(p)
                 \/ FindCandidate(p) \/ MoveCandidate(p) \/ FindVersion(p) \/ WriteReceipt(p) \/ RefuseVersion(p)
        BY <3>4, <4>4 DEF WriteSnapshot, WriteRun, WriteDossier, FindRun, ReadBack, FindCandidate, MoveCandidate,
           FindVersion, WriteReceipt, RefuseVersion
      <4>5. CASE \/ LockCandidate(p) \/ ClaimCandidate(p) \/ LockRegistry(p) \/ MissVersion(p)
                 \/ CompleteVersion(p) \/ ClaimReceipt(p)
        <5>1. {"lookup candidate", "move", "lookup version", "create version", "confirm", "receipt"} \subseteq Others
          BY DEF Steps, TrackSteps
        <5>2. \E s \in Others : Goto(p, s)
          BY <4>5, <5>1 DEF LockCandidate, ClaimCandidate, LockRegistry, MissVersion, CompleteVersion, ClaimReceipt
        <5> QED
          BY <3>5, <5>2
      <4> QED
        BY <3>8, <4>1, <4>2, <4>3, <4>4, <4>5 DEF Working
    <3>9. CASE Stop(p) \/ FailRun(p)
      BY <3>4, <3>9 DEF Stop, FailRun
    <3>10. ASSUME NEW m \in Models, Starting(p, m) PROVE Fresh
      <4>0. 0 \in Nat /\ FALSE \in BOOLEAN /\ None \in Models \cup {None} /\ DOMAIN tracked \subseteq Nat
        BY <1>1, LenProperties DEF StoreTypes
      <4>1. ASSUME NEW c \in BOOLEAN, StartTrack(p, m, c) PROVE Fresh
        <5>1. Starts(p, "track", m, 0, c) /\ "track" \in Steps /\ SourceValid(m)
          BY <4>1, <3>1 DEF StartTrack, Evidence, SourceValid
        <5>2. pc'[p].at = "track" /\ pc'[p].of = m
          BY <1>1, <4>0, <5>1, StartsChanges
        <5> QED
          BY <5>1, <5>2
      <4>2. CASE ClaimDossier(p, m)
        <5>1. Starts(p, "assess", m, 0, FALSE) /\ Whole(Receipt(m))
          BY <4>2 DEF ClaimDossier, Collected, Registered
        <5>2. pc'[p].at = "assess" /\ pc'[p].of = m
          BY <1>1, <3>1, <4>0, <5>1, StartsChanges
        <5> QED
          BY <5>1, <5>2 DEF TrackSteps
      <4>3. CASE \/ ClaimSnapshot(p) \/ ClaimRun(p, m) \/ StartRegister(p, m)
                 \/ \E i \in {0} \cup DOMAIN tracked : StartCandidate(p, m, i)
        <5>1. {"snapshot", "train", "register", "candidate"} \subseteq Others
          BY DEF Steps, TrackSteps
        <5>2. \E s \in Others, k \in Models \cup {None}, n \in Nat, c \in BOOLEAN : Starts(p, s, k, n, c)
          BY <4>0, <4>3, <5>1 DEF ClaimSnapshot, ClaimRun, StartRegister, StartCandidate
        <5> QED
          BY <3>7, <5>2
      <4> QED
        BY <3>10, <4>1, <4>2, <4>3 DEF Starting
    <3> QED
      BY <2>2, <3>8, <3>9, <3>10 DEF Step
  <2>3. q # p => pc'[q] = pc[q]
    BY <1>1, StepAlone DEF StoreTypes, Alone
  <2> QED
    BY <2>1, <2>2, <2>3
<1>3. PICK r : r = pc'[q]
  OBVIOUS
<1> QED
  BY <1>2, <1>3, KeptWhole DEF EvidenceKept

LEMMA BuiltStays == LifecycleInv /\ BuiltInv /\ [Next]_vars => BuiltInv'
<1>1. ASSUME LifecycleInv, BuiltInv, Next PROVE BuiltInv'
  <2>1. PICK p \in Procs : Step(p)
    BY <1>1 DEF Next, Step
  <2>2. \A q \in Procs : EvidenceKept(q)'
    BY <1>1, <2>1, EvidenceStays
  <2>3. ASSUME NEW i \in DOMAIN tracked' PROVE SourceValid(tracked[i].of)'
    <3>1. PICK m \in Models : m = tracked'[i].of /\ SourceValid(m)'
      BY <1>1, <2>1, RunsBuilt
    <3> QED
      BY <3>1 DEF SourceValid, RunSound
  <2>4. BuiltOnComplete'
    BY <1>1, <2>1, <2>3, DossierBuilt DEF BuiltOnComplete
  <2> QED
    BY <2>2, <2>4 DEF BuiltInv
<1>2. ASSUME BuiltInv, UNCHANGED vars PROVE BuiltInv'
  BY <1>2 DEF vars, BuiltInv, BuiltOnComplete, EvidenceKept, SourceValid, RunSound, SnapshotSound, Whole
<1> QED
  BY <1>1, <1>2

LEMMA BuiltStarts == Init => BuiltInv
<1> SUFFICES ASSUME Init PROVE BuiltInv
  OBVIOUS
<1>1. DOMAIN tracked = {}
  BY DEF Init
<1>2. \A m \in Models : dir[Dossier(m)] = "absent"
  BY NamesKnown DEF Init
<1>3. \A p \in Procs : EvidenceKept(p)
  BY DEF Init, Idle, EvidenceKept, TrackSteps
<1> QED
  BY <1>1, <1>2, <1>3 DEF BuiltInv, BuiltOnComplete

\* A whole receipt names a complete version of a complete candidate with its
\* evidence, a candidate names a run that was FINISHED, a run is tracked only of
\* a complete training run, and a dossier claimed only of a model with its receipt.
THEOREM EvidenceVouchedHolds == Spec => []EvidenceVouched
<1>1. LifecycleInv /\ BuiltInv => EvidenceVouched
  <2> SUFFICES ASSUME LifecycleInv, BuiltInv PROVE EvidenceVouched
    OBVIOUS
  <2>1. versions \in Seq(VersionRecords)
    BY DEF LifecycleInv, TypeOK
  <2>2. SourceWasFinished
    BY DEF LifecycleInv, StoreInv, SourcesFinished, WasFinished, SourceWasFinished
  <2>3. ASSUME NEW m \in Models, Whole(Receipt(m)) PROVE versions[receipt[m]] = [of |-> m, status |-> "COMPLETE"]
    <3>1. receipt[m] \in DOMAIN versions /\ versions[receipt[m]].of = m /\ versions[receipt[m]].status = "COMPLETE"
      BY <2>3 DEF LifecycleInv, StoreInv, ReceiptsVouched, Vouched
    <3>2. versions[receipt[m]] \in VersionRecords
      BY <2>1, <3>1, LenProperties, ElementOfSeq
    <3> QED
      BY <3>1, <3>2 DEF VersionRecords
  <2>4. ReceiptVouches
    BY <2>3 DEF LifecycleInv, StoreInv, ReceiptsVouched, Vouched, ReceiptVouches
  <2> QED
    BY <2>2, <2>4 DEF EvidenceVouched, BuiltInv
<1>2. Spec => []BuiltInv
  BY LifecycleInvariant, BuiltStarts, BuiltStays, PTL DEF Spec
<1> QED
  BY <1>1, <1>2, LifecycleInvariant, PTL
-----------------------------------------------------------------------------
(* What is half-written stays so.                                          *)

WriteSteps == {"snapshot", "train", "move", "receipt", "assess"}

\* A process comes to write an artifact only by claiming one that was absent.
LEMMA WritersClaim ==
  ASSUME StoreTypes, ProcTypes, NEW p \in Procs, Step(p), pc'[p].at \in WriteSteps
  PROVE \E a : dir[a] = "absent" /\ \A b : Writing(p, b)' => b = a
<1>1. pc \in [Procs -> ProcStates] /\ 0 \in Nat /\ FALSE \in BOOLEAN
  BY DEF ProcTypes
<1>2. \A s \in Steps \ WriteSteps : ~Goto(p, s)
  BY <1>1, GotoChanges
<1>3. ~Ends(p)
  BY <1>1, EndsChanges DEF WriteSteps
<1>4. ASSUME NEW s \in Steps \ WriteSteps, NEW m \in Models, NEW n \in Nat, NEW c \in BOOLEAN
      PROVE ~Starts(p, s, m, n, c)
  BY <1>1, StartsChanges
<1>5. {"lookup run", "create run", "finish", "read back", "lookup candidate", "lookup version", "create version",
       "confirm", "track", "candidate", "register"} \subseteq Steps \ WriteSteps
  BY DEF Steps, WriteSteps
<1>6. ~CreateRun(p) /\ ~CreateVersion(p)
  BY <1>1 DEF CreateRun, CreateVersion, ProcStates, WriteSteps
<1>7. ~Reads(p)
  <2>1. DOMAIN tracked \subseteq Nat
    BY LenProperties DEF StoreTypes
  <2>2. \A m \in Models : /\ \A c \in BOOLEAN : ~StartTrack(p, m, c)
                         /\ \A i \in {0} \cup DOMAIN tracked : ~StartCandidate(p, m, i)
                         /\ ~StartRegister(p, m)
    BY <1>1, <1>4, <1>5, <2>1 DEF StartTrack, StartCandidate, StartRegister
  <2> QED
    BY <1>2, <1>3, <1>5, <2>2 DEF Reads, LockTrack, FindRun, MissRun, ReadBack, LockCandidate, FindCandidate, LockRegistry,
       FindVersion, MissVersion, RefuseVersion, Stop
<1>8. ~TracksRun(p) /\ ~CompleteVersion(p) /\ ~MoveCandidate(p) /\ ~WriteReceipt(p)
  BY <1>2, <1>3, <1>5 DEF TracksRun, LogRun, FinishRun, FailRun, CompleteVersion, MoveCandidate, WriteReceipt
<1>9. CASE ClaimCandidate(p)
  <2>1. dir[Candidate(pc[p].of)] = "absent" /\ Goto(p, "move") /\ "move" \in Steps
    BY <1>9 DEF ClaimCandidate, Steps
  <2>2. pc'[p].at = "move" /\ pc'[p].of = pc[p].of
    BY <1>1, <2>1, GotoChanges
  <2> QED
    BY <2>1, <2>2 DEF Writing, At
<1>10. CASE ClaimReceipt(p)
  <2>1. dir[Receipt(pc[p].of)] = "absent" /\ Goto(p, "receipt") /\ "receipt" \in Steps
    BY <1>10 DEF ClaimReceipt, Steps
  <2>2. pc'[p].at = "receipt" /\ pc'[p].of = pc[p].of
    BY <1>1, <2>1, GotoChanges
  <2> QED
    BY <2>1, <2>2 DEF Writing, At
<1>11. CASE Builds(p)
  <2>1. ~WriteSnapshot(p) /\ ~WriteRun(p) /\ ~WriteDossier(p)
    BY <1>3 DEF WriteSnapshot, WriteRun, WriteDossier
  <2>2. CASE ClaimSnapshot(p)
    <3>1. /\ dir[Snapshot] = "absent" /\ Starts(p, "snapshot", None, 0, FALSE)
          /\ "snapshot" \in Steps /\ None \in Models \cup {None}
      BY <2>2 DEF ClaimSnapshot, Steps
    <3>2. pc'[p].at = "snapshot"
      BY <1>1, <3>1, StartsChanges
    <3> QED
      BY <3>1, <3>2 DEF Writing, At
  <2>3. ASSUME NEW m \in Models, ClaimRun(p, m) PROVE \E a : dir[a] = "absent" /\ \A b : Writing(p, b)' => b = a
    <3>1. dir[Run(m)] = "absent" /\ Starts(p, "train", m, 0, FALSE) /\ "train" \in Steps /\ m \in Models \cup {None}
      BY <2>3 DEF ClaimRun, Steps
    <3>2. pc'[p].at = "train" /\ pc'[p].of = m
      BY <1>1, <3>1, StartsChanges
    <3> QED
      BY <3>1, <3>2 DEF Writing, At
  <2>4. ASSUME NEW m \in Models, ClaimDossier(p, m) PROVE \E a : dir[a] = "absent" /\ \A b : Writing(p, b)' => b = a
    <3>1. dir[Dossier(m)] = "absent" /\ Starts(p, "assess", m, 0, FALSE) /\ "assess" \in Steps /\ m \in Models \cup {None}
      BY <2>4 DEF ClaimDossier, Steps
    <3>2. pc'[p].at = "assess" /\ pc'[p].of = m
      BY <1>1, <3>1, StartsChanges
    <3> QED
      BY <3>1, <3>2 DEF Writing, At
  <2> QED
    BY <1>11, <2>1, <2>2, <2>3, <2>4 DEF Builds
<1> QED
  BY <1>6, <1>7, <1>8, <1>9, <1>10, <1>11, StepKinds

\* An artifact that is there changes only by the process writing it.
LEMMA OthersWriteNot ==
  ASSUME StoreTypes, NEW p \in Procs, Step(p), NEW a \in Artifacts, dir[a] # "absent", ~Writing(p, a)
  PROVE dir'[a] = dir[a]
<1>1. dir \in [Artifacts -> {"absent", "partial", "whole"}]
  BY DEF StoreTypes
<1>2. dir' = dir \/ \E b, s : Sets(b, s) /\ (dir[b] = "absent" \/ Writing(p, b))
  <2>1. CASE Builds(p)
    BY <2>1 DEF Builds, ClaimSnapshot, WriteSnapshot, WriteRun, WriteDossier, ClaimRun, ClaimDossier, Writing
  <2>2. CASE ClaimCandidate(p) \/ MoveCandidate(p) \/ ClaimReceipt(p) \/ WriteReceipt(p)
    BY <2>2 DEF ClaimCandidate, MoveCandidate, ClaimReceipt, WriteReceipt, Writing
  <2>3. CASE Reads(p) \/ CreateRun(p) \/ TracksRun(p) \/ CreateVersion(p) \/ CompleteVersion(p)
    BY <2>3, ReadsKeepStore DEF Store, CreateRun, TracksRun, LogRun, FinishRun, FailRun, CreateVersion, CompleteVersion
  <2> QED
    BY <2>1, <2>2, <2>3, StepKinds
<1> QED
  BY <1>1, <1>2 DEF Sets

\* "Interrupted writes remain visibly incomplete, not silently repaired": no
\* command touches an artifact another left half-written, or a whole one.
THEOREM NothingRepairedHolds == Spec => NothingRepaired
<1> DEFINE Kept == \A a \in Artifacts : (Abandoned(a) => Abandoned(a)') /\ (Whole(a) => Whole(a)')
<1>1. LifecycleInv /\ [Next]_vars => [Kept]_vars
  <2>1. SUFFICES ASSUME LifecycleInv, NEW p \in Procs, Step(p), NEW a \in Artifacts
                 PROVE (Abandoned(a) => Abandoned(a)') /\ (Whole(a) => Whole(a)')
    BY DEF Next, Step
  <2>2. StoreTypes /\ ProcTypes /\ ProcInv(p) /\ pc \in [Procs -> ProcStates]
    BY <2>1, TypesSplit DEF LifecycleInv, ProcTypes
  <2>3. Whole(a) => Whole(a)'
    BY <2>1, <2>2, StepStore, WholeStays DEF StoreStep
  <2>4. ASSUME Abandoned(a) PROVE Abandoned(a)'
    <3>1. dir[a] = "partial" /\ dir'[a] = "partial"
      BY <2>1, <2>2, <2>4, OthersWriteNot DEF Abandoned
    <3>2. ASSUME NEW q \in Procs, q # p PROVE ~Writing(q, a)'
      <4>1. pc'[q] = pc[q]
        BY <2>1, <2>2, <3>2, StepAlone DEF StoreTypes, Alone
      <4> QED
        BY <2>4, <4>1 DEF Abandoned, Writing, At
    <3>3. ~Writing(p, a)'
      <4>1. CASE pc'[p].at \in WriteSteps
        BY <2>1, <2>2, <3>1, <4>1, WritersClaim
      <4>2. CASE pc'[p].at \notin WriteSteps
        BY <4>2 DEF Writing, At, WriteSteps
      <4> QED
        BY <4>1, <4>2
    <3> QED
      BY <3>1, <3>2, <3>3 DEF Abandoned
  <2> QED
    BY <2>3, <2>4
<1> QED
  BY <1>1, LifecycleInvariant, PTL DEF Spec, NothingRepaired
=============================================================================
