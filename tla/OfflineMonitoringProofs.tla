----------------------- MODULE OfflineMonitoringProofs -----------------------
(***************************************************************************)
(* Proofs about the artifacts of OfflineMonitoring and ShadowReplay, with  *)
(* the commands of both side by side on one directory: for any models,     *)
(* label files, feedback batches, intervals, processes and bounds.  And,   *)
(* then, about Recovery and Distributions, which MCOfflineMonitoring       *)
(* checks with them: for any places and needs and any number of host       *)
(* commands, restarts, captures, roots and rehearsals, and for populations *)
(* of any size, of any numbers.                                            *)
(*                                                                         *)
(* An artifact is never changed, so that what its command verified of its  *)
(* sources is said of the artifact itself (Made...), and stays true while  *)
(* published artifacts only grow.  What PointInTime, EvidenceCoherent and  *)
(* ParitySound say of two or more artifacts follows from that and from     *)
(* lemmas about label revisions and provider cases.                        *)
(***************************************************************************)
EXTENDS ShadowReplay, Recovery, Distributions, FoldFacts

-----------------------------------------------------------------------------
(* What the command that claimed an artifact made sure of.                 *)

MadeLedger(a) ==
  \E m \in DOMAIN Model, w \in Intervals : a = Ledger(m, w) /\ TrainEnd(m) <= w.from

MadeOutcomes(a) ==
  \E l \in published, f \in DOMAIN LabelFile, t \in Cutoffs :
    a = Outcomes(l, f, t) /\ l.kind = "ledger" /\ ValidRevisions(LabelFile[f])

MadeFeedback(a) ==
  \E b \in Seq(DOMAIN Batch), n \in DOMAIN Batch :
    /\ a = Feedback(Append(b, n))
    /\ b # <<>> => Feedback(b) \in published
    /\ Validated(RecordsIn(a))

MadeEvaluation(a) ==
  \E l, f \in published, t \in Cutoffs :
    a = Evaluation(l, f, t) /\ l.kind = "ledger" /\ f.kind = "feedback"

MadeDrift(a) ==
  \E l \in published, r, c \in Intervals : a = Drift(l, r, c) /\ l.kind = "ledger" /\ Windows(l, r, c)

MadePacket(a) ==
  \E d \in published, s, t \in {None} \cup published, k \in {None} \cup {Dossier(m) : m \in DOMAIN Model} :
    /\ a = Packet(d, s, t, k) /\ d.kind = "drift"
    /\ (s = None) = (t = None)
    /\ s # None => /\ s.kind = "outcomes" /\ s.ledger = d.ledger
                   /\ t.kind = "outcomes" /\ t.ledger = d.ledger
    /\ k # None => k.model = d.ledger.model

MadePlan(a) == \E m \in DOMAIN Model, w \in ReplayWindows : a = Plan(m, w)

MadeExecution(a) ==
  \E q \in published, b \in Bounds : a = Execution(q, b) /\ q.kind = "plan" /\ a \in DOMAIN executed

MadeParity(a) ==
  \E x, l \in published :
    /\ a = Parity(x, l) /\ x.kind = "execution" /\ l.kind = "ledger"
    /\ x \in DOMAIN executed /\ executed[x].duplicates = 0
    /\ Compared(x, l)

Made(a) ==
  \/ MadeLedger(a) \/ MadeOutcomes(a) \/ MadeFeedback(a) \/ MadeEvaluation(a) \/ MadeDrift(a)
  \/ MadePacket(a) \/ MadePlan(a) \/ MadeExecution(a) \/ MadeParity(a)

\* Directories and writers, one for one, and what is in the directories.
DirectoriesInv ==
  /\ published \subseteq claimed
  /\ writing \in [Procs -> (claimed \ published) \cup {None}]
  /\ \A p, q \in Procs : writing[p] = writing[q] => p = q \/ writing[p] = None

ArtifactsInv ==
  /\ DirectoriesInv
  /\ \A a \in claimed : Made(a)
  /\ DOMAIN executed \subseteq claimed

-----------------------------------------------------------------------------
LEMMA MadeKinds ==
  ASSUME NEW a, Made(a)
  PROVE  a.kind \in Kinds /\ a # None
<1>1. a.kind \in Kinds
  <2>1. CASE MadeLedger(a) \/ MadePlan(a)
    BY <2>1 DEF MadeLedger, MadePlan, Ledger, Plan, Kinds
  <2>2. CASE MadeOutcomes(a)
    BY <2>2 DEF MadeOutcomes, Outcomes, Kinds
  <2>3. CASE MadeFeedback(a)
    BY <2>3 DEF MadeFeedback, Feedback, Kinds
  <2>4. CASE MadeEvaluation(a)
    BY <2>4 DEF MadeEvaluation, Evaluation, Kinds
  <2>5. CASE MadeDrift(a)
    BY <2>5 DEF MadeDrift, Drift, Kinds
  <2>6. CASE MadePacket(a)
    BY <2>6 DEF MadePacket, Packet, Kinds
  <2>7. CASE MadeExecution(a)
    BY <2>7 DEF MadeExecution, Execution, Kinds
  <2>8. CASE MadeParity(a)
    BY <2>8 DEF MadeParity, Parity, Kinds
  <2> QED
    BY <2>1, <2>2, <2>3, <2>4, <2>5, <2>6, <2>7, <2>8 DEF Made
<1>2. None.kind \notin Kinds
  BY DEF None, Kinds
<1> QED
  BY <1>1, <1>2

\* The sources of an artifact were published when its directory was made.
LEMMA MadeOfSources ==
  ASSUME NEW a, Made(a)
  PROVE  Sources(a) \subseteq published
<1>1. CASE MadeFeedback(a)
  <2>1. PICK b \in Seq(DOMAIN Batch), n \in DOMAIN Batch :
          a = Feedback(Append(b, n)) /\ (b # <<>> => Feedback(b) \in published)
    BY <1>1 DEF MadeFeedback
  <2>2. a.batches = Append(b, n) /\ Len(a.batches) = Len(b) + 1 /\ a.kind = "feedback"
    BY <2>1 DEF Feedback
  <2>3. Sources(a) = IF Len(a.batches) = 1 THEN {} ELSE {Feedback(Front(a.batches))}
    BY <2>2 DEF Sources
  <2>4. Front(a.batches) = b
    BY <2>2 DEF Front
  <2>5. Len(a.batches) # 1 => b # <<>>
    BY <2>2
  <2> QED
    BY <2>1, <2>3, <2>4, <2>5
<1>2. CASE MadeLedger(a) \/ MadePlan(a)
  BY <1>2 DEF MadeLedger, MadePlan, Ledger, Plan, Sources
<1>3. CASE MadeOutcomes(a)
  BY <1>3 DEF MadeOutcomes, Outcomes, Sources
<1>4. CASE MadeEvaluation(a)
  BY <1>4 DEF MadeEvaluation, Evaluation, Sources
<1>5. CASE MadeDrift(a)
  BY <1>5 DEF MadeDrift, Drift, Sources
<1>6. CASE MadePacket(a)
  BY <1>6 DEF MadePacket, Packet, Sources
<1>7. CASE MadeExecution(a)
  BY <1>7 DEF MadeExecution, Execution, Sources
<1>8. CASE MadeParity(a)
  BY <1>8 DEF MadeParity, Parity, Sources
<1> QED
  BY <1>1, <1>2, <1>3, <1>4, <1>5, <1>6, <1>7, <1>8 DEF Made

\* Artifacts are published and executions fixed, so what was made sure of stays.
Growing ==
  /\ published \subseteq published'
  /\ \A x \in DOMAIN executed : x \in DOMAIN executed' /\ executed'[x] = executed[x]

LEMMA MadeStays ==
  ASSUME Growing, NEW a, Made(a)
  PROVE  Made(a)'
<1>1. CASE MadeLedger(a) \/ MadePlan(a)
  BY <1>1 DEF Made, MadeLedger, MadePlan
<1>2. CASE MadeOutcomes(a)
  BY <1>2 DEF Growing, Made, MadeOutcomes
<1>3. CASE MadeFeedback(a)
  <2>1. MadeFeedback(a)'
    BY <1>3 DEF Growing, MadeFeedback
  <2> QED
    BY <2>1 DEF Made
<1>4. CASE MadeEvaluation(a)
  BY <1>4 DEF Growing, Made, MadeEvaluation
<1>5. CASE MadeDrift(a)
  BY <1>5 DEF Growing, Made, MadeDrift
<1>6. CASE MadePacket(a)
  <2>1. PICK d \in published, s, t \in {None} \cup published, k \in {None} \cup {Dossier(m) : m \in DOMAIN Model} :
          /\ a = Packet(d, s, t, k) /\ d.kind = "drift"
          /\ (s = None) = (t = None)
          /\ s # None => /\ s.kind = "outcomes" /\ s.ledger = d.ledger
                         /\ t.kind = "outcomes" /\ t.ledger = d.ledger
          /\ k # None => k.model = d.ledger.model
    BY <1>6 DEF MadePacket
  <2>2. d \in published' /\ s \in {None} \cup published' /\ t \in {None} \cup published'
    BY DEF Growing
  <2>3. MadePacket(a)'
    BY <2>1, <2>2 DEF MadePacket
  <2> QED
    BY <2>3 DEF Made
<1>7. CASE MadeExecution(a)
  BY <1>7 DEF Growing, Made, MadeExecution
<1>8. CASE MadeParity(a)
  <2>1. PICK x, l \in published :
          /\ a = Parity(x, l) /\ x.kind = "execution" /\ l.kind = "ledger"
          /\ x \in DOMAIN executed /\ executed[x].duplicates = 0
          /\ Compared(x, l)
    BY <1>8 DEF MadeParity
  <2>2. Compared(x, l)'
    BY <2>1 DEF Growing, Compared, Results
  <2>3. MadeParity(a)'
    BY <2>1, <2>2 DEF Growing, MadeParity
  <2> QED
    BY <2>3 DEF Made
<1> QED
  BY <1>1, <1>2, <1>3, <1>4, <1>5, <1>6, <1>7, <1>8 DEF Made

LEMMA ClaimDirectories ==
  ASSUME DirectoriesInv, NEW p \in Procs, NEW a, Claim(p, a)
  PROVE  DirectoriesInv'
<1>1. claimed' = claimed \cup {a} /\ published' = published /\ writing' = [writing EXCEPT ![p] = a] /\ a \notin claimed
  BY DEF Claim
<1>2. \A q \in Procs : writing[q] \in (claimed \ published) \cup {None}
  BY DEF DirectoriesInv
<1>3. \A q \in Procs : writing'[q] = IF q = p THEN a ELSE writing[q]
  BY <1>1 DEF DirectoriesInv
<1>4. published' \subseteq claimed' /\ a \in claimed' \ published'
  BY <1>1 DEF DirectoriesInv
<1>5. writing' \in [Procs -> (claimed' \ published') \cup {None}]
  BY <1>1, <1>2, <1>4 DEF DirectoriesInv
<1>6. ASSUME NEW q \in Procs, NEW r \in Procs, writing'[q] = writing'[r], q # r PROVE writing'[q] = None
  BY <1>1, <1>2, <1>3, <1>6 DEF DirectoriesInv
<1> QED
  BY <1>4, <1>5, <1>6 DEF DirectoriesInv

\* A new directory, with what its command made sure of.
LEMMA ClaimStep ==
  ASSUME ArtifactsInv, NEW p \in Procs, NEW a, Claim(p, a), Growing, DOMAIN executed' \subseteq claimed \cup {a}, Made(a)'
  PROVE  ArtifactsInv'
<1>1. claimed' = claimed \cup {a}
  BY DEF Claim
<1>2. DirectoriesInv'
  BY ClaimDirectories DEF ArtifactsInv
<1>3. \A x \in claimed : Made(x)'
  BY MadeStays DEF ArtifactsInv
<1> QED
  BY <1>1, <1>2, <1>3 DEF ArtifactsInv

LEMMA WriteStep ==
  ASSUME ArtifactsInv, NEW p \in Procs, Write(p), executed' = executed
  PROVE  ArtifactsInv'
<1>1. /\ writing[p] # None /\ claimed' = claimed /\ published' = published \cup {writing[p]}
      /\ writing' = [writing EXCEPT ![p] = None]
  BY DEF Write
<1>2. \A q \in Procs : writing[q] \in (claimed \ published) \cup {None}
  BY DEF ArtifactsInv, DirectoriesInv
<1>3. \A q \in Procs : writing'[q] = IF q = p THEN None ELSE writing[q]
  BY <1>1 DEF ArtifactsInv, DirectoriesInv
<1>4. \A q, r \in Procs : writing[q] = writing[r] => q = r \/ writing[q] = None
  BY DEF ArtifactsInv, DirectoriesInv
<1>5. \A q \in Procs : writing'[q] \in (claimed' \ published') \cup {None}
  BY <1>1, <1>2, <1>3, <1>4
<1>6. writing' \in [Procs -> (claimed' \ published') \cup {None}]
  BY <1>1, <1>5 DEF ArtifactsInv, DirectoriesInv
<1>7. DirectoriesInv'
  BY <1>1, <1>2, <1>3, <1>4, <1>6 DEF ArtifactsInv, DirectoriesInv
<1>8. Growing
  BY <1>1 DEF Growing
<1>9. \A x \in claimed : Made(x)'
  BY <1>8, MadeStays DEF ArtifactsInv
<1> QED
  BY <1>1, <1>7, <1>9 DEF ArtifactsInv

LEMMA StopStep ==
  ASSUME ArtifactsInv, NEW p \in Procs, Stop(p), executed' = executed
  PROVE  ArtifactsInv'
<1>1. claimed' = claimed /\ published' = published /\ writing' = [writing EXCEPT ![p] = None]
  BY DEF Stop
<1>2. \A q \in Procs : writing'[q] = IF q = p THEN None ELSE writing[q]
  BY <1>1 DEF ArtifactsInv, DirectoriesInv
<1>3. writing' \in [Procs -> (claimed' \ published') \cup {None}]
  BY <1>1 DEF ArtifactsInv, DirectoriesInv
<1>4. DirectoriesInv'
  BY <1>1, <1>2, <1>3 DEF ArtifactsInv, DirectoriesInv
<1>5. \A x \in claimed : Made(x)'
  BY <1>1, MadeStays DEF ArtifactsInv, Growing
<1> QED
  BY <1>1, <1>4, <1>5 DEF ArtifactsInv
-----------------------------------------------------------------------------
\* The kind of an artifact tells what was made sure of.
LEMMA MadeByKind ==
  ASSUME NEW a, Made(a)
  PROVE  /\ a.kind = "ledger" => MadeLedger(a)
         /\ a.kind = "outcomes" => MadeOutcomes(a)
         /\ a.kind = "feedback" => MadeFeedback(a)
         /\ a.kind = "evaluation" => MadeEvaluation(a)
         /\ a.kind = "drift" => MadeDrift(a)
         /\ a.kind = "packet" => MadePacket(a)
         /\ a.kind = "execution" => MadeExecution(a)
         /\ a.kind = "parity" => MadeParity(a)
<1>1. CASE MadeLedger(a)
  <2>1. a.kind = "ledger"
    BY <1>1 DEF MadeLedger, Ledger
  <2> QED  BY <1>1, <2>1
<1>2. CASE MadeOutcomes(a)
  <2>1. a.kind = "outcomes"
    BY <1>2 DEF MadeOutcomes, Outcomes
  <2> QED  BY <1>2, <2>1
<1>3. CASE MadeFeedback(a)
  <2>1. a.kind = "feedback"
    BY <1>3 DEF MadeFeedback, Feedback
  <2> QED  BY <1>3, <2>1
<1>4. CASE MadeEvaluation(a)
  <2>1. a.kind = "evaluation"
    BY <1>4 DEF MadeEvaluation, Evaluation
  <2> QED  BY <1>4, <2>1
<1>5. CASE MadeDrift(a)
  <2>1. a.kind = "drift"
    BY <1>5 DEF MadeDrift, Drift
  <2> QED  BY <1>5, <2>1
<1>6. CASE MadePacket(a)
  <2>1. a.kind = "packet"
    BY <1>6 DEF MadePacket, Packet
  <2> QED  BY <1>6, <2>1
<1>7. CASE MadePlan(a)
  <2>1. a.kind = "plan"
    BY <1>7 DEF MadePlan, Plan
  <2> QED  BY <2>1
<1>8. CASE MadeExecution(a)
  <2>1. a.kind = "execution"
    BY <1>8 DEF MadeExecution, Execution
  <2> QED  BY <1>8, <2>1
<1>9. CASE MadeParity(a)
  <2>1. a.kind = "parity"
    BY <1>9 DEF MadeParity, Parity
  <2> QED  BY <1>9, <2>1
<1> QED
  BY <1>1, <1>2, <1>3, <1>4, <1>5, <1>6, <1>7, <1>8, <1>9 DEF Made

\* The commands of OfflineMonitoring: what each claims is Made.
LEMMA MonitoringStep ==
  ASSUME ArtifactsInv, Next, executed' = executed
  PROVE  ArtifactsInv'
<1> SUFFICES ASSUME NEW p \in Procs,
      \/ \E m \in DOMAIN Model, w \in Intervals : BuildLedger(p, m, w)
      \/ \E l \in Of("ledger"), f \in DOMAIN LabelFile, t \in Cutoffs : EvaluateOutcomes(p, l, f, t)
      \/ \E b \in {<<>>} \cup {f.batches : f \in Of("feedback")}, n \in DOMAIN Batch : BuildFeedback(p, b, n)
      \/ \E l \in Of("ledger"), f \in Of("feedback"), t \in Cutoffs : EvaluateFeedback(p, l, f, t)
      \/ \E l \in Of("ledger"), r, c \in Intervals : BuildDrift(p, l, r, c)
      \/ \E d \in Of("drift"), s, t \in {None} \cup Of("outcomes"), k \in {None} \cup {Dossier(m) : m \in DOMAIN Model} :
           BuildPacket(p, d, s, t, k)
      \/ Write(p)
      \/ Stop(p)
    PROVE ArtifactsInv'
  BY DEF Next
<1>1. ASSUME NEW a, Claim(p, a), Made(a)' PROVE ArtifactsInv'
  <2>1. Growing /\ DOMAIN executed' \subseteq claimed \cup {a}
    BY <1>1 DEF Claim, Growing, ArtifactsInv
  <2> QED
    BY <1>1, <2>1, ClaimStep
<1>2. ASSUME NEW a, Claim(p, a) PROVE published' = published
  BY <1>2 DEF Claim
<1>3. ASSUME NEW m \in DOMAIN Model, NEW w \in Intervals, BuildLedger(p, m, w) PROVE ArtifactsInv'
  BY <1>1, <1>3 DEF BuildLedger, Made, MadeLedger
<1>4. ASSUME NEW l \in Of("ledger"), NEW f \in DOMAIN LabelFile, NEW t \in Cutoffs, EvaluateOutcomes(p, l, f, t)
      PROVE ArtifactsInv'
  <2>1. Claim(p, Outcomes(l, f, t)) /\ l \in published' /\ l.kind = "ledger" /\ ValidRevisions(LabelFile[f])
    BY <1>2, <1>4 DEF EvaluateOutcomes, Inspected, Of
  <2>2. MadeOutcomes(Outcomes(l, f, t))'
    BY <2>1 DEF MadeOutcomes
  <2> QED
    BY <1>1, <2>1, <2>2 DEF Made
<1>5. ASSUME NEW b \in {<<>>} \cup {f.batches : f \in Of("feedback")}, NEW n \in DOMAIN Batch, BuildFeedback(p, b, n)
      PROVE ArtifactsInv'
  <2>1. /\ Claim(p, Feedback(Append(b, n))) /\ (b # <<>> => Feedback(b) \in published')
        /\ Validated(RecordsIn(Feedback(Append(b, n))))
    BY <1>2, <1>5 DEF BuildFeedback, Inspected
  <2>2. b \in Seq(DOMAIN Batch)
    <3>1. ASSUME NEW f \in Of("feedback") PROVE f.batches \in Seq(DOMAIN Batch)
      <4>1. MadeFeedback(f)
        BY <3>1, MadeByKind DEF Of, ArtifactsInv
      <4> QED
        BY <4>1 DEF MadeFeedback, Feedback
    <3>2. <<>> \in Seq(DOMAIN Batch)
      OBVIOUS
    <3> QED
      BY <3>1, <3>2
  <2>3. MadeFeedback(Feedback(Append(b, n)))'
    BY <2>1, <2>2 DEF MadeFeedback
  <2> QED
    BY <1>1, <2>1, <2>3 DEF Made
<1>6. ASSUME NEW l \in Of("ledger"), NEW f \in Of("feedback"), NEW t \in Cutoffs, EvaluateFeedback(p, l, f, t)
      PROVE ArtifactsInv'
  <2>1. Claim(p, Evaluation(l, f, t)) /\ l \in published' /\ f \in published' /\ l.kind = "ledger" /\ f.kind = "feedback"
    BY <1>2, <1>6 DEF EvaluateFeedback, Inspected, Of
  <2>2. MadeEvaluation(Evaluation(l, f, t))'
    BY <2>1 DEF MadeEvaluation
  <2> QED
    BY <1>1, <2>1, <2>2 DEF Made
<1>7. ASSUME NEW l \in Of("ledger"), NEW r \in Intervals, NEW c \in Intervals, BuildDrift(p, l, r, c) PROVE ArtifactsInv'
  <2>1. Claim(p, Drift(l, r, c)) /\ l \in published' /\ l.kind = "ledger" /\ Windows(l, r, c)
    BY <1>2, <1>7 DEF BuildDrift, Inspected, Of
  <2>2. MadeDrift(Drift(l, r, c))'
    BY <2>1 DEF MadeDrift
  <2> QED
    BY <1>1, <2>1, <2>2 DEF Made
<1>8. ASSUME NEW d \in Of("drift"), NEW s \in {None} \cup Of("outcomes"), NEW t \in {None} \cup Of("outcomes"),
             NEW k \in {None} \cup {Dossier(m) : m \in DOMAIN Model}, BuildPacket(p, d, s, t, k)
      PROVE ArtifactsInv'
  <2>1. Claim(p, Packet(d, s, t, k)) /\ LoadEvidence(d, s, t, k)
    BY <1>8 DEF BuildPacket
  <2>2. d \in published' /\ d.kind = "drift" /\ (s = None) = (t = None) /\ (k # None => k.model = d.ledger.model)
    BY <1>2, <2>1 DEF LoadEvidence, Inspected, Of
  <2>3. s \in {None} \cup published' /\ t \in {None} \cup published'
    BY <1>2, <2>1 DEF LoadEvidence, Inspected
  <2>4. s # None => /\ s.kind = "outcomes" /\ s.ledger = d.ledger
                    /\ t.kind = "outcomes" /\ t.ledger = d.ledger
    BY <2>1 DEF LoadEvidence, Of
  <2>5. MadePacket(Packet(d, s, t, k))'
    BY <2>2, <2>3, <2>4 DEF MadePacket
  <2> QED
    BY <1>1, <2>1, <2>5 DEF Made
<1> QED
  BY <1>3, <1>4, <1>5, <1>6, <1>7, <1>8, WriteStep, StopStep

\* The commands of ShadowReplay.
LEMMA ReplayStep ==
  ASSUME ArtifactsInv, ReplayNext
  PROVE  ArtifactsInv'
<1> SUFFICES ASSUME NEW p \in Procs,
      \/ \E m \in DOMAIN Model, w \in ReplayWindows, b \in Bounds : BuildPlan(p, m, w, b)
      \/ \E q \in Of("plan"), b \in Bounds, failing \in {{}} \cup {{e} : e \in Events} :
            failing \subseteq Planned(q) /\ ExecutePlan(p, q, b, failing)
      \/ \E x \in Of("execution"), l \in Of("ledger") : VerifyParity(p, x, l)
      \/ \E m \in DOMAIN Model, w \in Intervals : ReferenceLedger(p, m, w)
      \/ (Write(p) \/ Stop(p)) /\ UNCHANGED <<executed, deliveries>>
    PROVE ArtifactsInv'
  BY DEF ReplayNext
<1>1. ASSUME NEW a, Claim(p, a), executed' = executed, Made(a)' PROVE ArtifactsInv'
  <2>1. Growing /\ DOMAIN executed' \subseteq claimed \cup {a}
    BY <1>1 DEF Claim, Growing, ArtifactsInv
  <2> QED
    BY <1>1, <2>1, ClaimStep
<1>2. ASSUME NEW m \in DOMAIN Model, NEW w \in ReplayWindows, NEW b \in Bounds, BuildPlan(p, m, w, b) PROVE ArtifactsInv'
  BY <1>1, <1>2 DEF BuildPlan, Made, MadePlan
<1>3. ASSUME NEW q \in Of("plan"), NEW b \in Bounds, NEW failing, ExecutePlan(p, q, b, failing) PROVE ArtifactsInv'
  <2> DEFINE x == Execution(q, b)
             run == RunDeliveries(Requests(q), failing)
  <2>1. /\ Claim(p, x) /\ q \in published'
        /\ executed' = [a \in DOMAIN executed \cup {x} |-> IF a = x THEN run ELSE executed[a]]
    BY <1>3 DEF ExecutePlan, Inspected, Claim
  <2>2. x \notin DOMAIN executed
    BY <2>1 DEF Claim, ArtifactsInv
  <2> HIDE DEF x, run
  <2>3. Growing /\ DOMAIN executed' \subseteq claimed \cup {x} /\ x \in DOMAIN executed'
    BY <2>1, <2>2 DEF Claim, Growing, ArtifactsInv
  <2>4. MadeExecution(x)'
    BY <2>1, <2>3 DEF MadeExecution, x, Of
  <2> QED
    BY <2>1, <2>3, <2>4, ClaimStep DEF Made
<1>4. ASSUME NEW x \in Of("execution"), NEW l \in Of("ledger"), VerifyParity(p, x, l) PROVE ArtifactsInv'
  <2>1. /\ Claim(p, Parity(x, l)) /\ executed' = executed /\ Compared(x, l) /\ executed[x].duplicates = 0
        /\ x \in published' /\ l \in published' /\ x.kind = "execution" /\ l.kind = "ledger"
    BY <1>4 DEF VerifyParity, InspectExecution, Inspected, Claim, Of
  <2>2. x \in DOMAIN executed
    <3>1. Made(x) /\ x.kind = "execution"
      BY <1>4 DEF Of, ArtifactsInv
    <3> QED
      BY <3>1, MadeByKind DEF MadeExecution
  <2>3. Compared(x, l)'
    BY <2>1 DEF Compared, Results
  <2>4. MadeParity(Parity(x, l))'
    BY <2>1, <2>2, <2>3 DEF MadeParity
  <2> QED
    BY <1>1, <2>1, <2>4 DEF Made
<1>5. ASSUME NEW m \in DOMAIN Model, NEW w \in Intervals, ReferenceLedger(p, m, w) PROVE ArtifactsInv'
  BY <1>1, <1>5 DEF ReferenceLedger, BuildLedger, Made, MadeLedger
<1> QED
  BY <1>2, <1>3, <1>4, <1>5, WriteStep, StopStep

\* The inductive invariant: directories, and what was made sure of each.
THEOREM ArtifactsInvariant == OfflineSpec => []ArtifactsInv
<1>1. ReplayInit => ArtifactsInv
  BY DEF ReplayInit, Init, ArtifactsInv, DirectoriesInv
<1>2. ArtifactsInv /\ [OfflineNext]_replayVars => ArtifactsInv'
  <2> SUFFICES ASSUME ArtifactsInv, [OfflineNext]_replayVars PROVE ArtifactsInv'
    OBVIOUS
  <2>1. ASSUME claimed' = claimed, published' = published, writing' = writing, executed' = executed PROVE ArtifactsInv'
    <3>1. \A x \in claimed : Made(x)'
      BY <2>1, MadeStays DEF ArtifactsInv, Growing
    <3> QED
      BY <2>1, <3>1 DEF ArtifactsInv, DirectoriesInv
  <2>2. CASE UNCHANGED replayVars
    BY <2>1, <2>2 DEF replayVars, vars
  <2>3. ASSUME NEW d \in Deliverable, AddDelivery(d) PROVE ArtifactsInv'
    BY <2>1, <2>3 DEF AddDelivery, vars
  <2> QED
    BY <2>2, <2>3, MonitoringStep, ReplayStep DEF OfflineNext
<1> QED
  BY <1>1, <1>2, PTL DEF OfflineSpec

\* Every directory has one writer, and nothing is built on one that was left
\* incomplete (inspect_*).
THEOREM SourcesCompleteHolds == OfflineSpec => []SourcesComplete
<1>1. ArtifactsInv => SourcesComplete
  BY MadeKinds, MadeOfSources DEF ArtifactsInv, DirectoriesInv, SourcesComplete, TypeOK
<1> QED
  BY <1>1, ArtifactsInvariant, PTL

\* A command adds a directory, or completes or abandons its own.
LEMMA StepsGrow ==
  ASSUME ArtifactsInv, OfflineNext
  PROVE  /\ published \subseteq published'
         /\ Abandoned \subseteq Abandoned'
<1>1. ASSUME NEW p \in Procs, NEW a, Claim(p, a) PROVE published \subseteq published' /\ Abandoned \subseteq Abandoned'
  <2>1. /\ claimed' = claimed \cup {a} /\ published' = published /\ a \notin claimed
        /\ \A q \in Procs : writing'[q] = IF q = p THEN a ELSE writing[q]
    BY <1>1 DEF Claim, ArtifactsInv, DirectoriesInv
  <2> QED
    BY <2>1 DEF Abandoned
<1>2. None \notin claimed
  BY MadeKinds DEF ArtifactsInv
<1>3. ASSUME NEW p \in Procs, Write(p) PROVE published \subseteq published' /\ Abandoned \subseteq Abandoned'
  <2>1. /\ claimed' = claimed /\ published' = published \cup {writing[p]}
        /\ \A q \in Procs : writing'[q] = IF q = p THEN None ELSE writing[q]
    BY <1>3 DEF Write, ArtifactsInv, DirectoriesInv
  <2> QED
    BY <1>2, <2>1 DEF Abandoned
<1>4. ASSUME NEW p \in Procs, Stop(p) PROVE published \subseteq published' /\ Abandoned \subseteq Abandoned'
  <2>1. /\ claimed' = claimed /\ published' = published
        /\ \A q \in Procs : writing'[q] = IF q = p THEN None ELSE writing[q]
    BY <1>4 DEF Stop, ArtifactsInv, DirectoriesInv
  <2> QED
    BY <1>2, <2>1 DEF Abandoned
<1>5. CASE Next
  BY <1>1, <1>3, <1>4, <1>5 DEF Next, BuildLedger, EvaluateOutcomes, BuildFeedback, EvaluateFeedback, BuildDrift, BuildPacket
<1>6. CASE ReplayNext
  BY <1>1, <1>3, <1>4, <1>6 DEF ReplayNext, BuildPlan, ExecutePlan, VerifyParity, ReferenceLedger, BuildLedger
<1>7. ASSUME NEW d \in Deliverable, AddDelivery(d) PROVE published \subseteq published' /\ Abandoned \subseteq Abandoned'
  BY <1>7 DEF AddDelivery, vars, Abandoned
<1> QED
  BY <1>5, <1>6, <1>7 DEF OfflineNext

LEMMA ExecutionsStay ==
  ASSUME ArtifactsInv, OfflineNext
  PROVE  \A x \in DOMAIN executed : x \in DOMAIN executed' /\ executed'[x] = executed[x]
<1>1. ASSUME NEW p \in Procs, NEW q, NEW b, NEW failing, ExecutePlan(p, q, b, failing)
      PROVE \A x \in DOMAIN executed : x \in DOMAIN executed' /\ executed'[x] = executed[x]
  <2> DEFINE x == Execution(q, b)
             run == RunDeliveries(Requests(q), failing)
  <2>1. /\ executed' = [a \in DOMAIN executed \cup {x} |-> IF a = x THEN run ELSE executed[a]]
        /\ x \notin claimed
    BY <1>1 DEF ExecutePlan, Claim
  <2>2. x \notin DOMAIN executed
    BY <2>1 DEF ArtifactsInv
  <2> HIDE DEF x, run
  <2> QED
    BY <2>1, <2>2
<1>2. CASE executed' = executed
  BY <1>2
<1> QED
  BY <1>1, <1>2 DEF OfflineNext, ReplayNext, BuildPlan, VerifyParity, ReferenceLedger, AddDelivery

\* What a command left under a name stays as it is, whoever comes later: it is
\* not withdrawn, not completed and not executed again.
THEOREM ArtifactsStayHolds == OfflineSpec => ArtifactsStay
<1>1. ArtifactsInv /\ [OfflineNext]_replayVars => [published \subseteq published' /\ Abandoned \subseteq Abandoned']_vars
  BY StepsGrow DEF replayVars
<1>2. ArtifactsInv /\ [OfflineNext]_replayVars =>
        [\A x \in DOMAIN executed : x \in DOMAIN executed' /\ executed'[x] = executed[x]]_executed
  BY ExecutionsStay DEF replayVars
<1> QED
  BY <1>1, <1>2, ArtifactsInvariant, PTL DEF OfflineSpec, ArtifactsStay, NothingCompletedLater, ExecutionFixed

\* Parity is certified only of an execution that scored every event of the
\* ledger and no other, whatever other executions did (verify_parity).
THEOREM ParitySoundHolds == OfflineSpec => []ParitySound
<1>1. ArtifactsInv => ParitySound
  <2> SUFFICES ASSUME ArtifactsInv, NEW c \in Of("parity")
      PROVE /\ executed[c.execution].duplicates = 0
            /\ {<<r.event, r.status>> : r \in Results(c.execution)} = Scored(c.ledger) \X {"SCORED"}
    BY DEF ParitySound
  <2>1. MadeParity(c)
    BY MadeByKind DEF ArtifactsInv, Of
  <2>2. executed[c.execution].duplicates = 0 /\ Compared(c.execution, c.ledger)
    BY <2>1 DEF MadeParity, Parity
  <2> DEFINE R == Results(c.execution)
  <2>3. {r.event : r \in R} = Scored(c.ledger) /\ \A r \in R : r.status = "SCORED"
    BY <2>2 DEF Compared
  <2> HIDE DEF R
  <2>4. {<<r.event, r.status>> : r \in R} = Scored(c.ledger) \X {"SCORED"}
    BY <2>3
  <2> QED
    BY <2>2, <2>4 DEF R
<1> QED
  BY <1>1, ArtifactsInvariant, PTL
-----------------------------------------------------------------------------
(* Sets of numbers and of records.                                         *)

\* Otherwise there would be a least set without a maximum.
LEMMA MaximumExists ==
  ASSUME NEW S, S \subseteq Nat, IsFiniteSet(S), S # {}
  PROVE  \E m \in S : \A y \in S : m >= y
<1> DEFINE HasMax(T) == \E m \in T : \A y \in T : m >= y
           B == {T \in SUBSET S : T # {} /\ ~HasMax(T)}
<1>1. B = {}
  <2> SUFFICES ASSUME B # {} PROVE FALSE
    OBVIOUS
  <2>1. B \subseteq FiniteSubsetsOf(S)
    BY FS_FiniteSubsetsOfFinite
  <2>2. PICK T \in B : \A U \in B : <<U, T>> \notin StrictSubsetOrdering(S)
    <3> HIDE DEF B
    <3> QED
      BY <2>1, FS_StrictSubsetOrderingWellFounded, WFMin
  <2>3. PICK x \in T : TRUE
    BY <2>2
  <2> DEFINE U == T \ {x}
  <2>4. U \subseteq S /\ T \subseteq S /\ U # T
    BY <2>2, <2>3
  <2>5. <<U, T>> \in StrictSubsetOrdering(S)
    BY <2>4 DEF StrictSubsetOrdering
  <2>6. U = {} \/ HasMax(U)
    BY <2>2, <2>4, <2>5
  <2>7. HasMax(T)
    <3>1. CASE U = {}
      <4>1. T = {x} /\ x \in Nat
        BY <2>3, <2>4, <3>1
      <4> QED
        BY <4>1
    <3>2. CASE HasMax(U)
      <4>1. PICK m \in U : \A y \in U : m >= y
        BY <3>2
      <4>2. x \in Nat /\ m \in Nat /\ T \subseteq Nat /\ T = U \cup {x}
        BY <2>3, <2>4
      <4>3. CASE m >= x
        BY <4>1, <4>2, <4>3
      <4>4. CASE x >= m
        <5>1. \A y \in T : x >= y
          BY <4>1, <4>2, <4>4
        <5> QED
          BY <2>3, <5>1
      <4> QED
        BY <4>2, <4>3, <4>4
    <3> QED
      BY <2>6, <3>1, <3>2
  <2> QED
    BY <2>2, <2>7
<1> QED
  BY <1>1

LEMMA MaxIsBound ==
  ASSUME NEW S, S \subseteq Nat, IsFiniteSet(S), S # {}
  PROVE  Max(S) \in S /\ \A y \in S : Max(S) >= y
BY MaximumExists DEF Max

LEMMA RecordsFinite ==
  ASSUME NEW b \in Seq(DOMAIN Batch)
  PROVE  IsFiniteSet(RecordsIn(Feedback(b))) /\ \A r \in RecordsIn(Feedback(b)) : r.received \in Nat
<1> DEFINE f == [i \in DOMAIN b |-> Batch[b[i]]]
           F == {f[i] : i \in DOMAIN b}
<1>1. IsFiniteSet(DOMAIN b)
  <2>1. DOMAIN b = 1 .. Len(b) /\ Len(b) \in Nat
    OBVIOUS
  <2> QED
    BY <2>1, FS_Interval
<1>2. IsFiniteSet(F)
  BY <1>1, ImageFinite
<1>3. \A i \in DOMAIN b : b[i] \in DOMAIN Batch
  OBVIOUS
<1>4. \A T \in F : IsFiniteSet(T) /\ \A r \in T : r.received \in Nat
  BY <1>3, FilesFinite
<1>5. IsFiniteSet(UNION F)
  BY <1>2, <1>4, FS_UNION
<1>6. RecordsIn(Feedback(b)) = UNION F
  BY DEF RecordsIn, Feedback
<1> QED
  BY <1>4, <1>5, <1>6

\* The history of a case in a valid ledger: revisions 1 .. n, of one event.
LEMMA CaseHistories ==
  ASSUME NEW R, IsFiniteSet(R), Validated(R), NEW r \in R
  PROVE  LET H == CaseHistory(R, Case(r)) IN
         /\ r \in H /\ Cardinality(H) \in Nat /\ {x.revision : x \in H} = 1 .. Cardinality(H)
         /\ \A x \in H : x.event = r.event
         /\ \A x, y \in H : x.revision = y.revision => x = y
<1> DEFINE H == CaseHistory(R, Case(r))
<1>1. H \subseteq R /\ r \in H /\ \A x \in H : Case(x) = Case(r)
  BY DEF CaseHistory
<1>2. IsFiniteSet(H) /\ Cardinality(H) \in Nat
  BY <1>1, FS_Subset, FS_CardinalityType
<1>3. Case(r) \in CasesOf(R)
  BY DEF CasesOf
<1>4. {x.revision : x \in H} = 1 .. Cardinality(H) /\ Cardinality({x.event : x \in H}) = 1
  BY <1>3 DEF Validated
<1> DEFINE ev == [x \in H |-> x.event]
           E == {ev[x] : x \in H}
<1>5. IsFiniteSet(E) /\ E = {x.event : x \in H}
  BY <1>2, ImageFinite
<1> HIDE DEF E
<1>6. PICK e : E = {e}
  BY <1>4, <1>5, FS_Singleton
<1>7. \A x \in H : x.event = r.event
  BY <1>1, <1>5, <1>6
<1>8. \A x, y \in H : x.revision = y.revision => x = y
  BY <1>1 DEF Validated
<1> QED
  BY <1>1, <1>2, <1>4, <1>7, <1>8
-----------------------------------------------------------------------------
(* Evidence that is put together belongs together.                         *)

\* A feedback ledger in the state holds valid records, finitely many.
LEMMA LedgerRecords ==
  ASSUME NEW f, MadeFeedback(f)
  PROVE  /\ IsFiniteSet(RecordsIn(f)) /\ Validated(RecordsIn(f))
         /\ \A r \in RecordsIn(f) : r.received \in Nat
<1>1. PICK b \in Seq(DOMAIN Batch), n \in DOMAIN Batch : f = Feedback(Append(b, n)) /\ Validated(RecordsIn(f))
  BY DEF MadeFeedback
<1>2. Append(b, n) \in Seq(DOMAIN Batch)
  OBVIOUS
<1> QED
  BY <1>1, <1>2, RecordsFinite

LEMMA HistoriesHold == ArtifactsInv => FeedbackHistories
<1> SUFFICES ASSUME ArtifactsInv, NEW f \in Of("feedback")
    PROVE  LET R == RecordsIn(f) IN
      /\ \A r \in R : \A n \in 1 .. r.revision :
           Cardinality({s \in R : Case(s) = Case(r) /\ s.revision = n /\ s.event = r.event}) = 1
      /\ \A r, s \in R : r.provider = s.provider /\ r.id = s.id => r = s
  BY DEF FeedbackHistories
<1> DEFINE R == RecordsIn(f)
<1>1. IsFiniteSet(R) /\ Validated(R)
  BY MadeByKind, LedgerRecords DEF ArtifactsInv, Of
<1> HIDE DEF R
<1>2. ASSUME NEW r \in R, NEW n \in 1 .. r.revision
      PROVE Cardinality({s \in R : Case(s) = Case(r) /\ s.revision = n /\ s.event = r.event}) = 1
  <2> DEFINE H == CaseHistory(R, Case(r))
             T == {s \in R : Case(s) = Case(r) /\ s.revision = n /\ s.event = r.event}
  <2>1. /\ r \in H /\ Cardinality(H) \in Nat /\ {x.revision : x \in H} = 1 .. Cardinality(H)
        /\ \A x \in H : x.event = r.event
        /\ \A x, y \in H : x.revision = y.revision => x = y
    BY <1>1, CaseHistories
  <2>2. r.revision \in 1 .. Cardinality(H)
    BY <2>1
  <2>3. n \in 1 .. Cardinality(H)
    BY <2>1, <2>2
  <2>4. PICK s \in H : s.revision = n
    BY <2>1, <2>3
  <2>5. s \in T
    BY <2>1, <2>4 DEF CaseHistory
  <2>6. \A t \in T : t \in H /\ t.revision = s.revision
    BY <2>4 DEF CaseHistory
  <2>7. T = {s}
    BY <2>1, <2>5, <2>6
  <2> QED
    BY <2>7, FS_Singleton
<1>3. \A r, s \in R : r.provider = s.provider /\ r.id = s.id => r = s
  BY <1>1 DEF Validated
<1> QED
  BY <1>2, <1>3 DEF R

LEMMA PacketsHold == ArtifactsInv => PacketCoherent
<1> SUFFICES ASSUME ArtifactsInv, NEW k \in Of("packet")
    PROVE  LET l == k.drift.ledger IN
      /\ \A d \in Cohort(l, k.drift.reference), e \in Cohort(l, k.drift.comparison) : Ingested[d] < Ingested[e]
      /\ \A f \in Findings(k) : f[2] = k.drift \/ f[2] = Dossier(l.model) \/ (f[2].kind = "outcomes" /\ f[2].ledger = l)
  BY DEF PacketCoherent
<1>1. MadePacket(k)
  BY MadeByKind DEF ArtifactsInv, Of
<1>2. PICK d \in published, s, t \in {None} \cup published, dossier \in {None} \cup {Dossier(m) : m \in DOMAIN Model} :
        /\ k = Packet(d, s, t, dossier) /\ d.kind = "drift"
        /\ (s = None) = (t = None)
        /\ s # None => /\ s.kind = "outcomes" /\ s.ledger = d.ledger
                       /\ t.kind = "outcomes" /\ t.ledger = d.ledger
        /\ dossier # None => dossier.model = d.ledger.model
  BY <1>1 DEF MadePacket
<1>3. k.drift = d /\ k.earlier = s /\ k.later = t /\ k.dossier = dossier
  BY <1>2 DEF Packet
<1>4. MadeDrift(d)
  BY <1>2, MadeByKind DEF ArtifactsInv, DirectoriesInv
<1>5. PICK l \in published, r, c \in Intervals : d = Drift(l, r, c) /\ Windows(l, r, c)
  BY <1>4 DEF MadeDrift
<1>6. d.ledger = l /\ d.reference = r /\ d.comparison = c
  BY <1>5 DEF Drift
<1>7. ASSUME NEW x \in Cohort(l, r), NEW y \in Cohort(l, c) PROVE Ingested[x] < Ingested[y]
  <2>1. x \in Events /\ Ingested[x] < r.to /\ y \in Events /\ c.from <= Ingested[y]
    BY DEF Cohort, In, Scored
  <2>2. Ingested[x] \in Nat /\ Ingested[y] \in Nat
    BY <2>1, IngestedTimes DEF Events
  <2>3. r.to \in Nat /\ c.from \in Nat /\ r.to <= c.from
    BY <1>5, TimesNat DEF Windows
  <2> QED
    BY <2>1, <2>2, <2>3
<1>8. ASSUME NEW f \in Findings(k)
      PROVE f[2] = d \/ f[2] = Dossier(l.model) \/ (f[2].kind = "outcomes" /\ f[2].ledger = l)
  <2>1. \/ f[2] = d
        \/ s # None /\ (f[2] = s \/ f[2] = t)
        \/ dossier # None /\ f[2] = dossier
    <3> DEFINE A == {<<name, d>> : name \in {"missingness", "numeric", "categorical", "score", "currency"}}
               B == IF s = None THEN {<<"label evidence absent", d>>}
                    ELSE {<<"label coverage", s>>, <<"label coverage", t>>, <<"label revisions", s>>, <<"label revisions", t>>}
               C == IF dossier = None THEN {<<"dossier absent", d>>} ELSE {<<"research only", dossier>>}
    <3>1. Findings(k) = A \cup B \cup C
      BY <1>3 DEF Findings
    <3>2. CASE f \in A
      BY <3>2
    <3>3. ASSUME f \in B PROVE f[2] = d \/ (s # None /\ (f[2] = s \/ f[2] = t))
      <4>1. CASE s = None
        <5>1. B = {<<"label evidence absent", d>>}
          BY <4>1
        <5>2. f = <<"label evidence absent", d>>
          BY <3>3, <5>1, Zenon
        <5> QED
          BY <5>2
      <4>2. CASE s # None
        <5>1. B = {<<"label coverage", s>>, <<"label coverage", t>>, <<"label revisions", s>>, <<"label revisions", t>>}
          BY <4>2
        <5>2. f = <<"label coverage", s>> \/ f = <<"label coverage", t>> \/ f = <<"label revisions", s>> \/ f = <<"label revisions", t>>
          BY <3>3, <5>1, Zenon
        <5>3. \E name, x : f = <<name, x>> /\ (x = s \/ x = t)
          BY <5>2, Zenon
        <5>4. f[2] = s \/ f[2] = t
          BY <5>3
        <5> QED
          BY <4>2, <5>4
      <4> QED
        BY <4>1, <4>2
    <3>4. ASSUME f \in C PROVE f[2] = d \/ (dossier # None /\ f[2] = dossier)
      <4>1. CASE dossier = None
        <5>1. C = {<<"dossier absent", d>>}
          BY <4>1
        <5>2. f = <<"dossier absent", d>>
          BY <3>4, <5>1, Zenon
        <5> QED
          BY <5>2
      <4>2. CASE dossier # None
        <5>1. C = {<<"research only", dossier>>}
          BY <4>2
        <5>2. f = <<"research only", dossier>>
          BY <3>4, <5>1, Zenon
        <5> QED
          BY <4>2, <5>2
      <4> QED
        BY <4>1, <4>2
    <3> QED
      BY <1>8, <3>1, <3>2, <3>3, <3>4
  <2>2. dossier # None => dossier = Dossier(l.model)
    <3> SUFFICES ASSUME dossier # None PROVE dossier = Dossier(l.model)
      OBVIOUS
    <3>1. PICK m \in DOMAIN Model : dossier = Dossier(m)
      BY <1>2
    <3>2. m = l.model
      BY <1>2, <1>6, <3>1 DEF Dossier
    <3> QED
      BY <3>1, <3>2
  <2> QED
    BY <1>2, <1>6, <2>1, <2>2
<1> QED
  BY <1>3, <1>6, <1>7, <1>8

\* Revisions of a case stay contiguous, of one event and each of one identity
\* over any chain of batches; a packet compares earlier populations of a ledger
\* with later ones and cites what belongs to that ledger only.
THEOREM EvidenceCoherentHolds == OfflineSpec => []EvidenceCoherent
<1>1. ArtifactsInv => EvidenceCoherent
  BY HistoriesHold, PacketsHold DEF EvidenceCoherent
<1> QED
  BY <1>1, ArtifactsInvariant, PTL

-----------------------------------------------------------------------------
(* What is evaluated as of a time is what was known then.                  *)

LEMMA TrainedBefore == ArtifactsInv => TrainedOnThePast
<1> SUFFICES ASSUME ArtifactsInv, NEW l \in Of("ledger"), NEW r \in CohortsOf[l.model].train
    PROVE  r.event \notin Scored(l) /\ \A e \in Scored(l) : r.observed <= Ingested[e]
  BY DEF TrainedOnThePast
<1>1. MadeLedger(l)
  BY MadeByKind DEF ArtifactsInv, Of
<1>2. PICK m \in DOMAIN Model, w \in Intervals : l = Ledger(m, w) /\ TrainEnd(m) <= w.from
  BY <1>1 DEF MadeLedger
<1>3. l.model = m /\ l.window = w
  BY <1>2 DEF Ledger
<1> DEFINE end == Model[m].split.trainEnd
<1>4. r \in Cohorts(Model[m]).train
  BY <1>3 DEF CohortsOf
<1>5. /\ r \in Model[m].labels /\ r.observed <= end /\ Ingested[r.event] < end
  BY <1>4 DEF Cohorts, Partition, Between, ResolveLabels
<1>6. end \in Nat /\ r.observed \in Nat /\ w.from \in Nat /\ end <= w.from
  BY <1>2, <1>5, TimesNat DEF TrainEnd
<1>7. \A e \in Scored(l) : e \in Events /\ w.from <= Ingested[e] /\ Ingested[e] \in Nat
  BY <1>3, IngestedTimes DEF Scored, In, Events
<1>8. ASSUME NEW e \in Scored(l) PROVE r.observed <= Ingested[e]
  BY <1>5, <1>6, <1>7
<1>9. r.event \notin Scored(l)
  BY <1>5, <1>6, <1>7
<1> QED
  BY <1>8, <1>9

\* A label history in a valid file: revisions 1 .. n, each once.
LEMMA LabelHistories ==
  ASSUME NEW labels, IsFiniteSet(labels), ValidRevisions(labels), NEW l \in labels
  PROVE  LET H == History(labels, l.event) IN
         /\ IsFiniteSet(H) /\ \A x \in H : x.revision \in Nat
         /\ \A x, y \in H : x.revision = y.revision => x = y
<1> DEFINE H == History(labels, l.event)
           n == Cardinality(H)
           f == [x \in H |-> x.revision]
<1>1. IsFiniteSet(H) /\ n \in Nat
  BY FS_Subset, FS_CardinalityType DEF History
<1>2. {x.revision : x \in H} = 1 .. n
  BY DEF ValidRevisions
<1> HIDE DEF n
<1>3. f \in Surjection(H, 1 .. n)
  BY <1>2 DEF Surjection
<1>4. Cardinality(1 .. n) = n
  BY <1>1, FS_Interval
<1>5. f \in Injection(H, 1 .. n)
  BY <1>1, <1>3, <1>4, FS_Surjection DEF n
<1>6. \A x, y \in H : x.revision = y.revision => x = y
  BY <1>5 DEF Injection, IsInjective
<1>7. \A x \in H : x.revision \in 1 .. n
  BY <1>2
<1> QED
  BY <1>1, <1>6, <1>7

\* A label that is known has a last known revision.
LEMMA LastRevision ==
  ASSUME NEW labels, IsFiniteSet(labels), ValidRevisions(labels), NEW asOf, NEW k \in labels, k.observed <= asOf
  PROVE  \E x \in ResolveLabels(labels, asOf) : x.event = k.event
<1> DEFINE H == History(labels, k.event)
           A == {x \in H : x.observed <= asOf}
           f == [x \in A |-> x.revision]
           V == {f[x] : x \in A}
<1>1. IsFiniteSet(H) /\ \A x \in H : x.revision \in Nat
  BY LabelHistories
<1>2. A \subseteq H /\ k \in A
  BY DEF History
<1>3. IsFiniteSet(A)
  BY <1>1, <1>2, FS_Subset
<1>4. IsFiniteSet(V)
  BY <1>3, ImageFinite
<1>5. V \subseteq Nat /\ V # {}
  BY <1>1, <1>2
<1>6. PICK m \in V : \A v \in V : m >= v
  <2> HIDE DEF V
  <2> QED
    BY <1>4, <1>5, MaximumExists
<1>7. PICK x \in A : x.revision = m
  OBVIOUS
<1>8. \A y \in A : y.revision \in V
  OBVIOUS
<1>9. \A y \in A : y.revision <= x.revision
  BY <1>5, <1>6, <1>7, <1>8
<1>10. x \in labels /\ x.event = k.event /\ x.observed <= asOf
  BY <1>7 DEF History
<1>11. x \in ResolveLabels(labels, asOf)
  BY <1>9, <1>10 DEF ResolveLabels
<1> QED
  BY <1>10, <1>11

LEMMA KnownMatures ==
  ASSUME NEW L, NEW M, IsFiniteSet(M), ValidRevisions(M), L \subseteq M, \A x \in M : x.observed \in Nat,
         NEW a \in Nat, NEW b \in Nat, a <= b, NEW k \in ResolveLabels(L, a)
  PROVE  /\ \E x \in ResolveLabels(M, b) : x.event = k.event
         /\ \A x \in ResolveLabels(M, b) : x.event = k.event => k.revision < x.revision \/ k = x
<1>1. k \in M /\ k.observed <= a
  BY DEF ResolveLabels
<1>2. k.observed <= b
  BY <1>1
<1>3. \E x \in ResolveLabels(M, b) : x.event = k.event
  BY <1>1, <1>2, LastRevision
<1>4. ASSUME NEW x \in ResolveLabels(M, b), x.event = k.event PROVE k.revision < x.revision \/ k = x
  <2> DEFINE H == History(M, k.event)
  <2>1. k \in H /\ x \in H
    BY <1>1, <1>4 DEF History, ResolveLabels
  <2>2. (\A y \in H : y.revision \in Nat) /\ \A y, z \in H : y.revision = z.revision => y = z
    BY <1>1, LabelHistories
  <2>3. k.revision <= x.revision
    BY <1>2, <1>4, <2>1 DEF ResolveLabels
  <2> QED
    BY <2>1, <2>2, <2>3
<1> QED
  BY <1>3, <1>4

LEMMA LabelsHold == ArtifactsInv => LabelsMature
<1> SUFFICES ASSUME ArtifactsInv, NEW s \in Of("outcomes"), NEW t \in Of("outcomes"),
                    s.ledger = t.ledger, s.asOf <= t.asOf, LabelFile[s.file] \subseteq LabelFile[t.file]
    PROVE  /\ Comparable(s, t)
           /\ \A k \in Known(s), l \in Known(t) : k.event = l.event => k.revision < l.revision \/ k = l
  BY DEF LabelsMature
<1>1. MadeOutcomes(s) /\ MadeOutcomes(t)
  BY MadeByKind DEF ArtifactsInv, Of
<1>2. s.asOf \in Nat /\ t.asOf \in Nat
  BY <1>1, TimesNat DEF MadeOutcomes, Outcomes
<1>3. t.file \in DOMAIN LabelFile /\ ValidRevisions(LabelFile[t.file])
  BY <1>1 DEF MadeOutcomes, Outcomes
<1>4. IsFiniteSet(LabelFile[t.file]) /\ \A x \in LabelFile[t.file] : x.observed \in Nat
  BY <1>3, FilesFinite, TimesNat
<1>5. \A k \in Known(s) : /\ \E x \in ResolveLabels(LabelFile[t.file], t.asOf) : x.event = k.event
                          /\ \A x \in ResolveLabels(LabelFile[t.file], t.asOf) :
                               x.event = k.event => k.revision < x.revision \/ k = x
  BY <1>2, <1>3, <1>4, KnownMatures DEF Known
<1>6. \A k \in Known(s) : \E x \in Known(t) : x.event = k.event
  BY <1>5 DEF Known
<1>7. Comparable(s, t)
  BY <1>6 DEF Comparable
<1>8. \A k \in Known(s), l \in Known(t) : k.event = l.event => k.revision < l.revision \/ k = l
  BY <1>5 DEF Known
<1> QED
  BY <1>7, <1>8

\* A revision is available once it and all its predecessors were received.
LEMMA Availability ==
  ASSUME NEW R, IsFiniteSet(R), Validated(R), \A x \in R : x.received \in Nat, NEW r \in R
  PROVE  AvailableAt(R, r) \in Nat /\ r.received <= AvailableAt(R, r)
<1> DEFINE P == Predecessors(R, r)
           f == [x \in P |-> x.received]
           T == {f[x] : x \in P}
<1>1. r.revision \in Nat
  BY DEF Validated, WellFormed
<1>2. P \subseteq R /\ r \in P
  BY <1>1 DEF Predecessors, CaseHistory
<1>3. IsFiniteSet(P)
  BY <1>2, FS_Subset
<1>4. IsFiniteSet(T)
  BY <1>3, ImageFinite
<1>5. T \subseteq Nat /\ r.received \in T
  BY <1>2
<1>6. T = {x.received : x \in P}
  OBVIOUS
<1> HIDE DEF T, P
<1>7. Max(T) \in Nat /\ Max(T) >= r.received
  BY <1>4, <1>5, MaxIsBound
<1>8. AvailableAt(R, r) = Max(T)
  BY <1>6 DEF AvailableAt, P
<1> QED
  BY <1>5, <1>7, <1>8

\* A longer ledger adds no predecessors: the revisions of a case were contiguous.
LEMMA SamePredecessors ==
  ASSUME NEW R, NEW Q, R \subseteq Q, IsFiniteSet(R), Validated(R), IsFiniteSet(Q), Validated(Q), NEW r \in R
  PROVE  Predecessors(Q, r) = Predecessors(R, r)
<1> DEFINE H == CaseHistory(R, Case(r))
           G == CaseHistory(Q, Case(r))
<1>1. /\ r \in H /\ Cardinality(H) \in Nat /\ {x.revision : x \in H} = 1 .. Cardinality(H)
  BY CaseHistories
<1>2. /\ Cardinality(G) \in Nat /\ {x.revision : x \in G} = 1 .. Cardinality(G)
      /\ \A x, y \in G : x.revision = y.revision => x = y
  BY CaseHistories
<1>3. H \subseteq G
  BY DEF CaseHistory
<1>4. ASSUME NEW x \in G, x.revision <= r.revision PROVE x \in H
  <2>1. x.revision \in 1 .. Cardinality(G) /\ r.revision \in 1 .. Cardinality(H)
    BY <1>1, <1>2
  <2>2. x.revision \in 1 .. Cardinality(H)
    BY <1>1, <1>2, <1>4, <2>1
  <2>3. PICK y \in H : y.revision = x.revision
    BY <1>1, <2>2
  <2> QED
    BY <1>2, <1>3, <2>3
<1> QED
  BY <1>3, <1>4 DEF Predecessors

\* What was received after asOf is not selected at asOf, nor changes what is.
LEMMA SelectedStays ==
  ASSUME NEW R, NEW Q, R \subseteq Q, IsFiniteSet(R), Validated(R), IsFiniteSet(Q), Validated(Q),
         \A x \in Q : x.received \in Nat, NEW asOf \in Nat, \A x \in Q \ R : asOf < x.received
  PROVE  Selected(R, asOf) = Selected(Q, asOf)
<1>1. \A r \in R : AvailableAt(Q, r) = AvailableAt(R, r)
  BY SamePredecessors DEF AvailableAt
<1>2. \A r \in Q \ R : ~(AvailableAt(Q, r) <= asOf)
  <2> SUFFICES ASSUME NEW r \in Q \ R PROVE ~(AvailableAt(Q, r) <= asOf)
    OBVIOUS
  <2>1. AvailableAt(Q, r) \in Nat /\ r.received <= AvailableAt(Q, r)
    BY Availability
  <2> QED
    BY <2>1
<1>3. \A r : CaseHistory(Q, Case(r)) = CaseHistory(R, Case(r)) \cup CaseHistory(Q \ R, Case(r))
  BY DEF CaseHistory
<1>4. \A r : CaseHistory(R, Case(r)) \subseteq R /\ CaseHistory(Q \ R, Case(r)) \subseteq Q \ R
  BY DEF CaseHistory
<1>5. ASSUME NEW r \in R PROVE r \in Selected(R, asOf) <=> r \in Selected(Q, asOf)
  <2>1. r \in Selected(R, asOf) <=> /\ AvailableAt(R, r) <= asOf
                                    /\ \A x \in CaseHistory(R, Case(r)) : AvailableAt(R, x) <= asOf => x.revision <= r.revision
    BY DEF Selected
  <2>2. r \in Selected(Q, asOf) <=> /\ AvailableAt(Q, r) <= asOf
                                    /\ \A x \in CaseHistory(Q, Case(r)) : AvailableAt(Q, x) <= asOf => x.revision <= r.revision
    BY DEF Selected
  <2>3. (\A x \in CaseHistory(R, Case(r)) : AvailableAt(R, x) <= asOf => x.revision <= r.revision)
          <=> (\A x \in CaseHistory(Q, Case(r)) : AvailableAt(Q, x) <= asOf => x.revision <= r.revision)
    BY <1>1, <1>2, <1>3, <1>4
  <2> QED
    BY <1>1, <2>1, <2>2, <2>3
<1>6. \A r \in Q \ R : r \notin Selected(Q, asOf)
  BY <1>2 DEF Selected
<1>7. Selected(R, asOf) \subseteq R /\ Selected(Q, asOf) \subseteq Q
  BY DEF Selected
<1> QED
  BY <1>5, <1>6, <1>7

\* A longer ledger has no fewer cases about an event.
LEMMA CasesGrow ==
  ASSUME NEW R, NEW Q, R \subseteq Q, IsFiniteSet(Q), NEW e
  PROVE  CaseCount(R, e) \in Nat /\ CaseCount(Q, e) \in Nat /\ CaseCount(R, e) <= CaseCount(Q, e)
<1> DEFINE A == {r \in R : r.event = e}
           B == {r \in Q : r.event = e}
<1>1. IsFiniteSet(B)
  BY FS_Subset
<1>2. CasesOf(B) = {Case(r) : r \in B} /\ CasesOf(A) = {Case(r) : r \in A}
  BY DEF CasesOf
<1>3. CasesOf(A) \subseteq CasesOf(B)
  BY <1>2
<1>4. CaseCount(R, e) = Cardinality(CasesOf(A)) /\ CaseCount(Q, e) = Cardinality(CasesOf(B))
  BY DEF CaseCount
<1> HIDE DEF A, B
<1>5. IsFiniteSet(CasesOf(B))
  <2> DEFINE f == [r \in B |-> Case(r)]
  <2>1. IsFiniteSet({f[r] : r \in B})
    BY <1>1, ImageFinite
  <2> QED
    BY <1>2, <2>1
<1>6. IsFiniteSet(CasesOf(A)) /\ Cardinality(CasesOf(A)) <= Cardinality(CasesOf(B))
  BY <1>3, <1>5, FS_Subset
<1> QED
  BY <1>4, <1>5, <1>6, FS_CardinalityType

\* With the same current revisions, only more cases change the state: an event
\* without any has one that shows nothing yet.
LEMMA StateStays ==
  ASSUME NEW R, NEW Q, R \subseteq Q, IsFiniteSet(Q), NEW asOf, NEW e,
         Selected(Q, asOf) = Selected(R, asOf)
  PROVE  \/ State(Q, asOf, e) = State(R, asOf, e)
         \/ State(R, asOf, e) = "NO_CASE" /\ State(Q, asOf, e) = "NOT_YET_OBSERVED"
<1>1. Current(Q, asOf, e) = Current(R, asOf, e)
  BY DEF Current
<1>2. CaseCount(R, e) \in Nat /\ CaseCount(Q, e) \in Nat /\ CaseCount(R, e) <= CaseCount(Q, e)
  BY CasesGrow
<1>3. CaseCount(R, e) > 0 => CaseCount(Q, e) > 0
  BY <1>2
<1> QED
  BY <1>1, <1>3 DEF State

LEMMA FeedbackHolds == ArtifactsInv => FeedbackPastStable
<1> SUFFICES ASSUME ArtifactsInv, NEW v \in Of("evaluation"), NEW w \in Of("evaluation"),
                    v.ledger = w.ledger, v.asOf = w.asOf, RecordsIn(v.feedback) \subseteq RecordsIn(w.feedback),
                    \A r \in RecordsIn(w.feedback) \ RecordsIn(v.feedback) : v.asOf < r.received,
                    NEW R, R = RecordsIn(v.feedback), NEW Q, Q = RecordsIn(w.feedback)
    PROVE  /\ Selected(Q, v.asOf) = Selected(R, v.asOf) /\ ConfirmedIn(w) = ConfirmedIn(v)
           /\ \A e \in Scored(v.ledger) :
                /\ CaseCount(R, e) <= CaseCount(Q, e)
                /\ \/ State(Q, v.asOf, e) = State(R, v.asOf, e)
                   \/ State(R, v.asOf, e) = "NO_CASE" /\ State(Q, v.asOf, e) = "NOT_YET_OBSERVED"
           /\ \A s \in States \ {"NO_CASE", "NOT_YET_OBSERVED"} : CoverageIn(w)[s] = CoverageIn(v)[s]
  BY DEF FeedbackPastStable
<1>1. ASSUME NEW u \in Of("evaluation") PROVE u.asOf \in Nat /\ MadeFeedback(u.feedback)
  <2>1. MadeEvaluation(u)
    BY MadeByKind DEF ArtifactsInv, Of
  <2>2. PICK l, f \in published, t \in Cutoffs : u = Evaluation(l, f, t) /\ f.kind = "feedback"
    BY <2>1 DEF MadeEvaluation
  <2>3. u.feedback = f /\ u.asOf = t
    BY <2>2 DEF Evaluation
  <2>4. MadeFeedback(f)
    BY <2>2, MadeByKind DEF ArtifactsInv, DirectoriesInv
  <2> QED
    BY <2>3, <2>4, TimesNat
<1>2. /\ IsFiniteSet(R) /\ Validated(R) /\ IsFiniteSet(Q) /\ Validated(Q)
      /\ \A r \in Q : r.received \in Nat
      /\ v.asOf \in Nat /\ R \subseteq Q
  BY <1>1, LedgerRecords
<1>3. Selected(Q, v.asOf) = Selected(R, v.asOf)
  BY <1>2, SelectedStays
<1>4. \A e :
        \/ State(Q, v.asOf, e) = State(R, v.asOf, e)
        \/ State(R, v.asOf, e) = "NO_CASE" /\ State(Q, v.asOf, e) = "NOT_YET_OBSERVED"
  BY <1>2, <1>3, StateStays
<1>5. \A s : s \notin {"NO_CASE", "NOT_YET_OBSERVED"} =>
        \A e : State(Q, v.asOf, e) = s <=> State(R, v.asOf, e) = s
  BY <1>4
<1>6. Confirmed(Q, v.asOf, Scored(v.ledger)) = Confirmed(R, v.asOf, Scored(v.ledger))
  <2> DEFINE A == {d \in Scored(v.ledger) : State(R, v.asOf, d) \in {"FRAUD", "LEGIT"}}
             B == {d \in Scored(v.ledger) : State(Q, v.asOf, d) \in {"FRAUD", "LEGIT"}}
  <2>1. A = B /\ \A e \in A : State(Q, v.asOf, e) = State(R, v.asOf, e)
    BY <1>5
  <2>2. {[event |-> e, outcome |-> State(Q, v.asOf, e)] : e \in B}
          = {[event |-> e, outcome |-> State(R, v.asOf, e)] : e \in A}
    BY <2>1
  <2> QED
    BY <2>2 DEF Confirmed
<1>7. ConfirmedIn(w) = ConfirmedIn(v)
  BY <1>6 DEF ConfirmedIn
<1>8. ASSUME NEW s \in States \ {"NO_CASE", "NOT_YET_OBSERVED"} PROVE CoverageIn(w)[s] = CoverageIn(v)[s]
  <2>1. {e \in Scored(v.ledger) : State(Q, v.asOf, e) = s} = {e \in Scored(v.ledger) : State(R, v.asOf, e) = s}
    BY <1>5
  <2> QED
    BY <2>1 DEF CoverageIn, Coverage
<1>9. \A e : CaseCount(R, e) <= CaseCount(Q, e)
  BY <1>2, CasesGrow
<1> QED
  BY <1>3, <1>4, <1>7, <1>8, <1>9

\* What is evaluated as of a time is what was known then, whatever came later:
\* no event a model was fitted on is scored, a known label changes only by a
\* later revision, and feedback received later leaves the revisions, outcomes and
\* counts of an earlier time, but for unknown events that turn out to have cases
\* (partition_rows, compare_snapshots, resolve_feedback).
THEOREM PointInTimeHolds == OfflineSpec => []PointInTime
<1>1. ArtifactsInv => PointInTime
  BY TrainedBefore, LabelsHold, FeedbackHolds DEF PointInTime
<1> QED
  BY <1>1, ArtifactsInvariant, PTL

-----------------------------------------------------------------------------
(* The folds of a replay, delivery by delivery. *)

Ids == {d.id : d \in Deliverable}
ReplayStatuses == {"INPUT_REJECTED", "EXECUTION_FAILED", "SCORED"}
ReplayOutcomes == [id : Ids, event : {d.event : d \in Deliverable}, status : ReplayStatuses]
LifecycleNames ==
  {"REQUEST_ACCEPTED", "INPUT_REJECTED", "REQUEST_VALIDATED", "INFERENCE_ATTEMPTED",
   "INFERENCE_SUCCEEDED", "INFERENCE_FAILED"}
Ended == <<"EXECUTION_COMPLETED", None>>
Audited == ((LifecycleNames \cup {"DUPLICATE_DELIVERY"}) \X Ids) \cup {Ended}
Commits == UNION {[D -> Deliverable] : D \in SUBSET Ids}

\* What deliveries can lead to.
Runs ==
  [committed : Commits, results : Seq(ReplayOutcomes), audit : Seq(Audited), duplicates : Nat, raised : BOOLEAN]

LEMMA OutcomeStatus ==
  ASSUME NEW d, NEW failing
  PROVE  Outcome(d, failing) \in ReplayStatuses
BY DEF Outcome, ReplayStatuses

LEMMA LifecycleEvents ==
  ASSUME NEW id \in Ids, NEW status \in ReplayStatuses
  PROVE  Lifecycle(id, status) \in Seq(LifecycleNames \X Ids) /\ Lifecycle(id, status) \in Seq(Audited)
<1> DEFINE L == LifecycleNames \X Ids
<1>1. \A name \in LifecycleNames : <<name, id>> \in L
  OBVIOUS
<1>2. ASSUME status = "INPUT_REJECTED" PROVE Lifecycle(id, status) \in Seq(L)
  <2>1. Lifecycle(id, status) = <<<<"REQUEST_ACCEPTED", id>>, <<"INPUT_REJECTED", id>>>>
    BY <1>2 DEF Lifecycle
  <2>2. <<"REQUEST_ACCEPTED", id>> \in L /\ <<"INPUT_REJECTED", id>> \in L
    BY <1>1 DEF LifecycleNames
  <2> HIDE DEF L
  <2>3. Lifecycle(id, status) \in Seq(L)
    BY <2>1, <2>2
  <2> QED BY <2>3
<1>3. ASSUME status = "SCORED" PROVE Lifecycle(id, status) \in Seq(L)
  <2>1. Lifecycle(id, status) =
          <<<<"REQUEST_ACCEPTED", id>>, <<"REQUEST_VALIDATED", id>>,
            <<"INFERENCE_ATTEMPTED", id>>, <<"INFERENCE_SUCCEEDED", id>>>>
    BY <1>3 DEF Lifecycle
  <2>2. /\ <<"REQUEST_ACCEPTED", id>> \in L /\ <<"REQUEST_VALIDATED", id>> \in L
        /\ <<"INFERENCE_ATTEMPTED", id>> \in L /\ <<"INFERENCE_SUCCEEDED", id>> \in L
    BY <1>1 DEF LifecycleNames
  <2> HIDE DEF L
  <2>3. Lifecycle(id, status) \in Seq(L)
    BY <2>1, <2>2
  <2> QED BY <2>3
<1>4. ASSUME status = "EXECUTION_FAILED" PROVE Lifecycle(id, status) \in Seq(L)
  <2>1. Lifecycle(id, status) =
          <<<<"REQUEST_ACCEPTED", id>>, <<"REQUEST_VALIDATED", id>>,
            <<"INFERENCE_ATTEMPTED", id>>, <<"INFERENCE_FAILED", id>>>>
    BY <1>4 DEF Lifecycle
  <2>2. /\ <<"REQUEST_ACCEPTED", id>> \in L /\ <<"REQUEST_VALIDATED", id>> \in L
        /\ <<"INFERENCE_ATTEMPTED", id>> \in L /\ <<"INFERENCE_FAILED", id>> \in L
    BY <1>1 DEF LifecycleNames
  <2> HIDE DEF L
  <2>3. Lifecycle(id, status) \in Seq(L)
    BY <2>1, <2>2
  <2> QED BY <2>3
<1>5. Lifecycle(id, status) \in Seq(L)
  BY <1>2, <1>3, <1>4 DEF ReplayStatuses
<1>6. L \subseteq Audited
  BY DEF Audited
<1> HIDE DEF L
<1>7. Seq(L) \subseteq Seq(Audited)
  BY <1>6
<1> QED BY <1>5, <1>7 DEF L

LEMMA NothingRun == NoDelivery \in Runs
<1>1. <<>> \in Commits
  <2>1. <<>> \in [{} -> Deliverable]
    OBVIOUS
  <2> QED BY <2>1 DEF Commits
<1> QED BY <1>1 DEF NoDelivery, Runs

\* A delivery that is evaluated: one more request, outcome and lifecycle.
LEMMA EvaluatedRun ==
  ASSUME NEW s \in Runs, NEW d \in Deliverable, NEW failing
  PROVE  /\ Evaluated(s, d, failing) \in Runs
         /\ DOMAIN Evaluated(s, d, failing).committed = DOMAIN s.committed \cup {d.id}
         /\ Evaluated(s, d, failing).results =
              Append(s.results, [id |-> d.id, event |-> d.event, status |-> Outcome(d, failing)])
         /\ Evaluated(s, d, failing).audit = s.audit \o Lifecycle(d.id, Outcome(d, failing))
         /\ Evaluated(s, d, failing).duplicates = s.duplicates
         /\ Evaluated(s, d, failing).raised = s.raised
<1> DEFINE status == Outcome(d, failing)
           made == [i \in DOMAIN s.committed \cup {d.id} |-> IF i = d.id THEN d ELSE s.committed[i]]
           result == [id |-> d.id, event |-> d.event, status |-> status]
           next == [committed |-> made, results |-> Append(s.results, result),
                    audit |-> s.audit \o Lifecycle(d.id, status),
                    duplicates |-> s.duplicates, raised |-> s.raised]
<1>1. /\ s.committed \in Commits /\ s.results \in Seq(ReplayOutcomes) /\ s.audit \in Seq(Audited)
      /\ s.duplicates \in Nat /\ s.raised \in BOOLEAN
  BY DEF Runs
<1>2. d.id \in Ids /\ status \in ReplayStatuses
  BY OutcomeStatus DEF Ids
<1>3. result \in ReplayOutcomes
  <2>1. d.event \in {e.event : e \in Deliverable}
    OBVIOUS
  <2> HIDE DEF status
  <2> QED BY <1>2, <2>1 DEF ReplayOutcomes
<1>4. PICK D \in SUBSET Ids : s.committed \in [D -> Deliverable]
  BY <1>1 DEF Commits
<1>5. made \in [D \cup {d.id} -> Deliverable] /\ DOMAIN s.committed = D
  BY <1>4
<1>6. made \in Commits
  <2>1. D \cup {d.id} \in SUBSET Ids
    BY <1>2, <1>4
  <2> HIDE DEF made
  <2> QED BY <1>5, <2>1 DEF Commits
<1>7. Lifecycle(d.id, status) \in Seq(Audited)
  BY <1>2, LifecycleEvents
<1>8. Evaluated(s, d, failing) = next
  <2>1. PICK c, r, a, n, b :
          s = [committed |-> c, results |-> r, audit |-> a, duplicates |-> n, raised |-> b]
    BY DEF Runs
  <2>2. [i \in DOMAIN s.committed \cup {d.id} |-> IF i = d.id THEN d ELSE s.committed[i]] = made
    OBVIOUS
  <2>3. Evaluated(s, d, failing) =
          [s EXCEPT !.committed = made, !.results = Append(s.results, result),
                    !.audit = s.audit \o Lifecycle(d.id, status)]
    BY DEF Evaluated
  <2> HIDE DEF made, result, status
  <2> QED BY <2>1, <2>3
<1>9. DOMAIN made = DOMAIN s.committed \cup {d.id}
  OBVIOUS
<1> HIDE DEF made, result, status
<1>10. Append(s.results, result) \in Seq(ReplayOutcomes) /\ s.audit \o Lifecycle(d.id, status) \in Seq(Audited)
  BY <1>1, <1>3, <1>7
<1>11. next \in Runs
  BY <1>1, <1>6, <1>10 DEF Runs
<1>12. /\ next.committed = made /\ next.results = Append(s.results, result)
       /\ next.audit = s.audit \o Lifecycle(d.id, status)
       /\ next.duplicates = s.duplicates /\ next.raised = s.raised
  OBVIOUS
<1> QED BY <1>8, <1>9, <1>11, <1>12 DEF result, status

LEMMA DeliverRun ==
  ASSUME NEW s \in Runs, NEW d \in Deliverable, NEW failing
  PROVE  Deliver(s, d, failing) \in Runs
<1>1. CASE s.raised
  BY <1>1 DEF Deliver
<1>2. CASE ~s.raised /\ d.id \notin DOMAIN s.committed
  BY <1>2, EvaluatedRun DEF Deliver
<1>3. CASE ~s.raised /\ d.id \in DOMAIN s.committed
  <2>1. CASE s.committed[d.id] # d
    <3>1. Deliver(s, d, failing) = [s EXCEPT !.raised = TRUE]
      BY <1>3, <2>1 DEF Deliver
    <3> QED BY <3>1 DEF Runs
  <2>2. CASE s.committed[d.id] = d
    <3>1. Deliver(s, d, failing) =
            [s EXCEPT !.duplicates = @ + 1, !.audit = Append(@, <<"DUPLICATE_DELIVERY", d.id>>)]
      BY <1>3, <2>2 DEF Deliver
    <3>2. <<"DUPLICATE_DELIVERY", d.id>> \in Audited
      BY DEF Audited, Ids
    <3>3. Append(s.audit, <<"DUPLICATE_DELIVERY", d.id>>) \in Seq(Audited)
      BY <3>2 DEF Runs
    <3>4. s.duplicates + 1 \in Nat
      BY DEF Runs
    <3>5. Deliver(s, d, failing) =
            [s EXCEPT !.duplicates = s.duplicates + 1,
                      !.audit = Append(s.audit, <<"DUPLICATE_DELIVERY", d.id>>)]
      BY <3>1
    <3> QED BY <3>3, <3>4, <3>5 DEF Runs
  <2> QED BY <2>1, <2>2
<1> QED BY <1>1, <1>2, <1>3 DEF Runs

\* One delivery after the other.
LEMMA DeliveredFold ==
  ASSUME NEW failing
  PROVE  /\ Delivered(<<>>, failing) = NoDelivery
         /\ \A s \in Seq(Deliverable) : Delivered(s, failing) \in Runs
         /\ \A s \in Seq(Deliverable), x \in Deliverable : Delivered(Append(s, x), failing) = Deliver(Delivered(s, failing), x, failing)
<1> DEFINE h == [p \in Runs \X Deliverable |-> Deliver(p[1], p[2], failing)]
<1>1. /\ h \in [Runs \X Deliverable -> Runs]
      /\ \A a \in Runs, x \in Deliverable : h[<<a, x>>] = Deliver(a, x, failing)
  BY DeliverRun
<1> HIDE DEF h
<1>2. NoDelivery \in Runs
  BY NothingRun
<1>3. HasValues(Runs, Deliverable, h, NoDelivery)
      /\ \E F : IsFold(Runs, Deliverable, h, NoDelivery, F) /\ EndsValues(Runs, Deliverable, h, NoDelivery, F)
  BY <1>1, <1>2, FoldRuns
<1>4. PICK F : IsFold(Runs, Deliverable, h, NoDelivery, F) /\ EndsValues(Runs, Deliverable, h, NoDelivery, F)
  BY <1>3
<1>5. ASSUME NEW s \in Seq(Deliverable) PROVE Delivered(s, failing) = F[s]
  <2> DEFINE unroll(g) ==
        [t \in SUBSET (DOMAIN s) |->
           IF t = {} THEN NoDelivery ELSE Deliver(g[t \ {Max(t)}], s[Max(t)], failing)]
  <2>1. PICK g \in [SUBSET (DOMAIN s) -> Runs] : Values(h, NoDelivery, s, g)
    BY <1>3 DEF HasValues
  <2>2. g = unroll(g)
    <3>1. \A t \in SUBSET (DOMAIN s) :
            t # {} => h[<<g[t \ {Max(t)}], s[Max(t)]>>] = Deliver(g[t \ {Max(t)}], s[Max(t)], failing)
      BY <1>1, <2>1, DomainMax
    <3> QED BY <2>1, <3>1 DEF Values
  <2>3. PICK f : f = CHOOSE e : e = unroll(e)
    OBVIOUS
  <2>4. f = unroll(f)
    BY <2>2, <2>3, Zenon
  <2>5. Reaches(Runs, h, NoDelivery, s, f)
    <3>1. f[{}] = NoDelivery
      BY <2>4
    <3>2. ASSUME NEW t \in SUBSET (DOMAIN s), t # {}, f[t \ {Max(t)}] \in Runs
          PROVE  f[t] = h[<<f[t \ {Max(t)}], s[Max(t)]>>]
      <4>1. f[t] = Deliver(f[t \ {Max(t)}], s[Max(t)], failing)
        BY <2>4, <3>2
      <4>2. s[Max(t)] \in Deliverable
        BY <3>2, DomainMax
      <4> QED BY <1>1, <3>2, <4>1, <4>2
    <3> QED BY <3>1, <3>2 DEF Reaches
  <2>6. Delivered(s, failing) = f[DOMAIN s]
    BY <2>3, Zenon DEF Delivered, FoldLeft, MapThenFoldSet
  <2> QED BY <1>4, <2>5, <2>6 DEF EndsValues
<1>6. <<>> \in Seq(Deliverable) /\ \A s \in Seq(Deliverable), x \in Deliverable : Append(s, x) \in Seq(Deliverable)
  OBVIOUS
<1>7. \A s \in Seq(Deliverable) : F[s] \in Runs
  BY <1>4 DEF IsFold
<1>8. \A s \in Seq(Deliverable), x \in Deliverable : F[Append(s, x)] = Deliver(F[s], x, failing)
  BY <1>1, <1>4, <1>7 DEF IsFold
<1> QED BY <1>4, <1>5, <1>6, <1>7, <1>8 DEF IsFold

\* One request after the other, by its first delivery.
LEMMA FirstIdsFold ==
  /\ FirstIds(<<>>) = <<>>
  /\ \A s \in Seq(Deliverable) : FirstIds(s) \in Seq(Ids)
  /\ \A s \in Seq(Deliverable), x \in Deliverable : FirstIds(Append(s, x)) = AddFirst(FirstIds(s), x)
<1> DEFINE h == [p \in Seq(Ids) \X Deliverable |-> AddFirst(p[1], p[2])]
<1>1. /\ h \in [Seq(Ids) \X Deliverable -> Seq(Ids)]
      /\ \A a \in Seq(Ids), x \in Deliverable : h[<<a, x>>] = AddFirst(a, x)
  <2>1. \A a \in Seq(Ids), x \in Deliverable :
          AddFirst(a, x) \in Seq(Ids)
    BY DEF Ids, AddFirst
  <2> QED BY <2>1
<1> HIDE DEF h
<1>2. <<>> \in Seq(Ids)
  OBVIOUS
<1>3. HasValues(Seq(Ids), Deliverable, h, <<>>)
      /\ \E F : IsFold(Seq(Ids), Deliverable, h, <<>>, F) /\ EndsValues(Seq(Ids), Deliverable, h, <<>>, F)
  BY <1>1, <1>2, FoldRuns
<1>4. PICK F : IsFold(Seq(Ids), Deliverable, h, <<>>, F) /\ EndsValues(Seq(Ids), Deliverable, h, <<>>, F)
  BY <1>3
<1>5. ASSUME NEW s \in Seq(Deliverable) PROVE FirstIds(s) = F[s]
  <2> DEFINE unroll(g) ==
        [t \in SUBSET (DOMAIN s) |->
           IF t = {} THEN <<>> ELSE AddFirst(g[t \ {Max(t)}], s[Max(t)])]
  <2>1. PICK g \in [SUBSET (DOMAIN s) -> Seq(Ids)] : Values(h, <<>>, s, g)
    BY <1>3 DEF HasValues
  <2>2. g = unroll(g)
    <3>1. \A t \in SUBSET (DOMAIN s) :
            t # {} => h[<<g[t \ {Max(t)}], s[Max(t)]>>] = AddFirst(g[t \ {Max(t)}], s[Max(t)])
      BY <1>1, <2>1, DomainMax
    <3> QED BY <2>1, <3>1 DEF Values
  <2>3. PICK f : f = CHOOSE e : e = unroll(e)
    OBVIOUS
  <2>4. f = unroll(f)
    BY <2>2, <2>3, Zenon
  <2>5. Reaches(Seq(Ids), h, <<>>, s, f)
    <3>1. f[{}] = <<>>
      BY <2>4
    <3>2. ASSUME NEW t \in SUBSET (DOMAIN s), t # {}, f[t \ {Max(t)}] \in Seq(Ids)
          PROVE  f[t] = h[<<f[t \ {Max(t)}], s[Max(t)]>>]
      <4>1. f[t] = AddFirst(f[t \ {Max(t)}], s[Max(t)])
        BY <2>4, <3>2
      <4>2. s[Max(t)] \in Deliverable
        BY <3>2, DomainMax
      <4> QED BY <1>1, <3>2, <4>1, <4>2
    <3> QED BY <3>1, <3>2 DEF Reaches
  <2>6. FirstIds(s) = f[DOMAIN s]
    BY <2>3, Zenon DEF FirstIds, FoldLeft, MapThenFoldSet
  <2> QED BY <1>4, <2>5, <2>6 DEF EndsValues
<1>6. <<>> \in Seq(Deliverable) /\ \A s \in Seq(Deliverable), x \in Deliverable : Append(s, x) \in Seq(Deliverable)
  OBVIOUS
<1>7. \A s \in Seq(Deliverable) : F[s] \in Seq(Ids)
  BY <1>4 DEF IsFold
<1>8. \A s \in Seq(Deliverable), x \in Deliverable : F[Append(s, x)] = AddFirst(F[s], x)
  BY <1>1, <1>4, <1>7 DEF IsFold
<1> QED BY <1>4, <1>5, <1>6, <1>7, <1>8 DEF IsFold

\* One event of an audit after the other, its duplicates left aside.
LEMMA WithoutDuplicatesFold ==
  /\ WithoutDuplicates(<<>>) = <<>>
  /\ \A s \in Seq(Audited) : WithoutDuplicates(s) \in Seq(Audited)
  /\ \A s \in Seq(Audited), x \in Audited : WithoutDuplicates(Append(s, x)) = AddUnlessDuplicate(WithoutDuplicates(s), x)
<1> DEFINE h == [p \in Seq(Audited) \X Audited |-> AddUnlessDuplicate(p[1], p[2])]
<1>1. /\ h \in [Seq(Audited) \X Audited -> Seq(Audited)]
      /\ \A a \in Seq(Audited), x \in Audited : h[<<a, x>>] = AddUnlessDuplicate(a, x)
  <2>1. \A a \in Seq(Audited), x \in Audited :
          AddUnlessDuplicate(a, x) \in Seq(Audited)
    BY DEF AddUnlessDuplicate
  <2> QED BY <2>1
<1> HIDE DEF h
<1>2. <<>> \in Seq(Audited)
  OBVIOUS
<1>3. HasValues(Seq(Audited), Audited, h, <<>>)
      /\ \E F : IsFold(Seq(Audited), Audited, h, <<>>, F) /\ EndsValues(Seq(Audited), Audited, h, <<>>, F)
  BY <1>1, <1>2, FoldRuns
<1>4. PICK F : IsFold(Seq(Audited), Audited, h, <<>>, F) /\ EndsValues(Seq(Audited), Audited, h, <<>>, F)
  BY <1>3
<1>5. ASSUME NEW s \in Seq(Audited) PROVE WithoutDuplicates(s) = F[s]
  <2> DEFINE unroll(g) ==
        [t \in SUBSET (DOMAIN s) |->
           IF t = {} THEN <<>> ELSE AddUnlessDuplicate(g[t \ {Max(t)}], s[Max(t)])]
  <2>1. PICK g \in [SUBSET (DOMAIN s) -> Seq(Audited)] : Values(h, <<>>, s, g)
    BY <1>3 DEF HasValues
  <2>2. g = unroll(g)
    <3>1. \A t \in SUBSET (DOMAIN s) :
            t # {} => h[<<g[t \ {Max(t)}], s[Max(t)]>>] = AddUnlessDuplicate(g[t \ {Max(t)}], s[Max(t)])
      BY <1>1, <2>1, DomainMax
    <3> QED BY <2>1, <3>1 DEF Values
  <2>3. PICK f : f = CHOOSE e : e = unroll(e)
    OBVIOUS
  <2>4. f = unroll(f)
    BY <2>2, <2>3, Zenon
  <2>5. Reaches(Seq(Audited), h, <<>>, s, f)
    <3>1. f[{}] = <<>>
      BY <2>4
    <3>2. ASSUME NEW t \in SUBSET (DOMAIN s), t # {}, f[t \ {Max(t)}] \in Seq(Audited)
          PROVE  f[t] = h[<<f[t \ {Max(t)}], s[Max(t)]>>]
      <4>1. f[t] = AddUnlessDuplicate(f[t \ {Max(t)}], s[Max(t)])
        BY <2>4, <3>2
      <4>2. s[Max(t)] \in Audited
        BY <3>2, DomainMax
      <4> QED BY <1>1, <3>2, <4>1, <4>2
    <3> QED BY <3>1, <3>2 DEF Reaches
  <2>6. WithoutDuplicates(s) = f[DOMAIN s]
    BY <2>3, Zenon DEF WithoutDuplicates, FoldLeft, MapThenFoldSet
  <2> QED BY <1>4, <2>5, <2>6 DEF EndsValues
<1>6. <<>> \in Seq(Audited) /\ \A s \in Seq(Audited), x \in Audited : Append(s, x) \in Seq(Audited)
  OBVIOUS
<1>7. \A s \in Seq(Audited) : F[s] \in Seq(Audited)
  BY <1>4 DEF IsFold
<1>8. \A s \in Seq(Audited), x \in Audited : F[Append(s, x)] = AddUnlessDuplicate(F[s], x)
  BY <1>1, <1>4, <1>7 DEF IsFold
<1> QED BY <1>4, <1>5, <1>6, <1>7, <1>8 DEF IsFold

\* One lifecycle after the other.
LEMMA LifecyclesFold ==
  /\ Lifecycles(<<>>) = <<>>
  /\ \A s \in Seq(ReplayOutcomes) : Lifecycles(s) \in Seq(Audited)
  /\ \A s \in Seq(ReplayOutcomes), x \in ReplayOutcomes : Lifecycles(Append(s, x)) = AddLifecycle(Lifecycles(s), x)
<1> DEFINE h == [p \in Seq(Audited) \X ReplayOutcomes |-> AddLifecycle(p[1], p[2])]
<1>1. /\ h \in [Seq(Audited) \X ReplayOutcomes -> Seq(Audited)]
      /\ \A a \in Seq(Audited), x \in ReplayOutcomes : h[<<a, x>>] = AddLifecycle(a, x)
  <2>1. ASSUME NEW a \in Seq(Audited), NEW x \in ReplayOutcomes
        PROVE  AddLifecycle(a, x) \in Seq(Audited)
    <3>1. Lifecycle(x.id, x.status) \in Seq(Audited)
      BY LifecycleEvents DEF ReplayOutcomes
    <3> QED BY <3>1 DEF AddLifecycle
  <2> QED BY <2>1
<1> HIDE DEF h
<1>2. <<>> \in Seq(Audited)
  OBVIOUS
<1>3. HasValues(Seq(Audited), ReplayOutcomes, h, <<>>)
      /\ \E F : IsFold(Seq(Audited), ReplayOutcomes, h, <<>>, F) /\ EndsValues(Seq(Audited), ReplayOutcomes, h, <<>>, F)
  BY <1>1, <1>2, FoldRuns
<1>4. PICK F : IsFold(Seq(Audited), ReplayOutcomes, h, <<>>, F) /\ EndsValues(Seq(Audited), ReplayOutcomes, h, <<>>, F)
  BY <1>3
<1>5. ASSUME NEW s \in Seq(ReplayOutcomes) PROVE Lifecycles(s) = F[s]
  <2> DEFINE unroll(g) ==
        [t \in SUBSET (DOMAIN s) |->
           IF t = {} THEN <<>> ELSE AddLifecycle(g[t \ {Max(t)}], s[Max(t)])]
  <2>1. PICK g \in [SUBSET (DOMAIN s) -> Seq(Audited)] : Values(h, <<>>, s, g)
    BY <1>3 DEF HasValues
  <2>2. g = unroll(g)
    <3>1. \A t \in SUBSET (DOMAIN s) :
            t # {} => h[<<g[t \ {Max(t)}], s[Max(t)]>>] = AddLifecycle(g[t \ {Max(t)}], s[Max(t)])
      BY <1>1, <2>1, DomainMax
    <3> QED BY <2>1, <3>1 DEF Values
  <2>3. PICK f : f = CHOOSE e : e = unroll(e)
    OBVIOUS
  <2>4. f = unroll(f)
    BY <2>2, <2>3, Zenon
  <2>5. Reaches(Seq(Audited), h, <<>>, s, f)
    <3>1. f[{}] = <<>>
      BY <2>4
    <3>2. ASSUME NEW t \in SUBSET (DOMAIN s), t # {}, f[t \ {Max(t)}] \in Seq(Audited)
          PROVE  f[t] = h[<<f[t \ {Max(t)}], s[Max(t)]>>]
      <4>1. f[t] = AddLifecycle(f[t \ {Max(t)}], s[Max(t)])
        BY <2>4, <3>2
      <4>2. s[Max(t)] \in ReplayOutcomes
        BY <3>2, DomainMax
      <4> QED BY <1>1, <3>2, <4>1, <4>2
    <3> QED BY <3>1, <3>2 DEF Reaches
  <2>6. Lifecycles(s) = f[DOMAIN s]
    BY <2>3, Zenon DEF Lifecycles, FoldLeft, MapThenFoldSet
  <2> QED BY <1>4, <2>5, <2>6 DEF EndsValues
<1>6. <<>> \in Seq(ReplayOutcomes) /\ \A s \in Seq(ReplayOutcomes), x \in ReplayOutcomes : Append(s, x) \in Seq(ReplayOutcomes)
  OBVIOUS
<1>7. \A s \in Seq(ReplayOutcomes) : F[s] \in Seq(Audited)
  BY <1>4 DEF IsFold
<1>8. \A s \in Seq(ReplayOutcomes), x \in ReplayOutcomes : F[Append(s, x)] = AddLifecycle(F[s], x)
  BY <1>1, <1>4, <1>7 DEF IsFold
<1> QED BY <1>4, <1>5, <1>6, <1>7, <1>8 DEF IsFold

LEMMA AppendLast ==
  ASSUME NEW a \in Seq(Audited), NEW b \in Seq(Audited), NEW c \in Audited
  PROVE  Append(a \o b, c) = a \o Append(b, c)
OBVIOUS

\* A lifecycle holds no duplicate: what follows an audit is kept as it is.
LEMMA LifecyclesKept ==
  ASSUME NEW s \in Seq(Audited), NEW t \in Seq(LifecycleNames \X Ids)
  PROVE  WithoutDuplicates(s \o t) = WithoutDuplicates(s) \o t
<1> DEFINE L == LifecycleNames \X Ids
           S == {u \in Seq(L) : WithoutDuplicates(s \o u) = WithoutDuplicates(s) \o u}
<1>1. L \subseteq Audited /\ \A x \in L : x[1] # "DUPLICATE_DELIVERY"
  BY DEF Audited, LifecycleNames
<1> HIDE DEF L
<1>2. Seq(L) \subseteq Seq(Audited) /\ WithoutDuplicates(s) \in Seq(Audited)
  BY <1>1, WithoutDuplicatesFold
<1>3. <<>> \in S
  <2>1. s \o <<>> = s /\ WithoutDuplicates(s) \o <<>> = WithoutDuplicates(s) /\ <<>> \in Seq(L)
    BY <1>2
  <2> QED BY <2>1
<1>4. ASSUME NEW u \in Seq(L), NEW x \in L, u \in S PROVE Append(u, x) \in S
  <2>1. u \in Seq(Audited) /\ x \in Audited /\ x[1] # "DUPLICATE_DELIVERY" /\ s \o u \in Seq(Audited)
    BY <1>1, <1>2
  <2>2. s \o Append(u, x) = Append(s \o u, x)
    BY <2>1
  <2>3. WithoutDuplicates(Append(s \o u, x)) = Append(WithoutDuplicates(s \o u), x)
    BY <2>1, WithoutDuplicatesFold DEF AddUnlessDuplicate
  <2>4. Append(WithoutDuplicates(s) \o u, x) = WithoutDuplicates(s) \o Append(u, x)
    <3>1. WithoutDuplicates(s) \in Seq(Audited) /\ u \in Seq(Audited) /\ x \in Audited
      BY <2>1, <1>2
    <3> QED BY <3>1, AppendLast
  <2>5. Append(u, x) \in Seq(L)
    OBVIOUS
  <2> QED BY <1>4, <2>2, <2>3, <2>4, <2>5
<1>5. Seq(L) \subseteq S
  <2> HIDE DEF S
  <2> QED BY <1>3, <1>4, AllSequences
<1> QED BY <1>5 DEF L

\* What deliveries have led to, while no request of another row came: the
\* requests in their first order, the rest counted, the audit told by the results.
RunTold(ds, r) ==
  /\ WithoutDuplicates(r.audit) = Lifecycles(r.results)
  /\ ~r.raised =>
       /\ FirstIds(ds) = [i \in DOMAIN r.results |-> r.results[i].id]
       /\ DOMAIN r.committed = ToSet(FirstIds(ds))
       /\ r.duplicates + Len(r.results) = Len(ds)

LEMMA DeliverTold ==
  ASSUME NEW ds \in Seq(Deliverable), NEW d \in Deliverable, NEW r \in Runs, NEW failing, RunTold(ds, r)
  PROVE  RunTold(Append(ds, d), Deliver(r, d, failing))
<1> DEFINE next == Deliver(r, d, failing)
<1>0. /\ r.results \in Seq(ReplayOutcomes) /\ r.audit \in Seq(Audited) /\ r.duplicates \in Nat
      /\ Len(Append(ds, d)) = Len(ds) + 1 /\ Len(ds) \in Nat
      /\ FirstIds(ds) \in Seq(Ids) /\ FirstIds(Append(ds, d)) = AddFirst(FirstIds(ds), d)
      /\ d.id \in Ids
  <2>1. r.results \in Seq(ReplayOutcomes) /\ r.audit \in Seq(Audited) /\ r.duplicates \in Nat /\ d.id \in Ids
    BY DEF Runs, Ids
  <2>2. Len(Append(ds, d)) = Len(ds) + 1 /\ Len(ds) \in Nat
    OBVIOUS
  <2>3. FirstIds(ds) \in Seq(Ids) /\ FirstIds(Append(ds, d)) = AddFirst(FirstIds(ds), d)
    BY FirstIdsFold
  <2> QED BY <2>1, <2>2, <2>3
<1>1. CASE r.raised
  <2>1. next = r
    BY <1>1 DEF Deliver
  <2> QED BY <1>1, <2>1 DEF RunTold
<1>2. CASE ~r.raised /\ d.id \notin DOMAIN r.committed
  <2> DEFINE result == [id |-> d.id, event |-> d.event, status |-> Outcome(d, failing)]
  <2>1. next = Evaluated(r, d, failing)
    BY <1>2 DEF Deliver
  <2>2. /\ DOMAIN next.committed = DOMAIN r.committed \cup {d.id}
        /\ next.results = Append(r.results, result)
        /\ next.audit = r.audit \o Lifecycle(d.id, Outcome(d, failing))
        /\ next.duplicates = r.duplicates
    <3> HIDE DEF next
    <3> QED BY <2>1, EvaluatedRun
  <2>3. Outcome(d, failing) \in ReplayStatuses
    BY OutcomeStatus
  <2>4. result \in ReplayOutcomes /\ result.id = d.id /\ result.status = Outcome(d, failing)
    <3>1. d.event \in {e.event : e \in Deliverable}
      OBVIOUS
    <3> QED BY <1>0, <2>3, <3>1 DEF ReplayOutcomes
  <2> HIDE DEF result, next
  <2>5. WithoutDuplicates(next.audit) = Lifecycles(next.results)
    <3>1. Lifecycle(d.id, Outcome(d, failing)) \in Seq(LifecycleNames \X Ids)
      BY <1>0, <2>3, LifecycleEvents
    <3>2. WithoutDuplicates(next.audit) = WithoutDuplicates(r.audit) \o Lifecycle(d.id, Outcome(d, failing))
      BY <1>0, <2>2, <3>1, LifecyclesKept
    <3>3. Lifecycles(next.results) = Lifecycles(r.results) \o Lifecycle(d.id, Outcome(d, failing))
      BY <1>0, <2>2, <2>4, LifecyclesFold DEF AddLifecycle
    <3> QED BY <3>2, <3>3 DEF RunTold
  <2>6. FirstIds(Append(ds, d)) = Append(FirstIds(ds), d.id)
    BY <1>0, <1>2 DEF AddFirst, RunTold
  <2>7. FirstIds(Append(ds, d)) = [i \in DOMAIN next.results |-> next.results[i].id]
    <3>1. PICK n : n = Len(r.results)
      OBVIOUS
    <3>2. /\ n \in Nat /\ DOMAIN r.results = 1..n /\ DOMAIN next.results = 1..(n + 1)
          /\ next.results[n + 1] = result /\ \A i \in 1..n : next.results[i] = r.results[i]
      BY <1>0, <2>2, <2>4, <3>1
    <3>3. /\ Len(FirstIds(ds)) = n /\ \A i \in 1..n : FirstIds(ds)[i] = r.results[i].id
      <4>1. FirstIds(ds) = [i \in 1..n |-> r.results[i].id]
        BY <1>2, <3>2 DEF RunTold
      <4> QED BY <1>0, <3>2, <4>1
    <3>4. \A i \in 1..(n + 1) : Append(FirstIds(ds), d.id)[i] = next.results[i].id
      <4>1. ASSUME NEW i \in 1..(n + 1) PROVE Append(FirstIds(ds), d.id)[i] = next.results[i].id
        <5>1. CASE i = n + 1
          BY <1>0, <2>4, <3>2, <3>3, <5>1
        <5>2. CASE i # n + 1
          <6>1. i \in 1..n
            BY <3>2, <5>2
          <6> QED BY <1>0, <3>2, <3>3, <6>1
        <5> QED BY <5>1, <5>2
      <4> QED BY <4>1
    <3>5. Append(FirstIds(ds), d.id) = [i \in 1..(n + 1) |-> next.results[i].id]
      <4>1. Append(FirstIds(ds), d.id) \in Seq(Ids) /\ Len(Append(FirstIds(ds), d.id)) = n + 1
        <5>1. PICK ids \in Seq(Ids) : ids = FirstIds(ds)
          BY <1>0
        <5>2. d.id \in Ids
          BY DEF Ids
        <5>3. Append(ids, d.id) \in Seq(Ids) /\ Len(Append(ids, d.id)) = n + 1
          BY <3>3, <5>1, <5>2
        <5> QED BY <5>1, <5>3
      <4>2. Append(FirstIds(ds), d.id) = [i \in 1..(n + 1) |-> Append(FirstIds(ds), d.id)[i]]
        BY <4>1
      <4> QED BY <3>4, <4>2
    <3> QED BY <2>6, <3>2, <3>5
  <2>8. DOMAIN next.committed = ToSet(FirstIds(Append(ds, d)))
    <3>1. ToSet(Append(FirstIds(ds), d.id)) = ToSet(FirstIds(ds)) \cup {d.id}
      <4>1. PICK ids \in Seq(Ids) : ids = FirstIds(ds)
        BY <1>0
      <4>2. /\ DOMAIN Append(ids, d.id) = DOMAIN ids \cup {Len(ids) + 1}
            /\ Append(ids, d.id)[Len(ids) + 1] = d.id
            /\ \A i \in DOMAIN ids : Append(ids, d.id)[i] = ids[i]
        BY <1>0
      <4> QED BY <4>1, <4>2 DEF ToSet
    <3> QED BY <1>2, <2>2, <2>6, <3>1 DEF RunTold
  <2>9. next.duplicates + Len(next.results) = Len(Append(ds, d))
    <3>1. Len(next.results) = Len(r.results) + 1 /\ Len(r.results) \in Nat
      BY <1>0, <2>2, <2>4
    <3> QED BY <1>0, <1>2, <2>2, <3>1 DEF RunTold
  <2> QED BY <2>5, <2>7, <2>8, <2>9 DEF RunTold, next
<1>3. CASE ~r.raised /\ d.id \in DOMAIN r.committed
  <2>1. CASE r.committed[d.id] # d
    <3>1. next = [r EXCEPT !.raised = TRUE]
      BY <1>3, <2>1 DEF Deliver
    <3>2. next.raised /\ next.audit = r.audit /\ next.results = r.results
      BY <3>1 DEF Runs
    <3> QED BY <3>2 DEF RunTold
  <2>2. CASE r.committed[d.id] = d
    <3> DEFINE again == <<"DUPLICATE_DELIVERY", d.id>>
    <3>1. next = [r EXCEPT !.duplicates = r.duplicates + 1, !.audit = Append(r.audit, again)]
      BY <1>3, <2>2 DEF Deliver
    <3>2. /\ next.duplicates = r.duplicates + 1 /\ next.audit = Append(r.audit, again)
          /\ next.results = r.results /\ next.committed = r.committed /\ next.raised = r.raised
      BY <3>1 DEF Runs
    <3>3. again \in Audited /\ again[1] = "DUPLICATE_DELIVERY"
      BY DEF Audited, Ids
    <3> HIDE DEF again, next
    <3>4. WithoutDuplicates(Append(r.audit, again)) = WithoutDuplicates(r.audit)
      BY <1>0, <3>3, WithoutDuplicatesFold DEF AddUnlessDuplicate
    <3>5. FirstIds(Append(ds, d)) = FirstIds(ds)
      BY <1>0, <1>3 DEF AddFirst, RunTold
    <3>6. next.duplicates + Len(next.results) = Len(Append(ds, d))
      <4>1. PICK m \in Nat, n \in Nat, k \in Nat : m = Len(r.results) /\ n = Len(ds) /\ k = r.duplicates
        BY <1>0
      <4>2. k + m = n
        BY <1>3, <4>1 DEF RunTold
      <4>3. next.duplicates = k + 1 /\ Len(next.results) = m /\ Len(Append(ds, d)) = n + 1
        BY <1>0, <3>2, <4>1
      <4> QED BY <4>2, <4>3
    <3> QED BY <1>3, <3>2, <3>4, <3>5, <3>6 DEF RunTold, next
  <2> QED BY <2>1, <2>2
<1> QED BY <1>1, <1>2, <1>3 DEF Runs

LEMMA DeliveredTold ==
  ASSUME NEW ds \in Seq(Deliverable), NEW failing
  PROVE  RunTold(ds, Delivered(ds, failing))
<1> DEFINE S == {es \in Seq(Deliverable) : RunTold(es, Delivered(es, failing))}
<1>1. <<>> \in S
  <2>1. /\ NoDelivery.results = <<>> /\ NoDelivery.audit = <<>> /\ ~NoDelivery.raised
        /\ NoDelivery.committed = <<>> /\ NoDelivery.duplicates = 0
    BY DEF NoDelivery
  <2>2. WithoutDuplicates(<<>>) = <<>> /\ Lifecycles(<<>>) = <<>> /\ FirstIds(<<>>) = <<>>
    BY WithoutDuplicatesFold, LifecyclesFold, FirstIdsFold
  <2>3. RunTold(<<>>, NoDelivery)
    BY <2>1, <2>2 DEF RunTold, ToSet
  <2>4. Delivered(<<>>, failing) = NoDelivery /\ <<>> \in Seq(Deliverable)
    BY DeliveredFold
  <2> QED BY <2>3, <2>4
<1>2. ASSUME NEW es \in Seq(Deliverable), NEW d \in Deliverable, es \in S PROVE Append(es, d) \in S
  <2>1. Delivered(es, failing) \in Runs /\ Append(es, d) \in Seq(Deliverable)
        /\ Delivered(Append(es, d), failing) = Deliver(Delivered(es, failing), d, failing)
    <3>1. Append(es, d) \in Seq(Deliverable)
      OBVIOUS
    <3> QED BY <3>1, DeliveredFold
  <2> QED BY <1>2, <2>1, DeliverTold
<1>3. Seq(Deliverable) \subseteq S
  <2> HIDE DEF S
  <2> QED BY <1>1, <1>2, AllSequences
<1> QED BY <1>3

LEMMA DeliveriesHold ==
  ASSUME deliveries \in Seq(Deliverable)
  PROVE  FirstOutcomeStands /\ AuditTellsResults
<1>1. ASSUME NEW failing
      PROVE  LET run == RunDeliveries(deliveries, failing)
                 r == Delivered(deliveries, failing)
             IN /\ r \in Runs /\ RunTold(deliveries, r)
                /\ run.results = r.results /\ run.audit = Append(r.audit, Ended)
                /\ run.duplicates = r.duplicates /\ run.raised = r.raised
  <2>1. Delivered(deliveries, failing) \in Runs /\ RunTold(deliveries, Delivered(deliveries, failing))
    BY DeliveredFold, DeliveredTold
  <2>2. PICK r : r = Delivered(deliveries, failing)
    OBVIOUS
  <2>3. RunDeliveries(deliveries, failing) = [r EXCEPT !.audit = Append(r.audit, Ended)]
    BY <2>2 DEF RunDeliveries, Completed, Ended
  <2> QED BY <2>1, <2>2, <2>3 DEF Runs
<1>2. FirstOutcomeStands
  <2> DEFINE run == RunDeliveries(deliveries, {})
             r == Delivered(deliveries, {})
  <2>1. /\ r \in Runs /\ RunTold(deliveries, r) /\ run.results = r.results
        /\ run.duplicates = r.duplicates /\ run.raised = r.raised
    BY <1>1
  <2> HIDE DEF run, r
  <2>2. ASSUME ~run.raised
        PROVE  /\ [i \in DOMAIN run.results |-> run.results[i].id] = FirstIds(deliveries)
               /\ run.duplicates = Len(deliveries) - Len(run.results)
    <3>1. r.duplicates \in Nat /\ Len(r.results) \in Nat /\ Len(deliveries) \in Nat
      BY <2>1 DEF Runs
    <3>2. r.duplicates + Len(r.results) = Len(deliveries) /\ ~r.raised
      BY <2>1, <2>2 DEF RunTold
    <3>3. r.duplicates = Len(deliveries) - Len(r.results)
      BY <3>1, <3>2
    <3>4. FirstIds(deliveries) = [i \in DOMAIN r.results |-> r.results[i].id]
      BY <2>1, <3>2 DEF RunTold
    <3> QED BY <2>1, <3>3, <3>4
  <2> QED BY <2>2 DEF FirstOutcomeStands, run
<1>3. AuditTellsResults
  <2> SUFFICES ASSUME NEW failing
               PROVE  WithoutDuplicates(RunDeliveries(deliveries, failing).audit)
                      = Told(RunDeliveries(deliveries, failing).results)
    BY DEF AuditTellsResults
  <2> DEFINE r == Delivered(deliveries, failing)
  <2>1. /\ r \in Runs /\ RunTold(deliveries, r) /\ RunDeliveries(deliveries, failing).results = r.results
        /\ RunDeliveries(deliveries, failing).audit = Append(r.audit, Ended)
    BY <1>1
  <2> HIDE DEF r
  <2>2. Ended \in Audited /\ Ended[1] # "DUPLICATE_DELIVERY" /\ r.audit \in Seq(Audited)
    BY <2>1 DEF Ended, Audited, Runs
  <2>3. WithoutDuplicates(Append(r.audit, Ended)) = Append(WithoutDuplicates(r.audit), Ended)
    BY <2>2, WithoutDuplicatesFold DEF AddUnlessDuplicate
  <2> QED BY <2>1, <2>3 DEF RunTold, Told, Completed, Ended
<1> QED BY <1>2, <1>3

LEMMA DeliveriesTyped == OfflineSpec => [](deliveries \in Seq(Deliverable))
<1>1. ReplayInit => deliveries \in Seq(Deliverable)
  BY DEF ReplayInit
<1>2. deliveries \in Seq(Deliverable) /\ [OfflineNext]_replayVars => (deliveries \in Seq(Deliverable))'
  <2> SUFFICES ASSUME deliveries \in Seq(Deliverable), [OfflineNext]_replayVars
               PROVE  deliveries' \in Seq(Deliverable)
    OBVIOUS
  <2>1. CASE \E d \in Deliverable : AddDelivery(d)
    BY <2>1 DEF AddDelivery
  <2>2. CASE ReplayNext
    BY <2>2 DEF ReplayNext, BuildPlan, ExecutePlan, VerifyParity, ReferenceLedger
  <2>3. CASE (Next /\ UNCHANGED <<executed, deliveries>>) \/ UNCHANGED replayVars
    BY <2>3 DEF replayVars
  <2> QED BY <2>1, <2>2, <2>3 DEF OfflineNext
<1> QED BY <1>1, <1>2, PTL DEF OfflineSpec

\* ReplayTold: results, audit and parity tell what was delivered and what came
\* of it, whatever requests come and however often (run_deliveries,
\* inspect_execution, verify_parity).
THEOREM ReplayToldHolds == OfflineSpec => []ReplayTold
<1>1. deliveries \in Seq(Deliverable) /\ ParitySound => ReplayTold
  BY DeliveriesHold DEF ReplayTold
<1> QED
  BY <1>1, DeliveriesTyped, ParitySoundHolds, PTL

-----------------------------------------------------------------------------
(* Recovery: every cutoff has a moment of the source in between.           *)

Contents == [Places -> Nat]

\* What the capture has read since it has seen the running broker.
Quiescent == {"stop", "stopped", "before", "archive", "after"}

\* seen holds contents of places that are among all.
ReadOf(seen, all) == DOMAIN seen \subseteq all /\ \A p \in DOMAIN seen : seen[p] \in Nat

\* seen was read before the moment m of the source, or after it.
ReadBefore(seen, m) == \A p \in DOMAIN seen : seen[p] <= m[p]
ReadAfter(m, seen) == \A p \in DOMAIN seen : m[p] <= seen[p]

\* A moment of the source lies between what c identified and what it stores.
MomentBetween(c, m) ==
  /\ m \in Contents /\ Consistent(m)
  /\ ReadBefore(c.probe, m) /\ ReadBefore(c.live, m)
  /\ ReadAfter(m, c.files) /\ ReadAfter(m, c.volume)
Cutoff ==
  {c \in [probe : [Files -> Nat], live : [Topics -> Nat], files : [Files -> Nat], volume : [Topics -> Nat]] :
     \E m \in Contents : MomentBetween(c, m)}

\* The moment the capture stopped the broker, to which its readings relate.
Captures(m) ==
  /\ m \in Contents /\ Consistent(m)
  /\ DOMAIN read["dependencies"] = Files /\ ReadBefore(read["dependencies"], m)
  /\ DOMAIN read["snapshot"] = Topics /\ ReadBefore(read["snapshot"], m)
  /\ ReadAfter(m, read["before"]) /\ ReadAfter(m, read["archive"])
  /\ \A p \in Places : m[p] <= stored[p]

CaptureOK ==
  /\ step = "idle" => read = Nothing
  /\ step \in {"dependencies", "snapshot"} =>
       /\ read["before"] = NoContent /\ read["archive"] = NoContent
       /\ ReadBefore(read["dependencies"], stored) /\ ReadBefore(read["snapshot"], stored)
  /\ step = "snapshot" => DOMAIN read["dependencies"] = Files
  /\ step \in Quiescent => \E m \in Contents : Captures(m)
  /\ step \in {"archive", "after"} => DOMAIN read["before"] = Files
  /\ step = "after" => DOMAIN read["archive"] = Topics

\* What is staged is a bundle's; until it is resumed its volume is as captured,
\* and its broker runs over it only if it is what was identified.
RehearsalOK(h) ==
  /\ {"bundle", "volume", "broker", "resume"} \subseteq DOMAIN h
  /\ h.bundle.cutoff \in Cutoff
  /\ h.resume = "none" => h.volume = h.bundle.cutoff.volume
  /\ h.broker = TRUE => h.bundle.cutoff.live = h.bundle.cutoff.volume
  /\ h.resume # "none" => h.broker = TRUE

RecoveryInv ==
  /\ stored \in Contents /\ Consistent(stored)
  /\ read = [r \in Readings |-> read[r]]
  /\ \A r \in Readings :
       /\ read[r] = [p \in DOMAIN read[r] |-> read[r][p]]
       /\ ReadOf(read[r], PlacesOf[r])
  /\ CaptureOK
  /\ step \in {"source", "payload", "recheck"} => subject \in Cutoff
  /\ cutoffs \subseteq Cutoff
  /\ \A b \in bundles : b.cutoff \in Cutoff
  /\ rehearsals = [i \in Rehearsals |-> rehearsals[i]]
  /\ \A i \in Staged : RehearsalOK(rehearsals[i])

-----------------------------------------------------------------------------
LEMMA PlaceSets ==
  /\ Places = Files \cup Topics
  /\ Files \cap Topics = {}
  /\ Readings = {"dependencies", "snapshot", "before", "archive", "after", "source", "payload", "recheck"}
  /\ PlacesOf["dependencies"] = Files /\ PlacesOf["snapshot"] = Topics /\ PlacesOf["before"] = Files
  /\ PlacesOf["archive"] = Topics /\ PlacesOf["after"] = Files
  /\ \A r \in Readings : PlacesOf[r] \subseteq Places
<1>1. Readings = {"dependencies", "snapshot", "before", "archive", "after", "source", "payload", "recheck"}
  BY DEF Readings, PlacesOf
<1> QED
  BY <1>1, PlacesAssumption DEF Places, PlacesOf

LEMMA InitInv == RecoveryInit => RecoveryInv
<1> SUFFICES ASSUME RecoveryInit PROVE RecoveryInv
  OBVIOUS
<1>1. stored \in Contents /\ Consistent(stored)
  BY PlacesAssumption DEF RecoveryInit, Contents
<1>2. CaptureOK
  BY DEF RecoveryInit, CaptureOK, Quiescent
<1>3. \A r \in Readings : read[r] = NoContent /\ DOMAIN read[r] = {}
  BY DEF RecoveryInit, Nothing, NoContent
<1>4. Staged = {} /\ rehearsals = [i \in Rehearsals |-> rehearsals[i]]
  BY DEF RecoveryInit, Staged
<1>5. read = [r \in Readings |-> read[r]]
  BY DEF RecoveryInit, Nothing
<1>6. NoContent = [p \in DOMAIN NoContent |-> NoContent[p]]
  BY DEF NoContent
<1> QED
  BY <1>1, <1>2, <1>3, <1>4, <1>5, <1>6 DEF RecoveryInit, RecoveryInv, ReadOf

-----------------------------------------------------------------------------
(* The source goes on.                                                     *)

LEMMA GrownIsConsistent ==
  ASSUME NEW c \in Contents, Consistent(c), NEW p \in Places, MayGrow(c, p)
  PROVE /\ Grown(c, p) \in Contents /\ Consistent(Grown(c, p))
        /\ \A q \in Places : c[q] <= Grown(c, p)[q]
<1>1. Grown(c, p) \in Contents /\ \A q \in Places : Grown(c, p)[q] = IF q = p THEN c[p] + 1 ELSE c[q]
  BY DEF Grown, Contents
<1>2. \A q \in Places : c[q] \in Nat /\ c[q] <= Grown(c, p)[q]
  BY <1>1 DEF Contents
<1>3. ASSUME NEW x \in Places, NEW q \in Needs[x] PROVE Grown(c, p)[x] <= Grown(c, p)[q]
  <2>1. q \in Places /\ c[x] <= c[q]
    BY <1>3, PlacesAssumption DEF Consistent
  <2>2. CASE x = p
    <3>1. c[p] < c[q]
      BY <1>3, <2>2 DEF MayGrow
    <3> QED
      BY <1>1, <1>2, <2>1, <2>2, <3>1
  <2>3. CASE x # p
    BY <1>1, <1>2, <2>1, <2>3
  <2> QED
    BY <2>2, <2>3
<1> QED
  BY <1>1, <1>2, <1>3 DEF Consistent

\* Readings stay older than the source, and the moment of the stop stays past.
LEMMA SourceGoesOn ==
  ASSUME RecoveryInv, stored' \in Contents, \A p \in Places : stored[p] <= stored'[p],
         UNCHANGED <<step, read>>
  PROVE CaptureOK'
<1>1. \A r \in Readings : \A p \in DOMAIN read[r] : p \in Places /\ read[r][p] \in Nat
  BY PlaceSets DEF RecoveryInv, ReadOf
<1>2. \A p \in Places : stored[p] \in Nat /\ stored'[p] \in Nat
  BY DEF RecoveryInv, Contents
<1>3. \A r \in Readings : ReadBefore(read[r], stored) => ReadBefore(read[r], stored')
  <2> SUFFICES ASSUME NEW r \in Readings, ReadBefore(read[r], stored), NEW p \in DOMAIN read[r]
               PROVE read[r][p] <= stored'[p]
    BY DEF ReadBefore
  <2>1. read[r][p] <= stored[p] /\ stored[p] <= stored'[p]
    BY <1>1 DEF ReadBefore
  <2> QED
    BY <1>1, <1>2, <2>1
<1>4. \A m \in Contents : Captures(m) => Captures(m)'
  <2> SUFFICES ASSUME NEW m \in Contents, Captures(m) PROVE Captures(m)'
    OBVIOUS
  <2>1. ASSUME NEW p \in Places PROVE m[p] <= stored'[p]
    <3>1. m[p] \in Nat /\ m[p] <= stored[p] /\ stored[p] <= stored'[p]
      BY DEF Captures, Contents
    <3> QED
      BY <1>2, <3>1
  <2> QED
    BY <2>1 DEF Captures, Consistent, ReadBefore, ReadAfter
<1> QED
  BY <1>3, <1>4, PlaceSets DEF RecoveryInv, CaptureOK, Quiescent, Contents, Places

LEMMA WorkInv ==
  ASSUME RecoveryInv, NEW p \in Places, Work(p)
  PROVE RecoveryInv'
<1>1. stored' = Grown(stored, p) /\ MayGrow(stored, p) /\ stored \in Contents /\ Consistent(stored)
  BY DEF Work, RecoveryInv
<1>2. stored' \in Contents /\ Consistent(stored)' /\ \A q \in Places : stored[q] <= stored'[q]
  BY <1>1, GrownIsConsistent DEF Consistent
<1>3. CaptureOK'
  BY <1>2, SourceGoesOn DEF Work, commandVars
<1> QED
  BY <1>2, <1>3 DEF Work, commandVars, RecoveryInv, Contents, Staged, RehearsalOK, Cutoff, ReadOf, Readings

LEMMA SourceInv ==
  ASSUME RecoveryInv, StartWork \/ EndWork \/ StopSource \/ RestartBroker
  PROVE RecoveryInv'
<1>1. UNCHANGED <<stored, commandVars, cutoffs, bundles, rehearsals>>
  BY DEF StartWork, EndWork, StopSource, RestartBroker
<1> QED
  BY <1>1 DEF commandVars, RecoveryInv, CaptureOK, Captures, Consistent, ReadBefore, ReadAfter, Contents, Staged,
              RehearsalOK, Cutoff, ReadOf

-----------------------------------------------------------------------------
(* The capture.                                                            *)

\* All that a step of a command may change of the invariant.
LEMMA CommandStep ==
  ASSUME RecoveryInv, UNCHANGED <<stored, read>>, CaptureOK',
         step' \in {"source", "payload", "recheck"} => subject' \in Cutoff,
         cutoffs' \subseteq Cutoff, \A b \in bundles' : b.cutoff \in Cutoff, UNCHANGED rehearsals
  PROVE RecoveryInv'
BY DEF RecoveryInv, Consistent, Contents, ReadOf, Staged, RehearsalOK, Cutoff

LEMMA ReadInv ==
  ASSUME RecoveryInv, NEW r \in Readings, Read(r)
  PROVE RecoveryInv'
<1>1. PICK p \in PlacesOf[r] \ DOMAIN read[r] :
        read' = [read EXCEPT ![r] = With(read[r], p, stored[p])]
  BY DEF Read, RecoveryInv
<1>2. step = r /\ UNCHANGED <<stored, step, subject, cutoffs, bundles, rehearsals>>
  BY DEF Read, sourceVars
<1>3. p \in Places /\ stored[p] \in Nat
  BY <1>1, PlaceSets DEF RecoveryInv, Contents
<1>4. /\ read' = [s \in Readings |-> read'[s]]
      /\ \A s \in Readings \ {r} : read'[s] = read[s]
      /\ read'[r] = With(read[r], p, stored[p])
  BY <1>1 DEF RecoveryInv
<1>5. /\ read'[r] = [q \in DOMAIN read'[r] |-> read'[r][q]]
      /\ DOMAIN read'[r] = DOMAIN read[r] \cup {p}
      /\ \A q \in DOMAIN read[r] : read'[r][q] = read[r][q]
      /\ read'[r][p] = stored[p]
  BY <1>1, <1>4 DEF With
<1>6. ReadOf(read'[r], PlacesOf[r])
  BY <1>1, <1>3, <1>5 DEF ReadOf, RecoveryInv
<1>7. \A s \in Readings :
        /\ read'[s] = [q \in DOMAIN read'[s] |-> read'[s][q]]
        /\ ReadOf(read'[s], PlacesOf[s])
  BY <1>4, <1>5, <1>6 DEF RecoveryInv
<1>8. ReadBefore(read[r], stored) => ReadBefore(read'[r], stored)
  BY <1>3, <1>5 DEF ReadBefore
<1>9. \A m \in Contents : Captures(m) /\ ReadAfter(m, read[r]) => ReadAfter(m, read'[r])
  BY <1>3, <1>5 DEF Captures, ReadAfter
<1>10. CaptureOK'
  <2>1. CASE r \in {"dependencies", "snapshot"}
    BY <1>2, <1>4, <1>8, <2>1, PlaceSets DEF RecoveryInv, CaptureOK, Quiescent
  <2>2. CASE r \in {"before", "archive", "after"}
    <3>1. PICK m \in Contents : Captures(m)
      BY <1>2, <2>2 DEF RecoveryInv, CaptureOK, Quiescent
    <3>2. Captures(m)'
      BY <1>2, <1>4, <1>9, <2>2, <3>1, PlaceSets DEF Captures, Consistent
    <3> QED
      BY <1>2, <1>4, <2>2, <3>2, PlaceSets DEF RecoveryInv, CaptureOK, Contents
  <2>3. CASE r \in {"source", "payload", "recheck"}
    BY <1>2, <2>3 DEF CaptureOK, Quiescent
  <2> QED
    BY <2>1, <2>2, <2>3, PlaceSets
<1> QED
  BY <1>2, <1>4, <1>7, <1>10 DEF RecoveryInv, Contents, Consistent, Staged, RehearsalOK, Cutoff

LEMMA CaptureOnInv ==
  ASSUME RecoveryInv, CaptureOn
  PROVE RecoveryInv'
<1>1. UNCHANGED <<stored, read, subject, cutoffs, bundles, rehearsals>>
  BY DEF CaptureOn, Goes, sourceVars
<1>2. step' \in {"snapshot"} \cup Quiescent
  BY DEF CaptureOn, Goes, Quiescent
<1>3. CaptureOK'
  <2>1. CASE Full("dependencies") /\ Goes("snapshot")
    BY <1>1, <2>1, PlaceSets DEF Full, Goes, RecoveryInv, CaptureOK, Quiescent
  <2>2. CASE Full("snapshot") /\ Goes("stop")
    <3>1. Captures(stored)
      BY <2>2, PlaceSets DEF Full, RecoveryInv, CaptureOK, Captures, ReadAfter, NoContent, Contents
    <3>2. Captures(stored)'
      BY <1>1, <3>1 DEF Captures, Consistent, Contents
    <3> QED
      BY <1>1, <2>2, <3>2 DEF Goes, RecoveryInv, CaptureOK
  <2>3. CASE step \in Quiescent
    <3>1. PICK m \in Contents : Captures(m)
      BY <2>3 DEF RecoveryInv, CaptureOK
    <3>2. Captures(m)' /\ m \in Contents'
      BY <1>1, <3>1 DEF Captures, Consistent, Contents
    <3>3. /\ step' \in {"archive", "after"} => DOMAIN read["before"] = Files
          /\ step' = "after" => DOMAIN read["archive"] = Topics
      BY <2>3, PlaceSets DEF CaptureOn, Goes, Full, Quiescent, RecoveryInv, CaptureOK
    <3>4. step' \in Quiescent
      BY <1>2, <2>3 DEF CaptureOn, Goes, Full, Quiescent
    <3> QED
      BY <1>1, <3>2, <3>3, <3>4 DEF CaptureOK, Quiescent
  <2> QED
    BY <2>1, <2>2, <2>3 DEF CaptureOn, Full, Quiescent
<1> QED
  BY <1>1, <1>2, <1>3, CommandStep DEF RecoveryInv, Quiescent

LEMMA StopBrokerInv ==
  ASSUME RecoveryInv, StopBroker
  PROVE RecoveryInv'
<1>1. UNCHANGED <<stored, read, subject, cutoffs, bundles, rehearsals>> /\ step = "stop" /\ step' = "stopped"
  BY DEF StopBroker, Goes
<1>2. CaptureOK'
  BY <1>1 DEF RecoveryInv, CaptureOK, Quiescent, Captures, Consistent, Contents
<1> QED
  BY <1>1, <1>2, CommandStep DEF RecoveryInv

LEMMA EndStep ==
  ASSUME RecoveryInv, EndsCommand, UNCHANGED <<stored, rehearsals>>,
         cutoffs' \subseteq Cutoff, \A b \in bundles' : b.cutoff \in Cutoff
  PROVE RecoveryInv'
<1>1. CaptureOK'
  BY DEF EndsCommand, CaptureOK, Quiescent
<1>2. \A r \in Readings : read'[r] = NoContent
  BY DEF EndsCommand, Nothing
<1>3. /\ read' = [r \in Readings |-> read'[r]]
      /\ NoContent = [p \in DOMAIN NoContent |-> NoContent[p]] /\ DOMAIN NoContent = {}
  BY DEF EndsCommand, Nothing, NoContent
<1>4. \A r \in Readings : read'[r] = [p \in DOMAIN read'[r] |-> read'[r][p]] /\ ReadOf(read'[r], PlacesOf[r])
  BY <1>2, <1>3 DEF ReadOf
<1>5. Consistent(stored)' /\ (\A i \in Staged' : RehearsalOK(rehearsals'[i]))
  BY DEF RecoveryInv, Consistent, Staged
<1> QED
  BY <1>1, <1>3, <1>4, <1>5 DEF EndsCommand, RecoveryInv

\* What the capture publishes has a moment of the source in between.
LEMMA PublishCutoffInv ==
  ASSUME RecoveryInv, PublishCutoff
  PROVE RecoveryInv'
<1> DEFINE c == [probe |-> read["dependencies"], live |-> read["snapshot"],
                 files |-> read["before"], volume |-> read["archive"]]
<1>1. PICK m \in Contents : Captures(m)
  BY DEF PublishCutoff, Full, RecoveryInv, CaptureOK, Quiescent
<1>2. DOMAIN read["before"] = Files /\ DOMAIN read["archive"] = Topics
  BY DEF PublishCutoff, Full, RecoveryInv, CaptureOK
<1>3. /\ read["dependencies"] \in [Files -> Nat] /\ read["snapshot"] \in [Topics -> Nat]
      /\ read["before"] \in [Files -> Nat] /\ read["archive"] \in [Topics -> Nat]
  BY <1>1, <1>2, PlaceSets DEF Captures, RecoveryInv, ReadOf
<1>4. MomentBetween(c, m)
  BY <1>1 DEF MomentBetween, Captures
<1>5. c \in Cutoff
  BY <1>3, <1>4 DEF Cutoff
<1>6. cutoffs' = cutoffs \cup {c}
  BY DEF PublishCutoff
<1> QED
  BY <1>5, <1>6, EndStep DEF PublishCutoff, RecoveryInv, sourceVars

\* The other steps of commands: they begin, end, or go on from a cutoff.
LEMMA CommandInv ==
  ASSUME RecoveryInv,
         \/ StartCapture \/ Exit \/ (\E c \in cutoffs : StartBuild(c)) \/ BuildOn \/ PublishBundle
         \/ (\E b \in bundles, n \in Roots : StartRestore(b, n)) \/ Extract
  PROVE RecoveryInv'
<1>1. CASE StartCapture
  <2>1. /\ UNCHANGED <<stored, read, cutoffs, bundles, rehearsals>> /\ step' = "dependencies"
        /\ read = Nothing
    BY <1>1 DEF StartCapture, Begins, sourceVars, RecoveryInv, CaptureOK
  <2>2. /\ read["before"] = NoContent /\ read["archive"] = NoContent
        /\ read["dependencies"] = NoContent /\ read["snapshot"] = NoContent /\ DOMAIN NoContent = {}
    BY <2>1, PlaceSets DEF Nothing, NoContent
  <2>3. CaptureOK'
    BY <2>1, <2>2 DEF CaptureOK, Quiescent, ReadBefore
  <2> QED
    BY <2>1, <2>3, CommandStep DEF RecoveryInv
<1>2. CASE Exit
  BY <1>2, EndStep DEF Exit, RecoveryInv, sourceVars
<1>3. ASSUME NEW c \in cutoffs, StartBuild(c) PROVE RecoveryInv'
  <2>1. UNCHANGED <<stored, read, cutoffs, bundles, rehearsals>> /\ step' = "source" /\ subject' = c
    BY <1>3 DEF StartBuild, Begins, sourceVars
  <2>2. CaptureOK' /\ c \in Cutoff
    BY <1>3, <2>1 DEF RecoveryInv, CaptureOK, Quiescent
  <2> QED
    BY <2>1, <2>2, CommandStep DEF RecoveryInv
<1>4. CASE BuildOn
  <2>1. /\ UNCHANGED <<stored, read, subject, cutoffs, bundles, rehearsals>>
        /\ step \in {"source", "payload"} /\ step' \in {"payload", "recheck"}
    BY <1>4 DEF BuildOn, Goes, Full, sourceVars
  <2>2. CaptureOK'
    BY <2>1 DEF CaptureOK, Quiescent
  <2> QED
    BY <2>1, <2>2, CommandStep DEF RecoveryInv
<1>5. CASE PublishBundle
  <2>1. /\ bundles' = bundles \cup {[cutoff |-> subject, payload |-> read["payload"]]}
        /\ step = "recheck" /\ EndsCommand /\ UNCHANGED <<stored, cutoffs, rehearsals>>
    BY <1>5 DEF PublishBundle, Full, sourceVars
  <2>2. \A b \in bundles' : b.cutoff \in Cutoff
    BY <2>1 DEF RecoveryInv
  <2> QED
    BY <2>1, <2>2, EndStep DEF RecoveryInv
<1>6. ASSUME NEW b \in bundles, NEW n \in Roots, StartRestore(b, n) PROVE RecoveryInv'
  <2>1. UNCHANGED <<stored, read, cutoffs, bundles, rehearsals>> /\ step' = "extract"
    BY <1>6 DEF StartRestore, Begins, sourceVars
  <2>2. CaptureOK'
    BY <2>1 DEF CaptureOK, Quiescent
  <2> QED
    BY <2>1, <2>2, CommandStep DEF RecoveryInv
<1>7. CASE Extract
  <2>1. UNCHANGED <<stored, read, cutoffs, bundles, rehearsals, step, subject>> /\ step = "extract"
    BY <1>7 DEF Extract, sourceVars, commandVars
  <2>2. CaptureOK'
    BY <2>1 DEF CaptureOK, Quiescent
  <2> QED
    BY <2>1, <2>2, CommandStep DEF RecoveryInv
<1> QED
  BY <1>1, <1>2, <1>3, <1>4, <1>5, <1>6, <1>7

-----------------------------------------------------------------------------
(* Rehearsals.                                                             *)

\* A step that leaves all but one rehearsal as it is.
LEMMA RehearsalStep ==
  ASSUME RecoveryInv, NEW i \in Rehearsals, NEW h, RehearsalOK(h),
         rehearsals' = [rehearsals EXCEPT ![i] = h],
         UNCHANGED <<sourceVars, commandVars, cutoffs, bundles>>
  PROVE RecoveryInv'
<1>1. CaptureOK'
  BY DEF sourceVars, commandVars, RecoveryInv, CaptureOK, Captures, Consistent, ReadBefore, ReadAfter, Contents
<1>2. /\ rehearsals' = [j \in Rehearsals |-> rehearsals'[j]]
      /\ \A j \in Staged' : RehearsalOK(rehearsals'[j])
  BY DEF RecoveryInv, Staged
<1>3. UNCHANGED <<stored, step, read, subject, cutoffs, bundles>>
  BY DEF sourceVars, commandVars
<1>4. Consistent(stored)'
  BY <1>3 DEF RecoveryInv, Consistent
<1> QED
  BY <1>1, <1>2, <1>3, <1>4 DEF RecoveryInv, ReadOf

LEMMA StageInv ==
  ASSUME RecoveryInv, NEW i \in Rehearsals, NEW b \in bundles, NEW n \in Roots, Stage(i, b, n)
  PROVE RecoveryInv'
<1>1. RehearsalOK(Prepared(b, n))
  BY DEF RehearsalOK, Prepared, RecoveryInv
<1> QED
  BY <1>1, RehearsalStep DEF Stage

LEMMA RehearsesInv ==
  ASSUME RecoveryInv, NEW i \in Staged,
         Preflight(i) \/ StartRestored(i) \/ Resume(i) \/ EndResume(i) \/ Finish(i)
  PROVE RecoveryInv'
<1> DEFINE h == rehearsals[i]
<1>1. i \in Rehearsals /\ RehearsalOK(h)
  BY DEF Staged, RecoveryInv
<1>2. ASSUME NEW g, RehearsalOK(g), Rehearses(i, g) PROVE RecoveryInv'
  BY <1>1, <1>2, RehearsalStep DEF Rehearses
<1>3. CASE Preflight(i)
  <2>1. PICK result \in {"refused", "passed"} : Rehearses(i, [h EXCEPT !.preflight = result])
    BY <1>3 DEF Preflight
  <2>2. RehearsalOK([h EXCEPT !.preflight = result])
    BY <1>1 DEF RehearsalOK
  <2> QED
    BY <1>2, <2>1, <2>2
<1>4. CASE StartRestored(i)
  <2>1. ~h.broker /\ h.volume = h.bundle.cutoff.live /\ Rehearses(i, [h EXCEPT !.broker = TRUE])
    BY <1>4 DEF StartRestored
  <2>2. RehearsalOK([h EXCEPT !.broker = TRUE])
    BY <1>1, <2>1 DEF RehearsalOK
  <2> QED
    BY <1>2, <2>1, <2>2
<1>5. CASE Resume(i)
  <2>1. PICK result \in {"refused", "running"} : h.broker /\ Rehearses(i, [h EXCEPT !.resume = result])
    BY <1>5 DEF Resume
  <2>2. RehearsalOK([h EXCEPT !.resume = result])
    BY <1>1, <2>1 DEF RehearsalOK
  <2> QED
    BY <1>2, <2>1, <2>2
<1>6. CASE EndResume(i)
  <2>1. /\ h.resume = "running" /\ rehearsals' = [rehearsals EXCEPT ![i] = [h EXCEPT !.resume = "resumed"]]
        /\ UNCHANGED <<sourceVars, commandVars, cutoffs, bundles>>
    BY <1>1, <1>6 DEF EndResume, RecoveryInv
  <2>2. RehearsalOK([h EXCEPT !.resume = "resumed"])
    BY <1>1, <2>1 DEF RehearsalOK
  <2> QED
    BY <1>1, <2>1, <2>2, RehearsalStep
<1>7. CASE Finish(i)
  <2>1. Rehearses(i, [h EXCEPT !.finished = TRUE])
    BY <1>7 DEF Finish
  <2>2. RehearsalOK([h EXCEPT !.finished = TRUE])
    BY <1>1 DEF RehearsalOK
  <2> QED
    BY <1>2, <2>1, <2>2
<1> QED
  BY <1>3, <1>4, <1>5, <1>6, <1>7

LEMMA ResumedWorkInv ==
  ASSUME RecoveryInv, NEW i \in Staged, NEW p \in Places, ResumedWork(i, p)
  PROVE RecoveryInv'
<1> DEFINE h == rehearsals[i]
<1>1. i \in Rehearsals /\ RehearsalOK(h) /\ h.resume = "running"
  BY DEF Staged, RecoveryInv, ResumedWork
<1>2. UNCHANGED <<sourceVars, commandVars, cutoffs, bundles>>
  BY DEF ResumedWork
<1>3. CASE p \in Files
  <2>1. rehearsals' = [rehearsals EXCEPT ![i] = h]
    BY <1>3 DEF ResumedWork, RecoveryInv
  <2> QED
    BY <1>1, <1>2, <2>1, RehearsalStep
<1>4. CASE p \notin Files
  <2>1. rehearsals' = [rehearsals EXCEPT ![i] = [h EXCEPT !.volume = Grown(h.volume, p)]]
    BY <1>1, <1>4 DEF ResumedWork, RecoveryInv, RehearsalOK
  <2>2. RehearsalOK([h EXCEPT !.volume = Grown(h.volume, p)])
    BY <1>1 DEF RehearsalOK
  <2> QED
    BY <1>1, <1>2, <2>1, <2>2, RehearsalStep
<1> QED
  BY <1>3, <1>4

-----------------------------------------------------------------------------
LEMMA NextInv ==
  ASSUME RecoveryInv, [RecoveryNext]_recoveryVars
  PROVE RecoveryInv'
<1>1. CASE UNCHANGED recoveryVars
  BY <1>1 DEF recoveryVars, sourceVars, commandVars, RecoveryInv, CaptureOK, Captures, Consistent, ReadBefore, ReadAfter,
              Contents, ReadOf, Staged, RehearsalOK, Cutoff
<1> QED
  BY <1>1, SourceInv, WorkInv, ReadInv, CommandInv, CaptureOnInv, StopBrokerInv, PublishCutoffInv, StageInv,
     RehearsesInv, ResumedWorkInv DEF RecoveryNext

\* Files as stored and as identified, and a volume as archived and as identified,
\* leave the moment in between no choice.
LEMMA ResumedIsOneInstant ==
  ASSUME RecoveryInv, NEW i \in Staged, Resume(i), rehearsals'[i].resume = "running"
  PROVE Consistent(Restored(rehearsals[i]))
<1> DEFINE h == rehearsals[i]
           c == h.bundle.cutoff
<1>1. i \in Rehearsals /\ RehearsalOK(h) /\ h.broker /\ h.resume = "none"
  BY DEF Staged, RecoveryInv, Resume
<1>2. c \in Cutoff /\ h.volume = c.volume /\ c.live = c.volume
  BY <1>1 DEF RehearsalOK
<1>3. roots[h.root] = c.files /\ roots[h.root] = c.probe
  <2>1. PICK result \in {"refused", "running"} :
          (result = "running" => InspectRestored(h)) /\ Rehearses(i, [h EXCEPT !.resume = result])
    BY DEF Resume
  <2>2. rehearsals'[i].resume = result
    BY <1>1, <2>1 DEF Rehearses, RecoveryInv, RehearsalOK
  <2> QED
    BY <2>1, <2>2 DEF InspectRestored
<1>4. PICK m \in Contents : MomentBetween(c, m)
  BY <1>2 DEF Cutoff
<1>5. /\ c.probe \in [Files -> Nat] /\ c.live \in [Topics -> Nat]
      /\ c.files \in [Files -> Nat] /\ c.volume \in [Topics -> Nat]
  BY <1>2 DEF Cutoff
<1>6. ASSUME NEW p \in Places PROVE Restored(h)[p] = m[p]
  <2>1. m[p] \in Nat
    BY <1>4 DEF Contents
  <2>2. CASE p \in Files
    <3>1. c.files[p] = c.probe[p] /\ c.probe[p] <= m[p] /\ m[p] <= c.files[p] /\ c.probe[p] \in Nat
      BY <1>3, <1>4, <1>5, <2>2 DEF MomentBetween, ReadBefore, ReadAfter
    <3> QED
      BY <1>3, <2>1, <2>2, <3>1 DEF Restored
  <2>3. CASE p \notin Files
    <3>1. p \in Topics
      BY <2>3, PlaceSets
    <3>2. c.live[p] <= m[p] /\ m[p] <= c.volume[p] /\ c.live[p] = c.volume[p] /\ c.live[p] \in Nat
      BY <1>2, <1>4, <1>5, <3>1 DEF MomentBetween, ReadBefore, ReadAfter
    <3> QED
      BY <1>2, <2>1, <2>3, <3>2 DEF Restored
  <2> QED
    BY <2>2, <2>3
<1> QED
  BY <1>4, <1>6, PlacesAssumption DEF MomentBetween, Consistent

\* Only Resume makes a rehearsal resume.
LEMMA OnlyResume ==
  ASSUME RecoveryInv, [RecoveryNext]_recoveryVars, NEW i \in Staged,
         rehearsals[i].resume = "none", rehearsals'[i].resume = "running"
  PROVE Resume(i)
<1> USE DEF Staged, Rehearses, RecoveryInv, RehearsalOK
<1>1. rehearsals' # rehearsals
  OBVIOUS
<1>2. ASSUME NEW j \in Rehearsals, NEW b \in bundles, NEW n \in Roots, Stage(j, b, n) PROVE FALSE
  BY <1>2 DEF Stage
<1>3. ASSUME NEW j \in Staged, Preflight(j) \/ StartRestored(j) \/ Finish(j) PROVE FALSE
  BY <1>3 DEF Preflight, StartRestored, Finish
<1>4. ASSUME NEW j \in Staged, EndResume(j) \/ (\E p \in Places : ResumedWork(j, p)) PROVE FALSE
  BY <1>4 DEF EndResume, ResumedWork
<1>5. ASSUME NEW j \in Staged, Resume(j) PROVE j = i
  BY <1>5 DEF Resume
<1>6. \/ \E j \in Rehearsals, b \in bundles, n \in Roots : Stage(j, b, n)
      \/ \E k \in Staged :
           \/ Preflight(k) \/ StartRestored(k) \/ Resume(k) \/ EndResume(k) \/ Finish(k)
           \/ \E p \in Places : ResumedWork(k, p)
  BY <1>1 DEF RecoveryNext, recoveryVars, StartWork, Work, EndWork, StopSource, RestartBroker, Read, Exit, StartCapture,
              CaptureOn, StopBroker, PublishCutoff, StartBuild, BuildOn, PublishBundle, StartRestore, Extract
<1> QED
  BY <1>2, <1>3, <1>4, <1>5, <1>6

-----------------------------------------------------------------------------
\* A moment of the source lies between what every complete cutoff identified and
\* what it stores, however commands, captures and restarts interleave.
THEOREM RecoveryInvariant == RecoverySpec => []RecoveryInv
BY InitInv, NextInv, PTL DEF RecoverySpec

\* Recovery: commands are only resumed over copies of one moment of the source.
THEOREM ResumesOneInstantHolds == RecoverySpec => ResumesOneInstant
<1>1. RecoveryInv /\ [RecoveryNext]_recoveryVars =>
        [\A i \in Staged : rehearsals[i].resume = "none" /\ rehearsals'[i].resume = "running" =>
           Consistent(Restored(rehearsals[i]))]_recoveryVars
  BY OnlyResume, ResumedIsOneInstant
<1> QED
  BY <1>1, RecoveryInvariant, PTL DEF RecoverySpec, ResumesOneInstant

-----------------------------------------------------------------------------
(* Distributions: sorted populations. *)

Ascending(s) == \A i, j \in DOMAIN s : i < j => s[i] <= s[j]

\* The numbers of a set of which f orders a given one last, ties by the number.
UpToRank(f, S, i) == {j \in S : f[j] < f[i] \/ (f[j] = f[i] /\ j <= i)}

LEMMA RanksOf ==
  ASSUME NEW S \in SUBSET Int, IsFiniteSet(S), NEW f, \A i \in S : f[i] \in Int
  PROVE  \E p \in [1..Cardinality(S) -> S] :
           /\ {p[k] : k \in 1..Cardinality(S)} = S
           /\ \A k \in 1..Cardinality(S) : Cardinality(UpToRank(f, S, p[k])) = k
           /\ \A i, j \in 1..Cardinality(S) : i < j => f[p[i]] <= f[p[j]]
<1> DEFINE R == {q \in S \X S : f[q[1]] < f[q[2]] \/ (f[q[1]] = f[q[2]] /\ q[1] < q[2])}
<1>1. \A x, y \in S : <<x, y>> \in R <=> f[x] < f[y] \/ (f[x] = f[y] /\ x < y)
  OBVIOUS
<1> HIDE DEF R
<1>2. Orders(R, S)
  <2>1. \A x \in S : f[x] \in Int /\ x \in Int
    OBVIOUS
  <2>2. \A x \in S : <<x, x>> \notin R
    BY <1>1, <2>1
  <2>3. \A x, y \in S : x # y => <<x, y>> \in R \/ <<y, x>> \in R
    BY <1>1, <2>1
  <2>4. \A x, y, z \in S : <<x, y>> \in R /\ <<y, z>> \in R => <<x, z>> \in R
    BY <1>1, <2>1
  <2> QED BY <2>2, <2>3, <2>4 DEF Orders
<1>3. PICK p : InOrderOf(p, S, R)
  BY <1>2, OrderedElements
<1> DEFINE n == Cardinality(S)
<1>4. n \in Nat
  BY FS_CardinalityType
<1> HIDE DEF n
<1>5. p \in [1..n -> S] /\ {p[k] : k \in 1..n} = S /\ \A i, j \in 1..n : i < j => <<p[i], p[j]>> \in R
  BY <1>3 DEF InOrderOf, n
<1>6. \A i, j \in 1..n : i < j => f[p[i]] < f[p[j]] \/ (f[p[i]] = f[p[j]] /\ p[i] < p[j])
  <2>1. SUFFICES ASSUME NEW i \in 1..n, NEW j \in 1..n, i < j
                 PROVE  f[p[i]] < f[p[j]] \/ (f[p[i]] = f[p[j]] /\ p[i] < p[j])
    OBVIOUS
  <2>2. p[i] \in S /\ p[j] \in S /\ <<p[i], p[j]>> \in R
    BY <1>5, <2>1
  <2> QED BY <1>1, <2>2
<1>7. \A k \in 1..n : p[k] \in S /\ p[k] \in Int /\ f[p[k]] \in Int
  BY <1>5
<1>8. ASSUME NEW k \in 1..n PROVE Cardinality(UpToRank(f, S, p[k])) = k
  <2> DEFINE T == UpToRank(f, S, p[k])
             b == [i \in 1..k |-> p[i]]
  <2>1. \A i \in 1..k : i \in 1..n
    BY <1>4
  <2>2. \A i \in 1..k : p[i] \in T
    <3>1. SUFFICES ASSUME NEW i \in 1..k PROVE p[i] \in T
      OBVIOUS
    <3>2. i \in 1..n /\ i <= k
      BY <2>1
    <3>3. i = k \/ f[p[i]] < f[p[k]] \/ (f[p[i]] = f[p[k]] /\ p[i] < p[k])
      BY <1>6, <3>2
    <3> QED BY <1>7, <3>2, <3>3 DEF UpToRank
  <2>3. \A x \in T : \E i \in 1..k : p[i] = x
    <3>1. SUFFICES ASSUME NEW x \in T PROVE \E i \in 1..k : p[i] = x
      OBVIOUS
    <3>2. x \in S /\ (f[x] < f[p[k]] \/ (f[x] = f[p[k]] /\ x <= p[k]))
      BY DEF UpToRank
    <3>3. PICK i \in 1..n : p[i] = x
      BY <1>5, <3>2
    <3>4. ~(k < i)
      BY <1>6, <1>7, <3>2, <3>3
    <3>5. i \in 1..k
      BY <1>4, <3>4
    <3> QED BY <3>3, <3>5
  <2>4. \A i, j \in 1..k : p[i] = p[j] => i = j
    <3>1. SUFFICES ASSUME NEW i \in 1..k, NEW j \in 1..k, p[i] = p[j], i # j PROVE FALSE
      OBVIOUS
    <3>2. i \in 1..n /\ j \in 1..n /\ (i < j \/ j < i)
      BY <2>1, <3>1
    <3> QED BY <1>6, <1>7, <3>1, <3>2
  <2> HIDE DEF T
  <2>5. b \in Bijection(1..k, T)
    <3>1. b \in [1..k -> T]
      BY <2>2
    <3>2. \A x \in T : \E i \in 1..k : b[i] = x
      BY <2>3
    <3>3. \A i, j \in 1..k : b[i] = b[j] => i = j
      BY <2>4
    <3> HIDE DEF b
    <3> QED BY <3>1, <3>2, <3>3 DEF Bijection, Injection, Surjection, IsInjective
  <2>6. IsFiniteSet(1..k) /\ Cardinality(1..k) = k
    BY <1>4, FS_Interval
  <2>7. Cardinality(T) = Cardinality(1..k)
    BY <2>5, <2>6, FS_Bijection DEF ExistsBijection
  <2> QED BY <2>6, <2>7 DEF T
<1>9. \A i, j \in 1..n : i < j => f[p[i]] <= f[p[j]]
  BY <1>6, <1>7
<1> QED BY <1>5, <1>8, <1>9 DEF n

LEMMA SortedValues ==
  ASSUME NEW S \in SUBSET Int, IsFiniteSet(S), NEW f, \A i \in S : f[i] \in Int
  PROVE  /\ Sorted(f, S) \in Seq(Int) /\ Len(Sorted(f, S)) = Cardinality(S)
         /\ Ascending(Sorted(f, S))
         /\ ToSet(Sorted(f, S)) = {f[i] : i \in S}
<1> DEFINE n == Cardinality(S)
<1>1. n \in Nat
  BY FS_CardinalityType
<1>2. PICK p \in [1..n -> S] :
           /\ {p[k] : k \in 1..n} = S
           /\ \A k \in 1..n : Cardinality(UpToRank(f, S, p[k])) = k
           /\ \A i, j \in 1..n : i < j => f[p[i]] <= f[p[j]]
  BY RanksOf
<1>3. Sorted(f, S) = [k \in 1..n |-> f[CHOOSE i \in S : Cardinality(UpToRank(f, S, i)) = k]]
  BY Zenon DEF Sorted, UpToRank
<1> HIDE DEF n
<1>4. ASSUME NEW k \in 1..n PROVE (CHOOSE i \in S : Cardinality(UpToRank(f, S, i)) = k) = p[k]
  <2>1. p[k] \in S /\ Cardinality(UpToRank(f, S, p[k])) = k
    BY <1>2
  <2>2. PICK i : i = CHOOSE x \in S : Cardinality(UpToRank(f, S, x)) = k
    OBVIOUS
  <2>3. i \in S /\ Cardinality(UpToRank(f, S, i)) = k
    BY <2>1, <2>2, Zenon
  <2>4. PICK j \in 1..n : p[j] = i
    BY <1>2, <2>3
  <2>5. j = k
    BY <1>2, <2>3, <2>4
  <2> QED BY <2>2, <2>4, <2>5
<1>5. Sorted(f, S) = [k \in 1..n |-> f[p[k]]]
  BY <1>3, <1>4
<1>6. \A k \in 1..n : p[k] \in S /\ f[p[k]] \in Int
  BY <1>2
<1>7. PICK s : s = Sorted(f, S)
  OBVIOUS
<1>8. s \in Seq(Int) /\ Len(s) = n /\ DOMAIN s = 1..n /\ \A k \in 1..n : s[k] = f[p[k]]
  BY <1>1, <1>5, <1>6, <1>7
<1>9. Ascending(s)
  <2>1. SUFFICES ASSUME NEW i \in 1..n, NEW j \in 1..n, i < j PROVE s[i] <= s[j]
    BY <1>8 DEF Ascending
  <2>2. f[p[i]] <= f[p[j]]
    BY <1>2, <2>1
  <2> QED BY <1>8, <2>2
<1>10. ToSet(s) = {f[i] : i \in S}
  <2>1. ToSet(s) = {s[k] : k \in 1..n}
    BY <1>8 DEF ToSet
  <2>2. \A k \in 1..n : s[k] \in {f[i] : i \in S}
    BY <1>6, <1>8
  <2>3. \A i \in S : \E k \in 1..n : s[k] = f[i]
    <3>1. \A i \in S : \E k \in 1..n : p[k] = i
      BY <1>2
    <3> QED BY <1>8, <3>1
  <2> QED BY <2>1, <2>2, <2>3
<1> QED BY <1>7, <1>8, <1>9, <1>10 DEF n

\* How many values of an ascending sequence are up to v.
LEMMA UpToPrefix ==
  ASSUME NEW s \in Seq(Int), Ascending(s), NEW v \in Int
  PROVE  /\ UpTo(s, v) \in 0..Len(s)
         /\ \A j \in 1..Len(s) : s[j] <= v <=> j <= UpTo(s, v)
<1> DEFINE T == {j \in 1..Len(s) : s[j] <= v}
<1>1. Len(s) \in Nat /\ DOMAIN s = 1..Len(s) /\ \A j \in 1..Len(s) : s[j] \in Int
  OBVIOUS
<1>2. \E c \in 0..Len(s) : \A j \in 1..Len(s) : s[j] <= v <=> j <= c
  <2>1. CASE T = {}
    <3>1. 0 \in 0..Len(s) /\ \A j \in 1..Len(s) : ~(s[j] <= v) /\ ~(j <= 0)
      BY <1>1, <2>1
    <3> QED BY <3>1
  <2>2. CASE T # {}
    <3>1. T \in SUBSET (0..Len(s))
      BY <1>1
    <3> DEFINE c == Max(T)
    <3>2. c \in T /\ \A y \in T : y <= c
      <4> HIDE DEF T
      <4> QED BY <1>1, <2>2, <3>1, BoundedMax
    <3> HIDE DEF c
    <3>3. c \in 1..Len(s) /\ s[c] <= v
      BY <3>2
    <3>4. ASSUME NEW j \in 1..Len(s) PROVE s[j] <= v <=> j <= c
      <4>1. s[j] <= v => j <= c
        BY <3>2
      <4>2. j < c => s[j] <= s[c]
        BY <1>1, <3>3 DEF Ascending
      <4>3. j <= c => s[j] <= v
        BY <1>1, <3>3, <4>2
      <4> QED BY <4>1, <4>3
    <3>5. c \in 0..Len(s)
      BY <3>3
    <3> QED BY <3>4, <3>5
  <2> QED BY <2>1, <2>2
<1>3. PICK c \in 0..Len(s) : \A j \in 1..Len(s) : s[j] <= v <=> j <= c
  BY <1>2
<1>4. UpTo(s, v) = c
  <2>1. {i \in DOMAIN s : s[i] <= v} = 1..c
    BY <1>1, <1>3
  <2>2. Cardinality(1..c) = c
    BY <1>1, <1>3, FS_Interval
  <2> QED BY <2>1, <2>2 DEF UpTo
<1> QED BY <1>3, <1>4

\* The walk passes all values up to the next one.
LEMMA AdvancePasses ==
  ASSUME NEW s \in Seq(Int), Ascending(s), NEW v \in Int, NEW i \in 0..Len(s), i <= UpTo(s, v)
  PROVE  Advance(s, i, v) = UpTo(s, v)
<1> DEFINE c == UpTo(s, v)
           T == {i} \cup {k \in i .. Len(s) : \A j \in (i + 1) .. k : s[j] <= v}
<1>1. c \in 0..Len(s) /\ \A j \in 1..Len(s) : s[j] <= v <=> j <= c
  BY UpToPrefix
<1>2. Len(s) \in Nat
  OBVIOUS
<1> HIDE DEF c
<1>3. i <= c
  BY DEF c
<1>4. c \in T
  <2>1. c \in i..Len(s)
    BY <1>1, <1>2, <1>3
  <2>2. \A j \in (i + 1)..c : j \in 1..Len(s) /\ j <= c
    BY <1>1, <1>2
  <2> QED BY <1>1, <2>1, <2>2
<1>5. \A k \in T : k <= c
  <2>1. SUFFICES ASSUME NEW k \in i..Len(s), \A j \in (i + 1)..k : s[j] <= v, c < k PROVE FALSE
    BY <1>1, <1>2, <1>3
  <2>2. k \in (i + 1)..k /\ k \in 1..Len(s)
    BY <1>1, <1>2, <1>3, <2>1
  <2> QED BY <1>1, <2>1, <2>2
<1>6. T \in SUBSET (0..Len(s))
  BY <1>2
<1> HIDE DEF T
<1>7. Max(T) \in T /\ \A y \in T : y <= Max(T)
  BY <1>2, <1>4, <1>6, BoundedMax
<1>8. Max(T) = c
  <2>1. PICK m : m = Max(T)
    OBVIOUS
  <2>2. m \in 0..Len(s) /\ c \in 0..Len(s) /\ c <= m /\ m <= c
    BY <1>1, <1>4, <1>5, <1>6, <1>7, <2>1
  <2> QED BY <1>2, <2>1, <2>2
<1> QED BY <1>8 DEF T, c, Advance

LEMMA AdvanceInside ==
  ASSUME NEW s \in Seq(Int), NEW v \in Int, NEW i \in 0..Len(s)
  PROVE  Advance(s, i, v) \in 0..Len(s)
<1> DEFINE T == {i} \cup {k \in i .. Len(s) : \A j \in (i + 1) .. k : s[j] <= v}
<1>1. Len(s) \in Nat
  OBVIOUS
<1>2. T \in SUBSET (0..Len(s)) /\ T # {}
  BY <1>1
<1> HIDE DEF T
<1>3. Max(T) \in T
  BY <1>1, <1>2, BoundedMax
<1> QED BY <1>2, <1>3 DEF T, Advance

\* The greatest element is the maximum.
LEMMA GreatestIsMax ==
  ASSUME NEW S \in SUBSET Int, NEW m \in S, \A y \in S : y <= m
  PROVE  Max(S) = m
<1>1. \A y \in S : m >= y
  OBVIOUS
<1>2. PICK x : x = Max(S)
  OBVIOUS
<1>3. x \in S /\ \A y \in S : x >= y
  BY <1>1, <1>2, Zenon DEF Max
<1>4. x \in Int /\ m \in Int /\ x <= m /\ m <= x
  BY <1>3
<1> QED BY <1>2, <1>4

LEMMA MaxOfTwo ==
  ASSUME NEW a \in Int, NEW b \in Int
  PROVE  /\ Max({a, b}) \in {a, b} /\ a <= Max({a, b}) /\ b <= Max({a, b})
         /\ Min({a, b}) \in {a, b} /\ Min({a, b}) <= a /\ Min({a, b}) <= b
<1>1. IsFiniteSet({a, b})
  <2>1. IsFiniteSet({a} \cup {b}) /\ {a, b} = {a} \cup {b}
    BY FS_Singleton, FS_Union
  <2> QED BY <2>1
<1>2. {a, b} \in SUBSET Int /\ {a, b} # {}
  OBVIOUS
<1>3. Max({a, b}) \in {a, b} /\ \A y \in {a, b} : y <= Max({a, b})
  BY <1>1, <1>2, FiniteMax
<1>4. Min({a, b}) \in {a, b} /\ \A y \in {a, b} : Min({a, b}) <= y
  BY <1>1, <1>2, FiniteMin
<1> QED BY <1>3, <1>4

WalkStart == [i |-> 0, j |-> 0, gap |-> 0]
WalkStates(l, r) == [i : 0..Len(l), j : 0..Len(r), gap : Nat]

LEMMA ProductNat ==
  ASSUME NEW a \in Nat, NEW b \in Nat
  PROVE  a * b \in Nat
OBVIOUS

LEMMA WalkStep ==
  ASSUME NEW l \in Seq(Int), NEW r \in Seq(Int), NEW at \in WalkStates(l, r), NEW v \in Int
  PROVE  Walk(l, r, at, v) \in WalkStates(l, r)
<1> DEFINE i == Advance(l, at.i, v)
           j == Advance(r, at.j, v)
<1>1. i \in 0..Len(l) /\ j \in 0..Len(r) /\ at.gap \in Nat
  BY AdvanceInside DEF WalkStates
<1>2. Len(l) \in Nat /\ Len(r) \in Nat
  OBVIOUS
<1> HIDE DEF i, j
<1>3. i * Len(r) \in Nat /\ j * Len(l) \in Nat
  BY <1>1, <1>2, ProductNat
<1>4. AbsDifference(i * Len(r), j * Len(l)) \in Nat
  <2>1. \A m, n \in Nat : AbsDifference(m, n) \in Nat
    BY DEF AbsDifference
  <2> QED BY <1>3, <2>1
<1>5. Max({at.gap, AbsDifference(i * Len(r), j * Len(l))}) \in Nat
  <2>1. PICK d \in Nat : d = AbsDifference(i * Len(r), j * Len(l))
    BY <1>4
  <2>2. PICK g \in Nat : g = at.gap
    BY <1>1
  <2>3. g \in Int /\ d \in Int
    OBVIOUS
  <2>4. Max({g, d}) \in {g, d}
    BY <2>3, MaxOfTwo
  <2> QED BY <2>1, <2>2, <2>4
<1>6. Walk(l, r, at, v) = [i |-> i, j |-> j, gap |-> Max({at.gap, AbsDifference(i * Len(r), j * Len(l))})]
  BY DEF Walk, i, j
<1> QED BY <1>1, <1>5, <1>6 DEF WalkStates

\* One value after the other.
LEMMA WalkedFold ==
  ASSUME NEW l \in Seq(Int), NEW r \in Seq(Int)
  PROVE  /\ Walked(l, r, <<>>) = WalkStart
         /\ \A s \in Seq(Int) : Walked(l, r, s) \in WalkStates(l, r)
         /\ \A s \in Seq(Int), v \in Int : Walked(l, r, Append(s, v)) = Walk(l, r, Walked(l, r, s), v)
<1> DEFINE A == WalkStates(l, r)
           h == [p \in A \X Int |-> Walk(l, r, p[1], p[2])]
<1>1. /\ h \in [A \X Int -> A]
      /\ \A a \in A, v \in Int : h[<<a, v>>] = Walk(l, r, a, v)
  BY WalkStep
<1>2. WalkStart \in A
  <2>1. Len(l) \in Nat /\ Len(r) \in Nat
    OBVIOUS
  <2> QED BY <2>1 DEF WalkStart, WalkStates
<1> HIDE DEF h, A
<1>3. HasValues(A, Int, h, WalkStart)
      /\ \E F : IsFold(A, Int, h, WalkStart, F) /\ EndsValues(A, Int, h, WalkStart, F)
  BY <1>1, <1>2, FoldRuns
<1>4. PICK F : IsFold(A, Int, h, WalkStart, F) /\ EndsValues(A, Int, h, WalkStart, F)
  BY <1>3
<1>5. ASSUME NEW s \in Seq(Int) PROVE Walked(l, r, s) = F[s]
  <2> DEFINE unroll(g) ==
        [t \in SUBSET (DOMAIN s) |->
           IF t = {} THEN WalkStart ELSE Walk(l, r, g[t \ {Max(t)}], s[Max(t)])]
  <2>1. PICK g \in [SUBSET (DOMAIN s) -> A] : Values(h, WalkStart, s, g)
    BY <1>3 DEF HasValues
  <2>2. g = unroll(g)
    <3>1. \A t \in SUBSET (DOMAIN s) :
            t # {} => h[<<g[t \ {Max(t)}], s[Max(t)]>>] = Walk(l, r, g[t \ {Max(t)}], s[Max(t)])
      BY <1>1, <2>1, DomainMax
    <3> QED BY <2>1, <3>1 DEF Values
  <2>3. PICK f : f = CHOOSE e : e = unroll(e)
    OBVIOUS
  <2>4. f = unroll(f)
    BY <2>2, <2>3, Zenon
  <2>5. Reaches(A, h, WalkStart, s, f)
    <3>1. f[{}] = WalkStart
      BY <2>4
    <3>2. ASSUME NEW t \in SUBSET (DOMAIN s), t # {}, f[t \ {Max(t)}] \in A
          PROVE  f[t] = h[<<f[t \ {Max(t)}], s[Max(t)]>>]
      <4>1. f[t] = Walk(l, r, f[t \ {Max(t)}], s[Max(t)])
        BY <2>4, <3>2
      <4>2. s[Max(t)] \in Int
        BY <3>2, DomainMax
      <4> QED BY <1>1, <3>2, <4>1, <4>2
    <3> QED BY <3>1, <3>2 DEF Reaches
  <2>6. Walked(l, r, s) = f[DOMAIN s]
    BY <2>3, Zenon DEF Walked, WalkStart, FoldLeft, MapThenFoldSet
  <2> QED BY <1>4, <2>5, <2>6 DEF EndsValues
<1>6. <<>> \in Seq(Int) /\ \A s \in Seq(Int), v \in Int : Append(s, v) \in Seq(Int)
  OBVIOUS
<1>7. \A s \in Seq(Int) : F[s] \in A
  BY <1>4 DEF IsFold
<1>8. \A s \in Seq(Int), v \in Int : F[Append(s, v)] = Walk(l, r, F[s], v)
  BY <1>1, <1>4, <1>7 DEF IsFold
<1> QED BY <1>4, <1>5, <1>6, <1>7, <1>8 DEF IsFold, A

LEMMA GapsNat ==
  ASSUME NEW l \in Seq(Int), NEW r \in Seq(Int), NEW v \in Int, Ascending(l), Ascending(r)
  PROVE  Gap(l, r, v) \in Nat /\ Gap(r, l, v) = Gap(l, r, v)
<1>1. UpTo(l, v) \in Nat /\ UpTo(r, v) \in Nat /\ Len(l) \in Nat /\ Len(r) \in Nat
  <2>1. UpTo(l, v) \in 0..Len(l) /\ UpTo(r, v) \in 0..Len(r)
    BY UpToPrefix
  <2>2. Len(l) \in Nat /\ Len(r) \in Nat
    OBVIOUS
  <2> QED BY <2>1, <2>2
<1>2. UpTo(l, v) * Len(r) \in Nat /\ UpTo(r, v) * Len(l) \in Nat
  BY <1>1, ProductNat
<1>3. \A m, n \in Nat : AbsDifference(m, n) \in Nat /\ AbsDifference(m, n) = AbsDifference(n, m)
  BY DEF AbsDifference
<1> QED BY <1>2, <1>3 DEF Gap

\* Where the walk is after the values vs, and what it has found.
WalkTold(l, r, vs, at) ==
  /\ at.i = IF vs = <<>> THEN 0 ELSE UpTo(l, vs[Len(vs)])
  /\ at.j = IF vs = <<>> THEN 0 ELSE UpTo(r, vs[Len(vs)])
  /\ \A k \in DOMAIN vs : Gap(l, r, vs[k]) <= at.gap
  /\ at.gap = 0 \/ \E k \in DOMAIN vs : at.gap = Gap(l, r, vs[k])

LEMMA UpToGrows ==
  ASSUME NEW s \in Seq(Int), Ascending(s), NEW u \in Int, NEW v \in Int, u <= v
  PROVE  UpTo(s, u) <= UpTo(s, v)
<1>1. /\ UpTo(s, u) \in 0..Len(s) /\ \A j \in 1..Len(s) : s[j] <= u <=> j <= UpTo(s, u)
      /\ UpTo(s, v) \in 0..Len(s) /\ \A j \in 1..Len(s) : s[j] <= v <=> j <= UpTo(s, v)
  BY UpToPrefix
<1>2. PICK c, d : c = UpTo(s, u) /\ d = UpTo(s, v)
  OBVIOUS
<1>3. Len(s) \in Nat /\ c \in 0..Len(s) /\ d \in 0..Len(s)
  BY <1>1, <1>2
<1>4. SUFFICES ASSUME d < c PROVE FALSE
  BY <1>2, <1>3
<1>5. c \in 1..Len(s) /\ s[c] \in Int
  BY <1>3, <1>4
<1>6. s[c] <= u
  BY <1>1, <1>2, <1>3, <1>5
<1>7. c <= d
  BY <1>1, <1>2, <1>5, <1>6
<1> QED BY <1>3, <1>4, <1>7

LEMMA WalkTells ==
  ASSUME NEW l \in Seq(Int), NEW r \in Seq(Int), Ascending(l), Ascending(r),
         NEW vs \in Seq(Int), NEW v \in Int, \A k \in DOMAIN vs : vs[k] <= v,
         NEW at \in WalkStates(l, r), WalkTold(l, r, vs, at)
  PROVE  WalkTold(l, r, Append(vs, v), Walk(l, r, at, v))
<1> DEFINE i == Advance(l, at.i, v)
           j == Advance(r, at.j, v)
<1>1. Len(l) \in Nat /\ Len(r) \in Nat /\ at.i \in 0..Len(l) /\ at.j \in 0..Len(r) /\ at.gap \in Nat
  BY DEF WalkStates
<1>2. PICK ws : ws = Append(vs, v)
  OBVIOUS
<1>3. /\ ws # <<>> /\ DOMAIN ws = DOMAIN vs \cup {Len(ws)} /\ ws[Len(ws)] = v
      /\ \A k \in DOMAIN vs : ws[k] = vs[k] /\ vs[k] \in Int
  BY <1>2
<1>4. at.i <= UpTo(l, v) /\ at.j <= UpTo(r, v)
  <2>1. CASE vs = <<>>
    <3>1. UpTo(l, v) \in 0..Len(l) /\ UpTo(r, v) \in 0..Len(r)
      BY UpToPrefix
    <3> QED BY <1>1, <2>1, <3>1 DEF WalkTold
  <2>2. CASE vs # <<>>
    <3>1. Len(vs) \in DOMAIN vs /\ vs[Len(vs)] \in Int /\ vs[Len(vs)] <= v
      BY <2>2
    <3>2. UpTo(l, vs[Len(vs)]) <= UpTo(l, v) /\ UpTo(r, vs[Len(vs)]) <= UpTo(r, v)
      BY <3>1, UpToGrows
    <3> QED BY <2>2, <3>2 DEF WalkTold
  <2> QED BY <2>1, <2>2
<1>5. i = UpTo(l, v) /\ j = UpTo(r, v)
  BY <1>1, <1>4, AdvancePasses
<1>6. PICK g : g = Gap(l, r, v)
  OBVIOUS
<1>7. g \in Nat
  BY <1>6, GapsNat
<1>8. PICK gap : gap = at.gap
  OBVIOUS
<1>9. PICK m : m = Max({gap, g})
  OBVIOUS
<1>10. gap \in Nat /\ m \in {gap, g} /\ gap <= m /\ g <= m
  <2>1. gap \in Nat /\ g \in Int /\ gap \in Int
    BY <1>1, <1>7, <1>8
  <2> QED BY <1>9, <2>1, MaxOfTwo
<1>11. Walk(l, r, at, v) = [i |-> UpTo(l, v), j |-> UpTo(r, v), gap |-> m]
  BY <1>5, <1>6, <1>8, <1>9 DEF Walk, Gap
<1>12. \A k \in DOMAIN ws : Gap(l, r, ws[k]) <= m
  <2>1. Gap(l, r, ws[Len(ws)]) <= m
    BY <1>3, <1>6, <1>10
  <2>2. ASSUME NEW k \in DOMAIN vs PROVE Gap(l, r, ws[k]) <= m
    <3>1. Gap(l, r, ws[k]) \in Nat /\ Gap(l, r, ws[k]) <= gap
      BY <1>3, <1>8, GapsNat DEF WalkTold
    <3> QED BY <1>7, <1>10, <3>1
  <2> QED BY <1>3, <2>1, <2>2
<1>13. m = 0 \/ \E k \in DOMAIN ws : m = Gap(l, r, ws[k])
  <2>1. CASE m = g
    BY <1>3, <1>6, <2>1
  <2>2. CASE m = gap
    BY <1>3, <1>8, <2>2 DEF WalkTold
  <2> QED BY <1>10, <2>1, <2>2
<1> QED BY <1>2, <1>3, <1>11, <1>12, <1>13 DEF WalkTold

LEMMA WalkedTold ==
  ASSUME NEW l \in Seq(Int), NEW r \in Seq(Int), Ascending(l), Ascending(r)
  PROVE  \A vs \in Seq(Int) : Ascending(vs) => WalkTold(l, r, vs, Walked(l, r, vs))
<1> DEFINE S == {vs \in Seq(Int) : Ascending(vs) => WalkTold(l, r, vs, Walked(l, r, vs))}
<1>1. <<>> \in S
  <2>1. WalkTold(l, r, <<>>, WalkStart)
    BY DEF WalkTold, WalkStart
  <2> QED BY <2>1, WalkedFold
<1>2. ASSUME NEW vs \in Seq(Int), NEW v \in Int, vs \in S PROVE Append(vs, v) \in S
  <2>1. PICK ws : ws = Append(vs, v)
    OBVIOUS
  <2>2. /\ ws \in Seq(Int) /\ DOMAIN ws = 1..Len(ws) /\ Len(ws) = Len(vs) + 1 /\ Len(vs) \in Nat
        /\ DOMAIN vs = 1..Len(vs) /\ ws[Len(ws)] = v /\ \A k \in DOMAIN vs : ws[k] = vs[k]
    BY <2>1
  <2>3. SUFFICES ASSUME Ascending(ws) PROVE WalkTold(l, r, ws, Walked(l, r, ws))
    BY <2>1, <2>2
  <2>4. \A k \in DOMAIN vs : k \in DOMAIN ws /\ Len(ws) \in DOMAIN ws /\ k < Len(ws)
    BY <2>2
  <2>5. Ascending(vs) /\ \A k \in DOMAIN vs : vs[k] <= v
    BY <2>2, <2>3, <2>4 DEF Ascending
  <2>6. WalkTold(l, r, vs, Walked(l, r, vs))
    BY <1>2, <2>5
  <2>7. Walked(l, r, vs) \in WalkStates(l, r) /\ Walked(l, r, ws) = Walk(l, r, Walked(l, r, vs), v)
    BY <2>1, WalkedFold
  <2> QED BY <2>1, <2>5, <2>6, <2>7, WalkTells
<1>3. Seq(Int) \subseteq S
  <2> HIDE DEF S
  <2> QED BY <1>1, <1>2, AllSequences
<1> QED BY <1>3

LEMMA ValuesFinite ==
  ASSUME NEW s \in Seq(Int)
  PROVE  IsFiniteSet(ToSet(s)) /\ ToSet(s) \in SUBSET Int /\ ToSet(s) = {s[i] : i \in DOMAIN s}
<1>1. IsFiniteSet(DOMAIN s)
  <2>1. DOMAIN s = 1..Len(s) /\ Len(s) \in Nat
    OBVIOUS
  <2> QED BY <2>1, FS_Interval
<1>2. ToSet(s) = {s[i] : i \in DOMAIN s}
  BY DEF ToSet
<1>3. IsFiniteSet({s[i] : i \in DOMAIN s})
  BY <1>1, ImageFinite
<1>4. {s[i] : i \in DOMAIN s} \in SUBSET Int
  OBVIOUS
<1> QED BY <1>2, <1>3, <1>4

\* The walk over the values of both finds the largest gap.
LEMMA WalkFindsGap ==
  ASSUME NEW l \in Seq(Int), NEW r \in Seq(Int), Ascending(l), Ascending(r), l # <<>>
  PROVE  KSDistance(l, r) = Max({Gap(l, r, v) : v \in ToSet(l) \cup ToSet(r)})
<1> DEFINE V == ToSet(l) \cup ToSet(r)
           G == {Gap(l, r, v) : v \in V}
<1>1. IsFiniteSet(V) /\ V \in SUBSET Int /\ V # {}
  <2>1. l[1] \in ToSet(l)
    BY ValuesFinite
  <2> QED BY <2>1, ValuesFinite, FS_Union
<1> DEFINE id == [v \in V |-> v]
<1>2. PICK vs : vs = Sorted(id, V)
  OBVIOUS
<1>3. vs \in Seq(Int) /\ Ascending(vs) /\ ToSet(vs) = V
  <2>1. \A v \in V : id[v] = v /\ id[v] \in Int
    BY <1>1
  <2>2. {id[v] : v \in V} = V
    BY <2>1
  <2> HIDE DEF id, V
  <2> QED BY <1>1, <1>2, <2>1, <2>2, SortedValues
<1>4. PICK at : at = Walked(l, r, vs)
  OBVIOUS
<1>5. at \in WalkStates(l, r) /\ WalkTold(l, r, vs, at)
  BY <1>3, <1>4, WalkedFold, WalkedTold
<1>6. KSDistance(l, r) = at.gap
  BY <1>2, <1>4, Zenon DEF KSDistance
<1> HIDE DEF V
<1>7. \A v \in V : Gap(l, r, v) \in Nat
  BY <1>1, GapsNat
<1>8. V = {vs[k] : k \in DOMAIN vs}
  BY <1>3, ValuesFinite
<1>9. at.gap \in Nat /\ \A v \in V : Gap(l, r, v) <= at.gap
  BY <1>5, <1>8 DEF WalkTold, WalkStates
<1>10. \E v \in V : at.gap = Gap(l, r, v)
  <2>1. PICK v \in V : TRUE
    BY <1>1
  <2>2. CASE at.gap = 0
    <3>1. Gap(l, r, v) \in Nat /\ Gap(l, r, v) <= 0
      BY <1>7, <1>9, <2>2
    <3> QED BY <2>2, <3>1
  <2>3. CASE at.gap # 0
    BY <1>5, <1>8, <2>3 DEF WalkTold
  <2> QED BY <2>2, <2>3
<1>11. at.gap \in G /\ G \in SUBSET Int /\ \A y \in G : y <= at.gap
  BY <1>7, <1>9, <1>10
<1>12. Max(G) = at.gap
  <2> HIDE DEF G
  <2> QED BY <1>11, GreatestIsMax
<1> QED BY <1>6, <1>12 DEF V

-----------------------------------------------------------------------------
(* Percentiles. *)

LEMMA Division ==
  ASSUME NEW p \in Nat, NEW b \in Nat, b > 0
  PROVE  /\ p \div b \in Nat /\ p % b \in Nat /\ p % b < b
         /\ p = b * (p \div b) + (p % b)
OBVIOUS

\* The position of the value above, if the quantile is between two.
LEMMA CeilingDivision ==
  ASSUME NEW p \in Nat, NEW b \in Nat, b > 0
  PROVE  (p + b - 1) \div b = IF p % b = 0 THEN p \div b ELSE p \div b + 1
<1> DEFINE q == p \div b
           x == p % b
<1>1. q \in Nat /\ x \in Nat /\ x < b /\ p = b * q + x
  BY Division
<1> HIDE DEF q, x
<1>2. PICK y : y = p + b - 1
  OBVIOUS
<1>3. PICK c, z : c = y \div b /\ z = y % b
  OBVIOUS
<1>4. y \in Nat /\ c \in Nat /\ z \in Nat /\ z < b /\ y = b * c + z
  BY <1>2, <1>3, Division
<1>5. c = IF x = 0 THEN q ELSE q + 1
  BY <1>1, <1>2, <1>4
<1> QED BY <1>2, <1>3, <1>5 DEF q, x

\* a < c in multiples of b.
LEMMA MultiplesOrdered ==
  ASSUME NEW a \in Int, NEW c \in Int, NEW b \in Nat, b > 0
  PROVE  /\ a < c => b * a + b <= b * c
         /\ a <= c => b * a <= b * c
         /\ b * a < b * c => a < c
OBVIOUS

LEMMA Interpolation ==
  ASSUME NEW low \in Int, NEW high \in Int, low <= high, NEW b \in Nat, NEW x \in Nat, NEW y \in Nat,
         x <= y, y <= b
  PROVE  /\ low * b <= low * b + (high - low) * x
         /\ low * b + (high - low) * x <= low * b + (high - low) * y
         /\ low * b + (high - low) * y <= high * b
<1>1. PICK d \in Nat : d = high - low
  OBVIOUS
<1>2. 0 <= d * x /\ d * x <= d * y /\ d * y <= d * b
  OBVIOUS
<1>3. high * b = low * b + d * b
  BY <1>1
<1>4. PICK m, n, o, k, a : m = d * x /\ n = d * y /\ o = d * b /\ k = low * b /\ a = high * b
  OBVIOUS
<1>5. m \in Int /\ n \in Int /\ o \in Int /\ k \in Int /\ a \in Int
  BY <1>4
<1>6. 0 <= m /\ m <= n /\ n <= o /\ a = k + o
  BY <1>2, <1>3, <1>4
<1>7. k <= k + m /\ k + m <= k + n /\ k + n <= a
  BY <1>5, <1>6
<1> QED BY <1>1, <1>4, <1>7

\* The value at p / Bins in a sorted population, times Bins.
QuantileAt(s, p) ==
  s[p \div Bins + 1] * Bins
  + (s[(p + Bins - 1) \div Bins + 1] - s[p \div Bins + 1]) * (p % Bins)

LEMMA BinsPositive == Bins \in Nat /\ Bins > 0
BY BinsAssumption

\* It lies between the values below and above.
LEMMA QuantileBetween ==
  ASSUME NEW s \in Seq(Int), Ascending(s), NEW n \in Nat, Len(s) = n + 1, NEW p \in Nat, p <= n * Bins
  PROVE  LET q == p \div Bins IN
         /\ q \in 0..n /\ QuantileAt(s, p) \in Int /\ s[q + 1] * Bins <= QuantileAt(s, p)
         /\ p % Bins = 0 => QuantileAt(s, p) = s[q + 1] * Bins
         /\ p % Bins # 0 => /\ q + 2 <= n + 1
                            /\ QuantileAt(s, p) = s[q + 1] * Bins + (s[q + 2] - s[q + 1]) * (p % Bins)
                            /\ QuantileAt(s, p) <= s[q + 2] * Bins
<1> DEFINE q == p \div Bins
           x == p % Bins
<1>1. q \in Nat /\ x \in Nat /\ x < Bins /\ p = Bins * q + x
  BY BinsPositive, Division
<1>2. (p + Bins - 1) \div Bins = IF x = 0 THEN q ELSE q + 1
  BY BinsPositive, CeilingDivision
<1>3. QuantileAt(s, p) = s[q + 1] * Bins + (s[(IF x = 0 THEN q ELSE q + 1) + 1] - s[q + 1]) * x
  BY <1>2 DEF QuantileAt
<1> HIDE DEF q, x
<1>4. q <= n /\ (x # 0 => q + 1 <= n)
  <2>1. Bins * q <= Bins * n /\ (x # 0 => Bins * q < Bins * n)
    BY <1>1, BinsPositive
  <2>2. SUFFICES ASSUME n < q \/ (x # 0 /\ n < q + 1) PROVE FALSE
    BY <1>1
  <2>3. CASE n < q
    <3>1. Bins * n + Bins <= Bins * q
      BY <1>1, <2>3, BinsPositive, MultiplesOrdered
    <3> QED BY <1>1, <2>1, <3>1, BinsPositive
  <2>4. CASE x # 0 /\ n < q + 1
    <3>1. q < n
      BY <1>1, <2>1, <2>4, BinsPositive, MultiplesOrdered
    <3> QED BY <1>1, <2>4, <3>1
  <2> QED BY <2>2, <2>3, <2>4
<1>5. q + 1 \in DOMAIN s /\ s[q + 1] \in Int /\ s[q + 1] * Bins \in Int
  BY <1>1, <1>4, BinsPositive
<1>6. CASE x = 0
  <2>1. QuantileAt(s, p) = s[q + 1] * Bins
    BY <1>3, <1>5, <1>6
  <2> QED BY <1>1, <1>4, <1>5, <1>6, <2>1 DEF q, x
<1>7. CASE x # 0
  <2>1. q + 2 \in DOMAIN s /\ s[q + 2] \in Int /\ q + 1 < q + 2 /\ (q + 1) + 1 = q + 2
    BY <1>1, <1>4, <1>7
  <2>2. s[q + 1] <= s[q + 2]
    BY <1>5, <2>1 DEF Ascending
  <2>3. PICK a, b : a = s[q + 1] /\ b = s[q + 2]
    OBVIOUS
  <2>4. QuantileAt(s, p) = a * Bins + (b - a) * x
    BY <1>3, <1>7, <2>1, <2>3
  <2>5. a \in Int /\ b \in Int /\ a <= b
    BY <1>5, <2>1, <2>2, <2>3
  <2>6. a * Bins <= a * Bins + (b - a) * x /\ a * Bins + (b - a) * x <= b * Bins
    <3>1. x <= x /\ x <= Bins
      BY <1>1, BinsPositive
    <3> QED BY <1>1, <2>5, <3>1, BinsPositive, Interpolation
  <2>7. a * Bins + (b - a) * x \in Int
    BY <1>1, <2>5, BinsPositive
  <2>8. q \in 0..n /\ q + 2 <= n + 1
    BY <1>1, <1>4, <1>7
  <2> QED BY <1>7, <2>3, <2>4, <2>6, <2>7, <2>8 DEF q, x
<1> QED BY <1>6, <1>7

\* It does not decrease.
LEMMA QuantilesGrow ==
  ASSUME NEW s \in Seq(Int), Ascending(s), NEW n \in Nat, Len(s) = n + 1,
         NEW p \in Nat, NEW t \in Nat, p <= t, t <= n * Bins
  PROVE  QuantileAt(s, p) <= QuantileAt(s, t)
<1> DEFINE q == p \div Bins
           x == p % Bins
           c == t \div Bins
           y == t % Bins
           P == QuantileAt(s, p)
           T == QuantileAt(s, t)
<1>0. n * Bins \in Nat /\ p <= n * Bins
  BY BinsPositive
<1>1. /\ q \in Nat /\ x \in Nat /\ x < Bins /\ p = Bins * q + x
      /\ c \in Nat /\ y \in Nat /\ y < Bins /\ t = Bins * c + y
  BY BinsPositive, Division
<1>2. /\ q \in 0..n /\ P \in Int
      /\ x = 0 => P = s[q + 1] * Bins
      /\ x # 0 => /\ q + 2 <= n + 1
                  /\ P = s[q + 1] * Bins + (s[q + 2] - s[q + 1]) * x
                  /\ P <= s[q + 2] * Bins
  BY <1>0, QuantileBetween
<1>3. /\ c \in 0..n /\ T \in Int /\ s[c + 1] * Bins <= T
      /\ y # 0 => T = s[c + 1] * Bins + (s[c + 2] - s[c + 1]) * y
  BY QuantileBetween
<1> HIDE DEF q, x, c, y, P, T
<1>4. q <= c
  <2>1. SUFFICES ASSUME c < q PROVE FALSE
    BY <1>1
  <2>2. Bins * c + Bins <= Bins * q
    BY <1>1, <2>1, BinsPositive, MultiplesOrdered
  <2>3. PICK m, k : m = Bins * c /\ k = Bins * q
    OBVIOUS
  <2>4. m \in Int /\ k \in Int
    BY <1>1, <2>3, BinsPositive
  <2> QED BY <1>1, <2>2, <2>3, <2>4, BinsPositive
<1>5. \A i \in 1..(n + 1) : i \in DOMAIN s /\ s[i] \in Int /\ s[i] * Bins \in Int
  BY BinsPositive
<1>6. \A i, j \in 1..(n + 1) : i <= j => s[i] * Bins <= s[j] * Bins
  <2>1. SUFFICES ASSUME NEW i \in 1..(n + 1), NEW j \in 1..(n + 1), i <= j
                 PROVE  s[i] * Bins <= s[j] * Bins
    OBVIOUS
  <2>2. s[i] <= s[j]
    <3>1. CASE i = j
      BY <1>5, <3>1
    <3>2. CASE i < j
      BY <1>5, <3>2 DEF Ascending
    <3> QED BY <2>1, <3>1, <3>2
  <2>3. PICK a, b : a = s[i] /\ b = s[j]
    OBVIOUS
  <2>4. a \in Int /\ b \in Int /\ a <= b
    BY <1>5, <2>2, <2>3
  <2>5. Bins * a <= Bins * b /\ Bins * a = a * Bins /\ Bins * b = b * Bins
    BY <2>4, BinsPositive, MultiplesOrdered
  <2> QED BY <2>3, <2>5
<1>7. q + 1 \in 1..(n + 1) /\ c + 1 \in 1..(n + 1)
  BY <1>2, <1>3
<1>8. CASE x = 0
  <2>1. s[q + 1] * Bins <= s[c + 1] * Bins
    BY <1>1, <1>4, <1>6, <1>7
  <2> QED BY <1>2, <1>3, <1>5, <1>7, <1>8, <2>1 DEF P, T
<1>9. CASE x # 0 /\ q < c
  <2>1. q + 2 \in 1..(n + 1) /\ q + 2 <= c + 1
    BY <1>1, <1>2, <1>9
  <2>2. s[q + 2] * Bins <= s[c + 1] * Bins
    BY <1>6, <1>7, <2>1
  <2>3. PICK u, v : u = s[q + 2] * Bins /\ v = s[c + 1] * Bins
    OBVIOUS
  <2>4. u \in Int /\ v \in Int
    BY <1>5, <1>7, <2>1, <2>3
  <2>5. P <= u /\ u <= v /\ v <= T
    BY <1>2, <1>3, <1>9, <2>2, <2>3
  <2>6. P <= T
    BY <1>2, <1>3, <2>4, <2>5
  <2> QED BY <2>6 DEF P, T
<1>10. CASE x # 0 /\ q = c
  <2>1. x <= y
    <3>1. PICK m : m = Bins * q
      OBVIOUS
    <3>2. m \in Int /\ p = m + x /\ t = m + y
      BY <1>1, <1>10, <3>1, BinsPositive
    <3> QED BY <1>1, <3>2
  <2>2. y # 0
    BY <1>1, <1>10, <2>1
  <2>3. q + 2 \in 1..(n + 1) /\ q + 1 < q + 2
    BY <1>1, <1>2, <1>10
  <2>4. PICK a, b : a = s[q + 1] /\ b = s[q + 2]
    OBVIOUS
  <2>5. a \in Int /\ b \in Int /\ a <= b
    BY <1>5, <1>7, <2>3, <2>4 DEF Ascending
  <2>6. P = a * Bins + (b - a) * x /\ T = a * Bins + (b - a) * y
    BY <1>2, <1>3, <1>10, <2>2, <2>4
  <2>7. a * Bins + (b - a) * x <= a * Bins + (b - a) * y
    <3>1. y <= Bins
      BY <1>1, BinsPositive
    <3> QED BY <1>1, <2>1, <2>5, <3>1, BinsPositive, Interpolation
  <2> QED BY <2>6, <2>7 DEF P, T
<1>11. q < c \/ q = c
  BY <1>1, <1>4
<1> QED BY <1>8, <1>9, <1>10, <1>11

LEMMA PercentilePosition ==
  ASSUME NEW s \in Seq(Int), Ascending(s), NEW n \in Nat, Len(s) = n + 1, NEW i \in 1..(Bins - 1)
  PROVE  /\ Percentile(s, i) = QuantileAt(s, n * i) /\ n * i \in Nat /\ n * i <= n * Bins
         /\ i + 1 < Bins => n * i <= n * (i + 1)
<1>1. Len(s) - 1 = n /\ i \in Nat /\ i <= Bins /\ Bins \in Nat
  BY BinsPositive
<1>2. Percentile(s, i) = QuantileAt(s, n * i)
  BY <1>1 DEF Percentile, QuantileAt
<1>3. \A a, b, c \in Nat : b <= c => a * b \in Nat /\ a * b <= a * c
  OBVIOUS
<1>4. n * i \in Nat /\ n * i <= n * Bins
  BY <1>1, <1>3
<1>5. n * i <= n * (i + 1)
  <2>1. i + 1 \in Nat /\ i <= i + 1
    BY <1>1
  <2> QED BY <1>1, <1>3, <2>1
<1> QED BY <1>2, <1>4, <1>5

LEMMA PercentilesInOrder ==
  ASSUME NEW s \in Seq(Int), Ascending(s), s # <<>>
  PROVE  /\ \A i \in 1 .. (Bins - 2) : Percentile(s, i) <= Percentile(s, i + 1)
         /\ \A i \in 1 .. (Bins - 1) : /\ Percentile(s, i) \in Int
                                       /\ s[1] * Bins <= Percentile(s, i)
                                       /\ Percentile(s, i) <= s[Len(s)] * Bins
<1>1. PICK n \in Nat : Len(s) = n + 1
  <2>1. Len(s) \in Nat /\ Len(s) # 0
    OBVIOUS
  <2>2. Len(s) - 1 \in Nat /\ Len(s) = (Len(s) - 1) + 1
    BY <2>1
  <2> QED BY <2>2
<1>2. ASSUME NEW i \in 1..(Bins - 2) PROVE Percentile(s, i) <= Percentile(s, i + 1)
  <2>1. i \in 1..(Bins - 1) /\ i + 1 \in 1..(Bins - 1) /\ i + 1 < Bins
    BY BinsPositive
  <2>2. PICK p, t : p = n * i /\ t = n * (i + 1)
    OBVIOUS
  <2>3. p \in Nat /\ t \in Nat /\ p <= t /\ t <= n * Bins
    BY <1>1, <2>1, <2>2, PercentilePosition
  <2>4. QuantileAt(s, p) <= QuantileAt(s, t)
    BY <1>1, <2>3, QuantilesGrow
  <2>5. Percentile(s, i) = QuantileAt(s, p) /\ Percentile(s, i + 1) = QuantileAt(s, t)
    BY <1>1, <2>1, <2>2, PercentilePosition
  <2> QED BY <2>4, <2>5
<1>3. ASSUME NEW i \in 1..(Bins - 1)
      PROVE  /\ Percentile(s, i) \in Int
             /\ s[1] * Bins <= Percentile(s, i) /\ Percentile(s, i) <= s[Len(s)] * Bins
  <2>1. PICK p : p = n * i
    OBVIOUS
  <2>2. PICK t : t = n * Bins
    OBVIOUS
  <2>3. p \in Nat /\ p <= n * Bins /\ Percentile(s, i) = QuantileAt(s, p)
    BY <1>1, <2>1, PercentilePosition
  <2>4. t \in Nat /\ t <= n * Bins /\ 0 <= n * Bins /\ p <= t /\ 0 <= p /\ 0 \in Nat
    BY <2>2, <2>3, BinsPositive
  <2>5. t \div Bins = n /\ t % Bins = 0 /\ 0 \div Bins = 0 /\ 0 % Bins = 0
    BY <2>2, BinsPositive
  <2>6. QuantileAt(s, t) = s[n + 1] * Bins /\ QuantileAt(s, 0) = s[0 + 1] * Bins
    BY <1>1, <2>4, <2>5, QuantileBetween
  <2>7. QuantileAt(s, 0) <= QuantileAt(s, p) /\ QuantileAt(s, p) <= QuantileAt(s, t)
    BY <1>1, <2>3, <2>4, QuantilesGrow
  <2>8. QuantileAt(s, p) \in Int
    BY <1>1, <2>3, QuantileBetween
  <2> QED BY <1>1, <2>3, <2>6, <2>7, <2>8
<1> QED BY <1>2, <1>3

-----------------------------------------------------------------------------
(* Sums over finite sets. *)

\* What holds of the empty set, and of a set if it holds without one of its
\* elements, holds of every finite set.
LEMMA AllSubsets ==
  ASSUME NEW S, IsFiniteSet(S), NEW P, {} \in P,
         \A T \in SUBSET S : \A x \in T : T \ {x} \in P => T \in P
  PROVE  SUBSET S \subseteq P
<1> DEFINE bad == {n \in Nat : \E T \in SUBSET S : Cardinality(T) = n /\ T \notin P}
<1>1. SUFFICES ASSUME bad # {} PROVE FALSE
  <2>1. \A T \in SUBSET S : Cardinality(T) \in Nat
    BY FS_Subset, FS_CardinalityType
  <2> QED BY <1>1, <2>1
<1>2. PICK n \in bad : \A k \in bad : n <= k
  <2>1. bad \in SUBSET Nat
    OBVIOUS
  <2> HIDE DEF bad
  <2> QED BY <1>1, <2>1, LeastNumber
<1>3. PICK T \in SUBSET S : Cardinality(T) = n /\ T \notin P
  BY <1>2
<1>4. PICK x \in T : TRUE
  BY <1>3
<1>5. T \ {x} \in SUBSET S /\ Cardinality(T \ {x}) = n - 1 /\ n - 1 \in Nat
  <2>1. IsFiniteSet(T)
    BY FS_Subset
  <2>2. IsFiniteSet(T \ {x}) /\ Cardinality(T \ {x}) = n - 1
    BY <1>3, <1>4, <2>1, FS_RemoveElement
  <2> QED BY <2>2, FS_CardinalityType
<1>6. n - 1 \notin bad
  <2>1. n \in Nat
    BY <1>2
  <2> QED BY <1>2, <1>5, <2>1
<1>7. T \ {x} \in P
  BY <1>5, <1>6
<1> QED BY <1>3, <1>4, <1>7

\* f of each element of T, added up: so many pairs there are.
Heap(f, T) == {q \in T \X Nat : 1 <= q[2] /\ q[2] <= f[q[1]]}
Total(f, T) == Cardinality(Heap(f, T))

LEMMA HeapFinite ==
  ASSUME NEW S, IsFiniteSet(S), NEW f, DOMAIN f = S, \A x \in S : f[x] \in Nat
  PROVE  IsFiniteSet(Heap(f, S))
<1> DEFINE values == {f[x] : x \in S} \cup {0}
<1>1. IsFiniteSet(values) /\ values \in SUBSET Int /\ values # {}
  <2>1. PICK image : image = {f[x] : x \in S}
    OBVIOUS
  <2>2. IsFiniteSet(image)
    BY <2>1, ImageFinite
  <2>3. IsFiniteSet(image \cup {0})
    BY <2>2, FS_Singleton, FS_Union
  <2>4. image \in SUBSET Int
    BY <2>1
  <2> QED BY <2>1, <2>3, <2>4
<1>2. PICK m : m = Max(values)
  OBVIOUS
<1>3. m \in Int /\ \A x \in S : f[x] <= m
  <2>1. m \in values /\ \A y \in values : y <= m
    <3> HIDE DEF values
    <3> QED BY <1>1, <1>2, FiniteMax
  <2> QED BY <1>1, <2>1
<1>4. Heap(f, S) \in SUBSET (S \X (1..m))
  BY <1>3 DEF Heap
<1>5. IsFiniteSet(S \X (1..m))
  <2>1. IsFiniteSet(1..m)
    BY <1>3, FS_Interval
  <2> QED BY <2>1, FS_Product
<1> QED BY <1>4, <1>5, FS_Subset

LEMMA TotalStep ==
  ASSUME NEW S, IsFiniteSet(S), NEW f, DOMAIN f = S, \A x \in S : f[x] \in Nat
  PROVE  /\ Total(f, {}) = 0
         /\ \A T \in SUBSET S : Total(f, T) \in Nat
         /\ \A T \in SUBSET S : \A x \in T : Total(f, T) = f[x] + Total(f, T \ {x})
<1>1. ASSUME NEW T \in SUBSET S PROVE IsFiniteSet(Heap(f, T)) /\ Total(f, T) \in Nat
  <2>1. Heap(f, T) \in SUBSET Heap(f, S)
    BY DEF Heap
  <2>2. IsFiniteSet(Heap(f, T))
    BY <2>1, HeapFinite, FS_Subset
  <2> QED BY <2>2, FS_CardinalityType DEF Total
<1>2. Total(f, {}) = 0
  <2>1. Heap(f, {}) = {}
    BY DEF Heap
  <2> QED BY <2>1, FS_EmptySet DEF Total
<1>3. ASSUME NEW T \in SUBSET S, NEW x \in T PROVE Total(f, T) = f[x] + Total(f, T \ {x})
  <2> DEFINE R == T \ {x}
             own == {<<x, k>> : k \in 1..f[x]}
             b == [k \in 1..f[x] |-> <<x, k>>]
  <2>1. R \in SUBSET S /\ f[x] \in Nat
    OBVIOUS
  <2>2. IsFiniteSet(own) /\ Cardinality(own) = f[x]
    <3>1. b \in Bijection(1..f[x], own)
      <4>1. b \in [1..f[x] -> own] /\ \A k, j \in 1..f[x] : b[k] = b[j] => k = j
        OBVIOUS
      <4>2. \A y \in own : \E k \in 1..f[x] : b[k] = y
        OBVIOUS
      <4> HIDE DEF b, own
      <4> QED BY <4>1, <4>2 DEF Bijection, Injection, Surjection, IsInjective
    <3>2. IsFiniteSet(1..f[x]) /\ Cardinality(1..f[x]) = f[x]
      BY <2>1, FS_Interval
    <3> QED BY <3>1, <3>2, FS_Bijection DEF ExistsBijection
  <2>3. Heap(f, T) = own \cup Heap(f, R)
    <3>1. ASSUME NEW q \in Heap(f, T) PROVE q \in own \cup Heap(f, R)
      <4>1. q = <<q[1], q[2]>> /\ q[1] \in T /\ q[2] \in Nat /\ 1 <= q[2] /\ q[2] <= f[q[1]]
        BY DEF Heap
      <4>2. CASE q[1] = x
        <5>1. q[2] \in 1..f[x]
          BY <2>1, <4>1, <4>2
        <5> QED BY <4>1, <4>2, <5>1
      <4>3. CASE q[1] # x
        BY <4>1, <4>3 DEF Heap
      <4> QED BY <4>2, <4>3
    <3>2. own \subseteq Heap(f, T)
      <4>1. SUFFICES ASSUME NEW k \in 1..f[x] PROVE <<x, k>> \in Heap(f, T)
        OBVIOUS
      <4>2. k \in Nat /\ 1 <= k /\ k <= f[x]
        BY <2>1
      <4> QED BY <4>2 DEF Heap
    <3>3. Heap(f, R) \subseteq Heap(f, T)
      BY DEF Heap
    <3> QED BY <3>1, <3>2, <3>3
  <2>4. own \cap Heap(f, R) = {}
    BY DEF Heap
  <2>5. IsFiniteSet(Heap(f, R)) /\ Cardinality(Heap(f, R)) \in Nat
    BY <1>1, <2>1 DEF Total
  <2> HIDE DEF own, R
  <2>6. Cardinality(own \cup Heap(f, R)) = Cardinality(own) + Cardinality(Heap(f, R)) - Cardinality({})
    BY <2>2, <2>4, <2>5, FS_Union
  <2>7. Cardinality(Heap(f, T)) = f[x] + Cardinality(Heap(f, R))
    BY <2>1, <2>2, <2>3, <2>5, <2>6, FS_EmptySet
  <2> QED BY <2>7 DEF Total, R
<1> QED BY <1>1, <1>2, <1>3

\* g adds up f in some order.
AddsUp(f, S, g) ==
  g = [t \in SUBSET S |-> IF t = {} THEN 0 ELSE f[CHOOSE x \in t : TRUE] + g[t \ {CHOOSE x \in t : TRUE}]]

\* There is such a g, and each of them ends with the total.
LEMMA SumIsTotal ==
  ASSUME NEW S, IsFiniteSet(S), NEW f, DOMAIN f = S, \A x \in S : f[x] \in Nat
  PROVE  /\ \E g : AddsUp(f, S, g)
         /\ \A g : AddsUp(f, S, g) => g[S] = Total(f, S)
<1>1. \A t : t # {} => (CHOOSE x \in t : TRUE) \in t
  OBVIOUS
<1>2. \E g : AddsUp(f, S, g)
  <2> DEFINE g == [t \in SUBSET S |-> Total(f, t)]
  <2>1. \A t \in SUBSET S :
          Total(f, t) = IF t = {} THEN 0
                        ELSE f[CHOOSE x \in t : TRUE] + Total(f, t \ {CHOOSE x \in t : TRUE})
    <3>1. ASSUME NEW t \in SUBSET S, t # {}
          PROVE  Total(f, t) = f[CHOOSE x \in t : TRUE] + Total(f, t \ {CHOOSE x \in t : TRUE})
      <4>1. PICK x \in t : x = CHOOSE y \in t : TRUE
        BY <1>1, <3>1
      <4>2. Total(f, t) = f[x] + Total(f, t \ {x})
        BY TotalStep
      <4> QED BY <4>1, <4>2
    <3>2. Total(f, {}) = 0
      BY TotalStep
    <3> QED BY <3>1, <3>2
  <2>2. \A t \in SUBSET S : t \ {CHOOSE x \in t : TRUE} \in SUBSET S
    OBVIOUS
  <2>3. AddsUp(f, S, g)
    BY <2>1, <2>2 DEF AddsUp
  <2> QED BY <2>3
<1>3. ASSUME NEW g, AddsUp(f, S, g) PROVE g[S] = Total(f, S)
  <2> DEFINE P == {t \in SUBSET S : g[t] = Total(f, t)}
             bad == {n \in Nat : \E t \in SUBSET S : Cardinality(t) = n /\ t \notin P}
  <2>1. \A t \in SUBSET S : t = {} => t \in P
    BY <1>3, TotalStep DEF AddsUp
  <2>2. ASSUME NEW t \in SUBSET S, t # {} PROVE \E x \in t : t \ {x} \in P => t \in P
    <3>1. PICK x \in t : x = CHOOSE y \in t : TRUE
      BY <1>1, <2>2
    <3>2. g[t] = f[x] + g[t \ {x}]
      BY <1>3, <2>2, <3>1 DEF AddsUp
    <3>3. Total(f, t) = f[x] + Total(f, t \ {x})
      BY TotalStep
    <3> QED BY <3>2, <3>3
  <2> HIDE DEF P
  <2>3. SUFFICES ASSUME bad # {} PROVE FALSE
    <3>1. Cardinality(S) \in Nat /\ S \in SUBSET S
      BY FS_CardinalityType
    <3>2. S \in P
      BY <2>3, <3>1
    <3> QED BY <3>2 DEF P
  <2>4. PICK n \in bad : \A k \in bad : n <= k
    <3>1. bad \in SUBSET Nat
      OBVIOUS
    <3> HIDE DEF bad
    <3> QED BY <2>3, <3>1, LeastNumber
  <2>5. PICK t \in SUBSET S : Cardinality(t) = n /\ t \notin P
    BY <2>4
  <2>6. t # {}
    BY <2>1, <2>5
  <2>7. PICK x \in t : t \ {x} \in P => t \in P
    BY <2>2, <2>6
  <2>8. Cardinality(t \ {x}) = n - 1 /\ n - 1 \in Nat /\ t \ {x} \in SUBSET S
    <3>1. IsFiniteSet(t)
      BY FS_Subset
    <3>2. IsFiniteSet(t \ {x}) /\ Cardinality(t \ {x}) = n - 1
      BY <2>5, <3>1, FS_RemoveElement
    <3> QED BY <3>2, FS_CardinalityType
  <2>9. n - 1 \notin bad
    <3>1. n \in Nat
      BY <2>4
    <3> QED BY <2>4, <2>8, <3>1
  <2> QED BY <2>5, <2>7, <2>8, <2>9
<1> QED BY <1>2, <1>3

CountsByKey(f, S, D, key) == DOMAIN f = S /\ \A x \in S : f[x] = Cardinality({i \in D : key[i] = x})

\* How many of D have a key in T is the sum of how many have each of them.
LEMMA TotalOfCounts ==
  ASSUME NEW S, IsFiniteSet(S), NEW D, IsFiniteSet(D), NEW key,
         NEW f, CountsByKey(f, S, D, key)
  PROVE  /\ DOMAIN f = S /\ \A x \in S : f[x] \in Nat
         /\ \A T \in SUBSET S : Total(f, T) = Cardinality({i \in D : key[i] \in T})
<1> DEFINE of(T) == {i \in D : key[i] \in T}
           P == {T \in SUBSET S : Total(f, T) = Cardinality(of(T))}
<1>1. \A T : IsFiniteSet(of(T)) /\ Cardinality(of(T)) \in Nat
  <2>1. \A T : of(T) \in SUBSET D
    OBVIOUS
  <2> QED BY <2>1, FS_Subset, FS_CardinalityType
<1>2. \A x : of({x}) = {i \in D : key[i] = x}
  OBVIOUS
<1>3. DOMAIN f = S /\ \A x \in S : f[x] = Cardinality(of({x}))
  BY <1>2 DEF CountsByKey
<1>4. DOMAIN f = S /\ \A x \in S : f[x] \in Nat
  BY <1>1, <1>3
<1>5. {} \in P
  <2>1. of({}) = {}
    OBVIOUS
  <2> QED BY <1>4, <2>1, TotalStep, FS_EmptySet
<1>6. ASSUME NEW T \in SUBSET S, NEW x \in T, T \ {x} \in P PROVE T \in P
  <2>1. Total(f, T) = f[x] + Total(f, T \ {x})
    BY <1>4, TotalStep
  <2>2. Total(f, T \ {x}) = Cardinality(of(T \ {x}))
    BY <1>6
  <2>3. of(T) = of({x}) \cup of(T \ {x}) /\ of({x}) \cap of(T \ {x}) = {}
    OBVIOUS
  <2> HIDE DEF of
  <2>4. Cardinality(of({x}) \cup of(T \ {x})) = Cardinality(of({x})) + Cardinality(of(T \ {x})) - Cardinality({})
    BY <1>1, <2>3, FS_Union
  <2>5. Cardinality(of({x})) \in Nat /\ Cardinality(of(T \ {x})) \in Nat /\ Cardinality({}) = 0
    BY <1>1, FS_EmptySet
  <2>6. Total(f, T) = Cardinality(of(T))
    <3>1. f[x] = Cardinality(of({x}))
      BY <1>3
    <3>2. Cardinality(of(T)) = Cardinality(of({x})) + Cardinality(of(T \ {x}))
      <4>1. PICK k, j : k = Cardinality(of({x})) /\ j = Cardinality(of(T \ {x}))
        OBVIOUS
      <4>2. Cardinality(of(T)) = k + j - 0 /\ k \in Nat /\ j \in Nat
        BY <2>3, <2>4, <2>5, <4>1
      <4> QED BY <4>1, <4>2
    <3> QED BY <2>1, <2>2, <3>1, <3>2
  <2> QED BY <2>6
<1>7. SUBSET S \subseteq P
  <2> HIDE DEF P
  <2> QED BY <1>5, <1>6, AllSubsets
<1> QED BY <1>4, <1>7

-----------------------------------------------------------------------------
(* Bins. *)

\* Every value is in one bin.
LEMMA BinsPartition ==
  ASSUME NEW bounds, IsFiniteSet(bounds), NEW s \in Seq(Int)
  PROVE  MapThenSumSet(LAMBDA n : Counts(bounds, s)[n], 1 .. (Cardinality(bounds) + 1)) = Len(s)
<1> DEFINE K == 1 .. (Cardinality(bounds) + 1)
           D == DOMAIN s
           key == [i \in D |-> BinOf(bounds, s[i])]
           f == [n \in K |-> Cardinality({i \in D : key[i] = n})]
<1>1. Cardinality(bounds) \in Nat
  BY FS_CardinalityType
<1>2. IsFiniteSet(K)
  BY <1>1, FS_Interval
<1>3. IsFiniteSet(D) /\ Cardinality(D) = Len(s)
  <2>1. D = 1..Len(s) /\ Len(s) \in Nat
    OBVIOUS
  <2> QED BY <2>1, FS_Interval
<1>4. \A i \in D : key[i] \in K
  <2>1. SUFFICES ASSUME NEW i \in D PROVE BinOf(bounds, s[i]) \in K
    OBVIOUS
  <2>2. {b \in bounds : b <= s[i] * Bins} \in SUBSET bounds
    OBVIOUS
  <2>3. PICK c : c = Cardinality({b \in bounds : b <= s[i] * Bins})
    OBVIOUS
  <2>4. c <= Cardinality(bounds) /\ c \in Nat
    BY <2>2, <2>3, FS_Subset, FS_CardinalityType
  <2> QED BY <1>1, <2>3, <2>4 DEF BinOf
<1>5. f = Counts(bounds, s)
  BY DEF Counts
<1>6. CountsByKey(f, K, D, key)
  BY DEF CountsByKey
<1> HIDE DEF f, key, D, K
<1>7. \A n \in K : f[n] \in Nat
  BY <1>2, <1>3, <1>6, TotalOfCounts
<1>8. Total(f, K) = Len(s)
  <2>1. Total(f, K) = Cardinality({i \in D : key[i] \in K})
    <3>1. K \in SUBSET K
      OBVIOUS
    <3> QED BY <1>2, <1>3, <1>6, <3>1, TotalOfCounts
  <2>2. {i \in D : key[i] \in K} = D
    BY <1>4
  <2> QED BY <1>3, <2>1, <2>2
<1> DEFINE unroll(g) ==
      [t \in SUBSET K |-> IF t = {} THEN 0
                          ELSE Counts(bounds, s)[CHOOSE x \in t : TRUE] + g[t \ {CHOOSE x \in t : TRUE}]]
<1>9. DOMAIN f = K
  BY <1>2, <1>3, <1>6, TotalOfCounts
<1>10. PICK g : AddsUp(f, K, g)
  BY <1>2, <1>7, <1>9, SumIsTotal, Zenon
<1>11. g = unroll(g)
  BY <1>5, <1>10, Zenon DEF AddsUp
<1> HIDE DEF unroll
<1>12. PICK e : e = CHOOSE a : a = unroll(a)
  OBVIOUS
<1>13. e = unroll(e)
  BY <1>11, <1>12, Zenon
<1>14. AddsUp(f, K, e)
  BY <1>5, <1>13, Zenon DEF AddsUp, unroll
<1>15. e[K] = Total(f, K)
  BY <1>2, <1>7, <1>9, <1>14, SumIsTotal
<1>16. MapThenSumSet(LAMBDA n : Counts(bounds, s)[n], K) = e[K]
  BY <1>12, Zenon DEF MapThenSumSet, MapThenFoldSet, unroll
<1> QED BY <1>8, <1>15, <1>16 DEF K

LEMMA BoundariesFinite ==
  ASSUME NEW l \in Seq(Int), Ascending(l), l # <<>>
  PROVE  IsFiniteSet(Boundaries(l)) /\ Boundaries(l) \in SUBSET Int
<1> DEFINE I == 1 .. (Bins - 1)
           f == [i \in I |-> Percentile(l, i)]
<1>1. IsFiniteSet(I)
  BY BinsPositive, FS_Interval
<1>2. DOMAIN f = I
  OBVIOUS
<1>3. IsFiniteSet({f[i] : i \in I})
  <2> HIDE DEF I, f
  <2> QED BY <1>1, <1>2, ImageFinite
<1>4. {f[i] : i \in I} = {Percentile(l, i) : i \in I}
  OBVIOUS
<1>5. {Percentile(l, i) : i \in I} \in SUBSET Int
  BY PercentilesInOrder
<1>6. Boundaries(l) \in SUBSET {Percentile(l, i) : i \in I}
  BY DEF Boundaries
<1> QED BY <1>3, <1>4, <1>5, <1>6, FS_Subset

\* The least value is in the first bin and the greatest in the last.
LEMMA OuterBins ==
  ASSUME NEW l \in Seq(Int), Ascending(l), l # <<>>
  PROVE  LET bounds == Boundaries(l) IN
         Counts(bounds, l)[1] > 0 /\ Counts(bounds, l)[Cardinality(bounds) + 1] > 0
<1> DEFINE bounds == Boundaries(l)
<1>1. IsFiniteSet(bounds) /\ bounds \in SUBSET Int /\ Cardinality(bounds) \in Nat
  BY BoundariesFinite, FS_CardinalityType
<1>2. /\ 1 \in DOMAIN l /\ Len(l) \in DOMAIN l
      /\ l[1] * Bins \in Int /\ l[Len(l)] * Bins \in Int
  <2>1. 1 \in DOMAIN l /\ Len(l) \in DOMAIN l
    OBVIOUS
  <2>2. l[1] \in Int /\ l[Len(l)] \in Int
    BY <2>1
  <2> QED BY <2>1, <2>2, BinsPositive
<1>3. BinOf(bounds, l[1]) = 1
  <2>1. {b \in bounds : b <= l[1] * Bins} = {}
    BY <1>1, <1>2 DEF Boundaries
  <2> QED BY <2>1, FS_EmptySet DEF BinOf
<1>4. BinOf(bounds, l[Len(l)]) = Cardinality(bounds) + 1
  <2>1. {b \in bounds : b <= l[Len(l)] * Bins} = bounds
    BY <1>1, <1>2 DEF Boundaries
  <2> QED BY <2>1 DEF BinOf
<1>5. ASSUME NEW n \in 1..(Cardinality(bounds) + 1), NEW k \in DOMAIN l, BinOf(bounds, l[k]) = n
      PROVE  Counts(bounds, l)[n] > 0
  <2> DEFINE T == {i \in DOMAIN l : BinOf(bounds, l[i]) = n}
  <2>1. T \in SUBSET (1..Len(l)) /\ k \in T
    BY <1>5
  <2>2. IsFiniteSet(T) /\ Cardinality(T) \in Nat
    <3>1. IsFiniteSet(1..Len(l))
      BY FS_Interval
    <3> QED BY <2>1, <3>1, FS_Subset, FS_CardinalityType
  <2>3. Cardinality(T) # 0
    BY <2>1, <2>2, FS_EmptySet
  <2>4. Counts(bounds, l)[n] = Cardinality(T)
    BY DEF Counts
  <2> QED BY <2>2, <2>3, <2>4
<1>6. 1 \in 1..(Cardinality(bounds) + 1) /\ Cardinality(bounds) + 1 \in 1..(Cardinality(bounds) + 1)
  BY <1>1
<1> QED BY <1>2, <1>3, <1>4, <1>5, <1>6

-----------------------------------------------------------------------------
(* Categories. *)

\* One category: a of m rows before, b of n after.
LEMMA CategoryDifference ==
  ASSUME NEW a \in Nat, NEW b \in Nat, NEW m \in Nat, NEW n \in Nat, m > 0, n > 0
  PROVE  \A d, w : d = AbsDifference(a * n, b * m) /\ w = (IF a = 0 THEN b ELSE 0) =>
           /\ d \in Nat /\ w \in Nat
           /\ d <= n * a + m * b
           /\ d = n * a + m * b <=> a = 0 \/ b = 0
           /\ 2 * (m * w) + n * a - m * b <= d
<1> TAKE d, w
<1> HAVE d = AbsDifference(a * n, b * m) /\ w = (IF a = 0 THEN b ELSE 0)
<1>1. PICK x, y : x = n * a /\ y = m * b
  OBVIOUS
<1>2. x \in Nat /\ y \in Nat /\ (x = 0 <=> a = 0) /\ (y = 0 <=> b = 0) /\ a * n = x /\ b * m = y
  BY <1>1
<1>3. d = IF x < y THEN y - x ELSE x - y
  BY <1>2 DEF AbsDifference
<1>4. m * w = IF a = 0 THEN y ELSE 0
  BY <1>1
<1> QED BY <1>1, <1>2, <1>3, <1>4

LEMMA TotalsDistribute ==
  ASSUME NEW k \in Nat, NEW a \in Nat, NEW b \in Nat
  PROVE  k * (a + b) = k * a + k * b /\ k * a \in Nat /\ k * b \in Nat
OBVIOUS

CountsOn(f, C) == DOMAIN f = C /\ \A c \in C : f[c] \in Nat

\* d are the differences of the shares a and b of categories; w are those of
\* categories that are new.
Differences(C, a, b, m, n, d, w) ==
  /\ DOMAIN d = C /\ DOMAIN w = C
  /\ \A c \in C : d[c] = AbsDifference(a[c] * n, b[c] * m) /\ w[c] = IF a[c] = 0 THEN b[c] ELSE 0

\* No category is in both populations.
NoneShared(C, a, b) == \A c \in C : a[c] = 0 \/ b[c] = 0

LEMMA TotalDifference ==
  ASSUME NEW C, IsFiniteSet(C), NEW m \in Nat, NEW n \in Nat, m > 0, n > 0,
         NEW a, NEW b, NEW d, NEW w, CountsOn(a, C), CountsOn(b, C), Differences(C, a, b, m, n, d, w)
  PROVE  /\ CountsOn(d, C) /\ CountsOn(w, C)
         /\ Total(d, C) <= n * Total(a, C) + m * Total(b, C)
         /\ Total(d, C) = n * Total(a, C) + m * Total(b, C) <=> NoneShared(C, a, b)
         /\ 2 * (m * Total(w, C)) + n * Total(a, C) - m * Total(b, C) <= Total(d, C)
<1> DEFINE holds(T) ==
             /\ Total(d, T) <= n * Total(a, T) + m * Total(b, T)
             /\ Total(d, T) = n * Total(a, T) + m * Total(b, T) <=> \A c \in T : a[c] = 0 \/ b[c] = 0
             /\ 2 * (m * Total(w, T)) + n * Total(a, T) - m * Total(b, T) <= Total(d, T)
           P == {T \in SUBSET C : holds(T)}
<1>1. ASSUME NEW c \in C
      PROVE  /\ a[c] \in Nat /\ b[c] \in Nat /\ d[c] \in Nat /\ w[c] \in Nat
             /\ d[c] <= n * a[c] + m * b[c]
             /\ d[c] = n * a[c] + m * b[c] <=> a[c] = 0 \/ b[c] = 0
             /\ 2 * (m * w[c]) + n * a[c] - m * b[c] <= d[c]
  <2>1. PICK x \in Nat, y \in Nat : x = a[c] /\ y = b[c]
    BY DEF CountsOn
  <2>2. d[c] = AbsDifference(x * n, y * m) /\ w[c] = (IF x = 0 THEN y ELSE 0)
    BY <2>1 DEF Differences
  <2>3. \A u, v : u = AbsDifference(x * n, y * m) /\ v = (IF x = 0 THEN y ELSE 0) =>
          /\ u \in Nat /\ v \in Nat
          /\ u <= n * x + m * y
          /\ u = n * x + m * y <=> x = 0 \/ y = 0
          /\ 2 * (m * v) + n * x - m * y <= u
    BY CategoryDifference, Zenon
  <2>4. /\ d[c] \in Nat /\ w[c] \in Nat
        /\ d[c] <= n * x + m * y
        /\ d[c] = n * x + m * y <=> x = 0 \/ y = 0
        /\ 2 * (m * w[c]) + n * x - m * y <= d[c]
    BY <2>2, <2>3, Zenon
  <2> QED BY <2>1, <2>4
<1>2. CountsOn(d, C) /\ CountsOn(w, C)
  BY <1>1 DEF CountsOn, Differences
<1>3. ASSUME NEW f, CountsOn(f, C)
      PROVE  /\ Total(f, {}) = 0
             /\ \A U \in SUBSET C : Total(f, U) \in Nat
             /\ \A U \in SUBSET C : \A x \in U : Total(f, U) = f[x] + Total(f, U \ {x})
  BY <1>3, TotalStep DEF CountsOn
<1>4. {} \in P
  <2>1. Total(a, {}) = 0 /\ Total(b, {}) = 0 /\ Total(d, {}) = 0 /\ Total(w, {}) = 0
    BY <1>2, <1>3
  <2> QED BY <2>1
<1>5. ASSUME NEW T \in SUBSET C, NEW c \in T, T \ {c} \in P PROVE T \in P
  <2>1. PICK R \in SUBSET C : R = T \ {c}
    OBVIOUS
  <2>2. PICK a1, b1, d1, w1 : a1 = a[c] /\ b1 = b[c] /\ d1 = d[c] /\ w1 = w[c]
    OBVIOUS
  <2>3. PICK a2, b2, d2, w2 : a2 = Total(a, R) /\ b2 = Total(b, R) /\ d2 = Total(d, R) /\ w2 = Total(w, R)
    OBVIOUS
  <2>4. Total(a, T) = a1 + a2 /\ Total(b, T) = b1 + b2 /\ Total(d, T) = d1 + d2 /\ Total(w, T) = w1 + w2
    BY <1>2, <1>3, <2>1, <2>2, <2>3
  <2>5. /\ a1 \in Nat /\ b1 \in Nat /\ d1 \in Nat /\ w1 \in Nat
        /\ d1 <= n * a1 + m * b1
        /\ d1 = n * a1 + m * b1 <=> a1 = 0 \/ b1 = 0
        /\ 2 * (m * w1) + n * a1 - m * b1 <= d1
    BY <1>1, <2>2
  <2>6. a2 \in Nat /\ b2 \in Nat /\ d2 \in Nat /\ w2 \in Nat
    BY <1>2, <1>3, <2>3
  <2>7. /\ d2 <= n * a2 + m * b2
        /\ d2 = n * a2 + m * b2 <=> \A x \in R : a[x] = 0 \/ b[x] = 0
        /\ 2 * (m * w2) + n * a2 - m * b2 <= d2
    BY <1>5, <2>1, <2>3
  <2>8. PICK na1, na2, mb1, mb2, mw1, mw2 : /\ na1 = n * a1 /\ na2 = n * a2 /\ mb1 = m * b1 /\ mb2 = m * b2
                                          /\ mw1 = m * w1 /\ mw2 = m * w2
    OBVIOUS
  <2>9. /\ na1 \in Nat /\ na2 \in Nat /\ mb1 \in Nat /\ mb2 \in Nat /\ mw1 \in Nat /\ mw2 \in Nat
        /\ n * (a1 + a2) = na1 + na2 /\ m * (b1 + b2) = mb1 + mb2 /\ m * (w1 + w2) = mw1 + mw2
    BY <2>5, <2>6, <2>8, TotalsDistribute
  <2>10. (\A x \in T : a[x] = 0 \/ b[x] = 0) <=> (a1 = 0 \/ b1 = 0) /\ \A x \in R : a[x] = 0 \/ b[x] = 0
    BY <2>1, <2>2
  <2>11. /\ d1 + d2 <= (na1 + na2) + (mb1 + mb2)
         /\ d1 + d2 = (na1 + na2) + (mb1 + mb2) <=> d1 = na1 + mb1 /\ d2 = na2 + mb2
         /\ 2 * (mw1 + mw2) + (na1 + na2) - (mb1 + mb2) <= d1 + d2
    BY <2>5, <2>6, <2>7, <2>8, <2>9
  <2>12. holds(T)
    BY <2>4, <2>5, <2>7, <2>8, <2>9, <2>10, <2>11
  <2> QED BY <2>12
<1>6. SUBSET C \subseteq P
  <2> HIDE DEF P
  <2> QED BY <1>4, <1>5, AllSubsets
<1>7. holds(C)
  BY <1>6
<1> QED BY <1>2, <1>7 DEF NoneShared

Rows == Seq(Numbers \cup {Null})

LEMMA CategoriesFinite ==
  ASSUME reference \in Rows, comparison \in Rows
  PROVE  /\ IsFiniteSet(Categories)
         /\ \A s \in {reference, comparison} :
              /\ IsFiniteSet(DOMAIN s) /\ Cardinality(DOMAIN s) = Len(s) /\ Len(s) \in Nat
              /\ \A i \in DOMAIN s : s[i] \in Categories
<1>1. ASSUME NEW s \in Rows
      PROVE  /\ IsFiniteSet(DOMAIN s) /\ Cardinality(DOMAIN s) = Len(s) /\ Len(s) \in Nat
             /\ IsFiniteSet(ToSet(s)) /\ \A i \in DOMAIN s : s[i] \in ToSet(s)
  <2>1. DOMAIN s = 1..Len(s) /\ Len(s) \in Nat
    BY DEF Rows
  <2>2. IsFiniteSet(DOMAIN s) /\ Cardinality(DOMAIN s) = Len(s)
    <3>1. PICK k \in Nat : k = Len(s)
      BY <2>1
    <3>2. IsFiniteSet(1..k) /\ Cardinality(1..k) = k
      BY FS_Interval
    <3> QED BY <2>1, <3>1, <3>2
  <2>3. ToSet(s) = {s[i] : i \in DOMAIN s}
    BY DEF ToSet
  <2>4. IsFiniteSet({s[i] : i \in DOMAIN s})
    BY <2>2, ImageFinite
  <2> QED BY <2>1, <2>2, <2>3, <2>4
<1>2. IsFiniteSet(Categories)
  BY <1>1, FS_Union DEF Categories
<1>3. ToSet(reference) \subseteq Categories /\ ToSet(comparison) \subseteq Categories
  BY DEF Categories
<1> QED BY <1>1, <1>2, <1>3

DifferenceOf(c) == AbsDifference(CountOf(reference, c) * Len(comparison), CountOf(comparison, c) * Len(reference))

LEMMA VariationIsTotal ==
  ASSUME IsFiniteSet(Categories), NEW d, DOMAIN d = Categories,
         \A c \in Categories : d[c] = DifferenceOf(c) /\ d[c] \in Nat
  PROVE  TotalVariation = Total(d, Categories)
<1> DEFINE unroll(g) ==
      [t \in SUBSET Categories |->
         IF t = {} THEN 0
         ELSE DifferenceOf(CHOOSE x \in t : TRUE) + g[t \ {CHOOSE x \in t : TRUE}]]
<1>1. \A t \in SUBSET Categories : t # {} => d[CHOOSE x \in t : TRUE] = DifferenceOf(CHOOSE x \in t : TRUE)
  <2>1. \A t : t # {} => (CHOOSE x \in t : TRUE) \in t
    OBVIOUS
  <2> QED BY <2>1
<1>2. \A g : AddsUp(d, Categories, g) <=> g = unroll(g)
  <2>1. TAKE g
  <2>2. [t \in SUBSET Categories |->
           IF t = {} THEN 0 ELSE d[CHOOSE x \in t : TRUE] + g[t \ {CHOOSE x \in t : TRUE}]] = unroll(g)
    BY <1>1
  <2> QED BY <2>2, Zenon DEF AddsUp
<1>3. PICK g : AddsUp(d, Categories, g)
  BY SumIsTotal, Zenon
<1>4. g = unroll(g)
  BY <1>2, <1>3
<1>5. TotalVariation = (CHOOSE a : a = unroll(a))[Categories]
  BY Zenon DEF TotalVariation, MapThenSumSet, MapThenFoldSet, DifferenceOf
<1> HIDE DEF unroll
<1>6. PICK e : e = CHOOSE a : a = unroll(a)
  OBVIOUS
<1>7. e = unroll(e)
  BY <1>4, <1>6, Zenon
<1>8. e[Categories] = Total(d, Categories)
  BY <1>2, <1>7, SumIsTotal
<1> QED BY <1>5, <1>6, <1>8

\* The rows of the comparison that have a new category.
NewRows == {i \in DOMAIN comparison : comparison[i] \in NewCategories}

LEMMA NewIsTotal ==
  ASSUME IsFiniteSet(Categories), IsFiniteSet(DOMAIN comparison)
  PROVE  MapThenSumSet(LAMBDA c : CountOf(comparison, c), NewCategories) = Cardinality(NewRows)
<1> DEFINE f == [c \in NewCategories |-> CountOf(comparison, c)]
           unroll(g) ==
      [t \in SUBSET NewCategories |->
         IF t = {} THEN 0
         ELSE CountOf(comparison, CHOOSE x \in t : TRUE) + g[t \ {CHOOSE x \in t : TRUE}]]
<1>1. IsFiniteSet(NewCategories)
  BY FS_Subset DEF NewCategories
<1>2. CountsByKey(f, NewCategories, DOMAIN comparison, comparison)
  BY DEF CountsByKey, CountOf
<1>3. \A t \in SUBSET NewCategories : t # {} =>
        f[CHOOSE x \in t : TRUE] = CountOf(comparison, CHOOSE x \in t : TRUE)
  <2>1. \A t : t # {} => (CHOOSE x \in t : TRUE) \in t
    OBVIOUS
  <2> QED BY <2>1
<1> HIDE DEF f
<1>4. /\ DOMAIN f = NewCategories /\ \A c \in NewCategories : f[c] \in Nat
      /\ Total(f, NewCategories) = Cardinality(NewRows)
  BY <1>1, <1>2, TotalOfCounts DEF NewRows
<1>5. \A g : AddsUp(f, NewCategories, g) <=> g = unroll(g)
  <2>1. TAKE g
  <2>2. [t \in SUBSET NewCategories |->
           IF t = {} THEN 0 ELSE f[CHOOSE x \in t : TRUE] + g[t \ {CHOOSE x \in t : TRUE}]] = unroll(g)
    BY <1>3
  <2> QED BY <2>2, Zenon DEF AddsUp
<1>6. PICK g : AddsUp(f, NewCategories, g)
  BY <1>1, <1>4, SumIsTotal, Zenon
<1>7. g = unroll(g)
  BY <1>5, <1>6
<1>8. MapThenSumSet(LAMBDA c : CountOf(comparison, c), NewCategories) = (CHOOSE a : a = unroll(a))[NewCategories]
  BY Zenon DEF MapThenSumSet, MapThenFoldSet
<1> HIDE DEF unroll
<1>9. PICK e : e = CHOOSE a : a = unroll(a)
  OBVIOUS
<1>10. e = unroll(e)
  BY <1>7, <1>9, Zenon
<1>11. e[NewCategories] = Total(f, NewCategories)
  BY <1>1, <1>4, <1>5, <1>10, SumIsTotal
<1> QED BY <1>4, <1>8, <1>9, <1>11

\* categorical_comparison balances: see CategoriesBalance.
LEMMA BalanceOfCategories ==
  ASSUME reference \in Rows, comparison \in Rows
  PROVE  CategoriesBalance
<1> SUFFICES ASSUME Min({Len(reference), Len(comparison)}) >= MinimumRows
             PROVE  LET m == Len(reference) n == Len(comparison)
                        new == MapThenSumSet(LAMBDA c : CountOf(comparison, c), NewCategories)
                    IN /\ TotalVariation <= 2 * m * n
                       /\ TotalVariation = 2 * m * n <=> Categories = NewCategories \cup DisappearedCategories
                       /\ TotalVariation >= 2 * m * new
  BY Zenon DEF CategoriesBalance
<1> DEFINE C == Categories
           a == [c \in C |-> CountOf(reference, c)]
           b == [c \in C |-> CountOf(comparison, c)]
           d == [c \in C |-> DifferenceOf(c)]
           w == [c \in C |-> Cardinality({i \in NewRows : comparison[i] = c})]
<1>1. /\ IsFiniteSet(C) /\ IsFiniteSet(DOMAIN reference) /\ IsFiniteSet(DOMAIN comparison)
      /\ Cardinality(DOMAIN reference) = Len(reference) /\ Len(reference) \in Nat
      /\ Cardinality(DOMAIN comparison) = Len(comparison) /\ Len(comparison) \in Nat
      /\ \A i \in DOMAIN reference : reference[i] \in C
      /\ \A i \in DOMAIN comparison : comparison[i] \in C
  BY CategoriesFinite
<1>2. PICK m \in Nat, n \in Nat : m = Len(reference) /\ n = Len(comparison) /\ m > 0 /\ n > 0
  <2>1. Min({Len(reference), Len(comparison)}) <= Len(reference)
        /\ Min({Len(reference), Len(comparison)}) <= Len(comparison)
        /\ Min({Len(reference), Len(comparison)}) \in {Len(reference), Len(comparison)}
    <3>1. \A x, y \in Nat : Min({x, y}) \in {x, y} /\ Min({x, y}) <= x /\ Min({x, y}) <= y
      <4>1. TAKE x, y \in Nat
      <4>2. x \in Int /\ y \in Int
        OBVIOUS
      <4> QED BY <4>2, MaxOfTwo, Zenon
    <3> QED BY <1>1, <3>1, Zenon
  <2> QED BY <1>1, <2>1, SupportAssumption
<1>3. IsFiniteSet(NewRows) /\ NewRows \in SUBSET DOMAIN comparison
  BY <1>1, FS_Subset DEF NewRows
<1>4. CountsByKey(a, C, DOMAIN reference, reference) /\ CountsByKey(b, C, DOMAIN comparison, comparison)
      /\ CountsByKey(w, C, NewRows, comparison)
  BY DEF CountsByKey, CountOf
<1>5. \A c \in C : /\ a[c] = CountOf(reference, c) /\ b[c] = CountOf(comparison, c)
                   /\ d[c] = DifferenceOf(c) /\ w[c] = Cardinality({i \in NewRows : comparison[i] = c})
  OBVIOUS
<1>6. DOMAIN d = C /\ DOMAIN w = C
  OBVIOUS
<1> HIDE DEF a, b, d, w
<1>7. CountsOn(a, C) /\ CountsOn(b, C)
  BY <1>1, <1>4, TotalOfCounts DEF CountsOn
<1>8. Total(a, C) = m /\ Total(b, C) = n /\ Total(w, C) = Cardinality(NewRows)
  <2>1. C \in SUBSET C
    OBVIOUS
  <2>2. Total(a, C) = Cardinality({i \in DOMAIN reference : reference[i] \in C})
    BY <1>1, <1>4, <2>1, TotalOfCounts
  <2>3. Total(b, C) = Cardinality({i \in DOMAIN comparison : comparison[i] \in C})
    BY <1>1, <1>4, <2>1, TotalOfCounts
  <2>4. Total(w, C) = Cardinality({i \in NewRows : comparison[i] \in C})
    BY <1>1, <1>3, <1>4, <2>1, TotalOfCounts
  <2>5. {i \in DOMAIN reference : reference[i] \in C} = DOMAIN reference
        /\ {i \in DOMAIN comparison : comparison[i] \in C} = DOMAIN comparison
        /\ {i \in NewRows : comparison[i] \in C} = NewRows
    BY <1>1, <1>3
  <2> QED BY <1>1, <1>2, <2>2, <2>3, <2>4, <2>5
<1>9. ASSUME NEW c \in C PROVE w[c] = IF a[c] = 0 THEN b[c] ELSE 0
  <2>1. CASE a[c] = 0
    <3>1. c \in NewCategories
      BY <1>5, <2>1 DEF NewCategories
    <3>2. {i \in NewRows : comparison[i] = c} = {i \in DOMAIN comparison : comparison[i] = c}
      BY <3>1 DEF NewRows
    <3> QED BY <1>5, <2>1, <3>2 DEF CountOf
  <2>2. CASE a[c] # 0
    <3>1. c \notin NewCategories
      BY <1>5, <2>2 DEF NewCategories
    <3>2. {i \in NewRows : comparison[i] = c} = {}
      BY <3>1 DEF NewRows
    <3> QED BY <1>5, <2>2, <3>2, FS_EmptySet
  <2> QED BY <2>1, <2>2
<1>10. Differences(C, a, b, m, n, d, w)
  BY <1>2, <1>5, <1>6, <1>9 DEF Differences, DifferenceOf
<1>11. /\ CountsOn(d, C)
       /\ Total(d, C) <= n * Total(a, C) + m * Total(b, C)
       /\ Total(d, C) = n * Total(a, C) + m * Total(b, C) <=> NoneShared(C, a, b)
       /\ 2 * (m * Total(w, C)) + n * Total(a, C) - m * Total(b, C) <= Total(d, C)
  <2>1. IsFiniteSet(C) /\ m > 0 /\ n > 0
    BY <1>1, <1>2
  <2> HIDE DEF C
  <2>2. PICK S, e, f, g, h : S = C /\ e = a /\ f = b /\ g = d /\ h = w
    OBVIOUS
  <2>3. IsFiniteSet(S) /\ CountsOn(e, S) /\ CountsOn(f, S) /\ Differences(S, e, f, m, n, g, h)
    BY <1>7, <1>10, <2>1, <2>2, Zenon
  <2>4. /\ CountsOn(g, S)
        /\ Total(g, S) <= n * Total(e, S) + m * Total(f, S)
        /\ Total(g, S) = n * Total(e, S) + m * Total(f, S) <=> NoneShared(S, e, f)
        /\ 2 * (m * Total(h, S)) + n * Total(e, S) - m * Total(f, S) <= Total(g, S)
    <3>1. CountsOn(g, S)
      BY <2>1, <2>3, TotalDifference, Zenon
    <3>2. Total(g, S) <= n * Total(e, S) + m * Total(f, S)
      BY <2>1, <2>3, TotalDifference, Zenon
    <3>3. Total(g, S) = n * Total(e, S) + m * Total(f, S) <=> NoneShared(S, e, f)
      BY <2>1, <2>3, TotalDifference, Zenon
    <3>4. 2 * (m * Total(h, S)) + n * Total(e, S) - m * Total(f, S) <= Total(g, S)
      BY <2>1, <2>3, TotalDifference, Zenon
    <3> QED BY <3>1, <3>2, <3>3, <3>4
  <2> QED BY <2>2, <2>4, Zenon
<1>12. TotalVariation = Total(d, C)
  BY <1>1, <1>5, <1>6, <1>11, VariationIsTotal DEF CountsOn
<1>13. NoneShared(C, a, b) <=> Categories = NewCategories \cup DisappearedCategories
  BY <1>5 DEF NoneShared, NewCategories, DisappearedCategories
<1>14. MapThenSumSet(LAMBDA c : CountOf(comparison, c), NewCategories) = Cardinality(NewRows)
  BY <1>1, NewIsTotal
<1>15. PICK v, x : v = TotalVariation /\ x = Cardinality(NewRows)
  OBVIOUS
<1>16. x \in Nat /\ v \in Nat
  <2>1. Total(d, C) \in Nat
    BY <1>1, <1>11, TotalStep, Zenon DEF CountsOn
  <2> QED BY <1>3, <1>12, <1>15, <2>1, FS_CardinalityType
<1>17. PICK p, q : p = m * n /\ q = m * x
  OBVIOUS
<1>18. /\ v <= n * m + m * n
       /\ v = n * m + m * n <=> Categories = NewCategories \cup DisappearedCategories
       /\ 2 * (m * x) + n * m - m * n <= v
  BY <1>8, <1>11, <1>12, <1>13, <1>15, Zenon
<1>19. p \in Nat /\ q \in Nat /\ n * m = p /\ 2 * m * n = 2 * p /\ 2 * m * x = 2 * q
  BY <1>16, <1>17
<1>20. /\ v <= 2 * p /\ 2 * q <= v
       /\ v = 2 * p <=> Categories = NewCategories \cup DisappearedCategories
  <2>1. /\ v <= p + p /\ 2 * q + p - p <= v
        /\ v = p + p <=> Categories = NewCategories \cup DisappearedCategories
    BY <1>17, <1>18, <1>19
  <2> QED BY <1>16, <1>19, <2>1
<1> QED BY <1>2, <1>14, <1>15, <1>16, <1>19, <1>20

-----------------------------------------------------------------------------
(* The populations grow, and the distances are what they are called. *)

LEMMA PresentValues ==
  ASSUME NEW s \in Rows
  PROVE  Finite(s) \in Seq(Int) /\ Ascending(Finite(s)) /\ Len(Finite(s)) \in Nat
<1> DEFINE S == {i \in DOMAIN s : s[i] # Null}
<1>1. DOMAIN s = 1..Len(s) /\ Len(s) \in Nat /\ \A i \in DOMAIN s : s[i] \in Numbers \cup {Null}
  BY DEF Rows
<1>2. IsFiniteSet(S)
  <2>1. PICK k \in Nat : k = Len(s)
    BY <1>1
  <2>2. IsFiniteSet(1..k)
    BY FS_Interval
  <2>3. S \in SUBSET (1..k)
    BY <1>1, <2>1
  <2> QED BY <2>2, <2>3, FS_Subset
<1>3. S \in SUBSET Int /\ \A i \in S : s[i] \in Int
  <2>1. S \in SUBSET Int
    BY <1>1
  <2>2. \A i \in S : s[i] \in Numbers
    BY <1>1
  <2> QED BY <2>1, <2>2, NumbersAssumption, Zenon
<1>4. Finite(s) = Sorted(s, S)
  BY Zenon DEF Finite
<1> HIDE DEF S
<1>5. Finite(s) \in Seq(Int) /\ Ascending(Finite(s))
  BY <1>2, <1>3, <1>4, SortedValues
<1> QED BY <1>5

LEMMA EnoughValues ==
  ASSUME reference \in Rows, comparison \in Rows,
         NumericStatus \notin {"INSUFFICIENT_COHORT_ROWS", "INSUFFICIENT_NON_NULL_ROWS"}
  PROVE  /\ Finite(reference) # <<>> /\ Finite(comparison) # <<>>
         /\ NumericStatus = PsiStatus(Finite(reference), Finite(comparison))
<1> DEFINE l == Finite(reference)
           r == Finite(comparison)
<1>1. l \in Seq(Int) /\ r \in Seq(Int) /\ Len(l) \in Nat /\ Len(r) \in Nat
  BY PresentValues
<1>2. ~(Min({Len(reference), Len(comparison)}) < MinimumRows) /\ ~(Min({Len(l), Len(r)}) < MinimumNonNull)
  BY DEF NumericStatus
<1>3. Min({Len(l), Len(r)}) <= Len(l) /\ Min({Len(l), Len(r)}) <= Len(r) /\ Min({Len(l), Len(r)}) \in {Len(l), Len(r)}
  <2>1. Len(l) \in Int /\ Len(r) \in Int
    BY <1>1
  <2> QED BY <2>1, MaxOfTwo, Zenon
<1>4. Len(l) # 0 /\ Len(r) # 0
  BY <1>1, <1>2, <1>3, SupportAssumption
<1>5. l # <<>> /\ r # <<>>
  BY <1>4
<1>6. NumericStatus = PsiStatus(l, r)
  BY <1>2 DEF NumericStatus
<1> QED BY <1>5, <1>6

LEMMA LargestGap ==
  ASSUME reference \in Rows, comparison \in Rows
  PROVE  KSIsLargestGap
<1> DEFINE l == Finite(reference)
           r == Finite(comparison)
<1> SUFFICES ASSUME NumericStatus \notin {"INSUFFICIENT_COHORT_ROWS", "INSUFFICIENT_NON_NULL_ROWS"}
             PROVE  /\ KSDistance(l, r) = Max({Gap(l, r, v) : v \in ToSet(l) \cup ToSet(r)})
                    /\ KSDistance(r, l) = KSDistance(l, r)
  BY DEF KSIsLargestGap
<1>1. l \in Seq(Int) /\ r \in Seq(Int) /\ Ascending(l) /\ Ascending(r) /\ l # <<>> /\ r # <<>>
  BY PresentValues, EnoughValues
<1> HIDE DEF l, r
<1>2. KSDistance(l, r) = Max({Gap(l, r, v) : v \in ToSet(l) \cup ToSet(r)})
  BY <1>1, WalkFindsGap
<1>3. KSDistance(r, l) = Max({Gap(r, l, v) : v \in ToSet(r) \cup ToSet(l)})
  BY <1>1, WalkFindsGap
<1>4. {Gap(r, l, v) : v \in ToSet(r) \cup ToSet(l)} = {Gap(l, r, v) : v \in ToSet(l) \cup ToSet(r)}
  <2>1. \A v \in ToSet(l) \cup ToSet(r) : Gap(r, l, v) = Gap(l, r, v)
    <3>1. ToSet(l) \in SUBSET Int /\ ToSet(r) \in SUBSET Int
      BY <1>1, ValuesFinite
    <3> QED BY <1>1, <3>1, GapsNat
  <2>2. ToSet(r) \cup ToSet(l) = ToSet(l) \cup ToSet(r)
    OBVIOUS
  <2> QED BY <2>1, <2>2
<1> QED BY <1>2, <1>3, <1>4

LEMMA BinsHold ==
  ASSUME reference \in Rows, comparison \in Rows
  PROVE  BinsHoldReference
<1> DEFINE l == Finite(reference)
           r == Finite(comparison)
           bounds == Boundaries(l)
<1> SUFFICES ASSUME NumericStatus = "AVAILABLE"
             PROVE  /\ Counts(bounds, l)[1] > 0 /\ Counts(bounds, l)[Cardinality(bounds) + 1] > 0
                    /\ \A s \in {l, r} :
                         MapThenSumSet(LAMBDA n : Counts(bounds, s)[n], 1 .. (Cardinality(bounds) + 1)) = Len(s)
  BY Zenon DEF BinsHoldReference
<1>1. l \in Seq(Int) /\ r \in Seq(Int) /\ Ascending(l) /\ l # <<>>
  BY PresentValues, EnoughValues
<1> HIDE DEF l, r
<1>2. IsFiniteSet(bounds)
  BY <1>1, BoundariesFinite
<1>3. Counts(bounds, l)[1] > 0 /\ Counts(bounds, l)[Cardinality(bounds) + 1] > 0
  BY <1>1, OuterBins
<1> HIDE DEF bounds
<1>4. \A s \in Seq(Int) :
        MapThenSumSet(LAMBDA n : Counts(bounds, s)[n], 1 .. (Cardinality(bounds) + 1)) = Len(s)
  BY <1>2, BinsPartition, Zenon
<1> QED BY <1>1, <1>3, <1>4, Zenon

LEMMA QuantilesOrdered ==
  ASSUME reference \in Rows
  PROVE  PercentilesOrdered
<1>1. Finite(reference) \in Seq(Int) /\ Ascending(Finite(reference))
  BY PresentValues
<1> QED BY <1>1, PercentilesInOrder DEF PercentilesOrdered

\* Whatever the populations grow to, the distances are what they are called:
\* the walk of ks_distance finds the largest gap between the distribution
\* functions, psi puts every value in one bin and leaves no outer bin of the
\* reference empty, quantiles are in order, and the total variation balances.
THEOREM DistancesDefinedHolds == PopulationsSpec => []DistancesDefined
<1> DEFINE Inv == reference \in Rows /\ comparison \in Rows
<1>1. Empty => Inv
  BY DEF Empty, Rows
<1>2. Inv /\ [AddReference \/ AddComparison]_populations => Inv'
  <2> SUFFICES ASSUME Inv, [AddReference \/ AddComparison]_populations PROVE Inv'
    OBVIOUS
  <2>1. CASE AddReference
    BY <2>1 DEF AddReference, Rows
  <2>2. CASE AddComparison
    BY <2>2 DEF AddComparison, Rows
  <2>3. CASE UNCHANGED populations
    BY <2>3 DEF populations
  <2> QED BY <2>1, <2>2, <2>3
<1>3. Inv => DistancesDefined
  BY LargestGap, BinsHold, QuantilesOrdered, BalanceOfCategories DEF DistancesDefined
<1> QED BY <1>1, <1>2, <1>3, PTL DEF PopulationsSpec
=============================================================================
