------------------------------- MODULE Recovery -------------------------------
(***************************************************************************)
(* Backup and restore of one research lineage: a cutoff of its files and   *)
(* of the broker's volume is captured, a bundle is built from it, files    *)
(* are restored from a bundle into a fresh root, and a rehearsal runs the  *)
(* broker and the commands over the restored copies.  What is stored is    *)
(* read place by place, and nothing keeps the operator's other commands    *)
(* and the broker of the source from running in between.                   *)
(***************************************************************************)
EXTENDS Naturals, FiniteSets

CONSTANTS
  Files,  \* stored files: tables, checkpoints, journals, receipts, results
  Topics, \* what the broker's volume holds
  Needs,  \* place -> places whose content its own is made from
  Roots,        \* directories that files are restored into
  Rehearsals,   \* projects, each staged once
  Absent,       \* no subject, root or rehearsal
  MaxContent,   \* bound: content of a place, by how often it was written
  MaxWork,      \* bound: host commands that work on the source
  MaxRestarts,  \* bound: restarts of the source's broker
  MaxCutoffs    \* bound: complete cutoffs

Places == Files \cup Topics

ASSUME PlacesAssumption ==
  /\ Files \cap Topics = {}
  /\ Needs \in [Places -> SUBSET Places]
  /\ MaxContent \in Nat

VARIABLES
  stored,     \* place -> content, which never returns to an earlier one
  up,         \* whether a container of the source runs
  busy,       \* whether a host command works on the source
  used,       \* [work, restarts]: how many there were
  step,       \* of the running capture, build or restore-files command
  read,       \* reading -> what that command has read in it
  subject,    \* cutoff, or bundle and root, the command is given
  cutoffs,    \* complete cutoffs: [probe, live, files, volume]
  bundles,    \* bundles that verify: [cutoff, payload]
  roots,      \* root -> file -> content, of what was extracted there
  rehearsals  \* project -> [bundle, root, volume, preflight, broker, resume, finished]

sourceVars == <<stored, up, busy, used>>
commandVars == <<step, read, subject>>
recoveryVars == <<sourceVars, commandVars, cutoffs, bundles, roots, rehearsals>>

\* Nothing is made from what is not there.
Consistent(content) == \A p \in Places : \A q \in Needs[p] : content[p] <= content[q]

\* The readings of the commands and what each reads.
PlacesOf ==
  [dependencies |-> Files, snapshot |-> Topics, before |-> Files, archive |-> Topics, after |-> Files,
   source |-> Files, payload |-> Files, recheck |-> Files]
Readings == DOMAIN PlacesOf
NoContent == [p \in {} |-> 0]
With(content, p, c) == [q \in DOMAIN content \cup {p} |-> IF q = p THEN c ELSE content[q]]
Nothing == [r \in Readings |-> NoContent]

RecoveryInit ==
  /\ stored \in {c \in [Places -> 0 .. MaxContent] : Consistent(c)}
  /\ up = TRUE /\ busy = FALSE /\ used = [work |-> 0, restarts |-> 0]
  /\ step = "idle" /\ read = Nothing /\ subject = Absent
  /\ cutoffs = {} /\ bundles = {}
  /\ roots = [n \in Roots |-> Absent] /\ rehearsals = [i \in Rehearsals |-> Absent]

-----------------------------------------------------------------------------
(* The source, worked on by commands the recovery knows nothing of.        *)

\* p may be written once more; all but the first of its kind is made from others.
MayGrow(content, p) ==
  content[p] < MaxContent /\ \A q \in Needs[p] : content[p] < content[q]
Grown(content, p) == [content EXCEPT ![p] = @ + 1]

StartWork ==
  /\ ~busy /\ used.work < MaxWork
  /\ busy' = TRUE /\ used' = [used EXCEPT !.work = @ + 1]
  /\ UNCHANGED <<stored, up, commandVars, cutoffs, bundles, roots, rehearsals>>

Work(p) ==
  /\ busy /\ MayGrow(stored, p)
  /\ p \in Topics => up
  /\ stored' = Grown(stored, p)
  /\ UNCHANGED <<up, busy, used, commandVars, cutoffs, bundles, roots, rehearsals>>

EndWork ==
  /\ busy /\ busy' = FALSE
  /\ UNCHANGED <<stored, up, used, commandVars, cutoffs, bundles, roots, rehearsals>>

StopSource ==
  /\ up /\ up' = FALSE
  /\ UNCHANGED <<stored, busy, used, commandVars, cutoffs, bundles, roots, rehearsals>>

RestartBroker ==
  /\ ~up /\ used.restarts < MaxRestarts
  /\ up' = TRUE /\ used' = [used EXCEPT !.restarts = @ + 1]
  /\ UNCHANGED <<stored, busy, commandVars, cutoffs, bundles, roots, rehearsals>>

-----------------------------------------------------------------------------
(* Capture, build and restore-files.                                       *)

\* The snapshot asks the running broker.
Reachable(r) == r = "snapshot" => up

\* The places of a reading are read one by one, in whatever order their paths
\* sort or the archive lists them.
Read(r) ==
  /\ step = r /\ Reachable(r)
  /\ \E p \in PlacesOf[r] \ DOMAIN read[r] :
       read' = [read EXCEPT ![r] = With(@, p, stored[p])]
  /\ UNCHANGED <<sourceVars, step, subject, cutoffs, bundles, roots, rehearsals>>

Full(r) == step = r /\ DOMAIN read[r] = PlacesOf[r]

Goes(to) == step' = to /\ UNCHANGED <<read, subject>>
Begins(at, given) == step = "idle" /\ step' = at /\ subject' = given /\ UNCHANGED read
EndsCommand == step' = "idle" /\ read' = Nothing /\ subject' = Absent

\* A command that is killed, refuses or is done; what it left incomplete is
\* refused by every later one, as is its destination.
Exit ==
  /\ step # "idle" /\ EndsCommand
  /\ UNCHANGED <<sourceVars, cutoffs, bundles, roots, rehearsals>>

StartCapture ==
  /\ Begins("dependencies", Absent) /\ Cardinality(cutoffs) < MaxCutoffs
  /\ UNCHANGED <<sourceVars, cutoffs, bundles, roots, rehearsals>>

\* From the files' identities to the broker's, to the files' bytes, to the
\* volume's, to the files' again; in between the broker is stopped.
CaptureOn ==
  /\ \/ Full("dependencies") /\ Goes("snapshot")
     \/ Full("snapshot") /\ ~busy /\ Goes("stop")
     \/ step = "stopped" /\ ~up /\ Goes("before")
     \/ Full("before") /\ Goes("archive")
     \/ Full("archive") /\ Goes("after")
  /\ UNCHANGED <<sourceVars, cutoffs, bundles, roots, rehearsals>>

StopBroker ==
  /\ step = "stop" /\ up' = FALSE /\ Goes("stopped")
  /\ UNCHANGED <<stored, busy, used, cutoffs, bundles, roots, rehearsals>>

PublishCutoff ==
  /\ Full("after")
  /\ read["before"] = read["after"] /\ ~busy
  /\ cutoffs' = cutoffs \cup
       {[probe |-> read["dependencies"], live |-> read["snapshot"],
         files |-> read["before"], volume |-> read["archive"]]}
  /\ EndsCommand
  /\ UNCHANGED <<sourceVars, bundles, roots, rehearsals>>

StartBuild(c) ==
  /\ Begins("source", c) /\ ~up
  /\ UNCHANGED <<sourceVars, cutoffs, bundles, roots, rehearsals>>

BuildOn ==
  /\ \/ Full("source") /\ read["source"] = subject.files /\ Goes("payload")
     \/ Full("payload") /\ Goes("recheck")
  /\ UNCHANGED <<sourceVars, cutoffs, bundles, roots, rehearsals>>

\* verify: the payload is exactly the inventory of the cutoff.
Verified(b) == b.payload = b.cutoff.files

PublishBundle ==
  LET b == [cutoff |-> subject, payload |-> read["payload"]] IN
  /\ Full("recheck")
  /\ read["source"] = read["recheck"] /\ ~up
  /\ Verified(b)
  /\ bundles' = bundles \cup {b}
  /\ EndsCommand
  /\ UNCHANGED <<sourceVars, cutoffs, roots, rehearsals>>

StartRestore(b, n) ==
  /\ Begins("extract", [bundle |-> b, root |-> n]) /\ roots[n] = Absent
  /\ roots' = [roots EXCEPT ![n] = NoContent]
  /\ UNCHANGED <<sourceVars, cutoffs, bundles, rehearsals>>

Extract ==
  LET n == subject.root IN
  /\ step = "extract"
  /\ \E f \in Files \ DOMAIN roots[n] :
       roots' = [roots EXCEPT ![n] = With(@, f, subject.bundle.payload[f])]
  /\ UNCHANGED <<sourceVars, commandVars, cutoffs, bundles, rehearsals>>

-----------------------------------------------------------------------------
(* Rehearsals, each with a project, a volume and evidence of its own.      *)

Prepared(b, n) ==
  [bundle |-> b, root |-> n, volume |-> b.cutoff.volume,
   preflight |-> "none", broker |-> FALSE, resume |-> "none", finished |-> FALSE]

\* The root must be there; whether it is whole, and of this bundle, is left
\* to the preflight.
Stage(i, b, n) ==
  /\ step = "idle" /\ ~up /\ rehearsals[i] = Absent
  /\ roots[n] \notin {Absent, NoContent}
  /\ rehearsals' = [rehearsals EXCEPT ![i] = Prepared(b, n)]
  /\ UNCHANGED <<sourceVars, commandVars, cutoffs, bundles, roots>>

\* inspect_restored: every file's bytes, then the identities probed at capture.
InspectRestored(h) ==
  /\ roots[h.root] = h.bundle.cutoff.files
  /\ roots[h.root] = h.bundle.cutoff.probe

Staged == {i \in Rehearsals : rehearsals[i] # Absent}

Rehearses(i, h) ==
  /\ step = "idle" /\ ~up
  /\ rehearsals' = [rehearsals EXCEPT ![i] = h]
  /\ UNCHANGED <<sourceVars, commandVars, cutoffs, bundles, roots>>

\* The container of an action is kept, so no action is tried twice: one that is
\* killed or refuses is the rehearsal's end.
Preflight(i) ==
  LET h == rehearsals[i] IN
  /\ h.preflight = "none"
  /\ \E result \in {"refused", "passed"} :
       /\ result = "passed" => InspectRestored(h)
       /\ Rehearses(i, [h EXCEPT !.preflight = result])

\* Mutation: the restored broker is not compared.
StartRestoredUnchecked(i) ==
  LET h == rehearsals[i] IN
  /\ h.preflight = "passed" /\ ~h.broker
  /\ Rehearses(i, [h EXCEPT !.broker = TRUE])

\* The restored broker is compared with the one that was probed before the
\* source was stopped.
StartRestored(i) ==
  LET h == rehearsals[i] IN
  /\ h.preflight = "passed" /\ ~h.broker
  /\ h.volume = h.bundle.cutoff.live
  /\ Rehearses(i, [h EXCEPT !.broker = TRUE])

Resume(i) ==
  LET h == rehearsals[i] IN
  /\ h.broker /\ h.resume = "none"
  /\ \E result \in {"refused", "running"} :
       /\ result = "running" => InspectRestored(h)
       /\ Rehearses(i, [h EXCEPT !.resume = result])

\* What the commands of a rehearsal see.
Restored(h) == [p \in Places |-> IF p \in Files THEN roots[h.root][p] ELSE h.volume[p]]

\* The container goes on, also when the command that waits for it is killed.
ResumedWork(i, p) ==
  LET h == rehearsals[i] IN
  /\ h.resume = "running" /\ MayGrow(Restored(h), p)
  /\ IF p \in Files
     THEN roots' = [roots EXCEPT ![h.root] = Grown(@, p)] /\ UNCHANGED rehearsals
     ELSE rehearsals' = [rehearsals EXCEPT ![i].volume = Grown(@, p)] /\ UNCHANGED roots
  /\ UNCHANGED <<sourceVars, commandVars, cutoffs, bundles>>

\* verify_final: nothing is pending between any two stages.
Drained(content) == \A p \in Places : \A q \in Needs[p] : content[p] = content[q]

EndResume(i) ==
  LET h == rehearsals[i] IN
  /\ h.resume = "running" /\ Drained(Restored(h))
  /\ rehearsals' = [rehearsals EXCEPT ![i].resume = "resumed"]
  /\ UNCHANGED <<sourceVars, commandVars, cutoffs, bundles, roots>>

Finish(i) ==
  LET h == rehearsals[i] IN
  /\ h.resume = "resumed" /\ ~h.finished
  /\ Rehearses(i, [h EXCEPT !.finished = TRUE])

RecoveryNext ==
  \/ StartWork \/ (\E p \in Places : Work(p)) \/ EndWork \/ StopSource \/ RestartBroker
  \/ \E r \in Readings : Read(r)
  \/ Exit
  \/ StartCapture \/ CaptureOn \/ StopBroker \/ PublishCutoff
  \/ (\E c \in cutoffs : StartBuild(c)) \/ BuildOn \/ PublishBundle
  \/ (\E b \in bundles, n \in Roots : StartRestore(b, n)) \/ Extract
  \/ \E i \in Rehearsals, b \in bundles, n \in Roots : Stage(i, b, n)
  \/ \E i \in Staged :
       \/ Preflight(i) \/ StartRestored(i) \/ Resume(i) \/ EndResume(i) \/ Finish(i)
       \/ \E p \in Places : ResumedWork(i, p)

RecoverySpec == RecoveryInit /\ [][RecoveryNext]_recoveryVars

-----------------------------------------------------------------------------
\* "Consistent cutoff": whatever ran while files and volume were probed, copied
\* and archived one by one, commands are only resumed over copies of one moment
\* of the source, in which nothing is missing that something else is made from.
ResumesOneInstant ==
  [][\A i \in Staged :
       rehearsals[i].resume = "none" /\ rehearsals'[i].resume = "running" =>
         Consistent(Restored(rehearsals[i]))]_recoveryVars
=============================================================================
