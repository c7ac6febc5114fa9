---------------------- MODULE FirmwareUpdater_proofs ----------------------
(***************************************************************************)
(* SingleLaunch, FlashIsolated, KeepOnlyIfAllowed, PhaseForward and         *)
(* WriterKeepsImage for any set of jobs and processes.  No invariant among   *)
(* them is inductive: the argument is who may still be on the way to change  *)
(* the saved job or remove its image once a flash was confirmed, which IInv  *)
(* spells out per kind of process, and PairInv for jobs no longer saved.     *)
(***************************************************************************)
EXTENDS FirmwareUpdater, TLAPS

\* With both duplicates and failing storage, a duplicate invocation whose lock
\* file cannot be opened fails the job of the worker that runs (service.go:329-332).
ASSUME LoneWorkers == StorageFaults => \A c, d \in Copies : c = d

PrepareSteps == {"off", "status", "lock", "recheck", "metadata", "record", "open", "copy",
                 "validating", "validate", "ready", "fail", "remove", "end"}
FlashSteps   == {"off", "status", "lock", "recheck", "validate", "start", "launch",
                 "running", "fail", "remove", "end"}

\* A worker runs the steps of its mode.
ModeInv ==
  \A p \in Procs : /\ p.mode = "prepare" => worker[p].at \in PrepareSteps
                   /\ p.mode = "flash" => worker[p].at \in FlashSteps

Unguarded == {"off", "status", "lock", "end"}

\* Past its lock step a worker holds its flock; only with storage faults can it
\* be failing without it.  Two workers that contend never both hold one.
LockInv ==
  /\ \A p \in Procs :
       worker[p].at \notin Unguarded =>
         worker[p].locked \/ (StorageFaults /\ worker[p].at \in {"fail", "remove"})
  /\ \A p, q \in Procs :
       Contends(p, q) /\ worker[p].locked /\ worker[q].locked => p = q

\* An ID not generated yet has no worker and is not the saved job.
FreshInv ==
  /\ \A p \in Procs : fate[p.job] = "new" => worker[p].at = "off"
  /\ job.id \in Jobs => fate[job.id] # "new"

\* What the call that holds the lock has checked is still so.
RpcInv ==
  /\ rpc.at = "prepareSave" => ~Refused
  /\ rpc.at \in {"prepareSpawn", "discardSave", "flashSpawn"} => rpc.id = job.id /\ job.id \in Jobs
  /\ rpc.at = "prepareSpawn" =>
       /\ job.phase = "downloading"
       /\ \A p \in Procs : p.mode = "prepare" /\ Mine(p) => worker[p].at \in {"off", "status", "end"}
  /\ rpc.at = "discardSave" => ~DiscardRefused
  /\ rpc.at = "flashSpawn" =>
       /\ job.phase = "flashing" /\ ~job.started
       /\ \A p \in Procs : p.mode = "flash" /\ Mine(p) => worker[p].at \in {"off", "status", "end"}

JobInv ==
  /\ job.started => job.phase \in {"flashing", "error"}
  /\ job.conf => job.phase = "ready"

\* A prepare worker that may still save the current job or remove its image runs
\* before the job was ever ready.
PrepareAt(p, at) ==
  Mine(p) =>
    /\ at \in {"metadata", "record", "open", "copy", "validating"} =>
         job.phase \in {"downloading", "discarded"}
    /\ at \in {"validate", "ready"} => job.phase \in {"validating", "discarded"}
    /\ at \in {"fail", "remove"} =>
         job.phase \in {"downloading", "validating", "error", "discarded"} /\ ~job.started
    /\ StorageFaults /\ at \in {"lock", "recheck"} => job.phase \in {"downloading", "discarded"}

PrepareInv == \A p \in Procs : p.mode = "prepare" => PrepareAt(p, worker[p].at)

\* A flash worker past its first check follows an accepted confirmation; the
\* image it validated stays while the job is flashing; it removes none once a
\* flash was started; what it launches it may keep settings for.
FlashAt(p, w) ==
  /\ Mine(p) /\ w.at \notin {"off", "status", "end"} =>
       job.phase \in {"flashing", "error", "discarded"}
  /\ Mine(p) /\ job.phase = "flashing" /\ w.at = "start" => image[p.job] = "good"
  /\ Mine(p) /\ w.at = "remove" => ~job.started
  /\ w.at \in {"launch", "running"} => Mine(p) /\ job.started /\ image[p.job] = "good"
  /\ w.at = "launch" => launches = {} /\ (w.keep => w.allow)

FlashInv == \A p \in Procs : p.mode = "flash" => FlashAt(p, worker[p])

LaunchInv == SingleLaunch /\ FlashIsolated /\ KeepOnlyIfAllowed

IInv == TypeOK /\ ModeInv /\ LockInv /\ FreshInv /\ RpcInv /\ JobInv
        /\ PrepareInv /\ FlashInv /\ LaunchInv
-----------------------------------------------------------------------------
(* What a step does to the worker that takes it                             *)

\* Only worker p moves, and it moves to step.
Moves(p, step) ==
  /\ worker' \in [Procs -> WorkerType]
  /\ \A q \in Procs : q # p => worker'[q] = worker[q]
  /\ worker'[p].at = step

\* It keeps its flock unless it ends.
KeepsLock(p) == worker'[p].locked <=> worker[p].locked /\ worker'[p].at # "end"

LEMMA ProcFacts ==
  /\ \A p \in Procs : p.mode \in {"prepare", "flash"} /\ p.job \in Jobs /\ p.copy \in Copies
  /\ \A p, q \in Procs : p.mode = q.mode /\ p.job = q.job /\ p.copy = q.copy => p = q
BY DEF Procs

LEMMA GotoEffect ==
  ASSUME TypeOK, NEW p \in Procs, NEW step \in WorkerSteps, Goto(p, step)
  PROVE  /\ Moves(p, step) /\ KeepsLock(p)
         /\ worker'[p].keep = worker[p].keep /\ worker'[p].allow = worker[p].allow
<1> DEFINE r == [worker[p] EXCEPT !.at = step, !.locked = worker[p].locked /\ step # "end"]
<1>1. worker[p] \in WorkerType
  BY DEF TypeOK
<1>2. /\ r \in WorkerType /\ r.at = step /\ (r.locked <=> worker[p].locked /\ step # "end")
      /\ r.keep = worker[p].keep /\ r.allow = worker[p].allow
  BY <1>1 DEF WorkerType
<1>3. worker' = [worker EXCEPT ![p] = r]
  BY DEF Goto
<1> HIDE DEF r
<1>4. worker'[p] = r /\ Moves(p, step)
  BY <1>2, <1>3 DEF TypeOK, Moves
<1> QED
  BY <1>2, <1>4 DEF KeepsLock

LEMMA AcquireEffect ==
  ASSUME TypeOK, NEW p \in Procs,
         worker' = [worker EXCEPT ![p].at = "recheck", ![p].locked = TRUE]
  PROVE  Moves(p, "recheck") /\ worker'[p].locked
<1> DEFINE r == [worker[p] EXCEPT !.at = "recheck", !.locked = TRUE]
<1>1. worker \in [Procs -> WorkerType] /\ worker[p] \in WorkerType
  BY DEF TypeOK
<1>2. r \in WorkerType /\ r.at = "recheck" /\ r.locked
  BY <1>1 DEF WorkerType, WorkerSteps
<1>3. worker' = [worker EXCEPT ![p] = r]
  OBVIOUS
<1> HIDE DEF r
<1>4. worker'[p] = r /\ Moves(p, "recheck")
  BY <1>1, <1>2, <1>3 DEF Moves
<1> QED
  BY <1>2, <1>4

LEMMA RecheckEffect ==
  ASSUME TypeOK, NEW p \in Procs,
         worker' = [worker EXCEPT ![p].at = "validate", ![p].keep = job.keep]
  PROVE  Moves(p, "validate") /\ KeepsLock(p)
<1> DEFINE r == [worker[p] EXCEPT !.at = "validate", !.keep = job.keep]
<1>1. worker[p] \in WorkerType /\ job.keep \in BOOLEAN
  BY DEF TypeOK
<1>2. r \in WorkerType /\ r.at = "validate" /\ (r.locked <=> worker[p].locked)
  BY <1>1 DEF WorkerType, WorkerSteps
<1>3. worker' = [worker EXCEPT ![p] = r]
  BY <1>1 DEF TypeOK
<1> HIDE DEF r
<1>4. worker'[p] = r
  BY <1>3 DEF TypeOK
<1>5. Moves(p, "validate")
  BY <1>2, <1>3, <1>4 DEF TypeOK, Moves
<1> QED
  BY <1>2, <1>4, <1>5 DEF KeepsLock

LEMMA ValidateEffect ==
  ASSUME TypeOK, NEW p \in Procs, NEW next \in WorkerSteps, next # "end", Validate(p, next)
  PROVE  /\ \/ Moves(p, next) /\ image[p.job] = "good"
            \/ Moves(p, "fail")
         /\ KeepsLock(p)
<1>1. ASSUME Goto(p, "fail")
      PROVE  Moves(p, "fail") /\ KeepsLock(p)
  BY <1>1, GotoEffect DEF WorkerSteps
<1>2. ASSUME NEW a \in BOOLEAN, worker' = [worker EXCEPT ![p].at = next, ![p].allow = a]
      PROVE  Moves(p, next) /\ KeepsLock(p)
  <2> DEFINE r == [worker[p] EXCEPT !.at = next, !.allow = a]
  <2>1. worker[p] \in WorkerType
    BY DEF TypeOK
  <2>2. r \in WorkerType /\ r.at = next /\ (r.locked <=> worker[p].locked)
    BY <2>1 DEF WorkerType
  <2>3. worker' = [worker EXCEPT ![p] = r]
    BY <1>2
  <2> HIDE DEF r
  <2>4. worker'[p] = r /\ Moves(p, next)
    BY <2>2, <2>3 DEF TypeOK, Moves
  <2> QED
    BY <2>2, <2>4 DEF KeepsLock
<1> QED
  BY <1>1, <1>2 DEF Validate

LEMMA StartEffect ==
  ASSUME TypeOK, NEW mode \in {"prepare", "flash"}, NEW j \in Jobs, Start(mode, j)
  PROVE  \E p \in Procs : /\ p.mode = mode /\ p.job = j /\ worker[p].at = "off"
                          /\ Moves(p, "status") /\ ~worker'[p].locked
<1> DEFINE r == [Off EXCEPT !.at = "status"]
           p(c) == [mode |-> mode, job |-> j, copy |-> c]
<1>1. PICK c \in Copies : worker[p(c)].at = "off" /\ worker' = [worker EXCEPT ![p(c)] = r]
  BY DEF Start
<1>2. p(c) \in Procs /\ p(c).mode = mode /\ p(c).job = j
  BY DEF Procs
<1>3. r \in WorkerType /\ r.at = "status" /\ ~r.locked
  BY DEF Off, WorkerType, WorkerSteps
<1> HIDE DEF p, r
<1>4. worker'[p(c)] = r /\ Moves(p(c), "status")
  BY <1>1, <1>2, <1>3 DEF Moves, TypeOK
<1> QED
  BY <1>1, <1>2, <1>3, <1>4


-----------------------------------------------------------------------------
(* What a move preserves                                                    *)

\* A worker goes on to the next step of its mode holding its flock, fails, or ends.
Follows(p, step) ==
  /\ worker[p].at # "off"
  /\ p.mode = "prepare" => step \in PrepareSteps
  /\ p.mode = "flash" => step \in FlashSteps
  /\ \/ step = "end"
     \/ worker[p].at = "status" /\ step = "lock"
     \/ worker[p].at \notin Unguarded /\ step \in {"fail", "remove"}
     \/ worker[p].at \notin Unguarded \cup {"fail", "remove"}

LEMMA MoveWorker ==
  ASSUME TypeOK, ModeInv, LockInv, NEW p \in Procs, NEW step,
         Follows(p, step), Moves(p, step), KeepsLock(p)
  PROVE  ModeInv' /\ LockInv'
<1> USE ProcFacts DEF Moves, KeepsLock, Follows, Unguarded
<1>1. ModeInv'
  BY DEF ModeInv
<1>2. \A q \in Procs : worker'[q].locked => worker[q].locked
  OBVIOUS
<1>3. \A q \in Procs : worker'[q].at \notin Unguarded =>
         worker'[q].locked \/ (StorageFaults /\ worker'[q].at \in {"fail", "remove"})
  BY DEF LockInv
<1>4. LockInv'
  BY <1>2, <1>3 DEF LockInv, Contends
<1> QED
  BY <1>1, <1>4

LEMMA MoveFresh ==
  ASSUME TypeOK, FreshInv, NEW p \in Procs, NEW step, Follows(p, step), Moves(p, step),
         UNCHANGED fate, job'.id = job.id
  PROVE  FreshInv'
BY ProcFacts DEF Moves, Follows, FreshInv, TypeOK

\* Under a call that holds the lock no worker gets past its first check.
LEMMA MoveRpc ==
  ASSUME TypeOK, RpcInv, NEW p \in Procs, NEW step, Follows(p, step), Moves(p, step),
         UNCHANGED <<rpc, job>>, Unlocked \/ step = "end" \/ worker[p].at # "status"
  PROVE  RpcInv'
BY ProcFacts DEF Moves, Follows, RpcInv, TypeOK, Unlocked, Mine, Refused, Active, DiscardRefused, Unguarded

LEMMA UnlockedRpc ==
  ASSUME Unlocked, UNCHANGED rpc
  PROVE  RpcInv'
BY DEF Unlocked, RpcInv

\* A move that saves nothing concerns only the worker that moves, as long as no
\* verified image disappears.
LEMMA MovePrepare ==
  ASSUME PrepareInv, NEW p \in Procs, NEW step, Moves(p, step), UNCHANGED job,
         p.mode = "prepare" => PrepareAt(p, step)
  PROVE  PrepareInv'
BY DEF Moves, PrepareInv, PrepareAt, Mine

LEMMA MoveFlash ==
  ASSUME FlashInv, NEW p \in Procs, NEW step, Moves(p, step), UNCHANGED <<job, launches>>,
         \A q \in Procs : image[q.job] = "good" => image'[q.job] = "good",
         p.mode = "flash" => FlashAt(p, worker'[p])
  PROVE  FlashInv'
BY DEF Moves, FlashInv, FlashAt, Mine

\* Nothing but workers changes.
Same == UNCHANGED <<job, fate, rpc, image, launches>>

LEMMA StatusEffect ==
  ASSUME TypeOK, NEW p \in Procs, NEW expected \in BOOLEAN, NEW next \in WorkerSteps,
         WorkerStatus(p, expected, next)
  PROVE  /\ Same /\ KeepsLock(p)
         /\ Moves(p, "end") \/ (Moves(p, next) /\ Unlocked /\ Mine(p) /\ expected)
<1>1. Same
  BY DEF WorkerStatus, Same
<1>2. Goto(p, "end") \/ (Goto(p, next) /\ Unlocked /\ Mine(p) /\ expected)
  BY DEF WorkerStatus
<1>3. "end" \in WorkerSteps
  BY DEF WorkerSteps
<1> QED
  BY <1>1, <1>2, <1>3, GotoEffect

LEMMA ChangeEffect ==
  ASSUME TypeOK, NEW p \in Procs, NEW expected \in BOOLEAN, NEW newJob, NEW next \in WorkerSteps,
         Change(p, expected, newJob, next)
  PROVE  /\ KeepsLock(p)
         /\ \/ Moves(p, "fail") /\ UNCHANGED job
            \/ /\ Moves(p, next) /\ job' = newJob
               /\ Unlocked /\ Mine(p) /\ job.phase # "discarded" /\ expected
<1>1. \/ Goto(p, "fail") /\ UNCHANGED job
      \/ /\ Goto(p, next) /\ job' = newJob
         /\ Unlocked /\ Mine(p) /\ job.phase # "discarded" /\ expected
  BY DEF Change, Changeable
<1>2. "fail" \in WorkerSteps
  BY DEF WorkerSteps
<1> QED
  BY <1>1, <1>2, GotoEffect

\* What the move of worker p to step needs to preserve IInv when nothing else changes.
Quiet(p, step) ==
  /\ Moves(p, step) /\ KeepsLock(p) /\ Follows(p, step)
  /\ Unlocked \/ step = "end" \/ worker[p].at # "status"
  /\ p.mode = "prepare" => PrepareAt(p, step)
  /\ p.mode = "flash" => FlashAt(p, worker'[p])

LEMMA QuietMove ==
  ASSUME IInv, NEW p \in Procs, NEW step, Quiet(p, step), Same
  PROVE  IInv'
<1> USE DEF Quiet, Same
<1>1. TypeOK'
  BY DEF IInv, TypeOK, Moves
<1>2. ModeInv' /\ LockInv'
  BY MoveWorker DEF IInv
<1>3. FreshInv' /\ RpcInv'
  BY MoveFresh, MoveRpc DEF IInv
<1>4. PrepareInv' /\ FlashInv'
  BY MovePrepare, MoveFlash DEF IInv
<1>5. JobInv' /\ LaunchInv'
  BY DEF IInv, JobInv, LaunchInv, SingleLaunch, FlashIsolated, KeepOnlyIfAllowed
<1> QED
  BY <1>1, <1>2, <1>3, <1>4, <1>5 DEF IInv

LEMMA StatusStep_IInv ==
  ASSUME IInv, NEW p \in Procs, StatusStep(p)
  PROVE  IInv'
<1>1. /\ worker[p].at = "status" /\ Same
      /\ \/ Moves(p, "end")
         \/ Moves(p, "lock") /\ Unlocked /\ Mine(p)
            /\ (p.mode = "prepare" => job.phase = "downloading")
            /\ (p.mode = "flash" => job.phase = "flashing" /\ ~job.started)
      /\ KeepsLock(p)
  BY StatusEffect, GotoEffect DEF StatusStep, IInv, Same, WorkerSteps
<1>2. Quiet(p, "end") \/ Quiet(p, "lock")
  BY <1>1, ProcFacts DEF IInv, ModeInv, PrepareInv, PrepareAt, FlashInv, FlashAt,
        JobInv, Quiet, Follows, Moves, Mine, Unlocked, WorkerSteps, PrepareSteps, FlashSteps, Unguarded
<1> QED
  BY <1>1, <1>2, QuietMove

LEMMA Killed_IInv ==
  ASSUME IInv, NEW p \in Procs, Killed(p)
  PROVE  IInv'
<1>1. /\ Same
      /\ Moves(p, "end") /\ KeepsLock(p)
      /\ worker[p].at # "off"
  BY GotoEffect DEF Killed, IInv, Same, WorkerSteps
<1>2. Quiet(p, "end")
  BY <1>1, ProcFacts DEF IInv, ModeInv, PrepareInv, PrepareAt, FlashInv, FlashAt,
        JobInv, Quiet, Follows, Moves, Mine, Unlocked, WorkerSteps, PrepareSteps, FlashSteps, Unguarded
<1> QED
  BY <1>1, <1>2, QuietMove

LEMMA PrepareRecheck_IInv ==
  ASSUME IInv, NEW p \in Procs, PrepareRecheck(p)
  PROVE  IInv'
<1>1. /\ p.mode = "prepare" /\ worker[p].at = "recheck" /\ Same
      /\ \/ Moves(p, "end")
         \/ Moves(p, "metadata") /\ Unlocked /\ Mine(p) /\ job.phase = "downloading"
      /\ KeepsLock(p)
  BY StatusEffect, GotoEffect DEF PrepareRecheck, IInv, Same, WorkerSteps
<1>2. Quiet(p, "end") \/ Quiet(p, "metadata")
  BY <1>1, ProcFacts DEF IInv, ModeInv, PrepareInv, PrepareAt, FlashInv, FlashAt,
        JobInv, Quiet, Follows, Moves, Mine, Unlocked, WorkerSteps, PrepareSteps, FlashSteps, Unguarded
<1> QED
  BY <1>1, <1>2, QuietMove

LEMMA Metadata_IInv ==
  ASSUME IInv, NEW p \in Procs, Metadata(p)
  PROVE  IInv'
<1>1. /\ worker[p].at = "metadata" /\ Same
      /\ Moves(p, "record") \/ Moves(p, "fail")
      /\ KeepsLock(p)
  BY GotoEffect DEF Metadata, IInv, Same, WorkerSteps
<1>2. Quiet(p, "record") \/ Quiet(p, "fail")
  BY <1>1, ProcFacts DEF IInv, ModeInv, PrepareInv, PrepareAt, FlashInv, FlashAt,
        JobInv, Quiet, Follows, Moves, Mine, Unlocked, WorkerSteps, PrepareSteps, FlashSteps, Unguarded
<1> QED
  BY <1>1, <1>2, QuietMove

LEMMA Record_IInv ==
  ASSUME IInv, NEW p \in Procs, Record(p)
  PROVE  IInv'
<1>1. /\ worker[p].at = "record" /\ Same
      /\ Moves(p, "open") \/ Moves(p, "fail")
      /\ KeepsLock(p)
  BY GotoEffect DEF Record, Change, IInv, Same, WorkerSteps
<1>2. Quiet(p, "open") \/ Quiet(p, "fail")
  BY <1>1, ProcFacts DEF IInv, ModeInv, PrepareInv, PrepareAt, FlashInv, FlashAt,
        JobInv, Quiet, Follows, Moves, Mine, Unlocked, WorkerSteps, PrepareSteps, FlashSteps, Unguarded
<1> QED
  BY <1>1, <1>2, QuietMove

LEMMA PrepareValidate_IInv ==
  ASSUME IInv, NEW p \in Procs, PrepareValidate(p)
  PROVE  IInv'
<1>1. /\ p.mode = "prepare" /\ worker[p].at = "validate" /\ Same
      /\ Moves(p, "ready") \/ Moves(p, "fail")
      /\ KeepsLock(p)
  BY ValidateEffect, GotoEffect DEF PrepareValidate, IInv, Same, WorkerSteps
<1>2. Quiet(p, "ready") \/ Quiet(p, "fail")
  BY <1>1, ProcFacts DEF IInv, ModeInv, PrepareInv, PrepareAt, FlashInv, FlashAt,
        JobInv, Quiet, Follows, Moves, Mine, Unlocked, WorkerSteps, PrepareSteps, FlashSteps, Unguarded
<1> QED
  BY <1>1, <1>2, QuietMove

LEMMA FlashRecheck_IInv ==
  ASSUME IInv, NEW p \in Procs, FlashRecheck(p)
  PROVE  IInv'
<1>1. /\ p.mode = "flash" /\ worker[p].at = "recheck" /\ Same
      /\ \/ Moves(p, "end")
         \/ Moves(p, "validate") /\ Unlocked /\ Mine(p) /\ job.phase = "flashing" /\ ~job.started
      /\ KeepsLock(p)
  BY RecheckEffect, GotoEffect DEF FlashRecheck, IInv, Same, WorkerSteps
<1>2. Quiet(p, "end") \/ Quiet(p, "validate")
  BY <1>1, ProcFacts DEF IInv, ModeInv, PrepareInv, PrepareAt, FlashInv, FlashAt,
        JobInv, Quiet, Follows, Moves, Mine, Unlocked, WorkerSteps, PrepareSteps, FlashSteps, Unguarded
<1> QED
  BY <1>1, <1>2, QuietMove

LEMMA FlashValidate_IInv ==
  ASSUME IInv, NEW p \in Procs, FlashValidate(p)
  PROVE  IInv'
<1>1. /\ p.mode = "flash" /\ worker[p].at = "validate" /\ Same
      /\ \/ Moves(p, "start") /\ image[p.job] = "good"
         \/ Moves(p, "fail")
      /\ KeepsLock(p)
  BY ValidateEffect, GotoEffect DEF FlashValidate, IInv, Same, WorkerSteps
<1>2. Quiet(p, "start") \/ Quiet(p, "fail")
  BY <1>1, ProcFacts DEF IInv, ModeInv, PrepareInv, PrepareAt, FlashInv, FlashAt,
        JobInv, Quiet, Follows, Moves, Mine, Unlocked, WorkerSteps, PrepareSteps, FlashSteps, Unguarded
<1> QED
  BY <1>1, <1>2, QuietMove

LEMMA SysupgradeReturns_IInv ==
  ASSUME IInv, NEW p \in Procs, SysupgradeReturns(p)
  PROVE  IInv'
<1>1. /\ worker[p].at = "running" /\ Same
      /\ Moves(p, "fail") \/ Moves(p, "end")
      /\ KeepsLock(p)
  BY GotoEffect DEF SysupgradeReturns, IInv, Same, WorkerSteps
<1>2. Quiet(p, "fail") \/ Quiet(p, "end")
  BY <1>1, ProcFacts DEF IInv, ModeInv, PrepareInv, PrepareAt, FlashInv, FlashAt,
        JobInv, Quiet, Follows, Moves, Mine, Unlocked, WorkerSteps, PrepareSteps, FlashSteps, Unguarded
<1> QED
  BY <1>1, <1>2, QuietMove
-----------------------------------------------------------------------------
(* Worker steps that change more than the worker                            *)

LEMMA LockStep_IInv ==
  ASSUME IInv, NEW p \in Procs, LockStep(p)
  PROVE  IInv'
<1>1. /\ worker[p].at = "lock" /\ Same
      /\ \/ Moves(p, "end") /\ KeepsLock(p)
         \/ Moves(p, "fail") /\ KeepsLock(p) /\ StorageFaults
         \/ /\ Moves(p, "recheck") /\ worker'[p].locked
            /\ \A q \in Procs : Contends(p, q) => ~worker[q].locked
  BY AcquireEffect, GotoEffect DEF LockStep, IInv, Same, WorkerSteps
<1>2. CASE Moves(p, "end") /\ KeepsLock(p)
  <2>1. Quiet(p, "end")
    BY <1>1, <1>2, ProcFacts DEF Quiet, Follows, Moves, PrepareAt, FlashAt, PrepareSteps, FlashSteps
  <2> QED
    BY <1>1, <2>1, QuietMove
<1>3. ASSUME NEW step \in {"fail", "recheck"}, Moves(p, step),
             \/ step = "fail" /\ KeepsLock(p) /\ StorageFaults
             \/ /\ step = "recheck" /\ worker'[p].locked
                /\ \A q \in Procs : Contends(p, q) => ~worker[q].locked
      PROVE  IInv'
  <2> USE ProcFacts, <1>1, <1>3 DEF IInv, Same
  <2>1. TypeOK'
    BY DEF TypeOK, Moves
  <2>2. ModeInv'
    BY DEF ModeInv, Moves, PrepareSteps, FlashSteps
  <2>3. LockInv'
    <3>1. \A q \in Procs : worker'[q].at \notin Unguarded =>
             worker'[q].locked \/ (StorageFaults /\ worker'[q].at \in {"fail", "remove"})
      BY DEF LockInv, Moves
    <3>2. ASSUME NEW q \in Procs, NEW r \in Procs,
                 Contends(q, r), worker'[q].locked, worker'[r].locked
          PROVE  q = r
      <4>1. CASE step = "fail"
        BY <3>2, <4>1, LoneWorkers DEF LockInv, Moves, KeepsLock, Contends
      <4>2. CASE step = "recheck"
        BY <3>2, <4>2 DEF LockInv, Moves, Contends
      <4> QED
        BY <4>1, <4>2
    <3> QED
      BY <3>1, <3>2 DEF LockInv
  <2>4. FreshInv'
    BY DEF FreshInv, Moves, TypeOK
  <2>5. RpcInv'
    BY DEF RpcInv, Moves, Mine, Refused, DiscardRefused, Active
  <2>6. PrepareAt(p, "fail") \/ p.mode # "prepare" \/ step = "recheck"
    BY DEF PrepareInv, PrepareAt, JobInv
  <2>7. p.mode = "prepare" => PrepareAt(p, step)
    BY <2>6 DEF PrepareInv, PrepareAt
  <2>8. p.mode = "flash" => FlashAt(p, worker'[p])
    BY DEF FlashInv, FlashAt, Moves
  <2>9. PrepareInv' /\ FlashInv'
    BY <2>7, <2>8, MovePrepare, MoveFlash
  <2>10. JobInv' /\ LaunchInv'
    BY DEF JobInv, LaunchInv, SingleLaunch, FlashIsolated, KeepOnlyIfAllowed
  <2> QED
    BY <2>1, <2>2, <2>3, <2>4, <2>5, <2>9, <2>10
<1> QED
  BY <1>1, <1>2, <1>3

\* Two workers of one job and mode that are both past their lock are the same.
LEMMA OnlyWorker ==
  ASSUME TypeOK, LockInv, NEW p \in Procs, NEW q \in Procs, p.mode = q.mode, p.job = q.job,
         worker[p].at \notin Unguarded, worker[q].at \notin Unguarded
  PROVE  p = q
<1>1. CASE StorageFaults
  BY <1>1, ProcFacts, LoneWorkers
<1>2. CASE ~StorageFaults
  BY <1>2 DEF LockInv, Contends
<1> QED
  BY <1>1, <1>2

LEMMA RemoveStep_IInv ==
  ASSUME IInv, NEW p \in Procs, RemoveStep(p)
  PROVE  IInv'
<1>1. /\ worker[p].at = "remove" /\ UNCHANGED <<job, fate, rpc, launches>>
      /\ Moves(p, "end") /\ KeepsLock(p) /\ Follows(p, "end")
      /\ image' = [image EXCEPT ![p.job] = "none"]
  BY GotoEffect, ProcFacts DEF RemoveStep, Remove, IInv, WorkerSteps, Follows, PrepareSteps, FlashSteps
<1> USE <1>1, ProcFacts DEF IInv
<1>2. TypeOK'
  BY DEF TypeOK, Moves
<1>3. ModeInv' /\ LockInv' /\ FreshInv' /\ RpcInv' /\ JobInv'
  BY MoveWorker, MoveFresh, MoveRpc DEF JobInv
<1>4. PrepareInv'
  BY MovePrepare DEF PrepareAt
<1>5. Mine(p) => ~job.started
  BY DEF PrepareInv, PrepareAt, FlashInv, FlashAt
<1>6. ASSUME NEW q \in Procs, q.mode = "flash"
      PROVE  FlashAt(q, worker[q])'
  <2>1. CASE q = p
    BY <2>1 DEF FlashAt, Moves, Mine
  <2>2. CASE q # p
    <3>1. worker'[q] = worker[q] /\ FlashAt(q, worker[q])
      BY <1>6, <2>2 DEF FlashInv, Moves
    <3>2. CASE q.job # p.job
      BY <3>1, <3>2 DEF FlashAt, Mine, TypeOK
    <3>3. CASE q.job = p.job
      <4>1. ~(Mine(q) /\ job.phase = "flashing" /\ worker[q].at = "start")
        <5>1. CASE p.mode = "flash"
          BY <1>6, <2>2, <3>3, <5>1, OnlyWorker DEF Unguarded
        <5>2. CASE p.mode = "prepare"
          BY <3>3, <5>2 DEF PrepareInv, PrepareAt, Mine
        <5> QED
          BY <5>1, <5>2
      <4> QED
        BY <1>5, <3>1, <3>3, <4>1 DEF FlashAt, Mine
    <3> QED
      BY <3>2, <3>3
  <2> QED
    BY <2>1, <2>2
<1>7. LaunchInv'
  <2>1. ASSUME NEW l \in launches
        PROVE  image'[l.job] = "good"
    BY <1>5, <2>1 DEF LaunchInv, FlashIsolated, Mine, TypeOK
  <2> QED
    BY <2>1 DEF LaunchInv, SingleLaunch, FlashIsolated, KeepOnlyIfAllowed
<1> QED
  BY <1>2, <1>3, <1>4, <1>6, <1>7 DEF FlashInv

\* The two steps that write the image never touch a verified one.
LEMMA WriteImage ==
  ASSUME IInv, NEW p \in Procs, NEW step, Moves(p, step), KeepsLock(p), Follows(p, step),
         worker[p].at \in {"open", "copy"}, UNCHANGED <<job, fate, rpc, launches>>,
         image' \in [Jobs -> {"none", "partial", "good"}],
         \A j \in Jobs : image[j] = "good" => image'[j] = "good",
         p.mode = "prepare", PrepareAt(p, step)
  PROVE  IInv'
<1> USE ProcFacts DEF IInv
<1>1. TypeOK'
  BY DEF TypeOK, Moves
<1>2. ModeInv' /\ LockInv' /\ FreshInv' /\ RpcInv' /\ JobInv'
  BY MoveWorker, MoveFresh, MoveRpc DEF JobInv
<1>3. PrepareInv' /\ FlashInv'
  BY MovePrepare, MoveFlash
<1>4. LaunchInv'
  BY DEF LaunchInv, SingleLaunch, FlashIsolated, KeepOnlyIfAllowed, TypeOK
<1> QED
  BY <1>1, <1>2, <1>3, <1>4

LEMMA OpenImage_IInv ==
  ASSUME IInv, NEW p \in Procs, OpenImage(p)
  PROVE  IInv'
<1>1. /\ worker[p].at = "open" /\ UNCHANGED <<job, fate, rpc, launches>> /\ KeepsLock(p)
      /\ Moves(p, "copy") \/ Moves(p, "fail")
      /\ image' \in [Jobs -> {"none", "partial", "good"}]
      /\ \A j \in Jobs : image[j] = "good" => image'[j] = "good"
  BY GotoEffect DEF OpenImage, IInv, TypeOK, WorkerSteps
<1>2. p.mode = "prepare" /\ PrepareAt(p, "copy") /\ PrepareAt(p, "fail")
  BY <1>1, ProcFacts DEF IInv, ModeInv, FlashSteps, PrepareInv, PrepareAt, JobInv
<1>3. Follows(p, "copy") /\ Follows(p, "fail")
  BY <1>1, <1>2 DEF Follows, PrepareSteps, Unguarded
<1> QED
  BY <1>1, <1>2, <1>3, WriteImage

LEMMA CopyImage_IInv ==
  ASSUME IInv, NEW p \in Procs, CopyImage(p)
  PROVE  IInv'
<1>1. /\ worker[p].at = "copy" /\ UNCHANGED <<job, fate, rpc, launches>> /\ KeepsLock(p)
      /\ Moves(p, "validating") \/ Moves(p, "fail")
      /\ image' \in [Jobs -> {"none", "partial", "good"}]
      /\ \A j \in Jobs : image[j] = "good" => image'[j] = "good"
  BY GotoEffect DEF CopyImage, IInv, TypeOK, WorkerSteps
<1>2. p.mode = "prepare" /\ PrepareAt(p, "validating") /\ PrepareAt(p, "fail")
  BY <1>1, ProcFacts DEF IInv, ModeInv, FlashSteps, PrepareInv, PrepareAt, JobInv
<1>3. Follows(p, "validating") /\ Follows(p, "fail")
  BY <1>1, <1>2 DEF Follows, PrepareSteps, Unguarded
<1> QED
  BY <1>1, <1>2, <1>3, WriteImage

\* A worker step that saves the job, under the lock, without changing which job
\* it is or the images.
Saves(p, step) ==
  /\ Moves(p, step) /\ KeepsLock(p) /\ Follows(p, step)
  /\ Unlocked /\ Mine(p) /\ job'.id = job.id
  /\ UNCHANGED <<fate, rpc, image, launches>>

LEMMA SaveMove ==
  ASSUME IInv, NEW p \in Procs, NEW step, Saves(p, step), job'.started = job.started \/ job'.started
  PROVE  ModeInv' /\ LockInv' /\ FreshInv' /\ RpcInv' /\ LaunchInv'
<1> USE DEF Saves
<1>1. ModeInv' /\ LockInv' /\ FreshInv' /\ RpcInv'
  BY MoveWorker, MoveFresh, UnlockedRpc DEF IInv
<1>2. LaunchInv'
  BY DEF IInv, LaunchInv, SingleLaunch, FlashIsolated, KeepOnlyIfAllowed
<1> QED
  BY <1>1, <1>2

LEMMA FailStep_IInv ==
  ASSUME IInv, NEW p \in Procs, FailStep(p)
  PROVE  IInv'
<1>1. /\ worker[p].at = "fail" /\ KeepsLock(p) /\ UNCHANGED <<fate, rpc, image, launches>>
      /\ \/ Moves(p, "end") /\ UNCHANGED job
         \/ /\ Unlocked /\ Mine(p)
            /\ Moves(p, IF job.started THEN "end" ELSE "remove")
            /\ \/ job.phase # "discarded" /\ job' = [job EXCEPT !.phase = "error", !.conf = FALSE]
               \/ (job.phase = "discarded" \/ StorageFaults) /\ UNCHANGED job
  BY GotoEffect DEF FailStep, IInv, WorkerSteps
<1>2. CASE UNCHANGED job
  <2>1. \/ Moves(p, "end")
        \/ Moves(p, "remove") /\ Unlocked /\ Mine(p) /\ ~job.started
    BY <1>1
  <2>2. Quiet(p, "end") \/ Quiet(p, "remove")
    BY <1>1, <2>1, ProcFacts DEF Quiet, Follows, Moves, IInv, ModeInv, PrepareSteps, FlashSteps,
       Unguarded, PrepareInv, PrepareAt, FlashInv, FlashAt
  <2> QED
    BY <1>1, <1>2, <2>2, QuietMove DEF Same
<1>3. CASE /\ Unlocked /\ Mine(p) /\ job.phase # "discarded"
           /\ job' = [job EXCEPT !.phase = "error", !.conf = FALSE]
           /\ Moves(p, IF job.started THEN "end" ELSE "remove")
  <2> DEFINE step == IF job.started THEN "end" ELSE "remove"
  <2>1. /\ job' \in [id : Jobs \cup {NoJob}, phase : Phases, conf : BOOLEAN,
                     keep : BOOLEAN, allow : BOOLEAN, started : BOOLEAN]
        /\ job'.id = job.id /\ job'.phase = "error" /\ ~job'.conf
        /\ job'.started = job.started
    BY <1>3 DEF IInv, TypeOK, Phases
  <2>2. Saves(p, step)
    BY <1>1, <1>3, <2>1, ProcFacts DEF Saves, Follows, PrepareSteps, FlashSteps, Unguarded
  <2>3. ModeInv' /\ LockInv' /\ FreshInv' /\ RpcInv' /\ LaunchInv'
    BY <2>1, <2>2, SaveMove
  <2>4. TypeOK'
    BY <1>1, <2>1, <2>2 DEF IInv, TypeOK, Saves, Moves
  <2>5. JobInv'
    BY <2>1 DEF JobInv
  <2>6. ASSUME NEW q \in Procs, q.mode = "prepare"
        PROVE  PrepareAt(q, worker[q].at)'
    <3>1. CASE q = p
      BY <1>1, <1>3, <2>1, <2>6, <3>1 DEF IInv, PrepareInv, PrepareAt, Moves, Mine
    <3>2. CASE q # p
      <4>1. worker'[q] = worker[q] /\ PrepareAt(q, worker[q].at)
        BY <2>2, <2>6, <3>2 DEF IInv, PrepareInv, Saves, Moves
      <4>2. ASSUME Mine(q), p.mode = "prepare"
            PROVE  worker[q].at \in Unguarded /\ (StorageFaults => FALSE)
        BY <1>1, <1>3, <2>6, <3>2, <4>2, OnlyWorker, ProcFacts, LoneWorkers
        DEF Mine, IInv, Unguarded
      <4>3. ASSUME Mine(q), p.mode = "flash"
            PROVE  job.phase = "error" \/ job.phase = "flashing"
        BY <1>1, <1>3, <4>3 DEF IInv, FlashInv, FlashAt
      <4>4. CASE Mine(q)
        BY <1>3, <2>1, <4>1, <4>2, <4>3, <4>4, ProcFacts DEF PrepareAt, Mine, Unguarded
      <4>5. CASE ~Mine(q)
        BY <2>1, <4>5 DEF PrepareAt, Mine
      <4> QED
        BY <4>4, <4>5
    <3> QED
      BY <3>1, <3>2
  <2>7. ASSUME NEW q \in Procs, q.mode = "flash"
        PROVE  FlashAt(q, worker[q])'
    <3>1. CASE q = p
      BY <1>1, <1>3, <2>1, <3>1 DEF FlashAt, Moves, Mine
    <3>2. CASE q # p
      BY <1>1, <2>1, <2>2, <2>7, <3>2 DEF IInv, FlashInv, FlashAt, Saves, Moves, Mine
    <3> QED
      BY <3>1, <3>2
  <2> QED
    BY <2>3, <2>4, <2>5, <2>6, <2>7 DEF IInv, PrepareInv, FlashInv
<1> QED
  BY <1>1, <1>2, <1>3

LEMMA Validating_IInv ==
  ASSUME IInv, NEW p \in Procs, Validating(p)
  PROVE  IInv'
<1>1. /\ worker[p].at = "validating" /\ KeepsLock(p) /\ UNCHANGED <<fate, rpc, image, launches>>
      /\ \/ Moves(p, "fail") /\ UNCHANGED job
         \/ /\ Moves(p, "validate") /\ job' = [job EXCEPT !.phase = "validating"]
            /\ Unlocked /\ Mine(p) /\ job.phase # "discarded"
  BY ChangeEffect DEF Validating, IInv, WorkerSteps
<1>2. p.mode = "prepare" /\ PrepareAt(p, "validating")
  BY <1>1, ProcFacts DEF IInv, ModeInv, FlashSteps, PrepareInv
<1>3. CASE Moves(p, "fail") /\ UNCHANGED job
  <2>1. Quiet(p, "fail")
    BY <1>1, <1>2, <1>3 DEF Quiet, Follows, PrepareSteps, Unguarded, PrepareAt, IInv, JobInv
  <2> QED
    BY <1>1, <1>3, <2>1, QuietMove DEF Same
<1>4. CASE /\ Moves(p, "validate") /\ job' = [job EXCEPT !.phase = "validating"]
           /\ Unlocked /\ Mine(p) /\ job.phase # "discarded"
  <2>1. job.phase = "downloading" /\ ~job.started /\ ~job.conf
    BY <1>2, <1>4 DEF PrepareAt, IInv, JobInv
  <2>2. /\ job' \in [id : Jobs \cup {NoJob}, phase : Phases, conf : BOOLEAN,
                     keep : BOOLEAN, allow : BOOLEAN, started : BOOLEAN]
        /\ job'.id = job.id /\ job'.phase = "validating" /\ ~job'.conf /\ ~job'.started
    BY <1>4, <2>1 DEF IInv, TypeOK, Phases
  <2>3. Saves(p, "validate")
    BY <1>1, <1>2, <1>4, <2>2 DEF Saves, Follows, PrepareSteps, Unguarded
  <2>4. ModeInv' /\ LockInv' /\ FreshInv' /\ RpcInv' /\ LaunchInv'
    BY <2>1, <2>2, <2>3, SaveMove DEF IInv, TypeOK
  <2>5. TypeOK'
    BY <1>1, <2>2, <2>3 DEF IInv, TypeOK, Saves, Moves
  <2>6. JobInv'
    BY <2>2 DEF JobInv
  <2>7. ASSUME NEW q \in Procs, q.mode = "prepare"
        PROVE  PrepareAt(q, worker[q].at)'
    <3>1. CASE q = p
      BY <2>2, <2>3, <3>1 DEF PrepareAt, Saves, Moves
    <3>2. CASE q # p /\ Mine(q)
      <4>1. worker'[q] = worker[q] /\ worker[q].at \in Unguarded /\ ~StorageFaults
        <5>1. TypeOK /\ LockInv /\ worker[p].at \notin Unguarded
          <6>1. worker[p].at \notin Unguarded
            BY <1>1 DEF Unguarded
          <6> QED
            BY <6>1 DEF IInv
        <5>2. p.mode = q.mode /\ p.job = q.job
          BY <1>2, <1>4, <2>7, <3>2 DEF Mine
        <5>3. worker[q].at \in Unguarded
          BY <3>2, <5>1, <5>2, OnlyWorker
        <5>4. ~StorageFaults
          BY <3>2, <5>2, ProcFacts, LoneWorkers
        <5>5. worker'[q] = worker[q]
          BY <2>3, <3>2 DEF Saves, Moves
        <5> QED
          BY <5>3, <5>4, <5>5
      <4> QED
        BY <4>1 DEF PrepareAt, Unguarded
    <3>3. CASE ~Mine(q)
      BY <2>2, <3>3 DEF PrepareAt, Mine
    <3> QED
      BY <3>1, <3>2, <3>3
  <2>8. ASSUME NEW q \in Procs, q.mode = "flash"
        PROVE  FlashAt(q, worker[q])'
    BY <1>1, <1>2, <2>1, <2>2, <2>3, <2>8 DEF IInv, FlashInv, FlashAt, Saves, Moves, Mine
  <2> QED
    BY <2>4, <2>5, <2>6, <2>7, <2>8 DEF IInv, PrepareInv, FlashInv
<1> QED
  BY <1>1, <1>3, <1>4

LEMMA Ready_IInv ==
  ASSUME IInv, NEW p \in Procs, Ready(p)
  PROVE  IInv'
<1>1. /\ worker[p].at = "ready" /\ KeepsLock(p) /\ UNCHANGED <<fate, rpc, image, launches>>
      /\ \/ Moves(p, "fail") /\ UNCHANGED job
         \/ /\ Moves(p, "end")
            /\ job' = [job EXCEPT !.phase = "ready", !.allow = worker[p].allow, !.conf = TRUE]
            /\ Unlocked /\ Mine(p) /\ job.phase # "discarded"
  BY ChangeEffect DEF Ready, IInv, WorkerSteps
<1>2. p.mode = "prepare" /\ PrepareAt(p, "ready")
  BY <1>1, ProcFacts DEF IInv, ModeInv, FlashSteps, PrepareInv
<1>3. CASE Moves(p, "fail") /\ UNCHANGED job
  <2>1. Quiet(p, "fail")
    BY <1>1, <1>2, <1>3 DEF Quiet, Follows, PrepareSteps, Unguarded, PrepareAt, IInv, JobInv
  <2> QED
    BY <1>1, <1>3, <2>1, QuietMove DEF Same
<1>4. CASE /\ Moves(p, "end")
           /\ job' = [job EXCEPT !.phase = "ready", !.allow = worker[p].allow, !.conf = TRUE]
           /\ Unlocked /\ Mine(p) /\ job.phase # "discarded"
  <2>1. job.phase = "validating" /\ ~job.started /\ worker[p].allow \in BOOLEAN
    BY <1>2, <1>4 DEF PrepareAt, IInv, JobInv, TypeOK, WorkerType
  <2>2. /\ job' \in [id : Jobs \cup {NoJob}, phase : Phases, conf : BOOLEAN,
                     keep : BOOLEAN, allow : BOOLEAN, started : BOOLEAN]
        /\ job'.id = job.id /\ job'.phase = "ready" /\ ~job'.started
    BY <1>4, <2>1 DEF IInv, TypeOK, Phases
  <2>3. Saves(p, "end")
    BY <1>1, <1>2, <1>4, <2>2 DEF Saves, Follows, PrepareSteps, Unguarded
  <2>4. ModeInv' /\ LockInv' /\ FreshInv' /\ RpcInv' /\ LaunchInv'
    BY <2>1, <2>2, <2>3, SaveMove DEF IInv, TypeOK
  <2>5. TypeOK'
    BY <1>1, <2>2, <2>3 DEF IInv, TypeOK, Saves, Moves
  <2>6. JobInv'
    BY <2>2 DEF JobInv
  <2>7. ASSUME NEW q \in Procs, q.mode = "prepare"
        PROVE  PrepareAt(q, worker[q].at)'
    <3>1. CASE q = p
      BY <2>3, <3>1 DEF PrepareAt, Saves, Moves
    <3>2. CASE q # p /\ Mine(q)
      <4>1. worker'[q] = worker[q] /\ worker[q].at \in Unguarded /\ ~StorageFaults
        <5>1. TypeOK /\ LockInv /\ worker[p].at \notin Unguarded
          <6>1. worker[p].at \notin Unguarded
            BY <1>1 DEF Unguarded
          <6> QED
            BY <6>1 DEF IInv
        <5>2. p.mode = q.mode /\ p.job = q.job
          BY <1>2, <1>4, <2>7, <3>2 DEF Mine
        <5>3. worker[q].at \in Unguarded
          BY <3>2, <5>1, <5>2, OnlyWorker
        <5>4. ~StorageFaults
          BY <3>2, <5>2, ProcFacts, LoneWorkers
        <5>5. worker'[q] = worker[q]
          BY <2>3, <3>2 DEF Saves, Moves
        <5> QED
          BY <5>3, <5>4, <5>5
      <4> QED
        BY <4>1 DEF PrepareAt, Unguarded
    <3>3. CASE ~Mine(q)
      BY <2>2, <3>3 DEF PrepareAt, Mine
    <3> QED
      BY <3>1, <3>2, <3>3
  <2>8. ASSUME NEW q \in Procs, q.mode = "flash"
        PROVE  FlashAt(q, worker[q])'
    BY <1>1, <1>2, <2>1, <2>2, <2>3, <2>8 DEF IInv, FlashInv, FlashAt, Saves, Moves, Mine
  <2> QED
    BY <2>4, <2>5, <2>6, <2>7, <2>8 DEF IInv, PrepareInv, FlashInv
<1> QED
  BY <1>1, <1>3, <1>4

\* flash.lock is one for all jobs: a flash worker past it is alone.
LEMMA OnlyFlash ==
  ASSUME TypeOK, LockInv, NEW p \in Procs, NEW q \in Procs, p.mode = "flash", q.mode = "flash",
         worker[p].at \notin Unguarded \cup {"fail", "remove"},
         worker[q].at \notin Unguarded \cup {"fail", "remove"}
  PROVE  p = q
BY DEF LockInv, Contends, Unguarded

LEMMA FlashConsume_IInv ==
  ASSUME IInv, NEW p \in Procs, FlashConsume(p)
  PROVE  IInv'
<1>1. worker[p].at = "start" /\ UNCHANGED <<fate, rpc, image, launches>>
  BY DEF FlashConsume
<1>2. \/ Goto(p, "fail") /\ UNCHANGED job
      \/ /\ ~worker[p].keep \/ worker[p].allow
         /\ Change(p, job.phase = "flashing" /\ ~job.started,
                   [job EXCEPT !.started = TRUE], "launch")
  BY DEF FlashConsume, KeepRefused, Consumed
<1>3. /\ KeepsLock(p)
      /\ \/ Moves(p, "fail") /\ UNCHANGED job
         \/ /\ Moves(p, "launch") /\ job' = [job EXCEPT !.started = TRUE]
            /\ ~worker[p].keep \/ worker[p].allow
            /\ Unlocked /\ Mine(p) /\ job.phase = "flashing" /\ ~job.started
  BY <1>2, ChangeEffect, GotoEffect DEF IInv, WorkerSteps
<1>4. p.mode = "flash" /\ FlashAt(p, worker[p])
  BY <1>1, ProcFacts DEF IInv, ModeInv, PrepareSteps, FlashInv
<1>5. CASE Moves(p, "fail") /\ UNCHANGED job
  <2>1. Quiet(p, "fail")
    BY <1>1, <1>3, <1>4, <1>5 DEF Quiet, Follows, FlashSteps, Unguarded, FlashAt, Moves
  <2> QED
    BY <1>1, <1>5, <2>1, QuietMove DEF Same
<1>6. CASE /\ Moves(p, "launch") /\ job' = [job EXCEPT !.started = TRUE]
           /\ ~worker[p].keep \/ worker[p].allow
           /\ Unlocked /\ Mine(p) /\ job.phase = "flashing" /\ ~job.started
  <2>1. /\ job' \in [id : Jobs \cup {NoJob}, phase : Phases, conf : BOOLEAN,
                     keep : BOOLEAN, allow : BOOLEAN, started : BOOLEAN]
        /\ job'.id = job.id /\ job'.phase = "flashing" /\ job'.started
        /\ (job'.conf <=> job.conf)
    BY <1>6 DEF IInv, TypeOK, Phases
  <2>2. Saves(p, "launch")
    BY <1>1, <1>3, <1>4, <1>6, <2>1 DEF Saves, Follows, FlashSteps, Unguarded
  <2>3. ModeInv' /\ LockInv' /\ FreshInv' /\ RpcInv' /\ LaunchInv'
    BY <2>1, <2>2, SaveMove
  <2>4. TypeOK'
    BY <1>1, <2>1, <2>2 DEF IInv, TypeOK, Saves, Moves
  <2>5. JobInv'
    BY <1>6, <2>1 DEF IInv, JobInv
  <2>6. launches = {} /\ image[p.job] = "good"
    BY <1>1, <1>4, <1>6 DEF IInv, LaunchInv, FlashIsolated, FlashAt
  <2>7. ASSUME NEW q \in Procs, q.mode = "prepare"
        PROVE  PrepareAt(q, worker[q].at)'
    BY <1>4, <1>6, <2>1, <2>2, <2>7 DEF IInv, PrepareInv, PrepareAt, Saves, Moves, Mine
  <2>8. ASSUME NEW q \in Procs, q.mode = "flash"
        PROVE  FlashAt(q, worker[q])'
    <3>1. CASE q = p
      <4>1. (worker'[p].keep <=> worker[p].keep) /\ (worker'[p].allow <=> worker[p].allow)
        BY <1>2, <1>6, GotoEffect DEF Change, IInv, WorkerSteps, Moves
      <4> QED
        BY <1>1, <1>6, <2>1, <2>2, <2>6, <3>1, <4>1 DEF FlashAt, Saves, Moves, Mine
    <3>2. CASE q # p
      <4>1. worker'[q] = worker[q] /\ FlashAt(q, worker[q])
        BY <2>2, <2>8, <3>2 DEF IInv, FlashInv, Saves, Moves
      <4>2. ~(Mine(q) /\ worker[q].at = "remove")
        BY <1>1, <1>4, <1>6, <2>8, <3>2, OnlyWorker DEF IInv, Mine, Unguarded
      <4> QED
        BY <1>1, <1>6, <2>1, <4>1, <4>2 DEF FlashAt, Mine
    <3> QED
      BY <3>1, <3>2
  <2> QED
    BY <2>3, <2>4, <2>5, <2>7, <2>8 DEF IInv, PrepareInv, FlashInv
<1> QED
  BY <1>3, <1>5, <1>6

LEMMA Launch_IInv ==
  ASSUME IInv, NEW p \in Procs, Launch(p)
  PROVE  IInv'
<1> DEFINE l == [job |-> p.job, copy |-> p.copy, keep |-> worker[p].keep, allow |-> worker[p].allow]
<1>1. /\ worker[p].at = "launch" /\ UNCHANGED <<job, fate, rpc, image>>
      /\ Moves(p, "running") /\ KeepsLock(p) /\ launches' = launches \cup {l}
  BY GotoEffect DEF Launch, IInv, WorkerSteps
<1>2. p.mode = "flash" /\ FlashAt(p, worker[p])
  BY <1>1, ProcFacts DEF IInv, ModeInv, PrepareSteps, FlashInv
<1>3. launches' = {l}
  BY <1>1, <1>2 DEF FlashAt
<1>4. l \in [job : Jobs, copy : Copies, keep : BOOLEAN, allow : BOOLEAN]
  BY ProcFacts DEF IInv, TypeOK, WorkerType
<1>5. TypeOK'
  BY <1>1, <1>3, <1>4 DEF IInv, TypeOK, Moves
<1>6. Follows(p, "running")
  BY <1>1, <1>2 DEF Follows, FlashSteps, Unguarded
<1>7. ModeInv' /\ LockInv' /\ FreshInv' /\ RpcInv' /\ JobInv' /\ PrepareInv'
  BY <1>1, <1>2, <1>6, MoveWorker, MoveFresh, MoveRpc, MovePrepare DEF IInv, JobInv
<1>8. ASSUME NEW q \in Procs, q.mode = "flash"
      PROVE  FlashAt(q, worker[q])'
  <2>1. CASE q = p
    BY <1>1, <1>2, <2>1 DEF FlashAt, Moves, Mine
  <2>2. CASE q # p
    <3>1. worker'[q] = worker[q] /\ FlashAt(q, worker[q])
      BY <1>1, <1>8, <2>2 DEF IInv, FlashInv, Moves
    <3>2. worker[q].at # "launch"
      BY <1>1, <1>2, <1>8, <2>2, OnlyFlash DEF IInv, Unguarded
    <3> QED
      BY <1>1, <3>1, <3>2 DEF FlashAt, Mine
  <2> QED
    BY <2>1, <2>2
<1>9. LaunchInv'
  BY <1>1, <1>2, <1>3 DEF LaunchInv, SingleLaunch, FlashIsolated, KeepOnlyIfAllowed, FlashAt, Mine
<1> QED
  BY <1>5, <1>7, <1>8, <1>9 DEF IInv, FlashInv

-----------------------------------------------------------------------------
(* rpcd calls                                                               *)

\* A worker that was never started starts, without a flock.
Starts(mode, j) ==
  \E p \in Procs : /\ p.mode = mode /\ p.job = j /\ worker[p].at = "off"
                   /\ Moves(p, "status") /\ ~worker'[p].locked

LEMMA StartWorker ==
  ASSUME IInv, NEW mode, NEW j, Starts(mode, j)
  PROVE  /\ ModeInv' /\ LockInv'
         /\ \A q \in Procs : \/ worker'[q] = worker[q]
                             \/ /\ worker[q].at = "off" /\ worker'[q].at = "status"
                                /\ q.mode = mode /\ q.job = j
<1>1. PICK p \in Procs : /\ p.mode = mode /\ p.job = j /\ worker[p].at = "off"
                         /\ Moves(p, "status") /\ ~worker'[p].locked
  BY DEF Starts
<1>2. ModeInv'
  BY <1>1, ProcFacts DEF IInv, ModeInv, Moves, PrepareSteps, FlashSteps
<1>3. \A q \in Procs : worker'[q].locked => worker[q].locked
  BY <1>1 DEF Moves
<1>4. LockInv'
  BY <1>1, <1>3 DEF IInv, LockInv, Moves, Contends, Unguarded
<1> QED
  BY <1>1, <1>2, <1>4 DEF Moves

\* Starting a worker disturbs nothing, as long as its ID was generated.
LEMMA StartQuiet ==
  ASSUME IInv, NEW mode \in {"prepare", "flash"}, NEW j \in Jobs, Start(mode, j),
         fate[j] # "new", UNCHANGED <<job, fate, image, launches>>,
         rpc' = Idle \/ UNCHANGED rpc
  PROVE  IInv'
<1>1. Starts(mode, j)
  BY StartEffect DEF IInv, Starts
<1>2. worker' \in [Procs -> WorkerType]
  BY <1>1 DEF Starts, Moves
<1>3. /\ ModeInv' /\ LockInv'
      /\ \A q \in Procs : \/ worker'[q] = worker[q]
                          \/ /\ worker[q].at = "off" /\ worker'[q].at = "status"
                             /\ q.mode = mode /\ q.job = j
  BY <1>1, StartWorker
<1>4. TypeOK'
  BY <1>2 DEF IInv, TypeOK, Idle, RpcSteps
<1>5. FreshInv'
  BY <1>3 DEF IInv, FreshInv
<1>6. RpcInv'
  BY <1>3 DEF IInv, RpcInv, Idle, Mine, Refused, Active, DiscardRefused
<1>7. PrepareInv' /\ FlashInv'
  BY <1>3 DEF IInv, PrepareInv, PrepareAt, FlashInv, FlashAt, Mine
<1>8. JobInv' /\ LaunchInv'
  BY DEF IInv, JobInv, LaunchInv, SingleLaunch, FlashIsolated, KeepOnlyIfAllowed
<1> QED
  BY <1>3, <1>4, <1>5, <1>6, <1>7, <1>8 DEF IInv

LEMMA Spawn_IInv ==
  ASSUME IInv, PrepareSpawn \/ FlashSpawn
  PROVE  IInv'
<1>1. /\ rpc.at \in {"prepareSpawn", "flashSpawn"} /\ rpc' = Idle
      /\ UNCHANGED <<fate, image, launches>>
      /\ \/ Start(IF rpc.at = "prepareSpawn" THEN "prepare" ELSE "flash", rpc.id) /\ UNCHANGED job
         \/ job' = [job EXCEPT !.phase = "error"] /\ UNCHANGED worker
  BY DEF PrepareSpawn, FlashSpawn
<1>2. rpc.id \in Jobs /\ rpc.id = job.id /\ fate[rpc.id] # "new"
  BY <1>1 DEF IInv, RpcInv, FreshInv
<1>3. CASE /\ Start(IF rpc.at = "prepareSpawn" THEN "prepare" ELSE "flash", rpc.id)
           /\ UNCHANGED job
  BY <1>1, <1>2, <1>3, StartQuiet
<1>4. CASE job' = [job EXCEPT !.phase = "error"] /\ UNCHANGED worker
  <2>1. /\ job' \in [id : Jobs \cup {NoJob}, phase : Phases, conf : BOOLEAN,
                     keep : BOOLEAN, allow : BOOLEAN, started : BOOLEAN]
        /\ job'.id = job.id /\ job'.phase = "error"
        /\ (job'.started <=> job.started) /\ (job'.conf <=> job.conf)
    BY <1>4 DEF IInv, TypeOK, Phases
  <2>2. /\ job.phase \in {"downloading", "flashing"} /\ ~job.conf
        /\ job.phase = "downloading" => \A p \in Procs :
             p.mode = "prepare" /\ Mine(p) => worker[p].at \in {"off", "status", "end"}
    BY <1>1 DEF IInv, RpcInv, JobInv
  <2>3. TypeOK'
    BY <1>1, <1>4, <2>1 DEF IInv, TypeOK, Idle, RpcSteps
  <2>4. ModeInv' /\ LockInv' /\ FreshInv' /\ RpcInv' /\ JobInv'
    BY <1>1, <1>4, <2>1, <2>2 DEF IInv, ModeInv, LockInv, FreshInv, RpcInv, JobInv, Idle
  <2>5. PrepareInv'
    BY <1>4, <2>1, <2>2, ProcFacts DEF IInv, PrepareInv, PrepareAt, Mine
  <2>6. FlashInv'
    BY <1>1, <1>4, <2>1, <2>2 DEF IInv, FlashInv, FlashAt, Mine
  <2>7. LaunchInv'
    BY <1>1, <2>1 DEF IInv, LaunchInv, SingleLaunch, FlashIsolated, KeepOnlyIfAllowed
  <2> QED
    BY <2>3, <2>4, <2>5, <2>6, <2>7 DEF IInv
<1> QED
  BY <1>1, <1>3, <1>4

LEMMA DuplicateWorker_IInv ==
  ASSUME IInv, NEW mode \in {"prepare", "flash"}, NEW j \in Jobs, DuplicateWorker(mode, j)
  PROVE  IInv'
BY StartQuiet DEF DuplicateWorker

LEMMA Poll_IInv ==
  ASSUME IInv, Poll \/ RpcEnds
  PROVE  IInv'
<1> USE DEF IInv, Poll, RpcEnds
<1>1. TypeOK' /\ RpcInv'
  BY DEF TypeOK, RpcInv, Idle, RpcSteps
<1>2. ModeInv' /\ LockInv' /\ FreshInv' /\ JobInv'
  BY DEF ModeInv, LockInv, FreshInv, JobInv
<1>3. PrepareInv' /\ FlashInv'
  BY DEF PrepareInv, PrepareAt, FlashInv, FlashAt, Mine
<1>4. LaunchInv'
  BY DEF LaunchInv, SingleLaunch, FlashIsolated, KeepOnlyIfAllowed
<1> QED
  BY <1>1, <1>2, <1>3, <1>4

\* A call removes the image of the current job only when no flash was confirmed.
LEMMA RemoveBeforeFlash ==
  ASSUME IInv, UNCHANGED <<job, fate, worker, launches>>,
         ~job.started, job.phase # "flashing",
         image' \in [Jobs -> {"none", "partial", "good"}],
         \A j \in Jobs : j # job.id => image'[j] = image[j]
  PROVE  PrepareInv' /\ FlashInv' /\ LaunchInv'
<1> USE DEF IInv
<1>1. PrepareInv'
  BY DEF PrepareInv, PrepareAt, Mine
<1>2. ASSUME NEW p \in Procs, p.mode = "flash"
      PROVE  FlashAt(p, worker[p])'
  BY <1>2 DEF FlashInv, FlashAt, Mine
<1>3. LaunchInv'
  BY DEF LaunchInv, SingleLaunch, FlashIsolated, KeepOnlyIfAllowed, TypeOK
<1> QED
  BY <1>1, <1>2, <1>3 DEF FlashInv

LEMMA PrepareStart_IInv ==
  ASSUME IInv, PrepareStart
  PROVE  IInv'
<1> USE DEF IInv, PrepareStart
<1>1. ~job.started /\ job.phase # "flashing"
  BY DEF Refused, Active
<1>2. TypeOK' /\ RpcInv'
  BY DEF OldImageRemoved, TypeOK, RpcInv, Idle, RpcSteps, Refused
<1>3. ModeInv' /\ LockInv' /\ FreshInv' /\ JobInv'
  BY DEF ModeInv, LockInv, FreshInv, JobInv
<1>4. PrepareInv' /\ FlashInv' /\ LaunchInv'
  BY <1>1, <1>2, RemoveBeforeFlash DEF OldImageRemoved, TypeOK
<1> QED
  BY <1>2, <1>3, <1>4

LEMMA DiscardStart_IInv ==
  ASSUME IInv, NEW j \in Jobs, DiscardStart(j)
  PROVE  IInv'
<1> USE DEF IInv, DiscardStart
<1>1. ~job.started /\ job.phase # "flashing"
  BY DEF DiscardRefused
<1>2. TypeOK' /\ RpcInv'
  BY DEF TypeOK, RpcInv, RpcSteps, DiscardRefused, Remove
<1>3. ModeInv' /\ LockInv' /\ FreshInv' /\ JobInv'
  BY DEF ModeInv, LockInv, FreshInv, JobInv
<1>4. PrepareInv' /\ FlashInv' /\ LaunchInv'
  BY <1>1, <1>2, RemoveBeforeFlash DEF TypeOK, Remove
<1> QED
  BY <1>2, <1>3, <1>4

LEMMA PrepareSave_IInv ==
  ASSUME IInv, PrepareSave
  PROVE  IInv'
<1>1. PICK j \in Jobs :
        /\ fate[j] = "new" /\ fate' = [fate EXCEPT ![j] = "live"]
        /\ job' = NewJob(j, "downloading") /\ rpc' = [at |-> "prepareSpawn", id |-> j]
  BY DEF PrepareSave
<1>2. ~job.started /\ UNCHANGED <<image, worker, launches>>
  BY DEF PrepareSave, IInv, RpcInv, Refused
<1>3. /\ job'.id = j /\ job'.phase = "downloading" /\ ~job'.conf /\ ~job'.started
      /\ rpc'.id = j /\ rpc'.at = "prepareSpawn"
  BY <1>1 DEF NewJob
<1>4. \A p \in Procs : p.job = j => worker[p].at = "off"
  BY <1>1 DEF IInv, FreshInv
<1>5. launches = {} /\ \A p \in Procs : p.mode = "flash" => worker[p].at \notin {"launch", "running"}
  BY <1>2 DEF IInv, LaunchInv, FlashIsolated, FlashInv, FlashAt
<1>6. TypeOK'
  BY <1>1, <1>2 DEF IInv, TypeOK, NewJob, Phases, RpcSteps
<1>7. ModeInv' /\ LockInv' /\ JobInv'
  BY <1>2, <1>3 DEF IInv, ModeInv, LockInv, JobInv
<1>8. FreshInv'
  BY <1>1, <1>2, <1>3 DEF IInv, FreshInv, TypeOK
<1>9. RpcInv'
  BY <1>2, <1>3, <1>4 DEF RpcInv, Mine
<1>10. PrepareInv' /\ FlashInv'
  BY <1>2, <1>3, <1>4, <1>5 DEF PrepareInv, PrepareAt, FlashInv, FlashAt, Mine
<1>11. LaunchInv'
  BY <1>2, <1>5 DEF LaunchInv, SingleLaunch, FlashIsolated, KeepOnlyIfAllowed
<1> QED
  BY <1>6, <1>7, <1>8, <1>9, <1>10, <1>11 DEF IInv

LEMMA DiscardSave_IInv ==
  ASSUME IInv, DiscardSave
  PROVE  IInv'
<1>1. /\ rpc' = Idle /\ UNCHANGED <<image, worker, launches>>
      /\ fate' = [fate EXCEPT ![rpc.id] = "discarded"] /\ rpc.id \in Jobs
      /\ ~job.started /\ job.phase # "flashing"
  BY DEF DiscardSave, IInv, RpcInv, DiscardRefused
<1>2. /\ job' \in [id : Jobs \cup {NoJob}, phase : Phases, conf : BOOLEAN,
                   keep : BOOLEAN, allow : BOOLEAN, started : BOOLEAN]
      /\ job'.id = job.id /\ job'.phase = "discarded" /\ ~job'.conf /\ ~job'.started
  BY <1>1 DEF DiscardSave, IInv, TypeOK, Phases
<1>3. TypeOK'
  BY <1>1, <1>2 DEF IInv, TypeOK, Idle, RpcSteps
<1>4. ModeInv' /\ LockInv' /\ FreshInv' /\ RpcInv' /\ JobInv'
  BY <1>1, <1>2 DEF IInv, TypeOK, FreshInv, ModeInv, LockInv, RpcInv, JobInv, Idle
<1>5. PrepareInv'
  BY <1>1, <1>2 DEF IInv, PrepareInv, PrepareAt, Mine
<1>6. FlashInv'
  BY <1>1, <1>2 DEF IInv, FlashInv, FlashAt, Mine
<1>7. LaunchInv'
  BY <1>1, <1>2 DEF IInv, LaunchInv, SingleLaunch, FlashIsolated, KeepOnlyIfAllowed
<1> QED
  BY <1>3, <1>4, <1>5, <1>6, <1>7 DEF IInv

LEMMA FlashStart_IInv ==
  ASSUME IInv, NEW j \in Jobs, NEW keep \in BOOLEAN, FlashStart(j, keep)
  PROVE  IInv'
<1>1. /\ rpc' = [at |-> "flashSpawn", id |-> j] /\ UNCHANGED <<fate, image, worker, launches>>
      /\ job.id = j /\ job.phase = "ready" /\ ~job.started
  BY DEF FlashStart, IInv, JobInv
<1>2. /\ job' \in [id : Jobs \cup {NoJob}, phase : Phases, conf : BOOLEAN,
                   keep : BOOLEAN, allow : BOOLEAN, started : BOOLEAN]
      /\ job'.id = job.id /\ job'.phase = "flashing" /\ ~job'.conf /\ ~job'.started
  BY <1>1 DEF FlashStart, IInv, TypeOK, Phases
<1>3. \A p \in Procs : p.mode = "flash" /\ Mine(p) => worker[p].at \in {"off", "status", "end"}
  BY <1>1 DEF IInv, FlashInv, FlashAt
<1>4. TypeOK'
  BY <1>1, <1>2 DEF IInv, TypeOK, RpcSteps
<1>5. ModeInv' /\ LockInv' /\ FreshInv' /\ JobInv'
  BY <1>1, <1>2 DEF IInv, ModeInv, LockInv, FreshInv, JobInv
<1>6. RpcInv'
  BY <1>1, <1>2, <1>3 DEF RpcInv, Mine
<1>7. PrepareInv'
  BY <1>1, <1>2, ProcFacts DEF IInv, PrepareInv, PrepareAt, Mine
<1>8. FlashInv'
  BY <1>1, <1>2, <1>3 DEF IInv, FlashInv, FlashAt, Mine
<1>9. LaunchInv'
  BY <1>1, <1>2 DEF IInv, LaunchInv, SingleLaunch, FlashIsolated, KeepOnlyIfAllowed
<1> QED
  BY <1>4, <1>5, <1>6, <1>7, <1>8, <1>9 DEF IInv

-----------------------------------------------------------------------------

LEMMA Init_IInv == Init => IInv
<1> SUFFICES ASSUME Init PROVE IInv
  OBVIOUS
<1> USE UpdaterAssumption DEF Init, NewJob, Idle, Off
<1>1. TypeOK
  BY DEF TypeOK, Phases, RpcSteps, WorkerType, WorkerSteps
<1>2. ModeInv /\ LockInv /\ FreshInv /\ RpcInv /\ JobInv
  BY DEF ModeInv, PrepareSteps, FlashSteps, LockInv, Unguarded, FreshInv, RpcInv, JobInv
<1>3. PrepareInv /\ FlashInv /\ LaunchInv
  BY DEF PrepareInv, PrepareAt, FlashInv, FlashAt, LaunchInv, SingleLaunch, FlashIsolated,
         KeepOnlyIfAllowed
<1> QED
  BY <1>1, <1>2, <1>3 DEF IInv

LEMMA Reboot_IInv ==
  ASSUME Reboot
  PROVE  IInv'
<1> USE UpdaterAssumption DEF Reboot, NewJob, Idle, Off
<1>1. TypeOK'
  BY DEF TypeOK, Phases, RpcSteps, WorkerType, WorkerSteps
<1>2. ModeInv' /\ LockInv' /\ FreshInv' /\ RpcInv' /\ JobInv'
  BY DEF ModeInv, PrepareSteps, FlashSteps, LockInv, Unguarded, FreshInv, RpcInv, JobInv
<1>3. PrepareInv' /\ FlashInv' /\ LaunchInv'
  BY DEF PrepareInv, PrepareAt, FlashInv, FlashAt, LaunchInv, SingleLaunch, FlashIsolated,
         KeepOnlyIfAllowed
<1> QED
  BY <1>1, <1>2, <1>3 DEF IInv

LEMMA Stutter_IInv ==
  ASSUME IInv, UNCHANGED vars
  PROVE  IInv'
BY DEF vars, IInv, TypeOK, ModeInv, LockInv, FreshInv, RpcInv, JobInv, PrepareInv, PrepareAt,
       FlashInv, FlashAt, LaunchInv, SingleLaunch, FlashIsolated, KeepOnlyIfAllowed, Mine,
       Refused, Active, DiscardRefused, Contends

\* IInv is inductive: one lemma above per action.
THEOREM Inductive == Spec => []IInv
<1>1. ASSUME IInv, [Next]_vars
      PROVE  IInv'
  <2>1. CASE RpcStep
    BY <1>1, <2>1, Poll_IInv, PrepareStart_IInv, PrepareSave_IInv, Spawn_IInv, DiscardStart_IInv,
       DiscardSave_IInv, FlashStart_IInv DEF RpcStep
  <2>2. ASSUME NEW p \in Procs, WorkerStep(p)
        PROVE  IInv'
    BY <1>1, <2>2, StatusStep_IInv, LockStep_IInv, FailStep_IInv, RemoveStep_IInv, Killed_IInv,
       PrepareRecheck_IInv, Metadata_IInv, Record_IInv, OpenImage_IInv, CopyImage_IInv,
       Validating_IInv, PrepareValidate_IInv, Ready_IInv, FlashRecheck_IInv, FlashValidate_IInv,
       FlashConsume_IInv, Launch_IInv, SysupgradeReturns_IInv DEF WorkerStep
  <2>3. CASE \E mode \in {"prepare", "flash"}, j \in Jobs : DuplicateWorker(mode, j)
    BY <1>1, <2>3, DuplicateWorker_IInv
  <2>4. CASE Reboot \/ UNCHANGED vars
    BY <1>1, <2>4, Reboot_IInv, Stutter_IInv
  <2> QED
    BY <1>1, <2>1, <2>2, <2>3, <2>4 DEF Next
<1> QED
  BY <1>1, Init_IInv, PTL DEF Spec

\* The types of the saved job, the calls, the images and the workers.
THEOREM TypeCorrect == Spec => []TypeOK
<1>1. IInv => TypeOK
  BY DEF IInv
<1> QED
  BY <1>1, Inductive, PTL

\* No interleaving of calls, workers, kills and faults starts a second
\* sysupgrade in one boot.
THEOREM OneLaunch == Spec => []SingleLaunch
<1>1. IInv => SingleLaunch
  BY DEF IInv, LaunchInv
<1> QED
  BY <1>1, Inductive, PTL

\* Nothing replaces the job or touches the image that sysupgrade is writing.
THEOREM FlashedImageKept == Spec => []FlashIsolated
<1>1. IInv => FlashIsolated
  BY DEF IInv, LaunchInv
<1> QED
  BY <1>1, Inductive, PTL

\* sysupgrade keeps settings only if the validation just before it allowed it.
THEOREM KeepAllowed == Spec => []KeepOnlyIfAllowed
<1>1. IInv => KeepOnlyIfAllowed
  BY DEF IInv, LaunchInv
<1> QED
  BY <1>1, Inductive, PTL

Forward ==
  job.id \in Jobs /\ job'.id = job.id =>
    /\ Rank[job.phase] <= Rank[job'.phase]
    /\ job'.conf => job.conf \/ job.phase = "validating"

LEMMA Saved_Forward ==
  ASSUME TypeOK,
         \/ job' = job
         \/ /\ job'.phase \in {job.phase, "error", "discarded"}
            /\ job'.phase = "error" => job.phase # "discarded"
            /\ job'.conf => job.conf
         \/ job.phase = "downloading" /\ job'.phase = "validating" /\ (job'.conf => job.conf)
         \/ job.phase = "validating" /\ job'.phase = "ready"
         \/ job.phase = "ready" /\ job'.phase = "flashing" /\ ~job'.conf
         \/ job'.id # job.id
  PROVE  Forward
BY DEF TypeOK, Phases, Forward, Rank

\* A call that saves: a fresh ID, a spawn that failed, a discard, a confirmation.
LEMMA Rpc_Forward ==
  ASSUME IInv, RpcStep
  PROVE  Forward
<1> USE Saved_Forward DEF IInv
<1>1. CASE Poll \/ RpcEnds \/ PrepareStart \/ \E j \in Jobs : DiscardStart(j)
  BY <1>1 DEF Poll, RpcEnds, PrepareStart, DiscardStart
<1>2. CASE PrepareSave
  BY <1>2 DEF PrepareSave, NewJob, FreshInv
<1>3. CASE PrepareSpawn
  BY <1>3 DEF PrepareSpawn, RpcInv, TypeOK
<1>4. CASE DiscardSave
  BY <1>4 DEF DiscardSave, TypeOK
<1>5. CASE FlashSpawn
  BY <1>5 DEF FlashSpawn, RpcInv, TypeOK
<1>6. ASSUME NEW j \in Jobs, NEW keep \in BOOLEAN, FlashStart(j, keep)
      PROVE  Forward
  BY <1>6 DEF FlashStart, TypeOK
<1> QED
  BY <1>1, <1>2, <1>3, <1>4, <1>5, <1>6 DEF RpcStep

\* A worker that saves read the phase its step expects under the store's lock.
LEMMA Worker_Forward ==
  ASSUME IInv, NEW p \in Procs, WorkerStep(p)
  PROVE  Forward
<1> USE Saved_Forward DEF IInv
<1>1. CASE Record(p) \/ FlashConsume(p)
  BY <1>1 DEF Record, FlashConsume, Change, Consumed, TypeOK
<1>2. CASE Validating(p)
  BY <1>2, ProcFacts DEF Validating, Change, Changeable, PrepareInv, PrepareAt, ModeInv, FlashSteps, TypeOK
<1>3. CASE Ready(p)
  BY <1>3, ProcFacts DEF Ready, Change, Changeable, PrepareInv, PrepareAt, ModeInv, FlashSteps, TypeOK
<1>4. CASE FailStep(p)
  BY <1>4 DEF FailStep, TypeOK
<1>5. CASE UNCHANGED job
  BY <1>5
<1>6. \/ Record(p) \/ FlashConsume(p) \/ Validating(p) \/ Ready(p) \/ FailStep(p)
      \/ UNCHANGED job
  BY DEF WorkerStep, StatusStep, LockStep, RemoveStep, Killed, PrepareRecheck, WorkerStatus,
         Metadata, OpenImage, CopyImage, PrepareValidate, FlashRecheck, FlashValidate, Launch,
         SysupgradeReturns
<1> QED
  BY <1>1, <1>2, <1>3, <1>4, <1>5, <1>6

\* No worker revives a job that was discarded, failed or confirmed.
THEOREM PhasesForward == Spec => PhaseForward
<1>1. ASSUME IInv, [Next]_vars
      PROVE  [Forward]_vars
  <2>1. CASE UNCHANGED vars
    BY <2>1
  <2>2. CASE RpcStep \/ \E p \in Procs : WorkerStep(p)
    BY <1>1, <2>2, Rpc_Forward, Worker_Forward
  <2>3. CASE \E mode \in {"prepare", "flash"}, j \in Jobs : DuplicateWorker(mode, j)
    BY <1>1, <2>3, Saved_Forward DEF DuplicateWorker, IInv
  <2>4. CASE Reboot
    BY <2>4, UpdaterAssumption DEF Reboot, NewJob, Forward
  <2> QED
    BY <1>1, <2>1, <2>2, <2>3, <2>4 DEF Next
<1>2. Forward <=> (job.id \in Jobs /\ job'.id = job.id =>
                     /\ Rank[job.phase] <= Rank[job'.phase]
                     /\ job'.conf => job.conf \/ job.phase = "validating")
  BY DEF Forward
<1> QED
  BY <1>1, <1>2, Inductive, PTL DEF Spec, PhaseForward

-----------------------------------------------------------------------------
(* The image that is being written                                          *)

\* A discarded job is one whose ID was discarded.
DiscardedInv == job.phase = "discarded" => fate[job.id] = "discarded"

Writing == {"copy", "validating", "validate", "ready"}

\* A job that was confirmed has no prepare worker left that writes its image,
\* whether it is still the saved job or not.
PairInv ==
  \A p, q \in Procs :
    /\ p.mode = "prepare" /\ worker[p].at \in Writing \cup {"open"}
    /\ q.mode = "flash" /\ worker[q].at \notin {"off", "status", "end"}
    /\ q.job = p.job
    => fate[p.job] = "discarded"

WInv == IInv /\ DiscardedInv /\ PairInv

\* A worker is started, or one of those that run takes a step: it comes to the
\* image, or past its first check, while its job is in the phase that allows it.
LEMMA WorkerGoesOn ==
  ASSUME IInv, NEW p \in Procs, WorkerStep(p)
  PROVE  /\ \A q \in Procs : q # p => worker'[q] = worker[q]
         /\ p.mode = "prepare" /\ worker'[p].at \in Writing \cup {"open"}
            => \/ worker[p].at \in Writing \cup {"open"}
               \/ Mine(p) /\ job.phase = "downloading"
         /\ p.mode = "flash" /\ worker'[p].at \notin {"off", "status", "end"}
            => \/ worker[p].at \notin {"off", "status", "end"}
               \/ Mine(p) /\ job.phase = "flashing"
<1> USE DEF IInv, Moves, Writing
<1>0. worker[p] \in WorkerType
  BY DEF TypeOK
<1>1. CASE StatusStep(p)
  BY <1>1, StatusEffect DEF StatusStep, WorkerSteps
<1>2. CASE LockStep(p)
  BY <1>2, AcquireEffect, GotoEffect DEF LockStep, WorkerSteps
<1>3. CASE FailStep(p) \/ RemoveStep(p) \/ Killed(p) \/ Metadata(p) \/ OpenImage(p)
           \/ CopyImage(p) \/ Launch(p) \/ SysupgradeReturns(p)
  BY <1>3, GotoEffect, ProcFacts
     DEF FailStep, RemoveStep, Killed, Metadata, OpenImage, CopyImage, Launch,
         SysupgradeReturns, WorkerSteps, ModeInv, PrepareSteps, FlashSteps
<1>4. CASE Record(p)
  <2>1. \/ Moves(p, "open") /\ Mine(p) /\ job.phase # "discarded"
        \/ Moves(p, "fail")
    BY <1>4, ChangeEffect DEF Record, WorkerSteps
  <2> QED BY <1>4, <2>1, ProcFacts DEF Record, PrepareInv, PrepareAt, ModeInv, FlashSteps
<1>5. CASE PrepareRecheck(p)
  BY <1>5, StatusEffect, ProcFacts DEF PrepareRecheck, WorkerSteps
<1>6. CASE Validating(p) \/ Ready(p)
  BY <1>6, ChangeEffect, ProcFacts DEF Validating, Ready, WorkerSteps, ModeInv, FlashSteps
<1>7. CASE PrepareValidate(p) \/ FlashValidate(p)
  BY <1>7, ValidateEffect, ProcFacts DEF PrepareValidate, FlashValidate, WorkerSteps
<1>8. CASE FlashRecheck(p)
  BY <1>8, RecheckEffect, GotoEffect, ProcFacts DEF FlashRecheck, WorkerSteps
<1>9. CASE FlashConsume(p)
  BY <1>9, ChangeEffect, GotoEffect, ProcFacts DEF FlashConsume, WorkerSteps, ModeInv, PrepareSteps
<1> QED
  BY <1>1, <1>2, <1>3, <1>4, <1>5, <1>6, <1>7, <1>8, <1>9 DEF WorkerStep

\* Only discard makes a job a discarded one, and it stays so until the reboot.
LEMMA DiscardedStep ==
  ASSUME WInv, Next, ~Reboot
  PROVE  /\ DiscardedInv'
         /\ \A j \in Jobs : fate[j] = "discarded" => fate'[j] = "discarded"
<1> USE DEF WInv, IInv, DiscardedInv
<1>1. CASE RpcStep
  <2>1. CASE Poll \/ RpcEnds \/ PrepareStart \/ \E j \in Jobs : DiscardStart(j)
    BY <2>1 DEF Poll, RpcEnds, PrepareStart, DiscardStart
  <2>2. CASE PrepareSave
    BY <2>2 DEF PrepareSave, NewJob, TypeOK
  <2>3. CASE PrepareSpawn \/ FlashSpawn
    BY <2>3 DEF PrepareSpawn, FlashSpawn, TypeOK
  <2>4. CASE DiscardSave
    BY <2>4 DEF DiscardSave, RpcInv, TypeOK
  <2>5. ASSUME NEW j \in Jobs, NEW keep \in BOOLEAN, FlashStart(j, keep)
        PROVE  DiscardedInv' /\ UNCHANGED fate
    BY <2>5 DEF FlashStart, TypeOK
  <2> QED BY <1>1, <2>1, <2>2, <2>3, <2>4, <2>5 DEF RpcStep
<1>2. ASSUME NEW p \in Procs, WorkerStep(p)
      PROVE  DiscardedInv' /\ UNCHANGED fate
  <2>1. UNCHANGED fate
    BY <1>2 DEF WorkerStep, StatusStep, WorkerStatus, LockStep, FailStep, RemoveStep, Killed,
       PrepareRecheck, Metadata, Record, OpenImage, CopyImage, Validating, PrepareValidate, Ready,
       FlashRecheck, FlashValidate, FlashConsume, Launch, SysupgradeReturns
  <2>2. job'.id = job.id /\ (job'.phase = "discarded" => job.phase = "discarded")
    BY <1>2 DEF WorkerStep, StatusStep, WorkerStatus, LockStep, FailStep, RemoveStep, Killed,
       PrepareRecheck, Metadata, Record, OpenImage, CopyImage, Validating, PrepareValidate,
       Ready, FlashRecheck, FlashValidate, FlashConsume, Change, Consumed, Launch,
       SysupgradeReturns, TypeOK
  <2> QED BY <2>1, <2>2
<1>3. ASSUME NEW mode \in {"prepare", "flash"}, NEW j \in Jobs, DuplicateWorker(mode, j)
      PROVE  DiscardedInv' /\ UNCHANGED fate
  BY <1>3 DEF DuplicateWorker
<1> QED
  BY <1>1, <1>2, <1>3 DEF Next

\* Writing ends before a confirmation, and begins only before one.
LEMMA PairStep ==
  ASSUME WInv, Next, ~Reboot
  PROVE  PairInv'
<1> USE DEF WInv
<1>0. \A j \in Jobs : fate[j] = "discarded" => fate'[j] = "discarded"
  BY DiscardedStep
<1>1. ASSUME NEW r \in Procs, WorkerStep(r)
      PROVE  PairInv'
  <2> SUFFICES ASSUME NEW p \in Procs, NEW q \in Procs,
                      p.mode = "prepare", worker'[p].at \in Writing \cup {"open"},
                      q.mode = "flash", worker'[q].at \notin {"off", "status", "end"},
                      q.job = p.job
               PROVE  fate'[p.job] = "discarded"
    BY DEF PairInv
  <2>1. CASE worker[p].at \in Writing \cup {"open"} /\ worker[q].at \notin {"off", "status", "end"}
    BY <1>0, <2>1, ProcFacts DEF PairInv
  <2>2. CASE worker[p].at \notin Writing \cup {"open"}
    <3>1. r = p /\ Mine(p) /\ job.phase = "downloading" /\ worker'[q] = worker[q]
      BY <1>1, <2>2, WorkerGoesOn
    <3> QED BY <3>1 DEF IInv, FlashInv, FlashAt, Mine
  <2>3. CASE worker[q].at \in {"off", "status", "end"}
    <3>1. r = q /\ Mine(q) /\ job.phase = "flashing" /\ worker'[p] = worker[p]
      BY <1>1, <2>3, WorkerGoesOn
    <3> QED BY <3>1 DEF IInv, PrepareInv, PrepareAt, Mine, Writing
  <2> QED BY <2>1, <2>2, <2>3
<1>2. CASE UNCHANGED worker
  BY <1>0, <1>2, ProcFacts DEF PairInv
<1>3. ASSUME NEW mode, NEW j, Start(mode, j), mode \in {"prepare", "flash"}, j \in Jobs
      PROVE  PairInv'
  <2>1. \A q \in Procs : worker'[q] = worker[q] \/ worker'[q].at = "status"
    BY <1>3, StartEffect DEF IInv, Moves
  <2> QED BY <1>0, <2>1, ProcFacts DEF PairInv, Writing
<1>4. CASE RpcStep
  BY <1>2, <1>3, <1>4 DEF RpcStep, Poll, RpcEnds, PrepareStart, PrepareSave, PrepareSpawn,
     DiscardStart, DiscardSave, FlashStart, FlashSpawn, IInv, RpcInv
<1>5. ASSUME NEW mode \in {"prepare", "flash"}, NEW j \in Jobs, DuplicateWorker(mode, j)
      PROVE  PairInv'
  BY <1>3, <1>5 DEF DuplicateWorker
<1> QED
  BY <1>1, <1>4, <1>5 DEF Next

\* service.go:328: the image a prepare worker streams or validates is removed by
\* the user's discard, and by nothing else that runs.
Kept ==
  \A p \in Procs :
    /\ p.mode = "prepare" /\ worker[p].at \in Writing
    /\ fate[p.job] # "discarded"
    /\ image[p.job] # "none" /\ image'[p.job] = "none"
    => rpc'.at = "discardSave" \/ Reboot

\* Whoever removes an image else has the saved job, failed, or its own.
LEMMA KeptStep ==
  ASSUME WInv, Next
  PROVE  Kept
<1> SUFFICES ASSUME ~Reboot, rpc'.at # "discardSave",
                    NEW p \in Procs, p.mode = "prepare", worker[p].at \in Writing,
                    fate[p.job] # "discarded",
                    image[p.job] # "none", image'[p.job] = "none"
             PROVE  FALSE
  BY DEF Kept
<1> USE DEF WInv, IInv
<1>0. Mine(p) => job.phase \in {"downloading", "validating"}
  BY DEF PrepareInv, PrepareAt, DiscardedInv, Mine, Writing
<1>1. CASE PrepareStart
  <2>1. Mine(p)
    BY <1>1, ProcFacts DEF PrepareStart, OldImageRemoved, Mine
  <2> QED BY <1>0, <1>1, <2>1 DEF PrepareStart, Refused, Active
<1>2. ASSUME NEW q \in Procs, RemoveStep(q)
      PROVE  FALSE
  <2>1. worker[q].at = "remove" /\ q.job = p.job
    BY <1>2, ProcFacts DEF RemoveStep, Remove, TypeOK
  <2>2. CASE q.mode = "prepare"
    BY <2>1, <2>2, OnlyWorker DEF Writing, Unguarded
  <2>3. CASE q.mode = "flash"
    BY <2>1, <2>3 DEF PairInv
  <2> QED BY <2>2, <2>3, ProcFacts
<1>3. CASE RpcStep
  <2>1. UNCHANGED image \/ PrepareStart \/ \E j \in Jobs : DiscardStart(j)
    BY <1>3 DEF RpcStep, Poll, RpcEnds, PrepareSave, PrepareSpawn, DiscardSave, FlashStart,
       FlashSpawn
  <2> QED BY <1>1, <2>1 DEF DiscardStart
<1>4. ASSUME NEW q \in Procs, OpenImage(q) \/ CopyImage(q)
      PROVE  FALSE
  BY <1>4, ProcFacts DEF OpenImage, CopyImage, TypeOK
<1>5. ASSUME NEW q \in Procs, WorkerStep(q)
      PROVE  FALSE
  BY <1>2, <1>4, <1>5 DEF WorkerStep, StatusStep, WorkerStatus, LockStep, FailStep, Killed,
     PrepareRecheck, Metadata, Record, Validating, PrepareValidate, Ready, FlashRecheck,
     FlashValidate, FlashConsume, Launch, SysupgradeReturns
<1>6. CASE \E mode \in {"prepare", "flash"}, j \in Jobs : DuplicateWorker(mode, j)
  BY <1>6 DEF DuplicateWorker
<1> QED
  BY <1>3, <1>5, <1>6 DEF Next

\* A duplicate worker, a new transaction or a failing flash never erases the
\* image another worker is writing.
THEOREM WriterSafe == Spec => WriterKeepsImage
<1>1. Init => DiscardedInv /\ PairInv
  BY ProcFacts DEF Init, NewJob, Off, DiscardedInv, PairInv, Writing
<1>2. ASSUME WInv, [Next]_vars, IInv'
      PROVE  (DiscardedInv /\ PairInv)'
  <2>1. CASE Next /\ ~Reboot
    BY <1>2, <2>1, DiscardedStep, PairStep
  <2>2. CASE Reboot
    BY <2>2, ProcFacts DEF Reboot, NewJob, Off, DiscardedInv, PairInv, Writing
  <2>3. CASE UNCHANGED vars
    BY <1>2, <2>3 DEF vars, WInv, DiscardedInv, PairInv
  <2> QED BY <1>2, <2>1, <2>2, <2>3
<1>3. ASSUME WInv, [Next]_vars
      PROVE  [Kept]_vars
  BY <1>3, KeptStep
<1>4. Kept <=> (\A p \in Procs :
                  /\ p.mode = "prepare" /\ worker[p].at \in {"copy", "validating", "validate", "ready"}
                  /\ fate[p.job] # "discarded"
                  /\ image[p.job] # "none" /\ image'[p.job] = "none"
                  => rpc'.at = "discardSave" \/ Reboot)
  BY DEF Kept, Writing
<1>5. Spec => [](DiscardedInv /\ PairInv)
  BY <1>1, <1>2, Inductive, PTL DEF Spec, WInv
<1> QED
  BY <1>3, <1>4, <1>5, Inductive, PTL DEF Spec, WInv, WriterKeepsImage
=============================================================================
