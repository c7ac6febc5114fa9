--------------------------- MODULE FirmwareUpdater ---------------------------
(***************************************************************************)
(* The firmware updater of feeds/zbt-firmware-updater/src: one saved job    *)
(* (current.json), short-lived rpcd calls that take the store's             *)
(* non-blocking flock, and detached "prepare" and "flash" workers.          *)
(*                                                                          *)
(* An rpcd call that holds the lock is a sequence of steps (rpc.at), so it  *)
(* can be killed between two of them; a call that finds the lock held, or   *)
(* is refused, changes nothing and is only seen as a Poll.  A worker's      *)
(* locked section is one step, enabled when no call holds the lock; "the    *)
(* 25 attempts were all busy" is a step enabled while a call holds it.      *)
(* The saved hash, size and byte counter, and the catalogue lookups, are    *)
(* abstracted: an image is absent, partial, or the verified release image.  *)
(***************************************************************************)

EXTENDS Naturals

CONSTANTS Jobs,           \* update IDs: 128-bit tokens, never reused in a boot
          Copies,         \* processes that may run one worker of one job
          StorageFaults,  \* TRUE: a write to /tmp may fail (tmpfs exhausted)
          Kills,          \* TRUE: a process may be killed between two steps
          NoJob           \* the ID of an absent current.json

ASSUME UpdaterAssumption ==
  NoJob \notin Jobs /\ StorageFaults \in BOOLEAN /\ Kills \in BOOLEAN

VARIABLES job,       \* current.json
          fate,      \* per ID: never generated, generated, discarded
          rpc,       \* the rpcd call that holds the store's lock
          image,     \* <id>.bin
          worker,    \* the detached workers
          launches   \* sysupgrade processes started since boot

vars == <<job, fate, rpc, image, worker, launches>>

Phases   == {"none", "downloading", "validating", "ready", "flashing", "error", "discarded"}
RpcSteps == {"none", "poll", "prepareSave", "prepareSpawn", "discardSave", "flashSpawn"}
WorkerSteps == {"off", "status", "lock", "recheck", "metadata", "record", "open", "copy",
                "validating", "validate", "ready", "start", "launch", "running",
                "fail", "remove", "end"}

WorkerType == [at : WorkerSteps, locked : BOOLEAN, keep : BOOLEAN, allow : BOOLEAN]

Procs == [mode : {"prepare", "flash"}, job : Jobs, copy : Copies]

TypeOK ==
  /\ job \in [id : Jobs \cup {NoJob}, phase : Phases, conf : BOOLEAN,
              keep : BOOLEAN, allow : BOOLEAN, started : BOOLEAN]
  /\ fate \in [Jobs -> {"new", "live", "discarded"}]
  /\ rpc \in [at : RpcSteps, id : Jobs \cup {NoJob}]
  /\ image \in [Jobs -> {"none", "partial", "good"}]
  /\ worker \in [Procs -> WorkerType]
  /\ launches \subseteq [job : Jobs, copy : Copies, keep : BOOLEAN, allow : BOOLEAN]

\* Mutant: a new job without the FlashStarted field.
NewJobUnset(id, phase) == [id |-> id, phase |-> phase, conf |-> FALSE, keep |-> FALSE, allow |-> FALSE]

NewJob(id, phase) == [id |-> id, phase |-> phase, conf |-> FALSE, keep |-> FALSE,
                      allow |-> FALSE, started |-> FALSE]
Idle   == [at |-> "none", id |-> NoJob]
Off    == [at |-> "off", locked |-> FALSE, keep |-> FALSE, allow |-> FALSE]

Init ==
  /\ job = NewJob(NoJob, "none")
  /\ fate = [j \in Jobs |-> "new"]
  /\ rpc = Idle
  /\ image = [j \in Jobs |-> "none"]
  /\ worker = [p \in Procs |-> Off]
  /\ launches = {}

-----------------------------------------------------------------------------
(* The store                                                                *)

Unlocked == rpc.at = "none"

\* active(phase): store.go:158-164
Active(phase) == phase \in {"downloading", "validating", "ready", "flashing"}

\* Mutants: a failed flash, or an active job, does not refuse a new transaction.
RefusedWhenActive  == Active(job.phase)
RefusedWhenStarted == job.started

\* A new transaction is refused while one is active or a flash was started.
Refused == Active(job.phase) \/ job.started

\* Mutant: a failed flash can be discarded.
DiscardRefusedWhenFlashing == job.phase = "flashing"

\* No discard once the flash was confirmed.
DiscardRefused == job.phase = "flashing" \/ job.started

Remove(j) == image' = [image EXCEPT ![j] = "none"]

\* A worker that ends drops the flock its descriptor holds.
Goto(p, step) ==
  worker' = [worker EXCEPT ![p] =
               [worker[p] EXCEPT !.at = step, !.locked = worker[p].locked /\ step # "end"]]

\* Detached process of one worker mode; rpcd calls and a shell both start it.
Start(mode, j) ==
  \E c \in Copies :
    LET p == [mode |-> mode, job |-> j, copy |-> c] IN
    /\ worker[p].at = "off"
    /\ worker' = [worker EXCEPT ![p] = [Off EXCEPT !.at = "status"]]

Mine(p) == job.id = p.job

\* workerStatus: read the job under the lock, or give up and leave silently.
WorkerStatus(p, expected, next) ==
  /\ UNCHANGED <<job, fate, rpc, image, launches>>
  /\ \/ Unlocked /\ Mine(p) /\ expected /\ Goto(p, next)
     \/ (~Unlocked \/ ~Mine(p) \/ ~expected) /\ Goto(p, "end")

\* Mutant: a late worker revives a discarded job.
ChangeableIfMine(p) == Mine(p)

Changeable(p) == Mine(p) /\ job.phase # "discarded"

\* change: save newJob under the lock unless the job was replaced or discarded.
Change(p, expected, newJob, next) ==
  \/ /\ Unlocked /\ Changeable(p) /\ expected
     /\ job' = newJob
     /\ Goto(p, next)
  \/ /\ ~Unlocked \/ ~Changeable(p) \/ ~expected \/ StorageFaults
     /\ Goto(p, "fail")
     /\ UNCHANGED job

-----------------------------------------------------------------------------
(* rpcd calls                                                               *)

\* status, info, and every call refused after it took the lock.
Poll ==
  /\ Unlocked
  /\ rpc' = [Idle EXCEPT !.at = "poll"]
  /\ UNCHANGED <<job, fate, image, worker, launches>>

\* A poll returns, or rpcd kills a call: the kernel drops its flock.  Killed in
\* the middle, or with its save failing, a call leaves what it did so far: an
\* image removed, a job without a worker.
RpcEnds ==
  /\ rpc.at = "poll" \/ ((Kills \/ StorageFaults) /\ ~Unlocked)
  /\ rpc' = Idle
  /\ UNCHANGED <<job, fate, image, worker, launches>>

\* Mutant: the failed transaction's image stays.
OldImageKept == image

OldImageRemoved == [j \in Jobs |-> IF j = job.id THEN "none" ELSE image[j]]

PrepareStart ==
  /\ Unlocked
  /\ ~Refused
  /\ image' = OldImageRemoved
  /\ rpc' = [Idle EXCEPT !.at = "prepareSave"]
  /\ UNCHANGED <<job, fate, worker, launches>>

PrepareSave ==
  /\ rpc.at = "prepareSave"
  /\ \E j \in Jobs :
       /\ fate[j] = "new"
       /\ fate' = [fate EXCEPT ![j] = "live"]
       /\ job' = NewJob(j, "downloading")
       /\ rpc' = [at |-> "prepareSpawn", id |-> j]
  /\ UNCHANGED <<image, worker, launches>>

PrepareSpawn ==
  /\ rpc.at = "prepareSpawn"
  /\ rpc' = Idle
  /\ \/ Start("prepare", rpc.id) /\ UNCHANGED job
     \/ job' = [job EXCEPT !.phase = "error"] /\ UNCHANGED worker
  /\ UNCHANGED <<fate, image, launches>>

DiscardStart(j) ==
  /\ Unlocked
  /\ job.id = j
  /\ ~DiscardRefused
  /\ Remove(j)
  /\ rpc' = [at |-> "discardSave", id |-> j]
  /\ UNCHANGED <<job, fate, worker, launches>>

DiscardSave ==
  /\ rpc.at = "discardSave"
  /\ job' = [job EXCEPT !.phase = "discarded", !.conf = FALSE]
  /\ fate' = [fate EXCEPT ![rpc.id] = "discarded"]
  /\ rpc' = Idle
  /\ UNCHANGED <<image, worker, launches>>

\* A caller may hold the token of any job: only the current one's is saved.
FlashStart(j, keep) ==
  /\ Unlocked
  /\ job.id = j /\ job.phase = "ready" /\ job.conf
  /\ keep => job.allow
  /\ job' = [job EXCEPT !.phase = "flashing", !.conf = FALSE, !.keep = keep]
  /\ rpc' = [at |-> "flashSpawn", id |-> j]
  /\ UNCHANGED <<fate, image, worker, launches>>

FlashSpawn ==
  /\ rpc.at = "flashSpawn"
  /\ rpc' = Idle
  /\ \/ Start("flash", rpc.id) /\ UNCHANGED job
     \/ job' = [job EXCEPT !.phase = "error"] /\ UNCHANGED worker
  /\ UNCHANGED <<fate, image, launches>>

-----------------------------------------------------------------------------
(* Steps both workers share                                                 *)

\* A second invocation "worker <mode> <id>" of a job that exists.
DuplicateWorker(mode, j) ==
  /\ fate[j] # "new"
  /\ Start(mode, j)
  /\ UNCHANGED <<job, fate, rpc, image, launches>>

StatusStep(p) ==
  /\ worker[p].at = "status"
  /\ WorkerStatus(p, IF p.mode = "prepare" THEN job.phase = "downloading"
                     ELSE job.phase = "flashing" /\ ~job.started, "lock")

\* Mutant: no flock.
NeverContends(p, q) == FALSE

\* <id>.worker.lock is per job, flash.lock is one inode for every job.
Contends(p, q) == q.mode = p.mode /\ (q.job = p.job \/ p.mode = "flash")

LockStep(p) ==
  /\ worker[p].at = "lock"
  /\ IF \E q \in Procs : Contends(p, q) /\ worker[q].locked
     THEN Goto(p, "end")
     ELSE \/ worker' = [worker EXCEPT ![p].at = "recheck", ![p].locked = TRUE]
          \/ StorageFaults /\ Goto(p, "fail")
  /\ UNCHANGED <<job, fate, rpc, image, launches>>

\* fail: record the error unless the job was discarded, then remove the image
\* unless a flash was started.  The removal is deferred until the lock is free.
FailStep(p) ==
  /\ worker[p].at = "fail"
  /\ \/ /\ Unlocked /\ Mine(p)
        /\ \/ job' = IF job.phase = "discarded" THEN job
                     ELSE [job EXCEPT !.phase = "error", !.conf = FALSE]
           \/ StorageFaults /\ UNCHANGED job
        /\ Goto(p, IF job.started THEN "end" ELSE "remove")
     \/ (~Unlocked \/ ~Mine(p)) /\ Goto(p, "end") /\ UNCHANGED job
  /\ UNCHANGED <<fate, rpc, image, launches>>

RemoveStep(p) ==
  /\ worker[p].at = "remove"
  /\ Remove(p.job)
  /\ Goto(p, "end")
  /\ UNCHANGED <<job, fate, rpc, launches>>

\* SIGKILL: the out-of-memory killer on a router that streams into tmpfs.
Killed(p) ==
  /\ Kills
  /\ worker[p].at \notin {"off", "end"}
  /\ Goto(p, "end")
  /\ UNCHANGED <<job, fate, rpc, image, launches>>

\* validate: identity, space, exact size, SHA-256, sysupgrade -T and the ubus
\* validator, whose verdict says whether settings may be kept.
Validate(p, next) ==
  \/ /\ image[p.job] = "good"
     /\ \E a \in BOOLEAN :
          worker' = [worker EXCEPT ![p].at = next, ![p].allow = a]
  \/ Goto(p, "fail")

-----------------------------------------------------------------------------
(* prepareWorker                                                            *)

PrepareRecheck(p) ==
  /\ p.mode = "prepare" /\ worker[p].at = "recheck"
  /\ WorkerStatus(p, job.phase = "downloading", "metadata")

\* Identity, release, verified metadata, free space.
Metadata(p) ==
  /\ worker[p].at = "metadata"
  /\ Goto(p, "record") \/ Goto(p, "fail")
  /\ UNCHANGED <<job, fate, rpc, image, launches>>

Record(p) ==
  /\ worker[p].at = "record"
  /\ Change(p, TRUE, job, "open")
  /\ UNCHANGED <<fate, rpc, image, launches>>

\* O_CREAT|O_EXCL
OpenImage(p) ==
  /\ worker[p].at = "open"
  /\ \/ /\ image[p.job] = "none"
        /\ image' = [image EXCEPT ![p.job] = "partial"]
        /\ Goto(p, "copy")
     \/ /\ image[p.job] # "none" \/ StorageFaults
        /\ Goto(p, "fail")
        /\ UNCHANGED image
  /\ UNCHANGED <<job, fate, rpc, launches>>

\* io.Copy: all bytes with the published hash, or an error (HTTP, size, hash,
\* space, or a progress update that found the job discarded or replaced).
\* The stream goes on into the inode even when the name was removed.
CopyImage(p) ==
  /\ worker[p].at = "copy"
  /\ \/ /\ image' = [image EXCEPT ![p.job] = IF @ = "partial" THEN "good" ELSE @]
        /\ Goto(p, "validating")
     \/ Goto(p, "fail") /\ UNCHANGED image
  /\ UNCHANGED <<job, fate, rpc, launches>>

Validating(p) ==
  /\ worker[p].at = "validating"
  /\ Change(p, TRUE, [job EXCEPT !.phase = "validating"], "validate")
  /\ UNCHANGED <<fate, rpc, image, launches>>

PrepareValidate(p) ==
  /\ p.mode = "prepare" /\ worker[p].at = "validate"
  /\ Validate(p, "ready")
  /\ UNCHANGED <<job, fate, rpc, image, launches>>

Ready(p) ==
  /\ worker[p].at = "ready"
  /\ Change(p, TRUE, [job EXCEPT !.phase = "ready", !.allow = worker[p].allow, !.conf = TRUE], "end")
  /\ UNCHANGED <<fate, rpc, image, launches>>

-----------------------------------------------------------------------------
(* flashWorker                                                              *)

FlashRecheck(p) ==
  /\ p.mode = "flash" /\ worker[p].at = "recheck"
  /\ UNCHANGED <<job, fate, rpc, image, launches>>
  /\ \/ /\ Unlocked /\ Mine(p) /\ job.phase = "flashing" /\ ~job.started
        /\ worker' = [worker EXCEPT ![p].at = "validate", ![p].keep = job.keep]
     \/ /\ ~Unlocked \/ ~Mine(p) \/ job.phase # "flashing" \/ job.started
        /\ Goto(p, "end")

FlashValidate(p) ==
  /\ p.mode = "flash" /\ worker[p].at = "validate"
  /\ Validate(p, "start")
  /\ UNCHANGED <<job, fate, rpc, image, launches>>

\* Mutants: the second verdict is not consulted; the flash is not marked started.
KeepNeverRefused(p) == FALSE
Unconsumed          == job

\* The second validation no longer allows what the user confirmed.
KeepRefused(p) == worker[p].keep /\ ~worker[p].allow

Consumed == [job EXCEPT !.started = TRUE]

\* Settings kept against the validator's verdict fail the job; otherwise the
\* flash is consumed by saving FlashStarted.
FlashConsume(p) ==
  /\ worker[p].at = "start"
  /\ IF KeepRefused(p)
     THEN Goto(p, "fail") /\ UNCHANGED job
     ELSE Change(p, job.phase = "flashing" /\ ~job.started, Consumed, "launch")
  /\ UNCHANGED <<fate, rpc, image, launches>>

Launch(p) ==
  /\ worker[p].at = "launch"
  /\ launches' = launches \cup {[job |-> p.job, copy |-> p.copy,
                                 keep |-> worker[p].keep, allow |-> worker[p].allow]}
  /\ Goto(p, "running")
  /\ UNCHANGED <<job, fate, rpc, image>>

\* sysupgrade returns: an error is recorded; success leaves the reboot to procd.
SysupgradeReturns(p) ==
  /\ worker[p].at = "running"
  /\ Goto(p, "fail") \/ Goto(p, "end")
  /\ UNCHANGED <<job, fate, rpc, image, launches>>

\* Everything here lives in /tmp and in processes.
Reboot ==
  /\ job' = NewJob(NoJob, "none")
  /\ fate' = [j \in Jobs |-> "new"]
  /\ rpc' = Idle
  /\ image' = [j \in Jobs |-> "none"]
  /\ worker' = [p \in Procs |-> Off]
  /\ launches' = {}

-----------------------------------------------------------------------------
RpcStep ==
  \/ Poll \/ RpcEnds \/ PrepareStart \/ PrepareSave \/ PrepareSpawn
  \/ DiscardSave \/ FlashSpawn
  \/ \E j \in Jobs : DiscardStart(j)
  \/ \E j \in Jobs, keep \in BOOLEAN : FlashStart(j, keep)

WorkerStep(p) ==
  \/ StatusStep(p) \/ LockStep(p) \/ FailStep(p) \/ RemoveStep(p) \/ Killed(p)
  \/ PrepareRecheck(p) \/ Metadata(p) \/ Record(p) \/ OpenImage(p) \/ CopyImage(p)
  \/ Validating(p) \/ PrepareValidate(p) \/ Ready(p)
  \/ FlashRecheck(p) \/ FlashValidate(p) \/ FlashConsume(p) \/ Launch(p)
  \/ SysupgradeReturns(p)

Next ==
  \/ RpcStep
  \/ \E p \in Procs : WorkerStep(p)
  \/ \E mode \in {"prepare", "flash"}, j \in Jobs : DuplicateWorker(mode, j)
  \/ Reboot

Spec == Init /\ [][Next]_vars

-----------------------------------------------------------------------------
(* Properties                                                               *)

\* One boot starts sysupgrade at most once, whatever is clicked, killed or
\* invoked twice: the one-time confirmation, flash.lock and FlashStarted.
SingleLaunch == \A a, b \in launches : a = b

\* From the launch of sysupgrade on, the verified image stays in place and the
\* saved job is the flashed one and marked so: no discard, failing worker or new
\* transaction touches what is being written to flash.
FlashIsolated ==
  \A l \in launches : image[l.job] = "good" /\ job.id = l.job /\ job.started

\* Settings are kept only when the last validation allowed it.
KeepOnlyIfAllowed == \A l \in launches : l.keep => l.allow

\* service.go:328: while a prepare worker streams or validates an image, only the
\* user's discard takes it away; a duplicate invocation never erases it.
WriterKeepsImage ==
  [][\A p \in Procs :
       /\ p.mode = "prepare" /\ worker[p].at \in {"copy", "validating", "validate", "ready"}
       /\ fate[p.job] # "discarded"
       /\ image[p.job] # "none" /\ image'[p.job] = "none"
       => rpc'.at = "discardSave" \/ Reboot]_vars

Rank == [none |-> 0, downloading |-> 1, validating |-> 2, ready |-> 3,
         flashing |-> 4, error |-> 5, discarded |-> 6]

\* The saved phase of one job only moves forward: no late worker revives a job
\* that was discarded, failed or already confirmed, and no confirmation is
\* offered again once used.
PhaseForward ==
  [][job.id \in Jobs /\ job'.id = job.id =>
       /\ Rank[job.phase] <= Rank[job'.phase]
       /\ job'.conf => job.conf \/ job.phase = "validating"]_vars

\* An image on disk belongs to the current job, unless its job was discarded:
\* each new transaction clears what the failed one left.
OnlyDiscardLeaks ==
  \A j \in Jobs : image[j] = "none" \/ j = job.id \/ fate[j] = "discarded"

\* updater_test.go:683-684, "discard did not remove image": the image of a
\* discarded job is gone once the next transaction replaced the job and none of
\* its workers is left to remove the image.
DiscardRemovesImage ==
  \A j \in Jobs :
    /\ fate[j] = "discarded" /\ job.id # j
    /\ \A p \in Procs : p.job = j => worker[p].at \in {"off", "end"}
    => image[j] = "none"

\* service.go:184, "resume or discard it first": a job that blocks a new
\* transaction before any flash started has a process that still carries it on,
\* or can be discarded.
BlockedJobCanBeDiscarded ==
  Refused /\ ~job.started =>
    \/ ~DiscardRefused
    \/ ~Unlocked
    \/ \E p \in Procs : p.job = job.id /\ worker[p].at \notin {"off", "end"}
=============================================================================
