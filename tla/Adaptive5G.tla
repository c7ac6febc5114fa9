---------------------------- MODULE Adaptive5G ----------------------------
(***************************************************************************)
(* The guarded SA/NSA comparison of each modem (5g-adaptive.sh) and those  *)
(* who share its radio selection: the UI's policy call and the pre-dial    *)
(* hook (qmodem-5g.sh, zbt-qmodem-performance-policy), under radio.lock    *)
(* (5g-state.sh); the speed-test lease (speed-lock.sh); and the tracker of *)
(* mwan3, which decides whether clients are routed over the modem.         *)
(*                                                                         *)
(* The state starts as boot leaves it: /tmp is empty, while the modem's    *)
(* own settings and the saved policy are whatever they were.               *)
(***************************************************************************)
EXTENDS Naturals, FiniteSets

CONSTANTS
  Slots,       \* the modems, "4_1" and "2_1"
  Boots,       \* what the modem may have stored when the router boots
  UserRats,    \* network types somebody selects outside of radio.lock
  Choices,     \* policies the UI is asked for; the saved one is one of them
  Edits,       \* policies somebody writes with uci, outside of radio.lock
  MaxKills,    \* bound on the processes killed in a behaviour
  MaxTests,    \* bound on the other speed tests in a behaviour
  KillBare     \* may a kill fall between the mkdir and the lease of zbt_speed_lock?

ASSUME AdaptiveAssumption ==
  /\ Boots \subseteq [mode : {"auto", "nsa", "sa"}, rat : {"AUTO", "LTE", "NR5G", "LTE:NR5G"}]
  /\ UserRats \subseteq {"AUTO", "LTE", "NR5G", "LTE:NR5G"}
  /\ Choices \subseteq {"auto_adaptive", "auto", "nsa", "sa"}
  /\ Edits \subseteq {"auto_adaptive", "auto", "nsa", "sa"}
  /\ MaxKills \in Nat /\ MaxTests \in Nat
  /\ KillBare \in BOOLEAN

Deployments == {"auto", "nsa", "sa"}              \* nr5g_disable_mode 0, 1, 2
Rats        == {"AUTO", "LTE", "NR5G", "LTE:NR5G"}    \* mode_pref
Policies    == Deployments \cup {"auto_adaptive"}

VARIABLES
  policy,      \* qmodem.<slot>.zbt_5g_policy, with its opt-in
  mode, rat,   \* what the modem has stored
  verified,    \* /tmp/zbt-5g/<slot>/verified, or "none"
  rollback,    \* the journal of a trial, or "none"
  maint,       \* the maintenance marker: "none", or its owner is "live" or "dead"
  paused,      \* the modem is out of client routing (mwan3 ifdown)
  refresh,     \* a zbt_mwan_refresh has seen no marker and will call mwan3 ifup
  lock,        \* who holds radio.lock: "free", "worker", "ui" or "dial"
  lease,       \* the speed-test lock: "free", "bare" (no lease in it yet), of the
               \* "worker", of an "other" test, or of a killed one ("stale", "expired")
  tx,          \* the radio transaction in progress (zbt_5g_apply)
  worker,      \* the process zbt-5g-adaptive
  kills,
  tests,       \* other speed tests begun
  ghost        \* per slot: the trial's unverified candidate, the settings journaled,
               \* the selection under which the Internet was reached

files  == <<verified, rollback, maint>>
mwan   == <<paused, refresh>>
radio  == <<mode, rat>>
counts == <<kills, tests>>
vars   == <<policy, radio, files, mwan, lock, lease, tx, worker, counts, ghost>>

-----------------------------------------------------------------------------
(* Types and small helpers                                                 *)

TxSteps == {"none", "rat", "undoRat", "mode", "undoMode", "ok", "fail", "saved"}
TxType  == [at : TxSteps, req : Deployments, save : Policies, mode : Deployments, rat : Rats]
NoTx    == [at |-> "none", req |-> "auto", save |-> "auto", mode |-> "auto", rat |-> "AUTO"]

Trying    == {"candidate", "applying", "wait", "sample", "compare", "keepMark", "keepUp"}
Restoring == {"restore", "restoring", "restoreWait", "restoreMark", "restoreUp",
              "restored", "forget"}
Giving    == {"giveUp", "auto", "autoing", "lastMark", "lastUp"}
Steps     == {"dead", "between", "lease", "stamp", "round", "baseline", "journal", "maintain",
              "down", "verify", "leave"} \cup Trying \cup Restoring \cup Giving
WorkerType == [at : Steps, slot : Slots, want : Deployments, prev : Deployments,
               policy : Policies]

Between(s) == [at |-> "between", slot |-> s, want |-> "auto", prev |-> "auto", policy |-> "auto"]

NoSettings == [mode |-> "none", rat |-> "none"]
GhostType  == [trial : Deployments \cup {"none"}, seen : Deployments \cup {"none"},
               before : [mode : Deployments, rat : Rats] \cup {NoSettings}]

\* What a policy asks of the modem (zbt_5g_value).
Deployment(p) == IF p = "auto_adaptive" THEN "auto" ELSE p

\* The network types a request goes with, given the settings read (zbt_5g_rat_target).
RatTarget(req, old) ==
  CASE req = "auto" -> IF old.mode = "auto" THEN old.rat ELSE "AUTO"
    [] req = "nsa"  -> "LTE:NR5G"
    [] req = "sa"   -> IF old.rat = "LTE" THEN "NR5G" ELSE old.rat

\* The selection a dial starts from: the journal before the learned one (zbt_5g_hint).
Hint(s) ==
  IF rollback[s] # "none" THEN rollback[s]
  ELSE IF verified[s] # "none" THEN verified[s] ELSE "auto"

Settings(s) == [mode |-> mode[s], rat |-> rat[s]]

Init ==
  /\ policy \in [Slots -> Choices]
  /\ \E b \in [Slots -> Boots] : /\ mode = [s \in Slots |-> b[s].mode]
                               /\ rat  = [s \in Slots |-> b[s].rat]
  /\ verified = [s \in Slots |-> "none"]
  /\ rollback = [s \in Slots |-> "none"]
  /\ maint    = [s \in Slots |-> "none"]
  /\ paused   = [s \in Slots |-> FALSE]
  /\ refresh  = [s \in Slots |-> FALSE]
  /\ lock     = [s \in Slots |-> "free"]
  /\ lease    = "free"
  /\ tx       = [s \in Slots |-> NoTx]
  /\ worker \in {Between(s) : s \in Slots}
  /\ kills    = 0 /\ tests = 0
  /\ ghost    = [s \in Slots |-> [trial |-> "none", seen |-> "none", before |-> NoSettings]]

-----------------------------------------------------------------------------
(* The read-verified radio transaction, zbt_5g_apply.  Whoever runs it     *)
(* holds radio.lock.  A write whose answer or readback fails may have      *)
(* reached the modem.                                                      *)

To(s, step) == tx' = [tx EXCEPT ![s].at = step]

Unseen(s) == ghost' = [ghost EXCEPT ![s].seen = "none"]

\* Both settings are read first; nothing is written on an unreadable modem.
Open(s, req, save) ==
  \/ tx' = [tx EXCEPT ![s] = [at |-> "rat", req |-> req, save |-> save,
                              mode |-> mode[s], rat |-> rat[s]]]
  \/ tx' = [tx EXCEPT ![s] = [NoTx EXCEPT !.at = "fail"]]

Target(s) == RatTarget(tx[s].req, tx[s])

WriteRat(s, value, good, bad) ==
  /\ \/ rat' = [rat EXCEPT ![s] = value] /\ To(s, good)
     \/ \E r \in {rat[s], value} : rat' = [rat EXCEPT ![s] = r] /\ To(s, bad)
  /\ Unseen(s) /\ UNCHANGED mode

WriteMode(s, value, good, bad) ==
  /\ \/ mode' = [mode EXCEPT ![s] = value] /\ To(s, good)
     \/ \E m \in {mode[s], value} : mode' = [mode EXCEPT ![s] = m] /\ To(s, bad)
  /\ Unseen(s) /\ UNCHANGED rat

TxRat(s) ==
  /\ tx[s].at = "rat"
  /\ \/ tx[s].rat = Target(s) /\ To(s, "mode") /\ UNCHANGED <<radio, ghost>>
     \/ tx[s].rat # Target(s) /\ WriteRat(s, Target(s), "mode", "undoRat")
  /\ UNCHANGED <<policy, files, mwan, lock, lease, worker, counts>>

TxUndoRat(s) ==
  /\ tx[s].at = "undoRat"
  /\ WriteRat(s, tx[s].rat, "fail", "fail")
  /\ UNCHANGED <<policy, files, mwan, lock, lease, worker, counts>>

TxMode(s) ==
  /\ tx[s].at = "mode"
  /\ \/ tx[s].mode = tx[s].req /\ To(s, "ok") /\ UNCHANGED <<radio, ghost>>
     \/ tx[s].mode # tx[s].req /\ WriteMode(s, tx[s].req, "ok", "undoMode")
  /\ UNCHANGED <<policy, files, mwan, lock, lease, worker, counts>>

\* The network types are put back only after the deployment is known to be.
TxUndoMode(s) ==
  /\ tx[s].at = "undoMode"
  /\ WriteMode(s, tx[s].mode, IF tx[s].rat # Target(s) THEN "undoRat" ELSE "fail", "fail")
  /\ UNCHANGED <<policy, files, mwan, lock, lease, worker, counts>>

Ended(s) == tx[s].at \in {"ok", "fail"}
Close(s) == tx' = [tx EXCEPT ![s] = NoTx]

\* A verified request other than the trial's replaces the candidate.
Replaced(s) == ghost' = [ghost EXCEPT ![s].trial = "none", ![s].before = NoSettings]
Settled(s)  == IF tx[s].at = "ok" THEN Replaced(s) ELSE UNCHANGED ghost

-----------------------------------------------------------------------------
(* zbt_adaptive_run: radio.lock, the speed-test lease, then a restore or a *)
(* new round, for one modem after the other.                               *)

Goto(step) == worker' = [worker EXCEPT !.at = step]
At(s, step) == worker.slot = s /\ worker.at = step

\* Mutant: the lock excludes another worker only.
LockNotMine(s) == lock[s] # "worker"
LockFree(s)    == lock[s] = "free"

Begin(s) ==
  /\ worker.at = "between" /\ LockFree(s)
  /\ lock' = [lock EXCEPT ![s] = "worker"]
  /\ worker' = [Between(s) EXCEPT !.at = "lease"]
  /\ UNCHANGED <<policy, radio, files, mwan, lease, tx, counts, ghost>>

\* An expired lease is removed with its directory, and the directory made again.
TakeLease(s) ==
  /\ At(s, "lease")
  /\ \/ lease \in {"free", "expired"} /\ lease' = "bare" /\ Goto("stamp") /\ UNCHANGED lock
     \/ /\ lease \in {"bare", "other", "stale"}
        /\ worker' = Between(s) /\ lock' = [lock EXCEPT ![s] = "free"] /\ UNCHANGED lease
  /\ UNCHANGED <<policy, radio, files, mwan, tx, counts, ghost>>

\* Mutant: the marker, not the journal, tells a trial that did not end.
UnfinishedMarked(s) == maint[s] # "none"
Unfinished(s)       == rollback[s] # "none"

StampLease(s) ==
  /\ At(s, "stamp") /\ lease' = "worker"
  /\ Goto(IF Unfinished(s) THEN "restore" ELSE "round")
  /\ UNCHANGED <<policy, radio, files, mwan, lock, tx, counts, ghost>>

Leave(s) ==
  /\ At(s, "leave") /\ worker' = Between(s)
  /\ lease' = "free" /\ lock' = [lock EXCEPT ![s] = "free"]
  /\ UNCHANGED <<policy, radio, files, mwan, tx, counts, ghost>>

-----------------------------------------------------------------------------
(* zbt_adaptive_round                                                      *)

\* The settings found must be those of the hint (lines 259-264).
AsHinted(s) ==
  /\ mode[s] = Hint(s)
  /\ <<Hint(s), rat[s]>> \in {<<"auto", "AUTO">>, <<"sa", "AUTO">>, <<"nsa", "LTE:NR5G">>}

\* The cell serves NSA or SA, as far as the modem's selector lets it.
Served(s) == IF mode[s] = "auto" THEN {"nsa", "sa"} ELSE {mode[s]}

\* Cooldown, readiness, stability, capability, idleness and budget are input.
Round(s) ==
  /\ At(s, "round")
  /\ \/ /\ policy[s] = "auto_adaptive" /\ ~paused[s] /\ AsHinted(s)
        /\ \E base \in Served(s) :
             worker' = [worker EXCEPT !.at = "baseline", !.prev = Hint(s),
                                      !.want = IF base = "nsa" THEN "sa" ELSE "nsa"]
     \/ Goto("leave")
  /\ UNCHANGED <<policy, radio, files, mwan, lock, lease, tx, counts, ghost>>

Baseline(s) ==
  /\ At(s, "baseline")
  /\ \/ policy[s] = "auto_adaptive" /\ Goto("journal")
     \/ Goto("leave")
  /\ UNCHANGED <<policy, radio, files, mwan, lock, lease, tx, counts, ghost>>

Journal(s) ==
  /\ At(s, "journal") /\ Goto("maintain")
  /\ rollback' = [rollback EXCEPT ![s] = worker.prev]
  /\ ghost' = [ghost EXCEPT ![s].before = Settings(s)]
  /\ UNCHANGED <<policy, radio, verified, maint, mwan, lock, lease, tx, counts>>

Maintain(s) ==
  /\ At(s, "maintain") /\ Goto("down")
  /\ maint' = [maint EXCEPT ![s] = "live"]
  /\ UNCHANGED <<policy, radio, verified, rollback, mwan, lock, lease, tx, counts, ghost>>

\* One ifdown per address family: the second may fail after the first.
Down(s) ==
  /\ At(s, "down")
  /\ \/ paused' = [paused EXCEPT ![s] = TRUE] /\ Goto("candidate")
     \/ \E p \in {paused[s], TRUE} : paused' = [paused EXCEPT ![s] = p] /\ Goto("restore")
  /\ UNCHANGED <<policy, radio, files, refresh, lock, lease, tx, counts, ghost>>

\* Without a ready backup WAN the candidate is not applied.
Candidate(s) ==
  /\ At(s, "candidate")
  /\ \/ /\ Goto("applying") /\ Open(s, worker.want, "auto")
        /\ ghost' = [ghost EXCEPT ![s].trial = worker.want]
     \/ Goto("restore") /\ UNCHANGED <<tx, ghost>>
  /\ UNCHANGED <<policy, radio, files, mwan, lock, lease, counts>>

Applied(s) ==
  /\ At(s, "applying") /\ Ended(s) /\ Close(s)
  /\ Goto(IF tx[s].at = "ok" THEN "wait" ELSE "restore")
  /\ UNCHANGED <<policy, radio, files, mwan, lock, lease, counts, ghost>>

Reached(s) == ghost' = [ghost EXCEPT ![s].seen = mode[s]]

\* zbt_adaptive_wait_data: the device, the probe, the cell, the backup, the policy.
Wait(s) ==
  /\ At(s, "wait")
  /\ \/ policy[s] = "auto_adaptive" /\ Goto("sample") /\ Reached(s)
     \/ Goto("restore") /\ UNCHANGED ghost
  /\ UNCHANGED <<policy, radio, files, mwan, lock, lease, tx, counts>>

\* Three downloads, with the modem out of client routing before and after each;
\* when the scores cannot be read again the round just ends (line 297).
Sample(s) ==
  /\ At(s, "sample")
  /\ \/ policy[s] = "auto_adaptive" /\ paused[s] /\ Goto("compare")
     \/ Goto("restore")
     \/ policy[s] = "auto_adaptive" /\ paused[s] /\ Goto("leave")
  /\ UNCHANGED <<policy, radio, files, mwan, lock, lease, tx, counts, ghost>>

Compare(s) ==
  /\ At(s, "compare")
  /\ Goto("keepMark") \/ Goto("restore")
  /\ UNCHANGED <<policy, radio, files, mwan, lock, lease, tx, counts, ghost>>

-----------------------------------------------------------------------------
(* zbt_adaptive_resume, its three callers, and zbt_adaptive_restore        *)

Unmark(s, here, next) ==
  /\ At(s, here) /\ Goto(next)
  /\ maint' = [maint EXCEPT ![s] = "none"]
  /\ UNCHANGED <<policy, radio, verified, rollback, mwan, lock, lease, tx, counts, ghost>>

\* mwan3 ifup, then up to a minute for the tracker to be online.
Up(s, here, good, bad) ==
  /\ At(s, here)
  /\ \/ paused' = [paused EXCEPT ![s] = FALSE] /\ Goto(good)
     \/ \E p \in {paused[s], FALSE} : paused' = [paused EXCEPT ![s] = p] /\ Goto(bad)
  /\ UNCHANGED <<policy, radio, files, refresh, lock, lease, tx, counts, ghost>>

KeepMark(s) == Unmark(s, "keepMark", "keepUp")
KeepUp(s)   == Up(s, "keepUp", "verify", "restore")

Verify(s) ==
  /\ At(s, "verify") /\ Goto("forget")
  /\ verified' = [verified EXCEPT ![s] = worker.want]
  /\ Replaced(s)
  /\ UNCHANGED <<policy, radio, rollback, maint, mwan, lock, lease, tx, counts>>

Forget(s) ==
  /\ At(s, "forget") /\ Goto("leave")
  /\ rollback' = [rollback EXCEPT ![s] = "none"]
  /\ maint'    = [maint EXCEPT ![s] = "none"]
  /\ ghost'    = [ghost EXCEPT ![s].before = NoSettings]
  /\ UNCHANGED <<policy, radio, verified, mwan, lock, lease, tx, counts>>

\* An explicit policy wins over the journal, and what is no selection is automatic.
RestoreTo(s) ==
  IF policy[s] \in Deployments THEN policy[s]
  ELSE IF rollback[s] = "none" THEN "auto" ELSE rollback[s]

Restore(s) ==
  /\ At(s, "restore")
  /\ LET to == RestoreTo(s)
     IN  /\ worker' = [worker EXCEPT !.at = "restoring", !.want = to, !.policy = policy[s]]
         /\ Open(s, to, "auto")
  /\ UNCHANGED <<policy, radio, files, mwan, lock, lease, counts, ghost>>

Restored(s) ==
  /\ At(s, "restoring") /\ Ended(s) /\ Close(s)
  /\ \/ /\ tx[s].at = "ok" /\ Goto("restoreWait")
        /\ ghost' = [ghost EXCEPT ![s].trial = "none"]
     \/ tx[s].at = "fail" /\ Goto("giveUp") /\ UNCHANGED ghost
  /\ UNCHANGED <<policy, radio, files, mwan, lock, lease, counts>>

RestoreWait(s) ==
  /\ At(s, "restoreWait")
  /\ \/ Goto("restoreMark") /\ Reached(s)
     \/ Goto("giveUp") /\ UNCHANGED ghost
  /\ UNCHANGED <<policy, radio, files, mwan, lock, lease, tx, counts>>

RestoreMark(s) == Unmark(s, "restoreMark", "restoreUp")
RestoreUp(s)   == Up(s, "restoreUp", "restored", "giveUp")

RestoreVerify(s) ==
  /\ At(s, "restored") /\ Goto("forget")
  /\ verified' = [verified EXCEPT ![s] = worker.want]
  /\ UNCHANGED <<policy, radio, rollback, maint, mwan, lock, lease, tx, counts, ghost>>

\* Mutant: the policy's name is journaled.
FallbackPolicy == worker.policy
Fallback       == "auto"

\* From now on automatic, so that a lost carrier does not make it oscillate.
GiveUp(s) ==
  /\ At(s, "giveUp")
  /\ \/ /\ worker.policy = "auto_adaptive" /\ Goto("auto")
        /\ rollback' = [rollback EXCEPT ![s] = Fallback]
     \/ worker.policy # "auto_adaptive" /\ Goto("lastMark") /\ UNCHANGED rollback
  /\ UNCHANGED <<policy, radio, verified, maint, mwan, lock, lease, tx, counts, ghost>>

AskAuto(s) ==
  /\ At(s, "auto") /\ Goto("autoing") /\ Open(s, "auto", "auto")
  /\ UNCHANGED <<policy, radio, files, mwan, lock, lease, counts, ghost>>

AutoTried(s) ==
  /\ At(s, "autoing") /\ Ended(s) /\ Close(s) /\ Goto("lastMark") /\ Settled(s)
  /\ UNCHANGED <<policy, radio, files, mwan, lock, lease, counts>>

LastMark(s) == Unmark(s, "lastMark", "lastUp")
LastUp(s)   == Up(s, "lastUp", "leave", "leave")


-----------------------------------------------------------------------------
(* The UI's zbt_set_5g_deployment                                          *)

Frees(s) == lock' = [lock EXCEPT ![s] = "free"]

\* Somebody other than the worker decides the selection: the journal's is void.
Void(s) == ghost' = [ghost EXCEPT ![s].before = NoSettings]

\* Mutant: the policy is saved whatever became of the transaction.
SaveableAnyway(s) == Ended(s)
Saveable(s)       == tx[s].at = "ok"

UiBegin(s) ==
  /\ LockFree(s) /\ lock' = [lock EXCEPT ![s] = "ui"]
  /\ \E p \in Choices : Open(s, Deployment(p), p)
  /\ Void(s)
  /\ UNCHANGED <<policy, radio, files, mwan, lease, worker, counts>>

\* A commit that fails leaves the policy as it was, or staged and readable.
UiSave(s) ==
  /\ lock[s] = "ui"
  /\ \/ /\ Saveable(s) /\ policy' = [policy EXCEPT ![s] = tx[s].save]
        /\ To(s, "saved") /\ UNCHANGED lock
     \/ /\ Saveable(s) /\ \E p \in {policy[s], tx[s].save} : policy' = [policy EXCEPT ![s] = p]
        /\ Close(s) /\ Frees(s)
     \/ tx[s].at = "fail" /\ Close(s) /\ Frees(s) /\ UNCHANGED policy
  /\ Settled(s)
  /\ UNCHANGED <<radio, files, mwan, lease, worker, counts>>

\* Mutant: the marker is left behind.
MarkKept(s)    == maint
MarkRemoved(s) == [maint EXCEPT ![s] = "none"]

UiForget(s) ==
  /\ tx[s].at = "saved" /\ Close(s) /\ Frees(s)
  /\ verified' = [verified EXCEPT ![s] = "none"]
  /\ rollback' = [rollback EXCEPT ![s] = "none"]
  /\ maint'    = MarkRemoved(s)
  /\ UNCHANGED <<policy, radio, mwan, lease, worker, counts, ghost>>

-----------------------------------------------------------------------------
(* apply_policy, before every dial                                         *)

\* A learned selection is given up when its tracker is not online.
DialBegin(s) ==
  /\ LockFree(s) /\ lock' = [lock EXCEPT ![s] = "dial"] /\ Void(s)
  /\ \/ policy[s] \in Deployments /\ Open(s, policy[s], "auto") /\ UNCHANGED verified
     \/ /\ policy[s] = "auto_adaptive" /\ (rollback[s] # "none" \/ ~paused[s])
        /\ Open(s, Hint(s), "auto") /\ UNCHANGED verified
     \/ /\ policy[s] = "auto_adaptive" /\ rollback[s] = "none"
        /\ Open(s, "auto", "auto") /\ verified' = [verified EXCEPT ![s] = "none"]
  /\ UNCHANGED <<policy, radio, rollback, maint, mwan, lease, worker, counts>>

DialDone(s) ==
  /\ lock[s] = "dial" /\ Ended(s) /\ Close(s) /\ Frees(s) /\ Settled(s)
  /\ UNCHANGED <<policy, radio, files, mwan, lease, worker, counts>>

-----------------------------------------------------------------------------
(* Those who take no lock: uci, the Allowed Network Types page, mwan3      *)

EditPolicy(s) ==
  /\ \E p \in Edits : policy' = [policy EXCEPT ![s] = p]
  /\ Void(s)
  /\ UNCHANGED <<radio, files, mwan, lock, lease, tx, worker, counts>>

UserRat(s) ==
  /\ \E r \in UserRats : rat' = [rat EXCEPT ![s] = r]
  /\ Void(s)
  /\ UNCHANGED <<policy, mode, files, mwan, lock, lease, tx, worker, counts>>

\* zbt_mwan_refresh (QMI session, reconciler) looks at the marker, then calls ifup.
RefreshReads(s) ==
  /\ ~refresh[s] /\ maint[s] = "none" /\ paused[s]
  /\ refresh' = [refresh EXCEPT ![s] = TRUE]
  /\ UNCHANGED <<policy, radio, files, paused, lock, lease, tx, worker, counts, ghost>>

RefreshUp(s) ==
  /\ refresh[s] /\ refresh' = [refresh EXCEPT ![s] = FALSE]
  /\ paused' = [paused EXCEPT ![s] = FALSE] \/ UNCHANGED paused
  /\ UNCHANGED <<policy, radio, files, lock, lease, tx, worker, counts, ghost>>

\* netifd's ifup event reaches mwan3's hotplug script, which defers it for a live owner.
Hotplug(s) ==
  /\ paused[s] /\ maint[s] # "live" /\ paused' = [paused EXCEPT ![s] = FALSE]
  /\ UNCHANGED <<policy, radio, files, refresh, lock, lease, tx, worker, counts, ghost>>

-----------------------------------------------------------------------------
(* Killed processes, the supervisor, and the other users of the lease      *)

\* The journal and the marker stay behind, the marker with the pid of nobody.
Kill(s) ==
  /\ kills < MaxKills /\ lock[s] = "worker" /\ worker.slot = s
  /\ worker.at = "stamp" => KillBare
  /\ kills' = kills + 1 /\ UNCHANGED tests
  /\ worker' = [Between(s) EXCEPT !.at = "dead"] /\ Frees(s) /\ Close(s)
  /\ lease' = IF lease = "worker" THEN "stale" ELSE lease
  /\ maint' = [x \in Slots |-> IF maint[x] = "live" THEN "dead" ELSE maint[x]]
  /\ UNCHANGED <<policy, radio, verified, rollback, mwan, ghost>>

Respawn(s) ==
  /\ At(s, "dead") /\ worker' = Between(s)
  /\ UNCHANGED <<policy, radio, files, mwan, lock, lease, tx, counts, ghost>>

KillOther(s) ==
  /\ kills < MaxKills /\ lock[s] \in {"ui", "dial"}
  /\ kills' = kills + 1 /\ UNCHANGED tests
  /\ Close(s) /\ Frees(s)
  /\ UNCHANGED <<policy, radio, files, mwan, lease, worker, ghost>>

Expire ==
  /\ lease = "stale" /\ lease' = "expired"
  /\ UNCHANGED <<policy, radio, files, mwan, lock, tx, worker, counts, ghost>>

OtherTakes ==
  /\ tests < MaxTests /\ tests' = tests + 1
  /\ lease \in {"free", "expired"} /\ lease' = "other"
  /\ UNCHANGED <<policy, radio, files, mwan, lock, tx, worker, kills, ghost>>

OtherEnds ==
  /\ lease = "other" /\ lease' \in {"free", "stale"}
  /\ UNCHANGED <<policy, radio, files, mwan, lock, tx, worker, counts, ghost>>

-----------------------------------------------------------------------------
Tx(s)      == TxRat(s) \/ TxUndoRat(s) \/ TxMode(s) \/ TxUndoMode(s)
Trial(s)   == Round(s) \/ Baseline(s) \/ Journal(s) \/ Maintain(s) \/ Down(s) \/ Candidate(s)
              \/ Applied(s) \/ Wait(s) \/ Sample(s) \/ Compare(s)
              \/ KeepMark(s) \/ KeepUp(s) \/ Verify(s) \/ Forget(s)
Recovery(s) == Restore(s) \/ Restored(s) \/ RestoreWait(s) \/ RestoreMark(s) \/ RestoreUp(s)
              \/ RestoreVerify(s) \/ GiveUp(s) \/ AskAuto(s) \/ AutoTried(s) \/ LastMark(s) \/ LastUp(s)
Run(s)     == TakeLease(s) \/ StampLease(s) \/ Trial(s) \/ Recovery(s) \/ Leave(s)
Ui(s)      == UiBegin(s) \/ UiSave(s) \/ UiForget(s)
Dial(s)    == DialBegin(s) \/ DialDone(s)
Outside(s) == EditPolicy(s) \/ UserRat(s) \/ RefreshReads(s) \/ RefreshUp(s) \/ Hotplug(s)

Next ==
  \/ \E s \in Slots : Begin(s) \/ Run(s) \/ Tx(s) \/ Ui(s) \/ Dial(s) \/ Outside(s)
                      \/ Kill(s) \/ Respawn(s) \/ KillOther(s)
  \/ Expire \/ OtherTakes \/ OtherEnds

Spec == Init /\ [][Next]_vars

\* Whoever holds radio.lock goes on (at most one of these is enabled), procd starts the
\* worker again without limit, and a speed test ends.  The AT port and mwan3 may fail any
\* number of times, but not for ever.
Holder(s) == Run(s) \/ Tx(s) \/ UiSave(s) \/ UiForget(s) \/ DialDone(s)

Fairness ==
  /\ \A s \in Slots :
       /\ WF_vars(Holder(s)) /\ SF_vars(Begin(s)) /\ WF_vars(Respawn(s))
       /\ SF_vars(Restore(s) /\ tx'[s].at = "rat")
       /\ SF_vars(TxRat(s) /\ tx'[s].at = "mode")
       /\ SF_vars(TxMode(s) /\ tx'[s].at = "ok")
       /\ SF_vars(LastUp(s) /\ ~paused'[s])
       /\ WF_vars(RefreshReads(s)) /\ SF_vars(RefreshUp(s) /\ ~paused'[s])
  /\ WF_vars(Expire \/ OtherEnds)

FairSpec == Spec /\ Fairness

-----------------------------------------------------------------------------
(* Properties                                                              *)

\* Every variable keeps its type.
TypeOK ==
  /\ policy \in [Slots -> Policies]
  /\ mode \in [Slots -> Deployments] /\ rat \in [Slots -> Rats]
  /\ verified \in [Slots -> Deployments \cup {"none"}]
  /\ rollback \in [Slots -> Deployments \cup {"none"}]
  /\ maint \in [Slots -> {"none", "live", "dead"}]
  /\ paused \in [Slots -> BOOLEAN] /\ refresh \in [Slots -> BOOLEAN]
  /\ lock \in [Slots -> {"free", "worker", "ui", "dial"}]
  /\ lease \in {"free", "bare", "worker", "other", "stale", "expired"}
  /\ tx \in [Slots -> TxType]
  /\ worker \in WorkerType
  /\ kills \in 0 .. MaxKills /\ tests \in 0 .. MaxTests
  /\ ghost \in [Slots -> GhostType]

\* "Journal BEFORE changing the modem. A crash cannot promote the candidate."
\* (5g-adaptive.sh:281): from the first write of an unverified candidate until another
\* selection is verified, whoever dies and whoever dials or edits in between, the
\* journal names a selection, and not the candidate.
JournalCovers ==
  \A s \in Slots : ghost[s].trial # "none" => rollback[s] \notin {"none", ghost[s].trial}

\* The marker that holds back the tracker's refresh is never left without a journal:
\* only a journal makes the worker come back for it (5g-adaptive.sh:314).
MaintCovered == \A s \in Slots : maint[s] # "none" => rollback[s] # "none"

ReachedRecorded ==
  \A s \in Slots : verified'[s] \notin {verified[s], "none"} =>
    verified'[s] = mode[s] /\ mode[s] = ghost[s].seen

\* What is recorded as verified is what the modem has stored, and the Internet was
\* reached under it after the last write of the selection (5g-adaptive.sh:227, 300).
VerifiedReached == [][ReachedRecorded]_vars

\* A modem taken out of client routing comes back, whether its trial ends, fails or
\* is killed at any step, or the UI removes its journal and marker meanwhile.
PauseEnds == \A s \in Slots : paused[s] ~> ~paused[s]

\* An unverified candidate does not stay: it is verified, or another one replaces it.
TrialEnds == \A s \in Slots : (ghost[s].trial # "none") ~> (ghost[s].trial = "none")

\* "A bounded lease also recovers a worker killed before its EXIT trap, without waiting
\* for reboot." (speed-lock.sh:2-3): the lock of a killed worker is free again some day.
LeaseRecovers == (lease = "bare") ~> (lease # "bare")

\* "Otherwise it restores and verifies the last working selection."
\* (adaptive-5g-and-failback.md:94-95): when the worker closes the journal without a
\* better candidate and nobody else touched the selection, the settings are those journaled.
RestoredSelection ==
  [][\A s \in Slots :
       /\ rollback[s] # "none" /\ rollback'[s] = "none" /\ ghost[s].before # NoSettings
       => Settings(s) = ghost[s].before]_vars

=============================================================================
