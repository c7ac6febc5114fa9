------------------------- MODULE Adaptive5G_proofs -------------------------
(***************************************************************************)
(* TypeOK, JournalCovers, MaintCovered and VerifiedReached for any set of   *)
(* modems, settings at boot, policies, kills and other speed tests.         *)
(*                                                                          *)
(* The argument: radio.lock is the worker's exactly while it is at work on  *)
(* the slot, and a transaction belongs to whoever holds it (Held); hence    *)
(* nobody else writes the selection between the worker's transaction and    *)
(* its verdict (Stored), and what a trial journaled is in place when its    *)
(* candidate is written and until it is replaced (Journaled).               *)
(***************************************************************************)
EXTENDS Adaptive5G, TLAPS

Idle      == {"between", "dead"}
Applying  == {"applying", "restoring", "autoing"}
Undecided == {"baseline", "journal", "maintain", "down", "candidate"}
Reaching  == {"sample", "compare", "keepMark", "keepUp", "verify"}
Resuming  == {"restoreMark", "restoreUp", "restored"}

\* Whose radio.lock it is, whose the transaction is.
Held(s) ==
  /\ lock[s] = "worker" <=> worker.slot = s /\ worker.at \notin Idle
  /\ lock[s] = "worker" => (tx[s].at # "none" <=> worker.at \in Applying)
  /\ lock[s] = "free" => tx[s].at = "none"
  /\ tx[s].at = "saved" => lock[s] = "ui"

\* What a transaction knows of the modem, and what its owner asked for.
Known(s) ==
  /\ tx[s].at \in {"rat", "mode"} => mode[s] = tx[s].mode
  /\ tx[s].at \in {"ok", "saved"} => mode[s] = tx[s].req
  /\ lock[s] = "worker" /\ worker.at \in {"applying", "restoring"} /\ tx[s].at # "fail"
       => tx[s].req = worker.want

\* The selection the worker is to record is stored, and the Internet was reached.
Stored(s) ==
  worker.slot = s =>
    /\ worker.at \in Reaching \cup Resuming \cup {"wait", "restoreWait"} => mode[s] = worker.want
    /\ worker.at \in Reaching \cup Resuming => ghost[s].seen = worker.want

\* The journal of a trial, while it is in work and when it is void.
Journaled(s) ==
  /\ ghost[s].trial # "auto"
  /\ ghost[s].trial # "none" => rollback[s] \notin {"none", ghost[s].trial}
  /\ maint[s] # "none" => rollback[s] # "none"
  /\ tx[s].at = "saved" => ghost[s].trial = "none"
  /\ worker.slot = s =>
       /\ worker.at \in {"round", "baseline", "journal"} => rollback[s] = "none"
       /\ worker.at \in Undecided => worker.want # "auto" /\ worker.want # worker.prev
       /\ worker.at \in {"maintain", "down", "candidate"} => rollback[s] = worker.prev
       /\ worker.at \in Resuming \cup {"restoreWait", "forget"} => ghost[s].trial = "none"

SlotInv(s) == Held(s) /\ Known(s) /\ Stored(s) /\ Journaled(s)

\* The inductive invariant.
IInv == TypeOK /\ \A s \in Slots : SlotInv(s)

-----------------------------------------------------------------------------
(* What a step does to the records                                          *)

\* The transaction of s is at step a of request r, which found the deployment m.
TxBecame(s, a, r, m) ==
  /\ tx' \in [Slots -> TxType]
  /\ \A x \in Slots \ {s} : tx'[x] = tx[x]
  /\ tx'[s].at = a /\ tx'[s].req = r /\ tx'[s].mode = m

GhostBecame(s, t, e) ==
  /\ ghost' \in [Slots -> GhostType]
  /\ \A x \in Slots \ {s} : ghost'[x] = ghost[x]
  /\ ghost'[s].trial = t /\ ghost'[s].seen = e

WorkerBecame(a, w, p) ==
  /\ worker' \in WorkerType
  /\ worker'.slot = worker.slot /\ worker'.at = a /\ worker'.want = w /\ worker'.prev = p

\* Of the other slots nothing changes, but that a live marker may become a dead one.
Elsewhere(s) ==
  \A x \in Slots \ {s} :
    /\ lock'[x] = lock[x] /\ tx'[x] = tx[x] /\ mode'[x] = mode[x]
    /\ ghost'[x] = ghost[x] /\ rollback'[x] = rollback[x]
    /\ maint'[x] # "none" => maint[x] # "none"

\* The worker stays with its slot, or comes to s from no slot's work.
Handed(s) ==
  \/ worker' = worker
  \/ worker'.slot = s /\ (worker.slot = s \/ worker.at \in Idle)

LEMMA Local ==
  ASSUME IInv, NEW s \in Slots, TypeOK', Elsewhere(s), Handed(s), SlotInv(s)'
  PROVE  IInv'
<1>1. SUFFICES ASSUME NEW x \in Slots \ {s} PROVE SlotInv(x)'
  BY DEF IInv
<1>2. SlotInv(x)
  BY DEF IInv
<1>3. /\ lock'[x] = lock[x] /\ tx'[x] = tx[x] /\ mode'[x] = mode[x]
      /\ ghost'[x] = ghost[x] /\ rollback'[x] = rollback[x]
      /\ maint'[x] # "none" => maint[x] # "none"
  BY DEF Elsewhere
<1>4. CASE worker' = worker
  BY <1>2, <1>3, <1>4 DEF SlotInv, Held, Known, Stored, Journaled
<1>5. CASE worker'.slot = s /\ (worker.slot = s \/ worker.at \in Idle)
  <2>1. lock[x] # "worker" /\ worker'.slot # x
    BY <1>2, <1>5 DEF SlotInv, Held
  <2>. QED BY <1>2, <1>3, <2>1 DEF SlotInv, Held, Known, Stored, Journaled
<1>. QED BY <1>4, <1>5 DEF Handed

LEMMA ToEffect ==
  ASSUME TypeOK, NEW s \in Slots, NEW step \in TxSteps, To(s, step)
  PROVE  TxBecame(s, step, tx[s].req, tx[s].mode)
<1>1. tx \in [Slots -> TxType] /\ tx[s] \in TxType
  BY DEF TypeOK
<1>2. tx' = [tx EXCEPT ![s] = [tx[s] EXCEPT !.at = step]]
  BY <1>1 DEF To
<1>3. [tx[s] EXCEPT !.at = step] \in TxType
  BY <1>1 DEF TxType
<1>4. tx'[s] = [tx[s] EXCEPT !.at = step]
  BY <1>1, <1>2
<1>5. tx'[s].at = step /\ tx'[s].req = tx[s].req /\ tx'[s].mode = tx[s].mode
  BY <1>1, <1>4 DEF TxType
<1>. QED BY <1>1, <1>2, <1>3, <1>5 DEF TxBecame

LEMMA NoTxType == NoTx \in TxType /\ [NoTx EXCEPT !.at = "fail"] \in TxType
BY DEF NoTx, TxType, TxSteps, Deployments, Policies, Rats

LEMMA CloseEffect ==
  ASSUME TypeOK, NEW s \in Slots, Close(s)
  PROVE  TxBecame(s, "none", "auto", "auto")
<1>1. tx \in [Slots -> TxType]
  BY DEF TypeOK
<1>2. tx'[s] = NoTx
  BY <1>1 DEF Close
<1>. QED BY <1>1, <1>2, NoTxType DEF TxBecame, Close, NoTx

LEMMA OpenEffect ==
  ASSUME TypeOK, NEW s \in Slots, NEW req \in Deployments, NEW save \in Policies, Open(s, req, save)
  PROVE  TxBecame(s, "rat", req, mode[s]) \/ TxBecame(s, "fail", "auto", "auto")
<1>. DEFINE new == [at |-> "rat", req |-> req, save |-> save, mode |-> mode[s], rat |-> rat[s]]
<1>1. tx \in [Slots -> TxType] /\ mode[s] \in Deployments /\ rat[s] \in Rats
  BY DEF TypeOK
<1>2. new \in TxType
  BY <1>1 DEF TxType, TxSteps
<1>3. CASE tx' = [tx EXCEPT ![s] = new]
  <2>1. tx'[s] = new /\ tx' \in [Slots -> TxType]
    BY <1>1, <1>2, <1>3
  <2>. QED BY <1>1, <1>3, <2>1 DEF TxBecame
<1>4. CASE tx' = [tx EXCEPT ![s] = [NoTx EXCEPT !.at = "fail"]]
  <2>1. tx'[s] = [NoTx EXCEPT !.at = "fail"] /\ tx' \in [Slots -> TxType]
    BY <1>1, <1>4, NoTxType
  <2>. QED BY <1>1, <1>4, <2>1 DEF TxBecame, NoTx
<1>. QED BY <1>3, <1>4 DEF Open

\* One field of the ghost of s is set; e and t are what the others' facts are about.
LEMMA TrialEffect ==
  ASSUME TypeOK, NEW s \in Slots, NEW t \in Deployments \cup {"none"},
         ghost' = [ghost EXCEPT ![s].trial = t]
  PROVE  GhostBecame(s, t, ghost[s].seen)
<1>1. ghost \in [Slots -> GhostType] /\ ghost[s] \in GhostType
  BY DEF TypeOK
<1>2. ghost' = [ghost EXCEPT ![s] = [ghost[s] EXCEPT !.trial = t]]
  BY <1>1
<1>3. [ghost[s] EXCEPT !.trial = t] \in GhostType
  BY <1>1 DEF GhostType
<1>4. ghost'[s] = [ghost[s] EXCEPT !.trial = t]
  BY <1>1, <1>2
<1>5. ghost'[s].trial = t /\ ghost'[s].seen = ghost[s].seen
  BY <1>1, <1>4 DEF GhostType
<1>. QED BY <1>1, <1>2, <1>3, <1>5 DEF GhostBecame

LEMMA SeenEffect ==
  ASSUME TypeOK, NEW s \in Slots, NEW e \in Deployments \cup {"none"},
         ghost' = [ghost EXCEPT ![s].seen = e]
  PROVE  GhostBecame(s, ghost[s].trial, e)
<1>1. ghost \in [Slots -> GhostType] /\ ghost[s] \in GhostType
  BY DEF TypeOK
<1>2. ghost' = [ghost EXCEPT ![s] = [ghost[s] EXCEPT !.seen = e]]
  BY <1>1
<1>3. [ghost[s] EXCEPT !.seen = e] \in GhostType
  BY <1>1 DEF GhostType
<1>4. ghost'[s] = [ghost[s] EXCEPT !.seen = e]
  BY <1>1, <1>2
<1>5. ghost'[s].trial = ghost[s].trial /\ ghost'[s].seen = e
  BY <1>1, <1>4 DEF GhostType
<1>. QED BY <1>1, <1>2, <1>3, <1>5 DEF GhostBecame

LEMMA BeforeEffect ==
  ASSUME TypeOK, NEW s \in Slots,
         NEW b \in [mode : Deployments, rat : Rats] \cup {NoSettings},
         ghost' = [ghost EXCEPT ![s].before = b]
  PROVE  GhostBecame(s, ghost[s].trial, ghost[s].seen)
<1>1. ghost \in [Slots -> GhostType] /\ ghost[s] \in GhostType
  BY DEF TypeOK
<1>2. ghost' = [ghost EXCEPT ![s] = [ghost[s] EXCEPT !.before = b]]
  BY <1>1
<1>3. [ghost[s] EXCEPT !.before = b] \in GhostType
  BY <1>1 DEF GhostType
<1>4. ghost'[s] = [ghost[s] EXCEPT !.before = b]
  BY <1>1, <1>2
<1>5. ghost'[s].trial = ghost[s].trial /\ ghost'[s].seen = ghost[s].seen
  BY <1>1, <1>4 DEF GhostType
<1>. QED BY <1>1, <1>2, <1>3, <1>5 DEF GhostBecame

LEMMA ReplacedEffect ==
  ASSUME TypeOK, NEW s \in Slots, Replaced(s)
  PROVE  GhostBecame(s, "none", ghost[s].seen)
<1>. DEFINE new == [ghost[s] EXCEPT !.trial = "none", !.before = NoSettings]
<1>1. ghost \in [Slots -> GhostType] /\ ghost[s] \in GhostType
  BY DEF TypeOK
<1>2. ghost' = [ghost EXCEPT ![s] = new]
  BY <1>1 DEF Replaced
<1>3. new \in GhostType
  BY <1>1 DEF GhostType
<1>4. ghost'[s] = new
  BY <1>1, <1>2
<1>5. ghost'[s].trial = "none" /\ ghost'[s].seen = ghost[s].seen
  BY <1>1, <1>4 DEF GhostType
<1>. QED BY <1>1, <1>2, <1>3, <1>5 DEF GhostBecame

\* An unchanged ghost is one of the cases of the steps above.
LEMMA SameGhost ==
  ASSUME TypeOK, NEW s \in Slots, ghost' = ghost
  PROVE  GhostBecame(s, ghost[s].trial, ghost[s].seen)
BY DEF TypeOK, GhostBecame

LEMMA SettledEffect ==
  ASSUME TypeOK, NEW s \in Slots, Settled(s)
  PROVE  \/ GhostBecame(s, "none", ghost[s].seen)
         \/ tx[s].at # "ok" /\ GhostBecame(s, ghost[s].trial, ghost[s].seen)
BY ReplacedEffect, SameGhost DEF Settled

LEMMA GotoEffect ==
  ASSUME TypeOK, NEW step \in Steps, Goto(step)
  PROVE  WorkerBecame(step, worker.want, worker.prev)
BY DEF TypeOK, Goto, WorkerBecame, WorkerType

LEMMA FlagKept ==
  ASSUME NEW f \in [Slots -> BOOLEAN], NEW s \in Slots, NEW b \in {f[s], TRUE, FALSE}
  PROVE  [f EXCEPT ![s] = b] \in [Slots -> BOOLEAN]
OBVIOUS

-----------------------------------------------------------------------------
(* The radio transaction                                                    *)

\* A step of the transaction writes one setting and forgets who reached the Internet.
TxMoved(s, a) ==
  /\ TxBecame(s, a, tx[s].req, tx[s].mode)
  /\ \E e \in {ghost[s].seen, "none"} : GhostBecame(s, ghost[s].trial, e)
  /\ mode' \in [Slots -> Deployments] /\ \A x \in Slots \ {s} : mode'[x] = mode[x]
  /\ rat' \in [Slots -> Rats]
  /\ UNCHANGED <<policy, files, mwan, lock, lease, worker, counts>>

LEMMA TxMovedKeeps ==
  ASSUME IInv, NEW s \in Slots, NEW a \in {"mode", "undoRat", "undoMode", "ok", "fail"},
         TxMoved(s, a), tx[s].at \in {"rat", "undoRat", "mode", "undoMode"},
         a = "mode" => mode'[s] = tx[s].mode,
         a = "ok" => mode'[s] = tx[s].req
  PROVE  IInv'
<1>1. TypeOK /\ SlotInv(s)
  BY DEF IInv
<1>2. TypeOK'
  BY <1>1 DEF TypeOK, TxMoved, TxBecame, GhostBecame, files, mwan, counts
<1>3. Elsewhere(s) /\ Handed(s)
  BY DEF Elsewhere, Handed, TxMoved, TxBecame, GhostBecame, files
<1>4. SlotInv(s)'
  BY <1>1 DEF SlotInv, Held, Known, Stored, Journaled, Idle, Applying, Undecided, Reaching,
     Resuming, TxMoved, TxBecame, GhostBecame, files
<1>. QED BY <1>2, <1>3, <1>4, Local

LEMMA TargetType == ASSUME TypeOK, NEW s \in Slots PROVE Target(s) \in Rats /\ tx[s] \in TxType
<1>1. tx[s] \in TxType
  BY DEF TypeOK
<1>2. tx[s].req \in Deployments /\ tx[s].rat \in Rats
  BY <1>1 DEF TxType
<1>3. RatTarget(tx[s].req, tx[s]) \in Rats
  BY <1>2 DEF RatTarget, Rats, Deployments
<1>. QED BY <1>1, <1>3 DEF Target

LEMMA WriteRatEffect ==
  ASSUME TypeOK, NEW s \in Slots, NEW v \in Rats, NEW good \in TxSteps, NEW bad \in TxSteps,
         WriteRat(s, v, good, bad), UNCHANGED <<policy, files, mwan, lock, lease, worker, counts>>
  PROVE  (TxMoved(s, good) \/ TxMoved(s, bad)) /\ mode' = mode
<1>1. GhostBecame(s, ghost[s].trial, "none")
  BY SeenEffect DEF WriteRat, Unseen
<1>2. TxBecame(s, good, tx[s].req, tx[s].mode) \/ TxBecame(s, bad, tx[s].req, tx[s].mode)
  BY ToEffect DEF WriteRat
<1>3. rat' \in [Slots -> Rats] /\ mode' = mode /\ mode \in [Slots -> Deployments]
  BY DEF WriteRat, TypeOK
<1>. QED BY <1>1, <1>2, <1>3 DEF TxMoved

LEMMA WriteModeEffect ==
  ASSUME TypeOK, NEW s \in Slots, NEW v \in Deployments, NEW good \in TxSteps, NEW bad \in TxSteps,
         WriteMode(s, v, good, bad), UNCHANGED <<policy, files, mwan, lock, lease, worker, counts>>
  PROVE  \/ TxMoved(s, good) /\ mode'[s] = v
         \/ TxMoved(s, bad)
<1>1. GhostBecame(s, ghost[s].trial, "none")
  BY SeenEffect DEF WriteMode, Unseen
<1>2. /\ mode' \in [Slots -> Deployments] /\ \A x \in Slots \ {s} : mode'[x] = mode[x]
      /\ rat' \in [Slots -> Rats]
  BY DEF WriteMode, TypeOK
<1>3. \/ TxBecame(s, good, tx[s].req, tx[s].mode) /\ mode'[s] = v
      \/ TxBecame(s, bad, tx[s].req, tx[s].mode)
  BY ToEffect DEF WriteMode, TypeOK
<1>. QED BY <1>1, <1>2, <1>3 DEF TxMoved

LEMMA TxSkipEffect ==
  ASSUME TypeOK, NEW s \in Slots, NEW a \in TxSteps, To(s, a), UNCHANGED <<radio, ghost>>,
         UNCHANGED <<policy, files, mwan, lock, lease, worker, counts>>
  PROVE  TxMoved(s, a) /\ mode' = mode
<1>1. TxBecame(s, a, tx[s].req, tx[s].mode) /\ GhostBecame(s, ghost[s].trial, ghost[s].seen)
  BY ToEffect, SameGhost
<1>. QED BY <1>1 DEF TxMoved, TypeOK, radio

LEMMA TxRatKeeps == ASSUME IInv, NEW s \in Slots, TxRat(s) PROVE IInv'
<1>1. TypeOK /\ SlotInv(s)
  BY DEF IInv
<1>2. (TxMoved(s, "mode") \/ TxMoved(s, "undoRat")) /\ mode' = mode
  BY <1>1, TargetType, WriteRatEffect, TxSkipEffect DEF TxRat, TxSteps
<1>3. tx[s].at = "rat" /\ mode[s] = tx[s].mode
  BY <1>1 DEF TxRat, SlotInv, Known
<1>. QED BY <1>2, <1>3, TxMovedKeeps

LEMMA TxUndoRatKeeps == ASSUME IInv, NEW s \in Slots, TxUndoRat(s) PROVE IInv'
<1>1. TypeOK /\ tx[s].rat \in Rats
  BY TargetType DEF IInv, TxType
<1>2. TxMoved(s, "fail")
  BY <1>1, WriteRatEffect DEF TxUndoRat, TxSteps
<1>. QED BY <1>2, TxMovedKeeps DEF TxUndoRat

LEMMA TxModeKeeps == ASSUME IInv, NEW s \in Slots, TxMode(s) PROVE IInv'
<1>1. TypeOK /\ SlotInv(s) /\ tx[s].req \in Deployments
  BY TargetType DEF IInv, TxType
<1>2. \/ TxMoved(s, "ok") /\ mode' = mode /\ tx[s].mode = tx[s].req
      \/ TxMoved(s, "ok") /\ mode'[s] = tx[s].req
      \/ TxMoved(s, "undoMode")
  BY <1>1, WriteModeEffect, TxSkipEffect DEF TxMode, TxSteps
<1>3. tx[s].at = "mode" /\ mode[s] = tx[s].mode
  BY <1>1 DEF TxMode, SlotInv, Known
<1>. QED BY <1>2, <1>3, TxMovedKeeps

LEMMA TxUndoModeKeeps == ASSUME IInv, NEW s \in Slots, TxUndoMode(s) PROVE IInv'
<1>1. TypeOK /\ tx[s].mode \in Deployments
  BY TargetType DEF IInv, TxType
<1>2. TxMoved(s, "undoRat") \/ TxMoved(s, "fail")
  BY <1>1, WriteModeEffect DEF TxUndoMode, TxSteps
<1>. QED BY <1>2, TxMovedKeeps DEF TxUndoMode

-----------------------------------------------------------------------------
(* What is asked of the modem                                               *)

\* The other deployment of the two is compared with the one that serves.
LEMMA RoundEffect ==
  ASSUME TypeOK, NEW s \in Slots, Hint(s) \in Deployments, Round(s)
  PROVE  \/ WorkerBecame("leave", worker.want, worker.prev)
         \/ \E w \in {"nsa", "sa"} : w # Hint(s) /\ WorkerBecame("baseline", w, Hint(s))
<1>1. CASE Goto("leave")
  BY <1>1, GotoEffect DEF Steps
<1>2. CASE /\ AsHinted(s)
           /\ \E base \in Served(s) :
                worker' = [worker EXCEPT !.at = "baseline", !.prev = Hint(s),
                                         !.want = IF base = "nsa" THEN "sa" ELSE "nsa"]
  <2>1. PICK base \in Served(s) :
          worker' = [worker EXCEPT !.at = "baseline", !.prev = Hint(s),
                                   !.want = IF base = "nsa" THEN "sa" ELSE "nsa"]
    BY <1>2
  <2>2. base = Hint(s) \/ Hint(s) = "auto"
    BY <1>2 DEF AsHinted, Served
  <2>3. PICK w \in {"nsa", "sa"} : w = (IF base = "nsa" THEN "sa" ELSE "nsa")
    OBVIOUS
  <2>4. w # Hint(s) /\ base \in Deployments
    BY <2>1, <2>2, <2>3, <1>2 DEF Served, AsHinted, Deployments, TypeOK
  <2>5. WorkerBecame("baseline", w, Hint(s))
    BY <2>1, <2>3 DEF TypeOK, WorkerBecame, WorkerType, Steps, Deployments
  <2>. QED BY <2>4, <2>5
<1>. QED BY <1>1, <1>2 DEF Round

LEMMA UiOpens ==
  ASSUME TypeOK, NEW s \in Slots, UiBegin(s)
  PROVE  \/ \E r \in Deployments : TxBecame(s, "rat", r, mode[s])
         \/ TxBecame(s, "fail", "auto", "auto")
<1>1. PICK p \in Choices : Open(s, Deployment(p), p)
  BY DEF UiBegin
<1>2. p \in Policies /\ Deployment(p) \in Deployments
  BY AdaptiveAssumption DEF Policies, Deployments, Deployment
<1>. QED BY <1>1, <1>2, OpenEffect

LEMMA DialOpens ==
  ASSUME TypeOK, NEW s \in Slots, DialBegin(s)
  PROVE  \/ \E r \in Deployments : TxBecame(s, "rat", r, mode[s])
         \/ TxBecame(s, "fail", "auto", "auto")
<1>1. Hint(s) \in Deployments /\ "auto" \in Deployments /\ "auto" \in Policies
  BY DEF TypeOK, Hint, Deployments, Policies
<1>2. \E r \in Deployments : Open(s, r, "auto")
  BY <1>1 DEF DialBegin
<1>. QED BY <1>1, <1>2, OpenEffect


-----------------------------------------------------------------------------
(* The worker of 5g-adaptive.sh                                             *)

LEMMA BeginKeeps == ASSUME IInv, NEW s \in Slots, Begin(s) PROVE IInv'
<1>1. TypeOK /\ SlotInv(s)
  BY DEF IInv
<1>2. worker' \in WorkerType /\ worker'.slot = s /\ worker'.at = "lease"
  BY <1>1 DEF Begin, Between, WorkerType, Steps, Deployments, Policies
<1>3. TypeOK'
  BY <1>1, <1>2 DEF Begin, Between, TypeOK, files, mwan, radio, counts
<1>4. Elsewhere(s) /\ Handed(s)
  BY <1>1, <1>2 DEF Begin, TypeOK, Elsewhere, Handed, TxBecame, GhostBecame, WorkerBecame, At,
     Idle, files, mwan, radio, counts
<1>5. SlotInv(s)'
  BY <1>1, <1>2, <1>3 DEF Begin, LockFree, TypeOK,
     SlotInv, Held, Known, Stored, Journaled, Idle, Applying, Undecided, Reaching, Resuming,
     TxBecame, GhostBecame, WorkerBecame, At, files, mwan, radio, counts
<1>. QED BY <1>3, <1>4, <1>5, Local

LEMMA TakeLeaseKeeps == ASSUME IInv, NEW s \in Slots, TakeLease(s) PROVE IInv'
<1>1. TypeOK /\ SlotInv(s)
  BY DEF IInv
<1>2. Between(s) \in WorkerType /\ Between(s).slot = s /\ Between(s).at = "between"
  BY DEF Between, WorkerType, Steps, Deployments, Policies
<1>3. \/ WorkerBecame("stamp", worker.want, worker.prev) /\ lock' = lock
      \/ worker' = Between(s) /\ lock' = [lock EXCEPT ![s] = "free"]
  BY <1>1, GotoEffect DEF TakeLease, Steps
<1>4. worker.slot = s
  BY DEF TakeLease, At
<1>5. worker' \in WorkerType /\ worker'.slot = s
  BY <1>1, <1>2, <1>3, <1>4 DEF WorkerBecame
<1>6. \/ worker'.at = "stamp" /\ lock' = lock
      \/ worker'.at = "between" /\ lock' = [lock EXCEPT ![s] = "free"]
  BY <1>2, <1>3 DEF WorkerBecame
<1>7. TypeOK'
  BY <1>1, <1>2, <1>3, <1>4, <1>5, <1>6 DEF TakeLease, TypeOK, files, mwan, radio, counts
<1>8. Elsewhere(s) /\ Handed(s)
  BY <1>1, <1>2, <1>3, <1>4, <1>5, <1>6 DEF TakeLease, TypeOK, Elsewhere, Handed, TxBecame,
     GhostBecame, WorkerBecame, At, Idle, files, mwan, radio, counts
<1>9. SlotInv(s)'
  BY <1>1, <1>2, <1>3, <1>4, <1>5, <1>6, <1>7 DEF TakeLease, TypeOK,
     SlotInv, Held, Known, Stored, Journaled, Idle, Applying, Undecided, Reaching, Resuming,
     TxBecame, GhostBecame, WorkerBecame, At, files, mwan, radio, counts
<1>. QED BY <1>7, <1>8, <1>9, Local

LEMMA StampLeaseKeeps == ASSUME IInv, NEW s \in Slots, StampLease(s) PROVE IInv'
<1>1. TypeOK /\ SlotInv(s)
  BY DEF IInv
<1>2. \/ WorkerBecame("restore", worker.want, worker.prev)
      \/ rollback[s] = "none" /\ WorkerBecame("round", worker.want, worker.prev)
  BY <1>1, GotoEffect DEF StampLease, Unfinished, Steps, Restoring
<1>3. TypeOK'
  BY <1>1, <1>2 DEF StampLease, WorkerBecame, TypeOK, files, mwan, radio, counts
<1>4. Elsewhere(s) /\ Handed(s)
  BY <1>1, <1>2 DEF StampLease, TypeOK, Elsewhere, Handed, TxBecame, GhostBecame, WorkerBecame,
     At, Idle, files, mwan, radio, counts
<1>5. SlotInv(s)'
  BY <1>1, <1>2, <1>3 DEF StampLease, TypeOK,
     SlotInv, Held, Known, Stored, Journaled, Idle, Applying, Undecided, Reaching, Resuming,
     TxBecame, GhostBecame, WorkerBecame, At, files, mwan, radio, counts
<1>. QED BY <1>3, <1>4, <1>5, Local

LEMMA LeaveKeeps == ASSUME IInv, NEW s \in Slots, Leave(s) PROVE IInv'
<1>1. TypeOK /\ SlotInv(s)
  BY DEF IInv
<1>2. worker' \in WorkerType /\ worker'.slot = s /\ worker'.at = "between"
  BY <1>1 DEF Leave, Between, WorkerType, Steps, Deployments, Policies
<1>3. TypeOK'
  BY <1>1, <1>2 DEF Leave, TypeOK, files, mwan, radio, counts
<1>4. Elsewhere(s) /\ Handed(s)
  BY <1>1, <1>2 DEF Leave, TypeOK, Elsewhere, Handed, TxBecame, GhostBecame, WorkerBecame, At,
     Idle, files, mwan, radio, counts
<1>5. SlotInv(s)'
  BY <1>1, <1>2, <1>3 DEF Leave, TypeOK,
     SlotInv, Held, Known, Stored, Journaled, Idle, Applying, Undecided, Reaching, Resuming,
     TxBecame, GhostBecame, WorkerBecame, At, files, mwan, radio, counts
<1>. QED BY <1>3, <1>4, <1>5, Local

LEMMA RoundKeeps == ASSUME IInv, NEW s \in Slots, Round(s) PROVE IInv'
<1>1. TypeOK /\ SlotInv(s)
  BY DEF IInv
<1>2. Hint(s) \in Deployments
  BY <1>1 DEF TypeOK, Hint, Deployments
<1>3. \/ WorkerBecame("leave", worker.want, worker.prev)
      \/ \E w \in {"nsa", "sa"} : w # Hint(s) /\ WorkerBecame("baseline", w, Hint(s))
  BY <1>1, <1>2, RoundEffect DEF Round
<1>4. At(s, "round") /\ UNCHANGED <<policy, radio, files, mwan, lock, lease, tx, counts, ghost>>
  BY DEF Round
<1>5. TypeOK'
  BY <1>1, <1>2, <1>3, <1>4 DEF Round, WorkerBecame, TypeOK, files, mwan, radio, counts
<1>6. Elsewhere(s) /\ Handed(s)
  BY <1>1, <1>2, <1>3, <1>4 DEF Round, TypeOK, Elsewhere, Handed, TxBecame, GhostBecame,
     WorkerBecame, At, Idle, files, mwan, radio, counts
<1>7. SlotInv(s)'
  BY <1>1, <1>3, <1>4 DEF TypeOK,
     SlotInv, Held, Known, Stored, Journaled, Idle, Applying, Undecided, Reaching, Resuming,
     TxBecame, GhostBecame, WorkerBecame, At, files, mwan, radio, counts
<1>. QED BY <1>5, <1>6, <1>7, Local

LEMMA BaselineKeeps == ASSUME IInv, NEW s \in Slots, Baseline(s) PROVE IInv'
<1>1. TypeOK /\ SlotInv(s)
  BY DEF IInv
<1>2. \/ WorkerBecame("journal", worker.want, worker.prev)
      \/ WorkerBecame("leave", worker.want, worker.prev)
  BY <1>1, GotoEffect DEF Steps, Trying, Restoring, Giving, Baseline
<1>3. TypeOK'
  BY <1>1, <1>2 DEF Baseline, WorkerBecame, TypeOK, files, mwan, radio, counts
<1>4. Elsewhere(s) /\ Handed(s)
  BY <1>1, <1>2 DEF Baseline, TypeOK, Elsewhere, Handed, TxBecame, GhostBecame, WorkerBecame, At,
     Idle, files, mwan, radio, counts
<1>5. SlotInv(s)'
  BY <1>1, <1>2, <1>3 DEF Baseline, TypeOK,
     SlotInv, Held, Known, Stored, Journaled, Idle, Applying, Undecided, Reaching, Resuming,
     TxBecame, GhostBecame, WorkerBecame, At, files, mwan, radio, counts
<1>. QED BY <1>3, <1>4, <1>5, Local

LEMMA JournalKeeps == ASSUME IInv, NEW s \in Slots, Journal(s) PROVE IInv'
<1>1. TypeOK /\ SlotInv(s)
  BY DEF IInv
<1>2. WorkerBecame("maintain", worker.want, worker.prev)
  BY <1>1, GotoEffect DEF Steps, Trying, Restoring, Giving, Journal
<1>3. GhostBecame(s, ghost[s].trial, ghost[s].seen)
  BY <1>1, BeforeEffect DEF Journal, Settings, TypeOK
<1>4. worker.prev \in Deployments /\ "none" \notin Deployments
  BY <1>1 DEF TypeOK, WorkerType, Deployments
<1>5. TypeOK'
  BY <1>1, <1>2, <1>3, <1>4 DEF Journal, WorkerBecame, GhostBecame, At, TypeOK, files, mwan,
     radio, counts
<1>6. Elsewhere(s) /\ Handed(s)
  BY <1>1, <1>2, <1>3, <1>4 DEF Journal, TypeOK, Elsewhere, Handed, TxBecame, GhostBecame,
     WorkerBecame, At, Idle, files, mwan, radio, counts
<1>7. SlotInv(s)'
  BY <1>1, <1>2, <1>3, <1>4, <1>5 DEF Journal, TypeOK,
     SlotInv, Held, Known, Stored, Journaled, Idle, Applying, Undecided, Reaching, Resuming,
     TxBecame, GhostBecame, WorkerBecame, At, files, mwan, radio, counts
<1>. QED BY <1>5, <1>6, <1>7, Local

LEMMA MaintainKeeps == ASSUME IInv, NEW s \in Slots, Maintain(s) PROVE IInv'
<1>1. TypeOK /\ SlotInv(s)
  BY DEF IInv
<1>2. WorkerBecame("down", worker.want, worker.prev)
  BY <1>1, GotoEffect DEF Steps, Trying, Restoring, Giving, Maintain
<1>3. worker.prev \in Deployments /\ "none" \notin Deployments
  BY <1>1 DEF TypeOK, WorkerType, Deployments
<1>4. TypeOK'
  BY <1>1, <1>2, <1>3 DEF Maintain, WorkerBecame, TypeOK, files, mwan, radio, counts
<1>5. Elsewhere(s) /\ Handed(s)
  BY <1>1, <1>2, <1>3 DEF Maintain, TypeOK, Elsewhere, Handed, TxBecame, GhostBecame,
     WorkerBecame, At, Idle, files, mwan, radio, counts
<1>6. SlotInv(s)'
  BY <1>1, <1>2, <1>3, <1>4 DEF Maintain, TypeOK,
     SlotInv, Held, Known, Stored, Journaled, Idle, Applying, Undecided, Reaching, Resuming,
     TxBecame, GhostBecame, WorkerBecame, At, files, mwan, radio, counts
<1>. QED BY <1>4, <1>5, <1>6, Local

LEMMA DownKeeps == ASSUME IInv, NEW s \in Slots, Down(s) PROVE IInv'
<1>1. TypeOK /\ SlotInv(s)
  BY DEF IInv
<1>2. \/ WorkerBecame("candidate", worker.want, worker.prev)
      \/ WorkerBecame("restore", worker.want, worker.prev)
  BY <1>1, GotoEffect DEF Steps, Trying, Restoring, Giving, Down
<1>3. paused' \in [Slots -> BOOLEAN]
  BY <1>1, FlagKept DEF Down, TypeOK
<1>4. TypeOK'
  BY <1>1, <1>2, <1>3 DEF Down, WorkerBecame, TypeOK, files, mwan, radio, counts
<1>5. Elsewhere(s) /\ Handed(s)
  BY <1>1, <1>2, <1>3 DEF Down, TypeOK, Elsewhere, Handed, TxBecame, GhostBecame, WorkerBecame,
     At, Idle, files, mwan, radio, counts
<1>6. SlotInv(s)'
  BY <1>1, <1>2, <1>3, <1>4 DEF Down, TypeOK,
     SlotInv, Held, Known, Stored, Journaled, Idle, Applying, Undecided, Reaching, Resuming,
     TxBecame, GhostBecame, WorkerBecame, At, files, mwan, radio, counts
<1>. QED BY <1>4, <1>5, <1>6, Local

LEMMA CandidateKeeps == ASSUME IInv, NEW s \in Slots, Candidate(s) PROVE IInv'
<1>1. TypeOK /\ SlotInv(s)
  BY DEF IInv
<1>2. worker.want \in Deployments /\ worker.prev \in Deployments /\ "none" \notin Deployments
  BY <1>1 DEF TypeOK, WorkerType, Deployments
<1>3. \/ /\ WorkerBecame("applying", worker.want, worker.prev)
         /\ GhostBecame(s, worker.want, ghost[s].seen)
         /\ TxBecame(s, "rat", worker.want, mode[s]) \/ TxBecame(s, "fail", "auto", "auto")
      \/ WorkerBecame("restore", worker.want, worker.prev) /\ tx' = tx /\ ghost' = ghost
  BY <1>1, <1>2, GotoEffect, OpenEffect, TrialEffect DEF Candidate, Steps, Trying, Restoring,
     Policies, Deployments
<1>4. TypeOK'
  BY <1>1, <1>2, <1>3 DEF Candidate, WorkerBecame, GhostBecame, TxBecame, TypeOK, files, mwan,
     radio, counts
<1>5. Elsewhere(s) /\ Handed(s)
  BY <1>1, <1>2, <1>3 DEF Candidate, TypeOK, Elsewhere, Handed, TxBecame, GhostBecame,
     WorkerBecame, At, Idle, files, mwan, radio, counts
<1>6. SlotInv(s)'
  BY <1>1, <1>2, <1>3, <1>4 DEF Candidate, TypeOK,
     SlotInv, Held, Known, Stored, Journaled, Idle, Applying, Undecided, Reaching, Resuming,
     TxBecame, GhostBecame, WorkerBecame, At, files, mwan, radio, counts
<1>. QED BY <1>4, <1>5, <1>6, Local

LEMMA AppliedKeeps == ASSUME IInv, NEW s \in Slots, Applied(s) PROVE IInv'
<1>1. TypeOK /\ SlotInv(s)
  BY DEF IInv
<1>2. TxBecame(s, "none", "auto", "auto")
  BY <1>1, CloseEffect DEF Applied
<1>3. \/ tx[s].at = "ok" /\ WorkerBecame("wait", worker.want, worker.prev)
      \/ WorkerBecame("restore", worker.want, worker.prev)
  BY <1>1, GotoEffect DEF Applied, Steps, Trying, Restoring
<1>4. TypeOK'
  BY <1>1, <1>2, <1>3 DEF Applied, WorkerBecame, TxBecame, TypeOK, files, mwan, radio, counts
<1>5. Elsewhere(s) /\ Handed(s)
  BY <1>1, <1>2, <1>3 DEF Applied, TypeOK, Elsewhere, Handed, TxBecame, GhostBecame, WorkerBecame,
     At, Idle, files, mwan, radio, counts
<1>6. SlotInv(s)'
  BY <1>1, <1>2, <1>3, <1>4 DEF Applied, TypeOK,
     SlotInv, Held, Known, Stored, Journaled, Idle, Applying, Undecided, Reaching, Resuming,
     TxBecame, GhostBecame, WorkerBecame, At, files, mwan, radio, counts
<1>. QED BY <1>4, <1>5, <1>6, Local

LEMMA WaitKeeps == ASSUME IInv, NEW s \in Slots, Wait(s) PROVE IInv'
<1>1. TypeOK /\ SlotInv(s)
  BY DEF IInv
<1>2. \/ WorkerBecame("sample", worker.want, worker.prev) /\ GhostBecame(s, ghost[s].trial, mode[s])
      \/ WorkerBecame("restore", worker.want, worker.prev) /\ ghost' = ghost
  BY <1>1, GotoEffect, SeenEffect DEF Wait, Reached, Steps, Trying, Restoring, TypeOK
<1>3. TypeOK'
  BY <1>1, <1>2 DEF Wait, WorkerBecame, GhostBecame, TypeOK, files, mwan, radio, counts
<1>4. Elsewhere(s) /\ Handed(s)
  BY <1>1, <1>2 DEF Wait, TypeOK, Elsewhere, Handed, TxBecame, GhostBecame, WorkerBecame, At,
     Idle, files, mwan, radio, counts
<1>5. SlotInv(s)'
  BY <1>1, <1>2, <1>3 DEF Wait, TypeOK,
     SlotInv, Held, Known, Stored, Journaled, Idle, Applying, Undecided, Reaching, Resuming,
     TxBecame, GhostBecame, WorkerBecame, At, files, mwan, radio, counts
<1>. QED BY <1>3, <1>4, <1>5, Local

LEMMA SampleKeeps == ASSUME IInv, NEW s \in Slots, Sample(s) PROVE IInv'
<1>1. TypeOK /\ SlotInv(s)
  BY DEF IInv
<1>2. \/ WorkerBecame("compare", worker.want, worker.prev)
      \/ WorkerBecame("restore", worker.want, worker.prev)
      \/ WorkerBecame("leave", worker.want, worker.prev)
  BY <1>1, GotoEffect DEF Steps, Trying, Restoring, Giving, Sample
<1>3. TypeOK'
  BY <1>1, <1>2 DEF Sample, WorkerBecame, TypeOK, files, mwan, radio, counts
<1>4. Elsewhere(s) /\ Handed(s)
  BY <1>1, <1>2 DEF Sample, TypeOK, Elsewhere, Handed, TxBecame, GhostBecame, WorkerBecame, At,
     Idle, files, mwan, radio, counts
<1>5. SlotInv(s)'
  BY <1>1, <1>2, <1>3 DEF Sample, TypeOK,
     SlotInv, Held, Known, Stored, Journaled, Idle, Applying, Undecided, Reaching, Resuming,
     TxBecame, GhostBecame, WorkerBecame, At, files, mwan, radio, counts
<1>. QED BY <1>3, <1>4, <1>5, Local

LEMMA CompareKeeps == ASSUME IInv, NEW s \in Slots, Compare(s) PROVE IInv'
<1>1. TypeOK /\ SlotInv(s)
  BY DEF IInv
<1>2. \/ WorkerBecame("keepMark", worker.want, worker.prev)
      \/ WorkerBecame("restore", worker.want, worker.prev)
  BY <1>1, GotoEffect DEF Steps, Trying, Restoring, Giving, Compare
<1>3. TypeOK'
  BY <1>1, <1>2 DEF Compare, WorkerBecame, TypeOK, files, mwan, radio, counts
<1>4. Elsewhere(s) /\ Handed(s)
  BY <1>1, <1>2 DEF Compare, TypeOK, Elsewhere, Handed, TxBecame, GhostBecame, WorkerBecame, At,
     Idle, files, mwan, radio, counts
<1>5. SlotInv(s)'
  BY <1>1, <1>2, <1>3 DEF Compare, TypeOK,
     SlotInv, Held, Known, Stored, Journaled, Idle, Applying, Undecided, Reaching, Resuming,
     TxBecame, GhostBecame, WorkerBecame, At, files, mwan, radio, counts
<1>. QED BY <1>3, <1>4, <1>5, Local

LEMMA KeepMarkKeeps == ASSUME IInv, NEW s \in Slots, KeepMark(s) PROVE IInv'
<1>1. TypeOK /\ SlotInv(s)
  BY DEF IInv
<1>2. WorkerBecame("keepUp", worker.want, worker.prev)
  BY <1>1, GotoEffect DEF Steps, Trying, Restoring, Giving, KeepMark, Unmark
<1>3. TypeOK'
  BY <1>1, <1>2 DEF KeepMark, Unmark, WorkerBecame, TypeOK, files, mwan, radio, counts
<1>4. Elsewhere(s) /\ Handed(s)
  BY <1>1, <1>2 DEF KeepMark, Unmark, TypeOK, Elsewhere, Handed, TxBecame, GhostBecame,
     WorkerBecame, At, Idle, files, mwan, radio, counts
<1>5. SlotInv(s)'
  BY <1>1, <1>2, <1>3 DEF KeepMark, Unmark, TypeOK,
     SlotInv, Held, Known, Stored, Journaled, Idle, Applying, Undecided, Reaching, Resuming,
     TxBecame, GhostBecame, WorkerBecame, At, files, mwan, radio, counts
<1>. QED BY <1>3, <1>4, <1>5, Local

LEMMA KeepUpKeeps == ASSUME IInv, NEW s \in Slots, KeepUp(s) PROVE IInv'
<1>1. TypeOK /\ SlotInv(s)
  BY DEF IInv
<1>2. \/ WorkerBecame("verify", worker.want, worker.prev)
      \/ WorkerBecame("restore", worker.want, worker.prev)
  BY <1>1, GotoEffect DEF Steps, Trying, Restoring, Giving, KeepUp, Up
<1>3. paused' \in [Slots -> BOOLEAN]
  BY <1>1, FlagKept DEF KeepUp, Up, TypeOK
<1>4. TypeOK'
  BY <1>1, <1>2, <1>3 DEF KeepUp, Up, WorkerBecame, TypeOK, files, mwan, radio, counts
<1>5. Elsewhere(s) /\ Handed(s)
  BY <1>1, <1>2, <1>3 DEF KeepUp, Up, TypeOK, Elsewhere, Handed, TxBecame, GhostBecame,
     WorkerBecame, At, Idle, files, mwan, radio, counts
<1>6. SlotInv(s)'
  BY <1>1, <1>2, <1>3, <1>4 DEF KeepUp, Up, TypeOK,
     SlotInv, Held, Known, Stored, Journaled, Idle, Applying, Undecided, Reaching, Resuming,
     TxBecame, GhostBecame, WorkerBecame, At, files, mwan, radio, counts
<1>. QED BY <1>4, <1>5, <1>6, Local

LEMMA VerifyKeeps == ASSUME IInv, NEW s \in Slots, Verify(s) PROVE IInv'
<1>1. TypeOK /\ SlotInv(s)
  BY DEF IInv
<1>2. WorkerBecame("forget", worker.want, worker.prev)
  BY <1>1, GotoEffect DEF Steps, Trying, Restoring, Giving, Verify
<1>3. GhostBecame(s, "none", ghost[s].seen)
  BY <1>1, ReplacedEffect DEF Verify
<1>4. TypeOK'
  BY <1>1, <1>2, <1>3 DEF Verify, WorkerBecame, GhostBecame, WorkerType, TypeOK, files, mwan,
     radio, counts
<1>5. Elsewhere(s) /\ Handed(s)
  BY <1>1, <1>2, <1>3 DEF Verify, TypeOK, Elsewhere, Handed, TxBecame, GhostBecame, WorkerBecame,
     At, Idle, files, mwan, radio, counts
<1>6. SlotInv(s)'
  BY <1>1, <1>2, <1>3, <1>4 DEF Verify, TypeOK,
     SlotInv, Held, Known, Stored, Journaled, Idle, Applying, Undecided, Reaching, Resuming,
     TxBecame, GhostBecame, WorkerBecame, At, files, mwan, radio, counts
<1>. QED BY <1>4, <1>5, <1>6, Local

LEMMA ForgetKeeps == ASSUME IInv, NEW s \in Slots, Forget(s) PROVE IInv'
<1>1. TypeOK /\ SlotInv(s)
  BY DEF IInv
<1>2. WorkerBecame("leave", worker.want, worker.prev)
  BY <1>1, GotoEffect DEF Steps, Trying, Restoring, Giving, Forget
<1>3. GhostBecame(s, ghost[s].trial, ghost[s].seen)
  BY <1>1, BeforeEffect DEF Forget
<1>4. TypeOK'
  BY <1>1, <1>2, <1>3 DEF Forget, WorkerBecame, GhostBecame, TypeOK, files, mwan, radio, counts
<1>5. Elsewhere(s) /\ Handed(s)
  BY <1>1, <1>2, <1>3 DEF Forget, TypeOK, Elsewhere, Handed, TxBecame, GhostBecame, WorkerBecame,
     At, Idle, files, mwan, radio, counts
<1>6. SlotInv(s)'
  BY <1>1, <1>2, <1>3, <1>4 DEF Forget, TypeOK,
     SlotInv, Held, Known, Stored, Journaled, Idle, Applying, Undecided, Reaching, Resuming,
     TxBecame, GhostBecame, WorkerBecame, At, files, mwan, radio, counts
<1>. QED BY <1>4, <1>5, <1>6, Local

LEMMA RestoreKeeps == ASSUME IInv, NEW s \in Slots, Restore(s) PROVE IInv'
<1>1. TypeOK /\ SlotInv(s)
  BY DEF IInv
<1>2. RestoreTo(s) \in Deployments
  BY <1>1 DEF TypeOK, RestoreTo, Deployments, Policies
<1>3. WorkerBecame("restoring", RestoreTo(s), worker.prev)
  BY <1>1, <1>2 DEF Restore, At, TypeOK, WorkerBecame, WorkerType, Steps, Restoring, Policies
<1>4. TxBecame(s, "rat", RestoreTo(s), mode[s]) \/ TxBecame(s, "fail", "auto", "auto")
  BY <1>1, <1>2, OpenEffect DEF Restore, Policies, Deployments
<1>5. TypeOK'
  BY <1>1, <1>2, <1>3, <1>4 DEF Restore, WorkerBecame, TxBecame, TypeOK, files, mwan, radio, counts
<1>6. Elsewhere(s) /\ Handed(s)
  BY <1>1, <1>2, <1>3, <1>4 DEF Restore, TypeOK, Elsewhere, Handed, TxBecame, GhostBecame,
     WorkerBecame, At, Idle, files, mwan, radio, counts
<1>7. SlotInv(s)'
  BY <1>1, <1>2, <1>3, <1>4, <1>5 DEF Restore, TypeOK,
     SlotInv, Held, Known, Stored, Journaled, Idle, Applying, Undecided, Reaching, Resuming,
     TxBecame, GhostBecame, WorkerBecame, At, files, mwan, radio, counts
<1>. QED BY <1>5, <1>6, <1>7, Local

LEMMA RestoredKeeps == ASSUME IInv, NEW s \in Slots, Restored(s) PROVE IInv'
<1>1. TypeOK /\ SlotInv(s)
  BY DEF IInv
<1>2. TxBecame(s, "none", "auto", "auto")
  BY <1>1, CloseEffect DEF Restored
<1>3. \/ /\ tx[s].at = "ok" /\ WorkerBecame("restoreWait", worker.want, worker.prev)
         /\ GhostBecame(s, "none", ghost[s].seen)
      \/ WorkerBecame("giveUp", worker.want, worker.prev) /\ ghost' = ghost
  BY <1>1, GotoEffect, TrialEffect DEF Restored, Steps, Restoring, Giving
<1>4. TypeOK'
  BY <1>1, <1>2, <1>3 DEF Restored, WorkerBecame, TxBecame, GhostBecame, TypeOK, files, mwan,
     radio, counts
<1>5. Elsewhere(s) /\ Handed(s)
  BY <1>1, <1>2, <1>3 DEF Restored, TypeOK, Elsewhere, Handed, TxBecame, GhostBecame,
     WorkerBecame, At, Idle, files, mwan, radio, counts
<1>6. SlotInv(s)'
  BY <1>1, <1>2, <1>3, <1>4 DEF Restored, TypeOK,
     SlotInv, Held, Known, Stored, Journaled, Idle, Applying, Undecided, Reaching, Resuming,
     TxBecame, GhostBecame, WorkerBecame, At, files, mwan, radio, counts
<1>. QED BY <1>4, <1>5, <1>6, Local

LEMMA RestoreWaitKeeps == ASSUME IInv, NEW s \in Slots, RestoreWait(s) PROVE IInv'
<1>1. TypeOK /\ SlotInv(s)
  BY DEF IInv
<1>2. \/ WorkerBecame("restoreMark", worker.want, worker.prev) /\ GhostBecame(s, ghost[s].trial, mode[s])
      \/ WorkerBecame("giveUp", worker.want, worker.prev) /\ ghost' = ghost
  BY <1>1, GotoEffect, SeenEffect DEF RestoreWait, Reached, Steps, Restoring, Giving, TypeOK
<1>3. TypeOK'
  BY <1>1, <1>2 DEF RestoreWait, WorkerBecame, GhostBecame, TypeOK, files, mwan, radio, counts
<1>4. Elsewhere(s) /\ Handed(s)
  BY <1>1, <1>2 DEF RestoreWait, TypeOK, Elsewhere, Handed, TxBecame, GhostBecame, WorkerBecame,
     At, Idle, files, mwan, radio, counts
<1>5. SlotInv(s)'
  BY <1>1, <1>2, <1>3 DEF RestoreWait, TypeOK,
     SlotInv, Held, Known, Stored, Journaled, Idle, Applying, Undecided, Reaching, Resuming,
     TxBecame, GhostBecame, WorkerBecame, At, files, mwan, radio, counts
<1>. QED BY <1>3, <1>4, <1>5, Local

LEMMA RestoreMarkKeeps == ASSUME IInv, NEW s \in Slots, RestoreMark(s) PROVE IInv'
<1>1. TypeOK /\ SlotInv(s)
  BY DEF IInv
<1>2. WorkerBecame("restoreUp", worker.want, worker.prev)
  BY <1>1, GotoEffect DEF Steps, Trying, Restoring, Giving, RestoreMark, Unmark
<1>3. TypeOK'
  BY <1>1, <1>2 DEF RestoreMark, Unmark, WorkerBecame, TypeOK, files, mwan, radio, counts
<1>4. Elsewhere(s) /\ Handed(s)
  BY <1>1, <1>2 DEF RestoreMark, Unmark, TypeOK, Elsewhere, Handed, TxBecame, GhostBecame,
     WorkerBecame, At, Idle, files, mwan, radio, counts
<1>5. SlotInv(s)'
  BY <1>1, <1>2, <1>3 DEF RestoreMark, Unmark, TypeOK,
     SlotInv, Held, Known, Stored, Journaled, Idle, Applying, Undecided, Reaching, Resuming,
     TxBecame, GhostBecame, WorkerBecame, At, files, mwan, radio, counts
<1>. QED BY <1>3, <1>4, <1>5, Local

LEMMA RestoreUpKeeps == ASSUME IInv, NEW s \in Slots, RestoreUp(s) PROVE IInv'
<1>1. TypeOK /\ SlotInv(s)
  BY DEF IInv
<1>2. \/ WorkerBecame("restored", worker.want, worker.prev)
      \/ WorkerBecame("giveUp", worker.want, worker.prev)
  BY <1>1, GotoEffect DEF Steps, Trying, Restoring, Giving, RestoreUp, Up
<1>3. paused' \in [Slots -> BOOLEAN]
  BY <1>1, FlagKept DEF RestoreUp, Up, TypeOK
<1>4. TypeOK'
  BY <1>1, <1>2, <1>3 DEF RestoreUp, Up, WorkerBecame, TypeOK, files, mwan, radio, counts
<1>5. Elsewhere(s) /\ Handed(s)
  BY <1>1, <1>2, <1>3 DEF RestoreUp, Up, TypeOK, Elsewhere, Handed, TxBecame, GhostBecame,
     WorkerBecame, At, Idle, files, mwan, radio, counts
<1>6. SlotInv(s)'
  BY <1>1, <1>2, <1>3, <1>4 DEF RestoreUp, Up, TypeOK,
     SlotInv, Held, Known, Stored, Journaled, Idle, Applying, Undecided, Reaching, Resuming,
     TxBecame, GhostBecame, WorkerBecame, At, files, mwan, radio, counts
<1>. QED BY <1>4, <1>5, <1>6, Local

LEMMA RestoreVerifyKeeps == ASSUME IInv, NEW s \in Slots, RestoreVerify(s) PROVE IInv'
<1>1. TypeOK /\ SlotInv(s)
  BY DEF IInv
<1>2. WorkerBecame("forget", worker.want, worker.prev)
  BY <1>1, GotoEffect DEF Steps, Trying, Restoring, Giving, RestoreVerify
<1>3. TypeOK'
  BY <1>1, <1>2 DEF RestoreVerify, WorkerBecame, WorkerType, TypeOK, files, mwan, radio, counts
<1>4. Elsewhere(s) /\ Handed(s)
  BY <1>1, <1>2 DEF RestoreVerify, TypeOK, Elsewhere, Handed, TxBecame, GhostBecame, WorkerBecame,
     At, Idle, files, mwan, radio, counts
<1>5. SlotInv(s)'
  BY <1>1, <1>2, <1>3 DEF RestoreVerify, TypeOK,
     SlotInv, Held, Known, Stored, Journaled, Idle, Applying, Undecided, Reaching, Resuming,
     TxBecame, GhostBecame, WorkerBecame, At, files, mwan, radio, counts
<1>. QED BY <1>3, <1>4, <1>5, Local

LEMMA GiveUpKeeps == ASSUME IInv, NEW s \in Slots, GiveUp(s) PROVE IInv'
<1>1. TypeOK /\ SlotInv(s)
  BY DEF IInv
<1>2. \/ WorkerBecame("auto", worker.want, worker.prev)
      \/ WorkerBecame("lastMark", worker.want, worker.prev)
  BY <1>1, GotoEffect DEF Steps, Trying, Restoring, Giving, GiveUp
<1>3. TypeOK'
  BY <1>1, <1>2 DEF GiveUp, WorkerBecame, Fallback, Deployments, TypeOK, files, mwan, radio, counts
<1>4. Elsewhere(s) /\ Handed(s)
  BY <1>1, <1>2 DEF GiveUp, Fallback, TypeOK, Elsewhere, Handed, TxBecame, GhostBecame,
     WorkerBecame, At, Idle, files, mwan, radio, counts
<1>5. SlotInv(s)'
  BY <1>1, <1>2, <1>3 DEF GiveUp, Fallback, TypeOK,
     SlotInv, Held, Known, Stored, Journaled, Idle, Applying, Undecided, Reaching, Resuming,
     TxBecame, GhostBecame, WorkerBecame, At, files, mwan, radio, counts
<1>. QED BY <1>3, <1>4, <1>5, Local

LEMMA AskAutoKeeps == ASSUME IInv, NEW s \in Slots, AskAuto(s) PROVE IInv'
<1>1. TypeOK /\ SlotInv(s)
  BY DEF IInv
<1>2. WorkerBecame("autoing", worker.want, worker.prev)
  BY <1>1, GotoEffect DEF Steps, Trying, Restoring, Giving, AskAuto
<1>3. TxBecame(s, "rat", "auto", mode[s]) \/ TxBecame(s, "fail", "auto", "auto")
  BY <1>1, OpenEffect DEF AskAuto, Policies, Deployments
<1>4. TypeOK'
  BY <1>1, <1>2, <1>3 DEF AskAuto, WorkerBecame, TxBecame, TypeOK, files, mwan, radio, counts
<1>5. Elsewhere(s) /\ Handed(s)
  BY <1>1, <1>2, <1>3 DEF AskAuto, TypeOK, Elsewhere, Handed, TxBecame, GhostBecame, WorkerBecame,
     At, Idle, files, mwan, radio, counts
<1>6. SlotInv(s)'
  BY <1>1, <1>2, <1>3, <1>4 DEF AskAuto, TypeOK,
     SlotInv, Held, Known, Stored, Journaled, Idle, Applying, Undecided, Reaching, Resuming,
     TxBecame, GhostBecame, WorkerBecame, At, files, mwan, radio, counts
<1>. QED BY <1>4, <1>5, <1>6, Local

LEMMA AutoTriedKeeps == ASSUME IInv, NEW s \in Slots, AutoTried(s) PROVE IInv'
<1>1. TypeOK /\ SlotInv(s)
  BY DEF IInv
<1>2. WorkerBecame("lastMark", worker.want, worker.prev)
  BY <1>1, GotoEffect DEF Steps, Trying, Restoring, Giving, AutoTried
<1>3. TxBecame(s, "none", "auto", "auto")
  BY <1>1, CloseEffect DEF AutoTried
<1>4. GhostBecame(s, "none", ghost[s].seen) \/ GhostBecame(s, ghost[s].trial, ghost[s].seen)
  BY <1>1, SettledEffect DEF AutoTried
<1>5. TypeOK'
  BY <1>1, <1>2, <1>3, <1>4 DEF AutoTried, WorkerBecame, TxBecame, GhostBecame, TypeOK, files,
     mwan, radio, counts
<1>6. Elsewhere(s) /\ Handed(s)
  BY <1>1, <1>2, <1>3, <1>4 DEF AutoTried, TypeOK, Elsewhere, Handed, TxBecame, GhostBecame,
     WorkerBecame, At, Idle, files, mwan, radio, counts
<1>7. SlotInv(s)'
  BY <1>1, <1>2, <1>3, <1>4, <1>5 DEF AutoTried, TypeOK,
     SlotInv, Held, Known, Stored, Journaled, Idle, Applying, Undecided, Reaching, Resuming,
     TxBecame, GhostBecame, WorkerBecame, At, files, mwan, radio, counts
<1>. QED BY <1>5, <1>6, <1>7, Local

LEMMA LastMarkKeeps == ASSUME IInv, NEW s \in Slots, LastMark(s) PROVE IInv'
<1>1. TypeOK /\ SlotInv(s)
  BY DEF IInv
<1>2. WorkerBecame("lastUp", worker.want, worker.prev)
  BY <1>1, GotoEffect DEF Steps, Trying, Restoring, Giving, LastMark, Unmark
<1>3. TypeOK'
  BY <1>1, <1>2 DEF LastMark, Unmark, WorkerBecame, TypeOK, files, mwan, radio, counts
<1>4. Elsewhere(s) /\ Handed(s)
  BY <1>1, <1>2 DEF LastMark, Unmark, TypeOK, Elsewhere, Handed, TxBecame, GhostBecame,
     WorkerBecame, At, Idle, files, mwan, radio, counts
<1>5. SlotInv(s)'
  BY <1>1, <1>2, <1>3 DEF LastMark, Unmark, TypeOK,
     SlotInv, Held, Known, Stored, Journaled, Idle, Applying, Undecided, Reaching, Resuming,
     TxBecame, GhostBecame, WorkerBecame, At, files, mwan, radio, counts
<1>. QED BY <1>3, <1>4, <1>5, Local

LEMMA LastUpKeeps == ASSUME IInv, NEW s \in Slots, LastUp(s) PROVE IInv'
<1>1. TypeOK /\ SlotInv(s)
  BY DEF IInv
<1>2. WorkerBecame("leave", worker.want, worker.prev)
  BY <1>1, GotoEffect DEF Steps, Trying, Restoring, Giving, LastUp, Up
<1>3. paused' \in [Slots -> BOOLEAN]
  BY <1>1, FlagKept DEF LastUp, Up, TypeOK
<1>4. TypeOK'
  BY <1>1, <1>2, <1>3 DEF LastUp, Up, WorkerBecame, TypeOK, files, mwan, radio, counts
<1>5. Elsewhere(s) /\ Handed(s)
  BY <1>1, <1>2, <1>3 DEF LastUp, Up, TypeOK, Elsewhere, Handed, TxBecame, GhostBecame,
     WorkerBecame, At, Idle, files, mwan, radio, counts
<1>6. SlotInv(s)'
  BY <1>1, <1>2, <1>3, <1>4 DEF LastUp, Up, TypeOK,
     SlotInv, Held, Known, Stored, Journaled, Idle, Applying, Undecided, Reaching, Resuming,
     TxBecame, GhostBecame, WorkerBecame, At, files, mwan, radio, counts
<1>. QED BY <1>4, <1>5, <1>6, Local

-----------------------------------------------------------------------------
(* The UI, the dial, and those who take no lock                             *)

LEMMA UiBeginKeeps == ASSUME IInv, NEW s \in Slots, UiBegin(s) PROVE IInv'
<1>1. TypeOK /\ SlotInv(s)
  BY DEF IInv
<1>2. GhostBecame(s, ghost[s].trial, ghost[s].seen)
  BY <1>1, BeforeEffect DEF UiBegin, Void
<1>3. \/ \E r \in Deployments : TxBecame(s, "rat", r, mode[s])
      \/ TxBecame(s, "fail", "auto", "auto")
  BY <1>1, UiOpens
<1>4. TypeOK'
  BY <1>1, <1>2, <1>3 DEF UiBegin, TxBecame, GhostBecame, TypeOK, files, mwan, radio, counts
<1>5. Elsewhere(s) /\ Handed(s)
  BY <1>1, <1>2, <1>3 DEF UiBegin, TypeOK, Elsewhere, Handed, TxBecame, GhostBecame, WorkerBecame,
     At, Idle, files, mwan, radio, counts
<1>6. SlotInv(s)'
  BY <1>1, <1>2, <1>3, <1>4 DEF UiBegin, LockFree, TypeOK,
     SlotInv, Held, Known, Stored, Journaled, Idle, Applying, Undecided, Reaching, Resuming,
     TxBecame, GhostBecame, WorkerBecame, At, files, mwan, radio, counts
<1>. QED BY <1>4, <1>5, <1>6, Local

LEMMA UiSaveKeeps == ASSUME IInv, NEW s \in Slots, UiSave(s) PROVE IInv'
<1>1. TypeOK /\ SlotInv(s)
  BY DEF IInv
<1>2. \/ tx[s].at = "ok" /\ TxBecame(s, "saved", tx[s].req, tx[s].mode) /\ lock' = lock
      \/ TxBecame(s, "none", "auto", "auto") /\ lock' = [lock EXCEPT ![s] = "free"]
  BY <1>1, ToEffect, CloseEffect DEF UiSave, Saveable, Frees, TxSteps
<1>3. \/ GhostBecame(s, "none", ghost[s].seen)
      \/ tx[s].at # "ok" /\ GhostBecame(s, ghost[s].trial, ghost[s].seen)
  BY <1>1, SettledEffect DEF UiSave
<1>4. policy' \in [Slots -> Policies]
  BY <1>1 DEF UiSave, TypeOK, TxType
<1>5. TypeOK'
  BY <1>1, <1>2, <1>3, <1>4 DEF UiSave, TxBecame, GhostBecame, TypeOK, files, mwan, radio, counts
<1>6. Elsewhere(s) /\ Handed(s)
  BY <1>1, <1>2, <1>3, <1>4 DEF UiSave, TypeOK, Elsewhere, Handed, TxBecame, GhostBecame,
     WorkerBecame, At, Idle, files, mwan, radio, counts
<1>7. SlotInv(s)'
  BY <1>1, <1>2, <1>3, <1>4, <1>5 DEF UiSave, TypeOK,
     SlotInv, Held, Known, Stored, Journaled, Idle, Applying, Undecided, Reaching, Resuming,
     TxBecame, GhostBecame, WorkerBecame, At, files, mwan, radio, counts
<1>. QED BY <1>5, <1>6, <1>7, Local

LEMMA UiForgetKeeps == ASSUME IInv, NEW s \in Slots, UiForget(s) PROVE IInv'
<1>1. TypeOK /\ SlotInv(s)
  BY DEF IInv
<1>2. TxBecame(s, "none", "auto", "auto")
  BY <1>1, CloseEffect DEF UiForget
<1>3. TypeOK'
  BY <1>1, <1>2 DEF UiForget, TxBecame, MarkRemoved, Frees, TypeOK, files, mwan, radio, counts
<1>4. Elsewhere(s) /\ Handed(s)
  BY <1>1, <1>2 DEF UiForget, MarkRemoved, Frees, TypeOK, Elsewhere, Handed, TxBecame,
     GhostBecame, WorkerBecame, At, Idle, files, mwan, radio, counts
<1>5. SlotInv(s)'
  BY <1>1, <1>2, <1>3 DEF UiForget, MarkRemoved, Frees, TypeOK,
     SlotInv, Held, Known, Stored, Journaled, Idle, Applying, Undecided, Reaching, Resuming,
     TxBecame, GhostBecame, WorkerBecame, At, files, mwan, radio, counts
<1>. QED BY <1>3, <1>4, <1>5, Local

LEMMA DialBeginKeeps == ASSUME IInv, NEW s \in Slots, DialBegin(s) PROVE IInv'
<1>1. TypeOK /\ SlotInv(s)
  BY DEF IInv
<1>2. GhostBecame(s, ghost[s].trial, ghost[s].seen)
  BY <1>1, BeforeEffect DEF DialBegin, Void
<1>3. \/ \E r \in Deployments : TxBecame(s, "rat", r, mode[s])
      \/ TxBecame(s, "fail", "auto", "auto")
  BY <1>1, DialOpens
<1>4. TypeOK'
  BY <1>1, <1>2, <1>3 DEF DialBegin, TxBecame, GhostBecame, TypeOK, files, mwan, radio, counts
<1>5. Elsewhere(s) /\ Handed(s)
  BY <1>1, <1>2, <1>3 DEF DialBegin, TypeOK, Elsewhere, Handed, TxBecame, GhostBecame,
     WorkerBecame, At, Idle, files, mwan, radio, counts
<1>6. SlotInv(s)'
  BY <1>1, <1>2, <1>3, <1>4 DEF DialBegin, LockFree, TypeOK,
     SlotInv, Held, Known, Stored, Journaled, Idle, Applying, Undecided, Reaching, Resuming,
     TxBecame, GhostBecame, WorkerBecame, At, files, mwan, radio, counts
<1>. QED BY <1>4, <1>5, <1>6, Local

LEMMA DialDoneKeeps == ASSUME IInv, NEW s \in Slots, DialDone(s) PROVE IInv'
<1>1. TypeOK /\ SlotInv(s)
  BY DEF IInv
<1>2. TxBecame(s, "none", "auto", "auto")
  BY <1>1, CloseEffect DEF DialDone
<1>3. GhostBecame(s, "none", ghost[s].seen) \/ GhostBecame(s, ghost[s].trial, ghost[s].seen)
  BY <1>1, SettledEffect DEF DialDone
<1>4. TypeOK'
  BY <1>1, <1>2, <1>3 DEF DialDone, TxBecame, GhostBecame, Frees, TypeOK, files, mwan, radio, counts
<1>5. Elsewhere(s) /\ Handed(s)
  BY <1>1, <1>2, <1>3 DEF DialDone, Frees, TypeOK, Elsewhere, Handed, TxBecame, GhostBecame,
     WorkerBecame, At, Idle, files, mwan, radio, counts
<1>6. SlotInv(s)'
  BY <1>1, <1>2, <1>3, <1>4 DEF DialDone, Frees, TypeOK,
     SlotInv, Held, Known, Stored, Journaled, Idle, Applying, Undecided, Reaching, Resuming,
     TxBecame, GhostBecame, WorkerBecame, At, files, mwan, radio, counts
<1>. QED BY <1>4, <1>5, <1>6, Local

LEMMA EditPolicyKeeps == ASSUME IInv, NEW s \in Slots, EditPolicy(s) PROVE IInv'
<1>1. TypeOK /\ SlotInv(s)
  BY DEF IInv
<1>2. GhostBecame(s, ghost[s].trial, ghost[s].seen)
  BY <1>1, BeforeEffect DEF EditPolicy, Void
<1>3. policy' \in [Slots -> Policies]
  BY <1>1, AdaptiveAssumption DEF EditPolicy, TypeOK, Policies, Deployments
<1>4. TypeOK'
  BY <1>1, <1>2, <1>3 DEF EditPolicy, GhostBecame, TypeOK, files, mwan, radio, counts
<1>5. Elsewhere(s) /\ Handed(s)
  BY <1>1, <1>2, <1>3 DEF EditPolicy, TypeOK, Elsewhere, Handed, TxBecame, GhostBecame,
     WorkerBecame, At, Idle, files, mwan, radio, counts
<1>6. SlotInv(s)'
  BY <1>1, <1>2, <1>3, <1>4 DEF EditPolicy, TypeOK,
     SlotInv, Held, Known, Stored, Journaled, Idle, Applying, Undecided, Reaching, Resuming,
     TxBecame, GhostBecame, WorkerBecame, At, files, mwan, radio, counts
<1>. QED BY <1>4, <1>5, <1>6, Local

LEMMA UserRatKeeps == ASSUME IInv, NEW s \in Slots, UserRat(s) PROVE IInv'
<1>1. TypeOK /\ SlotInv(s)
  BY DEF IInv
<1>2. GhostBecame(s, ghost[s].trial, ghost[s].seen)
  BY <1>1, BeforeEffect DEF UserRat, Void
<1>3. rat' \in [Slots -> Rats]
  BY <1>1, AdaptiveAssumption DEF UserRat, TypeOK, Rats
<1>4. TypeOK'
  BY <1>1, <1>2, <1>3 DEF UserRat, GhostBecame, TypeOK, files, mwan, radio, counts
<1>5. Elsewhere(s) /\ Handed(s)
  BY <1>1, <1>2, <1>3 DEF UserRat, TypeOK, Elsewhere, Handed, TxBecame, GhostBecame, WorkerBecame,
     At, Idle, files, mwan, radio, counts
<1>6. SlotInv(s)'
  BY <1>1, <1>2, <1>3, <1>4 DEF UserRat, TypeOK,
     SlotInv, Held, Known, Stored, Journaled, Idle, Applying, Undecided, Reaching, Resuming,
     TxBecame, GhostBecame, WorkerBecame, At, files, mwan, radio, counts
<1>. QED BY <1>4, <1>5, <1>6, Local

LEMMA RefreshReadsKeeps == ASSUME IInv, NEW s \in Slots, RefreshReads(s) PROVE IInv'
<1>1. TypeOK /\ SlotInv(s)
  BY DEF IInv
<1>2. TypeOK'
  BY <1>1 DEF RefreshReads, TypeOK, files, mwan, radio, counts
<1>3. Elsewhere(s) /\ Handed(s)
  BY <1>1 DEF RefreshReads, TypeOK, Elsewhere, Handed, TxBecame, GhostBecame, WorkerBecame, At,
     Idle, files, mwan, radio, counts
<1>4. SlotInv(s)'
  BY <1>1, <1>2 DEF RefreshReads, TypeOK,
     SlotInv, Held, Known, Stored, Journaled, Idle, Applying, Undecided, Reaching, Resuming,
     TxBecame, GhostBecame, WorkerBecame, At, files, mwan, radio, counts
<1>. QED BY <1>2, <1>3, <1>4, Local

LEMMA RefreshUpKeeps == ASSUME IInv, NEW s \in Slots, RefreshUp(s) PROVE IInv'
<1>1. TypeOK /\ SlotInv(s)
  BY DEF IInv
<1>2. TypeOK'
  BY <1>1 DEF RefreshUp, TypeOK, files, mwan, radio, counts
<1>3. Elsewhere(s) /\ Handed(s)
  BY <1>1 DEF RefreshUp, TypeOK, Elsewhere, Handed, TxBecame, GhostBecame, WorkerBecame, At, Idle,
     files, mwan, radio, counts
<1>4. SlotInv(s)'
  BY <1>1, <1>2 DEF RefreshUp, TypeOK,
     SlotInv, Held, Known, Stored, Journaled, Idle, Applying, Undecided, Reaching, Resuming,
     TxBecame, GhostBecame, WorkerBecame, At, files, mwan, radio, counts
<1>. QED BY <1>2, <1>3, <1>4, Local

LEMMA HotplugKeeps == ASSUME IInv, NEW s \in Slots, Hotplug(s) PROVE IInv'
<1>1. TypeOK /\ SlotInv(s)
  BY DEF IInv
<1>2. TypeOK'
  BY <1>1 DEF Hotplug, TypeOK, files, mwan, radio, counts
<1>3. Elsewhere(s) /\ Handed(s)
  BY <1>1 DEF Hotplug, TypeOK, Elsewhere, Handed, TxBecame, GhostBecame, WorkerBecame, At, Idle,
     files, mwan, radio, counts
<1>4. SlotInv(s)'
  BY <1>1, <1>2 DEF Hotplug, TypeOK,
     SlotInv, Held, Known, Stored, Journaled, Idle, Applying, Undecided, Reaching, Resuming,
     TxBecame, GhostBecame, WorkerBecame, At, files, mwan, radio, counts
<1>. QED BY <1>2, <1>3, <1>4, Local

-----------------------------------------------------------------------------
(* Kills, the supervisor and the lease                                      *)

LEMMA KillKeeps == ASSUME IInv, NEW s \in Slots, Kill(s) PROVE IInv'
<1>1. TypeOK /\ SlotInv(s)
  BY DEF IInv
<1>2. TxBecame(s, "none", "auto", "auto")
  BY <1>1, CloseEffect DEF Kill
<1>3. lock' \in [Slots -> {"free", "worker", "ui", "dial"}] /\ kills' \in 0 .. MaxKills
  BY <1>1, AdaptiveAssumption DEF Kill, Frees, TypeOK
<1>4. worker' \in WorkerType /\ worker'.slot = s /\ worker'.at = "dead"
  BY <1>1 DEF Kill, Between, WorkerType, Steps, Deployments, Policies
<1>5. maint' \in [Slots -> {"none", "live", "dead"}] /\ \A x \in Slots : maint'[x] # "none" => maint[x] # "none"
  BY <1>1 DEF Kill, TypeOK
<1>6. TypeOK'
  BY <1>1, <1>2, <1>3, <1>4, <1>5 DEF Kill, TxBecame, Frees, TypeOK, files, mwan, radio, counts
<1>7. Elsewhere(s) /\ Handed(s)
  BY <1>1, <1>2, <1>3, <1>4, <1>5 DEF Kill, Frees, TypeOK, Elsewhere, Handed, TxBecame,
     GhostBecame, WorkerBecame, At, Idle, files, mwan, radio, counts
<1>8. SlotInv(s)'
  BY <1>1, <1>2, <1>3, <1>4, <1>5, <1>6 DEF Kill, Frees, TypeOK,
     SlotInv, Held, Known, Stored, Journaled, Idle, Applying, Undecided, Reaching, Resuming,
     TxBecame, GhostBecame, WorkerBecame, At, files, mwan, radio, counts
<1>. QED BY <1>6, <1>7, <1>8, Local

LEMMA RespawnKeeps == ASSUME IInv, NEW s \in Slots, Respawn(s) PROVE IInv'
<1>1. TypeOK /\ SlotInv(s)
  BY DEF IInv
<1>2. worker' \in WorkerType /\ worker'.slot = s /\ worker'.at = "between"
  BY <1>1 DEF Respawn, Between, WorkerType, Steps, Deployments, Policies
<1>3. TypeOK'
  BY <1>1, <1>2 DEF Respawn, TypeOK, files, mwan, radio, counts
<1>4. Elsewhere(s) /\ Handed(s)
  BY <1>1, <1>2 DEF Respawn, TypeOK, Elsewhere, Handed, TxBecame, GhostBecame, WorkerBecame, At,
     Idle, files, mwan, radio, counts
<1>5. SlotInv(s)'
  BY <1>1, <1>2, <1>3 DEF Respawn, TypeOK,
     SlotInv, Held, Known, Stored, Journaled, Idle, Applying, Undecided, Reaching, Resuming,
     TxBecame, GhostBecame, WorkerBecame, At, files, mwan, radio, counts
<1>. QED BY <1>3, <1>4, <1>5, Local

LEMMA KillOtherKeeps == ASSUME IInv, NEW s \in Slots, KillOther(s) PROVE IInv'
<1>1. TypeOK /\ SlotInv(s)
  BY DEF IInv
<1>2. TxBecame(s, "none", "auto", "auto")
  BY <1>1, CloseEffect DEF KillOther
<1>3. lock' \in [Slots -> {"free", "worker", "ui", "dial"}] /\ kills' \in 0 .. MaxKills
  BY <1>1, AdaptiveAssumption DEF KillOther, Frees, TypeOK
<1>4. TypeOK'
  BY <1>1, <1>2, <1>3 DEF KillOther, TxBecame, Frees, TypeOK, files, mwan, radio, counts
<1>5. Elsewhere(s) /\ Handed(s)
  BY <1>1, <1>2, <1>3 DEF KillOther, Frees, TypeOK, Elsewhere, Handed, TxBecame, GhostBecame,
     WorkerBecame, At, Idle, files, mwan, radio, counts
<1>6. SlotInv(s)'
  BY <1>1, <1>2, <1>3, <1>4 DEF KillOther, Frees, TypeOK,
     SlotInv, Held, Known, Stored, Journaled, Idle, Applying, Undecided, Reaching, Resuming,
     TxBecame, GhostBecame, WorkerBecame, At, files, mwan, radio, counts
<1>. QED BY <1>4, <1>5, <1>6, Local
LEMMA LeaseKeeps == ASSUME IInv, Expire \/ OtherTakes \/ OtherEnds PROVE IInv'
<1>1. TypeOK'
  BY AdaptiveAssumption DEF IInv, TypeOK, Expire, OtherTakes, OtherEnds, files, mwan, radio, counts
<1>2. UNCHANGED <<radio, files, lock, tx, worker, ghost>>
  BY DEF Expire, OtherTakes, OtherEnds
<1>. QED BY <1>1, <1>2 DEF IInv, SlotInv, Held, Known, Stored, Journaled, radio, files

-----------------------------------------------------------------------------
(* The inductive invariant                                                  *)

LEMMA InitInv == Init => IInv
<1>. SUFFICES ASSUME Init PROVE IInv
  OBVIOUS
<1>1. policy \in [Slots -> Policies]
  BY AdaptiveAssumption DEF Init, Policies, Deployments
<1>2. mode \in [Slots -> Deployments] /\ rat \in [Slots -> Rats]
  <2>1. PICK b \in [Slots -> Boots] : /\ mode = [s \in Slots |-> b[s].mode]
                                      /\ rat  = [s \in Slots |-> b[s].rat]
    BY DEF Init
  <2>2. \A s \in Slots : b[s].mode \in Deployments /\ b[s].rat \in Rats
    BY AdaptiveAssumption DEF Deployments, Rats
  <2>. QED BY <2>1, <2>2
<1>3. worker \in WorkerType /\ worker.at = "between"
  BY DEF Init, Between, WorkerType, Steps, Deployments, Policies
<1>4. tx \in [Slots -> TxType]
  BY NoTxType DEF Init
<1>5. ghost \in [Slots -> GhostType]
  BY DEF Init, GhostType
<1>6. TypeOK
  BY <1>1, <1>2, <1>3, <1>4, <1>5, AdaptiveAssumption DEF Init, TypeOK
<1>7. ASSUME NEW s \in Slots PROVE SlotInv(s)
  BY <1>3 DEF Init, NoTx, SlotInv, Held, Known, Stored, Journaled, Idle, Applying, Undecided,
     Reaching, Resuming
<1>. QED BY <1>6, <1>7 DEF IInv

LEMMA StutterKeeps == IInv /\ UNCHANGED vars => IInv'
BY DEF IInv, TypeOK, SlotInv, Held, Known, Stored, Journaled, vars, radio, files, mwan, counts

LEMMA NextKeeps == IInv /\ [Next]_vars => IInv'
<1>. SUFFICES ASSUME IInv, [Next]_vars PROVE IInv'
  OBVIOUS
<1>1. ASSUME NEW s \in Slots, Begin(s) \/ Leave(s) \/ TakeLease(s) \/ StampLease(s) PROVE IInv'
  BY <1>1, BeginKeeps, LeaveKeeps, TakeLeaseKeeps, StampLeaseKeeps
<1>2. ASSUME NEW s \in Slots, Tx(s) PROVE IInv'
  BY <1>2, TxRatKeeps, TxUndoRatKeeps, TxModeKeeps, TxUndoModeKeeps DEF Tx
<1>3. ASSUME NEW s \in Slots, Trial(s) PROVE IInv'
  BY <1>3, RoundKeeps, BaselineKeeps, JournalKeeps, MaintainKeeps, DownKeeps, CandidateKeeps,
     AppliedKeeps, WaitKeeps, SampleKeeps, CompareKeeps, KeepMarkKeeps, KeepUpKeeps, VerifyKeeps,
     ForgetKeeps DEF Trial
<1>4. ASSUME NEW s \in Slots, Recovery(s) PROVE IInv'
  BY <1>4, RestoreKeeps, RestoredKeeps, RestoreWaitKeeps, RestoreMarkKeeps, RestoreUpKeeps,
     RestoreVerifyKeeps, GiveUpKeeps, AskAutoKeeps, AutoTriedKeeps, LastMarkKeeps, LastUpKeeps DEF Recovery
<1>5. ASSUME NEW s \in Slots, Ui(s) \/ Dial(s) PROVE IInv'
  BY <1>5, UiBeginKeeps, UiSaveKeeps, UiForgetKeeps, DialBeginKeeps, DialDoneKeeps DEF Ui, Dial
<1>6. ASSUME NEW s \in Slots, Outside(s) PROVE IInv'
  BY <1>6, EditPolicyKeeps, UserRatKeeps, RefreshReadsKeeps, RefreshUpKeeps,
     HotplugKeeps DEF Outside
<1>7. ASSUME NEW s \in Slots, Kill(s) \/ Respawn(s) \/ KillOther(s) PROVE IInv'
  BY <1>7, KillKeeps, RespawnKeeps, KillOtherKeeps
<1>. QED BY <1>1, <1>2, <1>3, <1>4, <1>5, <1>6, <1>7, LeaseKeeps, StutterKeeps DEF Next, Run

\* The invariant of every behaviour of the guarded comparison.
THEOREM Inductive == Spec => []IInv
BY InitInv, NextKeeps, PTL DEF Spec

\* Every variable keeps its type.
THEOREM TypeCorrect == Spec => []TypeOK
<1>1. IInv => TypeOK
  BY DEF IInv
<1>. QED BY <1>1, Inductive, PTL

\* Until an unverified candidate is replaced the journal names another selection
\* (5g-adaptive.sh:281-282), for any number of modems, kills, edits and redials.
THEOREM CandidateJournaled == Spec => []JournalCovers
<1>1. IInv => JournalCovers
  BY DEF IInv, SlotInv, Journaled, JournalCovers
<1>. QED BY <1>1, Inductive, PTL

\* The maintenance marker is never left without a journal (5g-adaptive.sh:314).
THEOREM MarkerJournaled == Spec => []MaintCovered
<1>1. IInv => MaintCovered
  BY DEF IInv, SlotInv, Journaled, MaintCovered
<1>. QED BY <1>1, Inductive, PTL

\* Only the two ends of a trial record a selection; the others leave the record or remove it.
LEMMA OnlyVerifyRecords ==
  ASSUME TypeOK, [Next]_vars
  PROVE  \/ \E s \in Slots : Verify(s) \/ RestoreVerify(s)
         \/ \A x \in Slots : verified'[x] \in {verified[x], "none"}
<1>1. ASSUME NEW s \in Slots, Begin(s) \/ Leave(s) \/ TakeLease(s) \/ StampLease(s) PROVE verified' = verified
  BY <1>1 DEF Begin, Leave, TakeLease, StampLease, files
<1>2. ASSUME NEW s \in Slots, Tx(s) PROVE verified' = verified
  BY <1>2 DEF Tx, TxRat, TxUndoRat, TxMode, TxUndoMode, files
<1>3. ASSUME NEW s \in Slots, Trial(s), ~Verify(s) PROVE verified' = verified
  BY <1>3 DEF Trial, Round, Baseline, Journal, Maintain, Down, Candidate, Applied, Wait, Sample,
     Compare, KeepMark, Unmark, KeepUp, Up, Forget, files
<1>4. ASSUME NEW s \in Slots, Recovery(s), ~RestoreVerify(s) PROVE verified' = verified
  BY <1>4 DEF Recovery, Restore, Restored, RestoreWait, RestoreMark, RestoreUp, Unmark, Up,
     GiveUp, AskAuto, AutoTried, LastMark, LastUp, files
<1>5. ASSUME NEW s \in Slots, Ui(s) \/ Dial(s) PROVE \A x \in Slots : verified'[x] \in {verified[x], "none"}
  <2>1. verified' = verified \/ verified' = [verified EXCEPT ![s] = "none"]
    BY <1>5 DEF Ui, Dial, UiBegin, UiSave, UiForget, MarkRemoved, DialBegin, DialDone, files
  <2>. QED BY <2>1 DEF TypeOK
<1>6. ASSUME NEW s \in Slots, Outside(s) PROVE verified' = verified
  BY <1>6 DEF Outside, EditPolicy, UserRat, RefreshReads, RefreshUp, Hotplug, files
<1>7. ASSUME NEW s \in Slots, Kill(s) \/ Respawn(s) \/ KillOther(s) PROVE verified' = verified
  BY <1>7 DEF Kill, Respawn, KillOther, files
<1>8. CASE Expire \/ OtherTakes \/ OtherEnds
  BY <1>8 DEF Expire, OtherTakes, OtherEnds, files
<1>9. CASE UNCHANGED vars
  BY <1>9 DEF vars, files
<1>. QED BY <1>1, <1>2, <1>3, <1>4, <1>5, <1>6, <1>7, <1>8, <1>9 DEF Next, Run

LEMMA RecordedReached ==
  ASSUME IInv, NEW s \in Slots, Verify(s) \/ RestoreVerify(s), NEW x \in Slots,
         verified'[x] \notin {verified[x], "none"}
  PROVE  verified'[x] = mode[x] /\ mode[x] = ghost[x].seen
<1>1. x = s /\ verified'[x] = worker.want
  BY DEF IInv, TypeOK, Verify, RestoreVerify
<1>2. Stored(s)
  BY DEF IInv, SlotInv
<1>. QED BY <1>1, <1>2 DEF Stored, Verify, RestoreVerify, At, Reaching, Resuming

\* What is recorded as verified is what the modem has stored, and the Internet was
\* reached under it since the last write of the selection (5g-adaptive.sh:227, 300).
THEOREM VerifiedByReach == Spec => VerifiedReached
<1>1. IInv /\ [Next]_vars => [ReachedRecorded]_vars
  BY OnlyVerifyRecords, RecordedReached DEF IInv, ReachedRecorded
<1>. QED BY <1>1, Inductive, PTL DEF Spec, VerifiedReached

=============================================================================
