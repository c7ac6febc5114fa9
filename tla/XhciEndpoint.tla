---------------------------- MODULE XhciEndpoint ----------------------------
(***************************************************************************)
(* One bulk or control endpoint of the xHCI driver (xhci-ring.c): the      *)
(* transfer ring the driver fills and the controller empties, the events   *)
(* and commands between them, and the cancellation of transfers.           *)
(*                                                                         *)
(* drv is what the driver keeps; its handlers run one at a time under      *)
(* xhci->lock and are operators from one driver state to the next.  The    *)
(* controller (hw, cmdhw) is external: it works on the ring at any moment, *)
(* even while the driver is writing a transfer's TRBs.  A URB has one      *)
(* transfer descriptor, and stands for it.                                 *)
(***************************************************************************)
EXTENDS Integers, FiniteSets, SequencesExt

CONSTANTS
  Urbs,              \* the URBs a driver submits, and submits again
  NoUrb,             \* no URB; in a ring slot, a no-op or a link
  NumSegs,           \* segments of the ring
  TRBS_PER_SEGMENT,  \* slots of a segment, the last of which is a link
  Sizes,             \* how many TRBs a transfer takes
  MAX_SOFT_RETRY,    \* errors repaired by a retry before the transfer fails
  StallPasts,        \* whether a stall may leave the dequeue pointer past the TD
  HaltRaces,         \* whether the endpoint may halt while a failed stop waits
  Cases              \* types of endpoint, with how often each fault may happen

ASSUME RingAssumption ==
  /\ NumSegs \in Nat \ {0, 1} /\ TRBS_PER_SEGMENT \in Nat \ {0, 1}
  /\ Sizes \subseteq 1 .. TRBS_PER_SEGMENT - 1 /\ MAX_SOFT_RETRY \in Nat
ASSUME UrbAssumption == NoUrb \notin Urbs
(* alloc: a command cannot be allocated; timeout: a command times out;     *)
(* mute: the controller stops without saying so.                           *)
Faults == {"alloc", "timeout", "mute"}
Types == {"bulk", "control"}
ASSUME CaseAssumption ==
  /\ StallPasts \subseteq BOOLEAN /\ HaltRaces \subseteq BOOLEAN
  /\ Cases \subseteq [type : Types, left : [Faults -> Nat]]

VARIABLES
  drv,     \* what the driver keeps
  submit,  \* the transfer the driver is writing to the ring
  hw,      \* the endpoint as the controller sees it, with its context
  cmdhw,   \* the command ring as the controller sees it
  events,  \* the event ring
  worker,  \* the command timeout work: idle, due, or waiting for the ring to stop
  type,    \* the type of the endpoint
  left     \* what remains of the budget

vars == <<drv, submit, hw, cmdhw, events, worker, type, left>>

-----------------------------------------------------------------------------
(* The ring.  Slots are numbered through the segments; the last link       *)
(* leads back to slot 0 and toggles the cycle.                             *)

RingSize == NumSegs * TRBS_PER_SEGMENT
Slots == 0 .. RingSize - 1
trb_is_link(p) == p % TRBS_PER_SEGMENT = TRBS_PER_SEGMENT - 1
link_trb_toggles_cycle(p) == p = RingSize - 1
\* A mutant for TypeOK: the last slot does not lead back to the first.
NextPastEnd(p) == p + 1

next_trb(p) == (p + 1) % RingSize
SegOf(p) == p \div TRBS_PER_SEGMENT

inc_deq(p) ==
  IF trb_is_link(next_trb(p)) THEN next_trb(next_trb(p)) ELSE next_trb(p)

(* How far slot p is ahead of slot q, and the slots from q to p.           *)
Ahead(p, q) == (p - q + RingSize) % RingSize
Span(q, p) == {s \in Slots : Ahead(s, q) <= Ahead(p, q)}

\* A mutant for RingAgrees: the cycle is not toggled at the end of the ring.
GiveLinkOnly(d) ==
  [d EXCEPT !.trb[d.enqueue].cycle = 1 - @, !.enqueue = next_trb(@)]

(* The link the enqueue pointer rests on is handed to the controller.      *)
GiveLink(d) ==
  [d EXCEPT !.trb[d.enqueue].cycle = 1 - @,
            !.cycle_state = IF link_trb_toggles_cycle(d.enqueue) THEN 1 - @ ELSE @,
            !.enqueue = next_trb(@)]

inc_enq(d, more_trbs_coming) ==
  LET e == [d EXCEPT !.enqueue = next_trb(@)] IN
  IF trb_is_link(e.enqueue) /\ more_trbs_coming THEN GiveLink(e) ELSE e

xhci_ring_expansion_needed(d, num_trbs) ==
  LET past == (d.enqueue % TRBS_PER_SEGMENT) + num_trbs - (TRBS_PER_SEGMENT - 1)
      new == 1 + (past \div (TRBS_PER_SEGMENT - 1)) IN
  /\ past >= 0
  /\ ~ (trb_is_link(d.enqueue) /\ next_trb(d.enqueue) = d.dequeue)
  /\ \E k \in 1 .. new : (SegOf(d.enqueue) + k) % NumSegs = SegOf(d.dequeue)

prepare_ring(d) == IF trb_is_link(d.enqueue) THEN GiveLink(d) ELSE d

trb_in_td(d, u, p) == p \in Span(d.td[u].first, d.td[u].last)

-----------------------------------------------------------------------------
(* Commands.  A command freed before its TRB was consumed is not live.     *)

Live(d) == {i \in DOMAIN d.cmds : d.cmds[i].live}

Command(op, ptr, cycle, soft) ==
  [op |-> op, ptr |-> ptr, cycle |-> cycle, soft |-> soft,
   status |-> "none", live |-> TRUE]

queue_command(d, c) ==
  [d EXCEPT !.cmds = Append(@, c),
            !.current = @ \/ Live(d) = {},
            !.timer = @ \/ Live(d) = {},
            !.cmd_db = d.cmd_ring_state = "running"]

Stop == Command("stop", 0, 0, FALSE)

(* Past the TD the controller stopped on, or past where it is if that is   *)
(* further; the cycle flips if a toggling link lies between.               *)
NewDequeue(d, h, u) ==
  IF Ahead(h.deq, d.dequeue) > Ahead(d.td[u].last, d.dequeue)
  THEN [ptr |-> h.deq, cycle |-> h.cycle]
  ELSE [ptr |-> next_trb(d.td[u].last),
        cycle |-> IF \E p \in Span(h.deq, d.td[u].last) : link_trb_toggles_cycle(p)
                  THEN 1 - h.cycle ELSE h.cycle]

xhci_move_dequeue_past_td(d, h, u) ==
  LET new == NewDequeue(d, h, u) IN
  [queue_command(d, Command("setdeq", new.ptr, new.cycle, FALSE))
     EXCEPT !.queued_deq_ptr = new.ptr, !.ep_state = @ \cup {"SET_DEQ_PENDING"}]

-----------------------------------------------------------------------------
(* Transfer descriptors.                                                   *)

(* The numbers of a set in their order, and what a list keeps of its       *)
(* elements: those in S, in the order they had.                            *)
Sorted(I) ==
  CHOOSE f \in [1 .. Cardinality(I) -> I] :
    \A j, k \in 1 .. Cardinality(I) : j < k => f[j] < f[k]
Kept(s, S) ==
  LET f == Sorted({i \in DOMAIN s : s[i] \in S}) IN [k \in DOMAIN f |-> s[f[k]]]

xhci_td_cleanup(d, u) ==
  [d EXCEPT !.td_list = Kept(@, Urbs \ {u}),
            !.cancelled_td_list = Kept(@, Urbs \ {u})]

td_to_noop(trb, d, us) ==
  [p \in Slots |-> IF \E u \in us : trb_in_td(d, u, p)
                   THEN [trb[p] EXCEPT !.urb = NoUrb] ELSE trb[p]]

(* These TDs leave the list and become no-ops.  The one the controller     *)
(* stopped on is kept until its dequeue pointer has moved, or given back   *)
(* with a warning if no command can be allocated.                          *)
Invalidate(d, h, ok, tds) ==
  LET cached == Kept(tds, {u \in Urbs : \/ d.td[u].cancel_status = "halted"
                                        \/ trb_in_td(d, u, h.deq)})
      keep == IF cached = <<>> \/ ~ok THEN NoUrb ELSE Last(cached)
      e == [d EXCEPT
             !.td_list = Kept(@, Urbs \ ToSet(tds)),
             !.log = IF cached = <<>> \/ ok THEN @ ELSE @ \cup {"uncleared"},
             !.trb = td_to_noop(@, d, ToSet(tds)),
             !.td = [u \in Urbs |->
                       IF u \notin ToSet(tds) THEN @[u]
                       ELSE [@[u] EXCEPT !.cancel_status =
                               IF u = keep THEN "clearing" ELSE "cleared"]]] IN
  IF "SET_DEQ_PENDING" \in d.ep_state THEN d
  ELSE IF keep = NoUrb THEN e
  ELSE xhci_move_dequeue_past_td(e, h, keep)

\* A mutant for OutcomesAreOwn: all TDs the controller did not stop on go.
InvalidateOthers(d, h, ok) ==
  Invalidate(d, h, ok, Kept(d.td_list,
    {u \in Urbs : u \in ToSet(d.cancelled_td_list) \/ ~trb_in_td(d, u, h.deq)}))

\* A mutant for GivenBackUnused: the dequeue pointer is not moved.
InvalidateOnly(d, h, ok) ==
  Invalidate(d, [h EXCEPT !.deq = d.enqueue], ok, d.cancelled_td_list)

xhci_invalidate_cancelled_tds(d, h, ok) == Invalidate(d, h, ok, d.cancelled_td_list)

xhci_giveback_invalidated_tds(d) ==
  [d EXCEPT !.cancelled_td_list =
     Kept(@, {u \in Urbs : d.td[u].cancel_status # "cleared"})]

xhci_handle_halted_endpoint(d, u, soft, ok) ==
  LET marked == ~soft /\ u # NoUrb /\ u \notin ToSet(d.cancelled_td_list)
      e == IF marked
           THEN [d EXCEPT !.cancelled_td_list = Append(@, u),
                          !.td[u].cancel_status = "halted"]
           ELSE d IN
  IF "EP_HALTED" \in d.ep_state \/ ~ok THEN e
  ELSE [queue_command(e, Command("reset", 0, 0, soft))
          EXCEPT !.ep_state = @ \cup {"EP_HALTED"}]

find_halted_td(d, h) ==
  IF d.td_list # <<>> /\ trb_in_td(d, Head(d.td_list), h.deq)
  THEN Head(d.td_list) ELSE NoUrb

\* A mutant for DequeueSetWhileStopped: the flags are not looked at.
RingAlways(d) == [d EXCEPT !.bell = TRUE]

(* The doorbell is not rung while a cancellation is under way.             *)
xhci_ring_ep_doorbell(d) ==
  [d EXCEPT !.bell =
     d.ep_state \cap {"EP_STOP_CMD_PENDING", "SET_DEQ_PENDING", "EP_HALTED"} = {}]

ring_doorbell_for_active_rings(d) ==
  IF d.td_list = <<>> THEN d ELSE xhci_ring_ep_doorbell(d)

-----------------------------------------------------------------------------
(* Transfer events.                                                        *)

(* What the completion codes come down to: a success or a short packet, a  *)
(* stall, or another error of the transfer.                                *)
Codes == {"ok", "stall", "error"}

(* A TD is done: the ring's dequeue pointer moves past it.                 *)
CompleteTd(d, u) ==
  xhci_td_cleanup([d EXCEPT !.dequeue = inc_deq(d.td[u].last)], u)

finish_td(d, h, u, code, ok) ==
  CASE code = "ok" -> CompleteTd(d, u)
    [] code = "stall" -> xhci_handle_halted_endpoint(d, u, FALSE, ok)
    [] code = "error" /\ h.state = "halted" ->
         xhci_handle_halted_endpoint(d, u, FALSE, ok)
    [] OTHER -> IF "EP_HALTED" \in d.ep_state /\ u \in ToSet(d.cancelled_td_list)
                THEN d ELSE CompleteTd(d, u)

process_bulk_intr_td(d, h, u, code, ok) ==
  CASE code = "ok" -> finish_td([d EXCEPT !.err_count = 0], h, u, code, ok)
    [] code = "error" /\ d.err_count <= MAX_SOFT_RETRY ->
         xhci_handle_halted_endpoint([d EXCEPT !.err_count = @ + 1], u, TRUE, ok)
    [] OTHER -> finish_td(d, h, u, code, ok)

(* A success before the status stage only says the data has arrived.       *)
process_ctrl_td(d, h, u, pos, code, ok) ==
  IF code = "ok" /\ pos # d.td[u].last THEN d ELSE finish_td(d, h, u, code, ok)

xhci_halted_host_endpoint(h, code) ==
  code = "stall" \/ (code = "error" /\ h.state = "halted")

handle_tx_event(d, h, t, e, ok) ==
  LET u == Head(d.td_list) IN
  IF d.td_list = <<>>
  THEN IF xhci_halted_host_endpoint(h, e.code)
       THEN xhci_handle_halted_endpoint(d, NoUrb, FALSE, ok) ELSE d
  ELSE IF ~ trb_in_td(d, u, e.pos) THEN d
  ELSE IF t = "control" THEN process_ctrl_td(d, h, u, e.pos, e.code, ok)
  ELSE process_bulk_intr_td(d, h, u, e.code, ok)

-----------------------------------------------------------------------------
(* Command completions.  elapsed: the endpoint has not started within the  *)
(* 100 ms in which a stop that failed is tried again.                      *)

Settled(d, h, ok) ==
  LET e == xhci_invalidate_cancelled_tds(d, h, ok) IN
  ring_doorbell_for_active_rings(
    xhci_giveback_invalidated_tds([e EXCEPT !.ep_state = @ \ {"EP_STOP_CMD_PENDING"}]))

xhci_handle_cmd_stop_ep(d, h, code, elapsed, ok) ==
  LET done(x) == [x EXCEPT !.ep_state = @ \ {"EP_STOP_CMD_PENDING"}]
      halted == "EP_HALTED" \in d.ep_state
      retry == h.state = "running" \/ (h.state = "stopped" /\ ~halted /\ ~elapsed) IN
  IF code # "ctx" THEN Settled(d, h, ok)
  ELSE IF h.state = "halted"
  THEN IF halted THEN done(d)
       ELSE IF ok THEN done(xhci_handle_halted_endpoint(d, find_halted_td(d, h), FALSE, ok))
       ELSE Settled(xhci_handle_halted_endpoint(d, find_halted_td(d, h), FALSE, ok), h, TRUE)
  ELSE IF retry THEN IF ok THEN queue_command(d, Stop) ELSE done(d)
  ELSE Settled(d, h, ok)

DequeueSet(d, h, code) ==
  LET moved == IF code = "ok" /\ h.deq = d.queued_deq_ptr
               THEN [d EXCEPT !.dequeue = d.queued_deq_ptr] ELSE d
      clearing == {u \in ToSet(d.cancelled_td_list) : d.td[u].cancel_status = "clearing"} IN
  [moved EXCEPT !.cancelled_td_list = Kept(@, Urbs \ clearing),
                !.td_list = Kept(@, Urbs \ clearing),
                !.queued_deq_ptr = 0,
                !.ep_state = @ \ {"SET_DEQ_PENDING"}]

\* A mutant for Covered: TDs cancelled meanwhile are not looked at.
SetDequeueOnce(d, h, code, ok) == ring_doorbell_for_active_rings(DequeueSet(d, h, code))

xhci_handle_cmd_set_deq(d, h, code, ok) ==
  LET e == DequeueSet(d, h, code) IN
  IF e.cancelled_td_list # <<>>
  THEN xhci_giveback_invalidated_tds(
         ring_doorbell_for_active_rings(xhci_invalidate_cancelled_tds(e, h, ok)))
  ELSE ring_doorbell_for_active_rings(e)

xhci_handle_cmd_reset_ep(d, h, soft, ok) ==
  LET e == xhci_invalidate_cancelled_tds(d, h, ok)
      f == xhci_giveback_invalidated_tds([e EXCEPT !.ep_state = @ \ {"EP_HALTED"}]) IN
  IF soft THEN ring_doorbell_for_active_rings(f) ELSE f

(* The handlers of the commands, by the command's type.                    *)
Handler(d, h, c, code, elapsed, ok) ==
  CASE c.op = "stop" -> xhci_handle_cmd_stop_ep(d, h, code, elapsed, ok)
    [] c.op = "setdeq" -> xhci_handle_cmd_set_deq(d, h, code, ok)
    [] c.op = "reset" -> xhci_handle_cmd_reset_ep(d, h, c.soft, ok)
    [] OTHER -> d

(* The completion is for the first TRB of the ring.  The timer is stopped, *)
(* and restarted if the command is not the last.  A command the timeout    *)
(* meant to abort is only taken off the list.  A TRB whose command was     *)
(* freed is never passed, and stops the timer once.                        *)
handle_cmd_completion(d, h, code, elapsed, ok) ==
  LET c == Head(d.cmds)
      off == [d EXCEPT !.timer = FALSE]
      stopped == IF code = "aborted" THEN [off EXCEPT !.cmd_ring_state = "stopped"] ELSE off
      after == Handler(stopped, h, c, code, elapsed, ok)
      more == Cardinality(Live(after)) > 1 IN
  IF ~c.live THEN IF c.status = "missed" THEN d ELSE [off EXCEPT !.cmds[1].status = "missed"]
  ELSE IF code = "aborted" /\ c.status = "aborted"
  THEN [stopped EXCEPT !.current = FALSE, !.cmds = Tail(@)]
  ELSE [after EXCEPT !.current = more, !.timer = more, !.cmds = Tail(@)]

-----------------------------------------------------------------------------
(* The command timeout.                                                    *)

xhci_cleanup_command_queue(d) ==
  [d EXCEPT !.current = FALSE,
            !.cmds = [i \in DOMAIN @ |-> [@[i] EXCEPT !.live = FALSE]]]

xhci_hc_died(d) ==
  [xhci_cleanup_command_queue(d)
     EXCEPT !.dying = TRUE, !.td_list = <<>>, !.cancelled_td_list = <<>>]

(* Aborted commands become no-ops and the ring is started again.           *)
xhci_handle_stopped_cmd_ring(d) ==
  LET pending == Live(d) # {} IN
  [d EXCEPT !.cmds = [i \in DOMAIN @ |->
                        IF @[i].live /\ @[i].status = "aborted"
                        THEN [@[i] EXCEPT !.status = "stopped", !.op = "noop"] ELSE @[i]],
            !.cmd_ring_state = "running",
            !.current = IF d.cmds # <<>> THEN pending ELSE @,
            !.timer = @ \/ (d.cmds # <<>> /\ pending),
            !.cmd_db = d.cmds # <<>>]

-----------------------------------------------------------------------------
NotSubmitting == [urb |-> NoUrb, left |-> 0, start |-> 0, cycle |-> 0]

Init ==
  /\ drv = [trb |-> [p \in Slots |-> [cycle |-> 0, urb |-> NoUrb]],
            enqueue |-> 0, dequeue |-> 0, cycle_state |-> 1,
            td_list |-> <<>>, cancelled_td_list |-> <<>>,
            td |-> [u \in Urbs |-> [first |-> 0, last |-> 0, cancel_status |-> "dirty"]],
            ep_state |-> {}, err_count |-> 0, queued_deq_ptr |-> 0,
            cmds |-> <<>>, cmd_ring_state |-> "running", current |-> FALSE,
            timer |-> FALSE, dying |-> FALSE, log |-> {}, bell |-> FALSE, cmd_db |-> FALSE]
  /\ submit = NotSubmitting
  /\ hw = [state |-> "stopped", deq |-> 0, cycle |-> 1, cached |-> NoUrb, db |-> FALSE]
  /\ cmdhw = [run |-> FALSE, done |-> 0]
  /\ events = <<>>
  /\ worker = [pc |-> "idle", stopped |-> FALSE, mute |-> FALSE]
  /\ \E c \in Cases : type = c.type /\ left = c.left

Holding == submit.urb # NoUrb
Unlocked == ~Holding /\ ~drv.dying

Spend(kind) == left[kind] > 0 /\ left' = [left EXCEPT ![kind] = @ - 1]

(* The driver's new state, the doorbells it rang and the completed         *)
(* commands it passed.  A halted endpoint ignores its doorbell.            *)
Commit(d, passed) ==
  /\ drv' = [d EXCEPT !.bell = FALSE, !.cmd_db = FALSE]
  /\ hw' = [hw EXCEPT !.db = @ \/ (d.bell /\ hw.state = "stopped")]
  /\ cmdhw' = [run |-> cmdhw.run \/ d.cmd_db,
               done |-> cmdhw.done - passed]

-----------------------------------------------------------------------------
(* Submission.  The lock is held from prepare_transfer to the doorbell;    *)
(* the first TRB keeps the wrong cycle until the others are written.       *)

(* A control transfer has a setup and a status TRB, and one for its data.  *)
NumTrbs == IF type = "control" THEN Sizes \cap {2, 3} ELSE Sizes

prepare_transfer(u, n) ==
  LET d == prepare_ring(drv) IN
  /\ Unlocked
  /\ u \notin ToSet(drv.td_list) \cup ToSet(drv.cancelled_td_list)
  /\ n \in NumTrbs
  /\ ~ xhci_ring_expansion_needed(drv, n)
  /\ drv' = [d EXCEPT !.td_list = Append(@, u), !.td[u] =
               [first |-> d.enqueue, last |-> d.enqueue, cancel_status |-> "dirty"]]
  /\ submit' = [urb |-> u, left |-> n, start |-> d.enqueue, cycle |-> d.cycle_state]
  /\ UNCHANGED <<hw, cmdhw, events, worker, type, left>>

queue_trb ==
  LET first == drv.enqueue = submit.start
      cycle == IF first THEN 1 - submit.cycle ELSE drv.cycle_state
      d == [drv EXCEPT !.trb[drv.enqueue] = [cycle |-> cycle, urb |-> submit.urb],
                       !.td[submit.urb].last = drv.enqueue] IN
  /\ Holding /\ submit.left > 0
  /\ drv' = inc_enq(d, submit.left > 1)
  /\ submit' = [submit EXCEPT !.left = @ - 1]
  /\ UNCHANGED <<hw, cmdhw, events, worker, type, left>>

giveback_first_trb ==
  /\ Holding /\ submit.left = 0
  /\ Commit(xhci_ring_ep_doorbell([drv EXCEPT !.trb[submit.start].cycle = submit.cycle]), 0)
  /\ submit' = NotSubmitting
  /\ UNCHANGED <<events, worker, type, left>>

(* External: a URB is unlinked.  Its TD may be cancelled already, if the   *)
(* endpoint halted on it.  A stop is queued unless a completion that will  *)
(* look at the cancelled TDs is already on its way.                        *)
xhci_urb_dequeue(u) ==
  LET halted == u \in ToSet(drv.cancelled_td_list)
      d == IF halted THEN drv
           ELSE [drv EXCEPT !.cancelled_td_list = Append(@, u),
                            !.td[u].cancel_status = "dirty"] IN
  /\ Unlocked
  /\ u \in ToSet(drv.td_list)
  /\ halted => (drv.td[u].cancel_status = "halted" /\ drv.ep_state = {})
  /\ Commit(IF drv.ep_state # {} THEN d
            ELSE [queue_command(d, Stop) EXCEPT !.ep_state = @ \cup {"EP_STOP_CMD_PENDING"}], 0)
  /\ UNCHANGED <<submit, events, worker, type, left>>

-----------------------------------------------------------------------------
(* The event handler, for one event.                                       *)

Handled(e, elapsed, ok) ==
  CASE e.kind = "transfer" -> handle_tx_event(drv, hw, type, e, ok)
    [] e.kind = "command" -> handle_cmd_completion(drv, hw, e.code, elapsed, ok)
    [] OTHER -> drv

Passed == IF Head(events).kind = "command" /\ Head(drv.cmds).live THEN 1 ELSE 0

xhci_handle_event_trb(elapsed) ==
  /\ Unlocked /\ events # <<>>
  /\ elapsed => ~hw.db
  /\ events' = Tail(events)
  /\ worker' = [worker EXCEPT !.stopped = @ \/ Head(events).kind = "ring_stopped"]
  /\ \/ /\ Commit(Handled(Head(events), elapsed, TRUE), Passed)
        /\ UNCHANGED left
     \/ /\ Handled(Head(events), elapsed, FALSE) # Handled(Head(events), elapsed, TRUE)
        /\ Commit([Handled(Head(events), elapsed, FALSE) EXCEPT !.log = @ \cup {"alloc"}],
                  Passed)
        /\ Spend("alloc")
  /\ UNCHANGED <<submit, type>>

-----------------------------------------------------------------------------
(* The timeout work of the command ring.                                   *)

TimerExpires ==
  /\ ~drv.dying /\ drv.timer /\ worker.pc = "idle"
  /\ Spend("timeout")
  /\ drv' = [drv EXCEPT !.timer = FALSE]
  /\ worker' = [worker EXCEPT !.pc = "due"]
  /\ UNCHANGED <<submit, hw, cmdhw, events, type>>

Current(d) == CHOOSE i \in DOMAIN d.cmds : d.cmds[i].live /\ \A j \in 1 .. i - 1 : ~d.cmds[j].live
Marked == [drv EXCEPT !.cmds[Current(drv)].status = "aborted",
                      !.log = @ \cup {"timeout"}]
WorkerIdle == [pc |-> "idle", stopped |-> FALSE, mute |-> FALSE]

(* It raced with the completion, or the command it is for has been handled.*)
TimeoutRaced ==
  /\ Unlocked /\ worker.pc = "due"
  /\ ~drv.current \/ drv.timer
  /\ worker' = WorkerIdle
  /\ UNCHANGED <<drv, submit, hw, cmdhw, events, type, left>>

(* A stop that is not answered: the controller is taken for dead.          *)
TimeoutOfStop ==
  /\ Unlocked /\ worker.pc = "due" /\ drv.current /\ ~drv.timer
  /\ drv.cmds[Current(drv)].op = "stop"
  /\ Commit(xhci_hc_died([drv EXCEPT !.ep_state = @ \ {"EP_STOP_CMD_PENDING"}]), 0)
  /\ worker' = WorkerIdle
  /\ UNCHANGED <<submit, events, type, left>>

(* The ring is running and is told to abort: the command under way, if     *)
(* any, completes as aborted, and the ring says it has stopped; or it      *)
(* says nothing of the command, or nothing at all.                         *)
xhci_abort_cmd_ring ==
  LET ringStopped == [kind |-> "ring_stopped"]
      aborted == [kind |-> "command", code |-> "aborted"] IN
  /\ Unlocked /\ worker.pc = "due" /\ drv.current /\ ~drv.timer
  /\ drv.cmds[Current(drv)].op # "stop"
  /\ drv.cmd_ring_state = "running" /\ cmdhw.run
  /\ drv' = [Marked EXCEPT !.cmd_ring_state = "aborted"]
  /\ \/ /\ cmdhw.done < Len(drv.cmds)
        /\ cmdhw' = [run |-> FALSE, done |-> cmdhw.done + 1]
        /\ events' = events \o <<aborted, ringStopped>>
        /\ worker' = [worker EXCEPT !.pc = "wait", !.stopped = FALSE]
        /\ UNCHANGED left
     \/ /\ cmdhw' = [cmdhw EXCEPT !.run = FALSE]
        /\ events' = Append(events, ringStopped)
        /\ worker' = [worker EXCEPT !.pc = "wait", !.stopped = FALSE]
        /\ UNCHANGED left
     \/ /\ Spend("mute")
        /\ cmdhw' = [cmdhw EXCEPT !.run = FALSE]
        /\ worker' = [pc |-> "wait", stopped |-> FALSE, mute |-> TRUE]
        /\ UNCHANGED events
  /\ UNCHANGED <<submit, hw, type>>

(* The abort itself is not answered within 5 s.                            *)
AbortFails ==
  /\ Unlocked /\ worker.pc = "due" /\ drv.current /\ ~drv.timer
  /\ drv.cmds[Current(drv)].op # "stop"
  /\ drv.cmd_ring_state = "running" /\ cmdhw.run
  /\ Spend("mute")
  /\ Commit(xhci_hc_died([Marked EXCEPT !.cmd_ring_state = "aborted"]), 0)
  /\ worker' = WorkerIdle
  /\ UNCHANGED <<submit, events, type>>

(* The ring was not running: it cannot be aborted.                         *)
TimeoutOnStoppedRing ==
  /\ Unlocked /\ worker.pc = "due" /\ drv.current /\ ~drv.timer
  /\ drv.cmds[Current(drv)].op # "stop"
  /\ ~ (drv.cmd_ring_state = "running" /\ cmdhw.run)
  /\ Commit(xhci_handle_stopped_cmd_ring(Marked), 0)
  /\ worker' = WorkerIdle
  /\ UNCHANGED <<submit, events, type, left>>

(* The lock was dropped while waiting; 2 s without an event, and the       *)
(* commands are freed.                                                     *)
AbortDone ==
  /\ Unlocked /\ worker.pc = "wait"
  /\ worker.stopped \/ worker.mute
  /\ Commit(IF worker.stopped THEN xhci_handle_stopped_cmd_ring(drv)
            ELSE xhci_cleanup_command_queue(drv), 0)
  /\ worker' = WorkerIdle
  /\ UNCHANGED <<submit, events, type, left>>

xhci_handle_command_timeout ==
  \/ TimeoutRaced \/ TimeoutOfStop \/ xhci_abort_cmd_ring \/ AbortFails
  \/ TimeoutOnStoppedRing \/ AbortDone

-----------------------------------------------------------------------------
(* The controller.  It owns the slots from its dequeue pointer on whose    *)
(* cycle is the one it expects.                                            *)

Seen(k) ==
  [pos |-> (hw.deq + k) % RingSize,
   cycle |-> IF hw.deq + k >= RingSize THEN 1 - hw.cycle ELSE hw.cycle]
OwnedAt(k) == drv.trb[Seen(k).pos].cycle = Seen(k).cycle
Owned == {Seen(k).pos : k \in {n \in 0 .. RingSize - 1 : \A m \in 0 .. n : OwnedAt(m)}}

Advance(n) == [hw EXCEPT !.deq = Seen(n).pos, !.cycle = Seen(n).cycle, !.cached = NoUrb]

(* What it runs: a TRB it had fetched before it stopped, or the ring's.    *)
OnCached == hw.cached # NoUrb /\ trb_in_td(drv, hw.cached, hw.deq)
Running == IF OnCached THEN hw.cached ELSE drv.trb[hw.deq].urb

HwStart ==
  /\ ~drv.dying /\ hw.state = "stopped" /\ hw.db
  /\ hw' = [hw EXCEPT !.state = "running", !.db = FALSE]
  /\ UNCHANGED <<drv, submit, cmdhw, events, worker, type, left>>

HwReady == ~drv.dying /\ hw.state = "running" /\ OwnedAt(0)

(* Links and no-ops are passed without an event.                           *)
HwSkip ==
  /\ HwReady /\ Running = NoUrb
  /\ hw' = Advance(1)
  /\ UNCHANGED <<drv, submit, cmdhw, events, worker, type, left>>

Transfer(code) == [kind |-> "transfer", code |-> code, pos |-> hw.deq, urb |-> Running]

(* A TRB is done; the last of a transfer is reported.  A short packet ends *)
(* a bulk transfer early, and its last TRB may be reported all the same.   *)
HwTransfer ==
  /\ HwReady /\ Running # NoUrb
  /\ LET u == Running
         rest == Ahead(drv.td[u].last, hw.deq) IN
     \/ /\ hw' = Advance(1)
        /\ events' = IF rest = 0 THEN Append(events, Transfer("ok")) ELSE events
     \/ /\ rest > 0
        /\ hw' = Advance(IF type = "bulk" THEN rest + 1 ELSE 1)
        /\ \/ events' = Append(events, Transfer("ok"))
           \/ /\ type = "bulk"
              /\ events' = events \o <<Transfer("ok"),
                             [Transfer("ok") EXCEPT !.pos = drv.td[u].last]>>
  /\ UNCHANGED <<drv, submit, cmdhw, worker, type, left>>

(* The endpoint halts, on the TRB or, after a stall, maybe past the TD.    *)
FailedStopWaits == \E i \in DOMAIN events :
  events[i].kind = "command" /\ events[i].code = "ctx"

HwHalt ==
  /\ HwReady /\ Running # NoUrb
  /\ \E race \in HaltRaces : race \/ ~FailedStopWaits
  /\ LET u == Running
         rest == Ahead(drv.td[u].last, hw.deq) IN
     \/ /\ events' = Append(events, Transfer("error"))
        /\ hw' = [hw EXCEPT !.state = "halted", !.cached = u]
     \/ /\ events' = Append(events, Transfer("stall"))
        /\ \E past \in StallPasts :
             hw' = [Advance(IF past THEN rest + 1 ELSE 0)
                      EXCEPT !.state = "halted", !.cached = u]
  /\ UNCHANGED <<drv, submit, cmdhw, worker, type, left>>

(* What a command does to the endpoint, and the code it completes with.    *)
Fetched == IF OwnedAt(0) /\ Running # NoUrb THEN Running ELSE NoUrb

Obeyed(c) ==
  CASE c.op = "stop" /\ hw.state = "running" ->
         [to |-> [hw EXCEPT !.state = "stopped", !.cached = Fetched], code |-> "ok"]
    [] c.op = "setdeq" /\ hw.state = "stopped" ->
         [to |-> [hw EXCEPT !.deq = c.ptr, !.cycle = c.cycle, !.cached = NoUrb], code |-> "ok"]
    [] c.op = "reset" /\ hw.state = "halted" ->
         [to |-> [hw EXCEPT !.state = "stopped"], code |-> "ok"]
    [] c.op = "noop" -> [to |-> hw, code |-> "ok"]
    [] OTHER -> [to |-> hw, code |-> "ctx"]

HwCommand ==
  /\ ~drv.dying /\ cmdhw.run /\ cmdhw.done < Len(drv.cmds)
  /\ LET r == Obeyed(drv.cmds[cmdhw.done + 1]) IN
     /\ hw' = r.to
     /\ events' = Append(events, [kind |-> "command", code |-> r.code])
  /\ cmdhw' = [cmdhw EXCEPT !.done = @ + 1]
  /\ UNCHANGED <<drv, submit, worker, type, left>>

Driver ==
  \/ \E u \in Urbs, n \in Sizes : prepare_transfer(u, n)
  \/ queue_trb
  \/ giveback_first_trb
  \/ \E u \in Urbs : xhci_urb_dequeue(u)
  \/ \E elapsed \in BOOLEAN : xhci_handle_event_trb(elapsed)
  \/ TimerExpires
  \/ xhci_handle_command_timeout

Controller == HwStart \/ HwSkip \/ HwTransfer \/ HwHalt \/ HwCommand

Next == Driver \/ Controller

Spec == Init /\ [][Next]_vars

-----------------------------------------------------------------------------
InFlight == ToSet(drv.td_list) \cup ToSet(drv.cancelled_td_list)

(* Type correctness.                                                       *)
Flags == {"EP_STOP_CMD_PENDING", "SET_DEQ_PENDING", "EP_HALTED"}
Commands ==
  [op : {"stop", "setdeq", "reset", "noop"}, ptr : Slots, cycle : {0, 1},
   soft : BOOLEAN, status : {"none", "missed", "aborted", "stopped"}, live : BOOLEAN]
Events ==
  [kind : {"transfer"}, code : Codes, pos : Slots, urb : Urbs]
  \cup [kind : {"command"}, code : {"ok", "ctx", "aborted"}]
  \cup [kind : {"ring_stopped"}]
Rings == [Slots -> [cycle : {0, 1}, urb : Urbs \cup {NoUrb}]]
Tds ==
  [Urbs -> [first : Slots, last : Slots,
            cancel_status : {"dirty", "halted", "clearing", "cleared"}]]
Logs == SUBSET {"uncleared", "alloc", "timeout"}
DriverStates ==
  [trb : Rings,
   enqueue : Slots, dequeue : Slots, cycle_state : {0, 1},
   td_list : Seq(Urbs), cancelled_td_list : Seq(Urbs),
   td : Tds, ep_state : SUBSET Flags, err_count : 0 .. MAX_SOFT_RETRY + 1,
   queued_deq_ptr : Slots, cmds : Seq(Commands),
   cmd_ring_state : {"running", "aborted", "stopped"},
   current : BOOLEAN, timer : BOOLEAN, dying : BOOLEAN,
   log : Logs, bell : BOOLEAN, cmd_db : BOOLEAN]
ControllerStates ==
  [state : {"running", "stopped", "halted"}, deq : Slots, cycle : {0, 1},
   cached : Urbs \cup {NoUrb}, db : BOOLEAN]

TypeOK ==
  /\ drv \in DriverStates
  /\ submit \in [urb : Urbs \cup {NoUrb}, left : Nat, start : Slots, cycle : {0, 1}]
  /\ hw \in ControllerStates
  /\ cmdhw \in [run : BOOLEAN, done : 0 .. Len(drv.cmds)]
  /\ events \in Seq(Events)
  /\ worker \in [pc : {"idle", "due", "wait"}, stopped : BOOLEAN, mute : BOOLEAN]
  /\ type \in Types /\ left \in [Faults -> Nat]

(* The controller owns exactly the slots from where it is to the enqueue   *)
(* pointer, or to a transfer still being written: it never runs half a     *)
(* transfer, stale slots, or stops short of a queued one.                  *)
RingAgrees ==
  LET frontier == IF Holding THEN submit.start ELSE drv.enqueue IN
  drv.dying \/ Cardinality(Owned) = Ahead(frontier, hw.deq)

(* Whatever the controller may still run, or has stopped on, belongs to a  *)
(* transfer that has not been given back to its driver, unless Set TR    *)
(* Dequeue Pointer could not be allocated or a command timed out.          *)
Trusted == ~drv.dying /\ {"uncleared", "timeout"} \cap drv.log = {}

GivenBackUnused ==
  Trusted => \A u \in Urbs \ InFlight :
    /\ ~ (OnCached /\ hw.cached = u)
    /\ \A p \in Owned : drv.trb[p].urb # u

(* A Set TR Dequeue Pointer command reaches an endpoint that is stopped    *)
(* and has not been told to start: xhci_ring_ep_doorbell holds the         *)
(* doorbell back, or the pointer would not be set.                         *)
DequeueSetWhileStopped ==
  (\E i \in cmdhw.done + 1 .. Len(drv.cmds) : drv.cmds[i].op = "setdeq")
    => (hw.state = "stopped" /\ ~hw.db)

(* A pending flag of the endpoint has a command on the ring whose          *)
(* completion will clear it: what was put off until a command completes is *)
(* not put off for good, unless a command has timed out.                   *)
Coming(op) == \E i \in DOMAIN drv.cmds : drv.cmds[i].op = op
FlagsCovered ==
  drv.dying \/ "timeout" \in drv.log \/
  /\ "EP_STOP_CMD_PENDING" \in drv.ep_state => Coming("stop")
  /\ "SET_DEQ_PENDING" \in drv.ep_state => Coming("setdeq")
  /\ "EP_HALTED" \in drv.ep_state => Coming("reset")

(* When nothing is pending, an endpoint with transfers has been told to    *)
(* run: no doorbell was lost.  (A halt whose reset could not be allocated  *)
(* waits for its transfer to be unlinked.)                                 *)
Quiet == Trusted /\ events = <<>> /\ drv.ep_state = {} /\ ~Holding
DoorbellRung ==
  (Quiet /\ drv.td_list # <<>>)
    => (hw.state # "stopped" \/ hw.db)

(* A cancelled transfer waits for a command that is under way, whose       *)
(* completion looks at it again: it is not forgotten, unless a command     *)
(* could not be allocated or timed out.                                    *)
CancelledCovered ==
  (Unlocked /\ drv.log = {} /\ drv.cancelled_td_list # <<>>) => drv.ep_state # {}

(* Together: the endpoint is never left waiting for what will not come.    *)
Covered == FlagsCovered /\ DoorbellRung /\ CancelledCovered

(* A transfer nobody cancelled leaves the ring by an event of its own.     *)
OwnOutcome ==
  \A u \in ToSet(drv.td_list) \ (ToSet(drv'.td_list) \cup ToSet(drv.cancelled_td_list)) :
    drv'.dying \/ (events # <<>> /\ Head(events).kind = "transfer" /\ Head(events).urb = u)
OutcomesAreOwn == [][OwnOutcome]_vars

=============================================================================
