---------------------------- MODULE XhciInvariant ----------------------------
(***************************************************************************)
(* The inductive invariant of XhciEndpoint, part by part, and the words it  *)
(* is said in.  XhciEndpoint_proofs proves that the program keeps it.       *)
(*                                                                          *)
(*   TypeInv    the types, and as many completions as the controller counts *)
(*   PairInv    a command for each flag, until a command times out          *)
(*   DeqInv     the endpoint stays parked while its pointer is being set    *)
(*   WaitInv    a cancelled transfer waits for a flag                       *)
(*   OrderInv   the ring is in order, as long as nothing has been lost      *)
(*                                                                          *)
(* Where things are on the ring is said as a distance, counted back from    *)
(* the enqueue pointer (Back): what a dequeue pointer passes, and what is   *)
(* taken off the list of transfers, leaves the distances alone.             *)
(***************************************************************************)
EXTENDS XhciEndpoint

-----------------------------------------------------------------------------
(* Type correctness                                                        *)

\* How many of the first i events complete a command.
CommandsIn(s, i) == Cardinality({j \in 1 .. i : s[j].kind = "command"})

\* A completion on its way is for a command the controller has passed, and
\* that the driver still has.
CountInv == CommandsIn(events, Len(events)) <= cmdhw.done

\* The doorbells are those of the step, and no step starts with one rung.
\* The controller is not given up while a transfer is being written.
StepInv ==
  /\ drv.bell = FALSE
  /\ Holding => drv.dying = FALSE

\* The command the driver waits for is one of the list.
HasCurrent(d) == d.current => \E i \in DOMAIN d.cmds : d.cmds[i].live

TypeInv == TypeOK /\ CountInv /\ StepInv /\ HasCurrent(drv)

-----------------------------------------------------------------------------
(* Every pending flag has its command                                      *)

\* The flag that says a command is pending, and a command just queued.
FlagOf(op) ==
  CASE op = "stop" -> "EP_STOP_CMD_PENDING"
    [] op = "setdeq" -> "SET_DEQ_PENDING"
    [] OTHER -> "EP_HALTED"
Fresh == {c \in Commands : c.live /\ c.status = "none"}

\* The commands the handlers of this endpoint queue.
Ops == {"stop", "setdeq", "reset"}

\* The commands of the list are those of the flags, one for each: none of
\* them has been aborted or freed.
Paired(s, flags) ==
  /\ \A i \in DOMAIN s : s[i] \in Fresh /\ s[i].op \in Ops /\ FlagOf(s[i].op) \in flags
  /\ \A i, j \in DOMAIN s : s[i].op = s[j].op => i = j
  /\ \A op \in Ops : FlagOf(op) \in flags => \E i \in DOMAIN s : s[i].op = op

\* No command has timed out, and the controller has not been given up.
Intact == ~drv.dying /\ "timeout" \notin drv.log

\* While that is so, the commands and the flags go together, and nothing
\* has been aborted.
PairInv ==
  Intact =>
    /\ Paired(drv.cmds, drv.ep_state)
    /\ worker.pc # "wait"
    /\ \A i \in DOMAIN events : events[i].kind = "command" => events[i].code # "aborted"

-----------------------------------------------------------------------------
(* The dequeue pointer is set while the endpoint is stopped                *)

\* The endpoint is stopped and has not been told to start.
Parked == hw.state = "stopped" /\ ~hw.db

\* The event reports a stall or a transaction error.
Halts(e) == e.kind = "transfer" /\ e.code # "ok"

\* No command was lost: none timed out, none failed to be allocated.
Clean == ~drv.dying /\ drv.log = {}

\* A reset on its way finds the endpoint halted.  Once it has been obeyed,
\* and as long as Set TR Dequeue Pointer or a completion is on its way, the
\* endpoint is parked.
ResetsHalted ==
  \A i \in DOMAIN drv.cmds :
    drv.cmds[i].op = "reset" /\ i > cmdhw.done => hw.state = "halted"
ResetsParked ==
  \A i \in DOMAIN drv.cmds : drv.cmds[i].op = "reset" /\ i <= cmdhw.done => Parked
SetsParked == \A i \in DOMAIN drv.cmds : drv.cmds[i].op = "setdeq" => Parked
OkParked ==
  \A j \in DOMAIN events : events[j].kind = "command" /\ events[j].code = "ok" => Parked

\* A halt the driver has not been told of lasts, and none is reported after
\* the reset that ended it.
HaltLasts ==
  \A j \in DOMAIN events :
    Halts(events[j]) /\ "EP_HALTED" \notin drv.ep_state => hw.state = "halted"
HaltsBefore ==
  \A k \in DOMAIN drv.cmds : drv.cmds[k].op = "reset" /\ k <= cmdhw.done =>
    \A j \in DOMAIN events : CommandsIn(events, j) >= k => ~Halts(events[j])

\* What the commands under way and the events find the endpoint doing.
StopInv ==
  /\ ResetsHalted /\ ResetsParked /\ SetsParked
  /\ OkParked /\ HaltLasts /\ HaltsBefore

DeqInv ==
  /\ hw.db => hw.state = "stopped"
  /\ drv.log = {} => DequeueSetWhileStopped
  /\ Clean => StopInv

-----------------------------------------------------------------------------
(* A cancelled transfer is not forgotten                                   *)

\* Something is pending that will look at the cancelled transfers again.
Waits(d) == d.cancelled_td_list # <<>> => d.ep_state # {}
WaitInv == Clean => Waits(drv)

-----------------------------------------------------------------------------
(* Places on the ring                                                      *)

\* How far a slot is behind the enqueue pointer, and the cycle bit of a slot
\* the driver has written on its present lap.
Back(d, p) == Ahead(d.enqueue, p)
Lap(d, p) == IF p <= d.enqueue THEN d.cycle_state ELSE 1 - d.cycle_state

\* The slot before a slot, and the slot a dequeue pointer stands for: the
\* link before it, if there is one.
Prev(p) == IF p = 0 THEN RingSize - 1 ELSE p - 1
Floor(q) == IF trb_is_link(Prev(q)) THEN Prev(q) ELSE q

\* How far back the ring is in use, and how far it has been handed over.
Low(d) == Back(d, Floor(d.dequeue))
Edge(d, s) == IF s.urb # NoUrb THEN Back(d, s.start) ELSE 0

\* Where a transfer begins and ends, and whether a slot is between the two.
First(d, u) == Back(d, d.td[u].first)
Final(d, u) == Back(d, d.td[u].last)
InTd(d, u, p) == Final(d, u) <= Back(d, p) /\ Back(d, p) <= First(d, u)

\* The transfers the driver has, and those among them that were cancelled.
Listed(d) == ToSet(d.td_list)
Cancelled(d) == ToSet(d.cancelled_td_list)

-----------------------------------------------------------------------------
(* The ring is in order                                                    *)

\* The cycle bits say how far the driver has come.
Cycled(d, s) ==
  /\ \A p \in Slots :
       d.trb[p].cycle = IF p = d.enqueue \/ (s.urb # NoUrb /\ p = s.start)
                        THEN 1 - Lap(d, p) ELSE Lap(d, p)
  /\ s.urb # NoUrb => s.cycle = Lap(d, s.start)

\* The enqueue pointer does not run into the dequeue pointer: it is not
\* behind it in the same segment, and what is left of a transfer that is
\* being written fits before the segment of the dequeue pointer.
Apart(d) == SegOf(d.dequeue) = SegOf(d.enqueue) => d.dequeue <= d.enqueue
Roomy(d, s) ==
  /\ Apart(d)
  /\ s.urb # NoUrb =>
       /\ (d.enqueue % TRBS_PER_SEGMENT) + s.left >= TRBS_PER_SEGMENT - 1 =>
            (SegOf(d.enqueue) + 1) % NumSegs # SegOf(d.dequeue)
       /\ s.left <= TRBS_PER_SEGMENT - 1
       /\ s.start # d.enqueue => s.left <= TRBS_PER_SEGMENT - 2
       /\ s.start = d.enqueue => s.left > 0
       /\ s.left > 0 => ~ trb_is_link(d.enqueue)
       /\ Back(d, s.start) <= Low(d)
       /\ s.urb \in Listed(d) /\ d.td[s.urb].first = s.start

\* The transfers of the list lie between the two pointers, in order and
\* apart from each other.
Placed(d, s) ==
  /\ \A u \in Listed(d) :
       /\ ~trb_is_link(d.td[u].first) /\ ~trb_is_link(d.td[u].last)
       /\ Final(d, u) <= First(d, u) /\ First(d, u) <= Low(d)
       /\ u # s.urb => Final(d, u) > Edge(d, s)
       /\ u = s.urb => Final(d, u) > 0 \/ d.enqueue = s.start
  /\ \A i, j \in DOMAIN d.td_list :
       i < j => Final(d, d.td_list[i]) > First(d, d.td_list[j])

\* So does the controller, with the cycle bit of that place; what it has
\* before it is theirs, and what it has fetched is in the driver's hands.
Placed_hw(d, s, h) ==
  /\ Edge(d, s) <= Back(d, h.deq) /\ Back(d, h.deq) <= Low(d)
  /\ h.cycle = Lap(d, h.deq)
Slotted(d, h) ==
  \A p \in Slots :
    /\ trb_is_link(p) => d.trb[p].urb = NoUrb
    /\ 0 < Back(d, p) /\ Back(d, p) <= Back(d, h.deq) /\ d.trb[p].urb # NoUrb =>
         d.trb[p].urb \in Listed(d) /\ InTd(d, d.trb[p].urb, p)
Held(d, h) ==
  h.cached # NoUrb /\ trb_in_td(d, h.cached, h.deq) =>
    \/ h.cached \in Listed(d)
    \/ h.cached \in Cancelled(d) /\ d.td[h.cached].cancel_status = "clearing"

\* A Set TR Dequeue Pointer under way moves the controller forward, over
\* nothing that is still on the list and no further than what is handed over;
\* no transfer is reported meanwhile, and it is behind any reset.
Setting(d, s, h, n, ev) ==
  \A i \in DOMAIN d.cmds : d.cmds[i].op = "setdeq" =>
    LET ptr == d.cmds[i].ptr IN
    /\ ptr = d.queued_deq_ptr /\ d.cmds[i].cycle = Lap(d, ptr)
    /\ Edge(d, s) <= Back(d, ptr) /\ Back(d, ptr) <= Back(d, h.deq)
    /\ Back(d, ptr) < Low(d)
    /\ \A u \in Listed(d) : First(d, u) <= Back(d, ptr)
    /\ \A j \in DOMAIN ev : ev[j].kind # "transfer"
    /\ i <= n => h.cached = NoUrb
    /\ \A j \in DOMAIN d.cmds : d.cmds[j].op = "reset" => j < i

\* A cancelled transfer is on the list until the pointer is being moved past
\* it; one that halted the endpoint has the controller on it.
Cancels(d, h) ==
  \A u \in Cancelled(d) :
    LET c == d.td[u].cancel_status IN
    /\ c # "cleared"
    /\ c = "clearing" => "SET_DEQ_PENDING" \in d.ep_state /\ u \notin Listed(d)
    /\ c # "clearing" => u \in Listed(d)
    /\ c = "halted" => /\ "SET_DEQ_PENDING" \notin d.ep_state
                       /\ "EP_HALTED" \in d.ep_state
                       /\ InTd(d, u, h.deq)

\* A reset is for a transfer the controller would otherwise start again.
Resetting(d, h) ==
  \A i \in DOMAIN d.cmds : d.cmds[i].op = "reset" /\ ~d.cmds[i].soft =>
    \/ "SET_DEQ_PENDING" \in d.ep_state
    \/ \E u \in Cancelled(d) : InTd(d, u, h.deq)

\* An event that comes after its transfer was given back: the second one of
\* a short transfer, at the slot the dequeue pointer has just left.
Stale(d, e) == e.code = "ok" /\ d.dequeue = inc_deq(e.pos) /\ ~trb_is_link(e.pos)

\* Any other event is of a transfer of the list that is wholly handed over.
\* The controller has passed the slot, or halted on it.
LiveEvent(d, s, h, t, e) ==
  /\ e.urb \in Listed(d) /\ e.urb # s.urb /\ InTd(d, e.urb, e.pos)
  /\ IF e.code = "ok"
     THEN /\ Back(d, e.pos) > Back(d, h.deq)
          /\ t = "bulk" => Final(d, e.urb) > Back(d, h.deq)
     ELSE e.pos = h.deq

\* The events come in the order of the ring: two of one bulk transfer only
\* one right behind the other, the second at its end.
Reported(d, s, h, t, ev) ==
  /\ \A i \in DOMAIN ev : ev[i].kind = "transfer" =>
       LiveEvent(d, s, h, t, ev[i]) \/ (i = 1 /\ Stale(d, ev[i]))
  /\ \A i, j \in DOMAIN ev :
       i < j /\ ev[i].kind = "transfer" /\ ev[j].kind = "transfer" =>
         \/ i = 1 /\ Stale(d, ev[i])
         \/ /\ Back(d, ev[i].pos) > Back(d, ev[j].pos)
            /\ t = "bulk" /\ ev[i].urb = ev[j].urb =>
                 j = i + 1 /\ ev[j].code = "ok" /\ ev[j].pos = d.td[ev[j].urb].last

\* A transfer the controller has passed has the event that completes it.
Awaited(d, h, t, ev) ==
  \A u \in Listed(d) : Final(d, u) > Back(d, h.deq) =>
    \E i \in DOMAIN ev :
      /\ ev[i].kind = "transfer" /\ ev[i].code = "ok" /\ ev[i].urb = u
      /\ InTd(d, u, ev[i].pos) /\ (t = "control" => ev[i].pos = d.td[u].last)

\* All of it, of a driver d, a transfer s that is being written, an endpoint h
\* whose controller has obeyed n commands, of type t, and the events ev.
RingInv(d, s, h, n, t, ev) ==
  /\ Cycled(d, s) /\ Roomy(d, s) /\ Placed(d, s) /\ Placed_hw(d, s, h)
  /\ Slotted(d, h) /\ Held(d, h) /\ Setting(d, s, h, n, ev)
  /\ Cancels(d, h) /\ Resetting(d, h)
  /\ Reported(d, s, h, t, ev) /\ Awaited(d, h, t, ev)

\* The last slot of a transfer of the list is its own, not a link's or a
\* no-op's.  (Its first is where it starts while none has been written.)
Filled(d, s) ==
  \A u \in Listed(d) : (u # s.urb \/ d.enqueue # s.start) => d.trb[d.td[u].last].urb = u

\* The ring is in order, and every transfer written on it.
Laid == RingInv(drv, submit, hw, cmdhw.done, type, events) /\ Filled(drv, submit)

-----------------------------------------------------------------------------
(* The events the controller has left                                      *)

\* Every command the controller has executed has its event, which waits.
Counted(n, ev) == CommandsIn(ev, Len(ev)) = n

\* A halt has one event, and the endpoint is marked halted once it is handled.
HaltTold(d, h, ev) ==
  /\ \A i \in DOMAIN ev : Halts(ev[i]) => "EP_HALTED" \notin d.ep_state
  /\ h.state = "halted" /\ "EP_HALTED" \notin d.ep_state => \E i \in DOMAIN ev : Halts(ev[i])

\* Only a Stop Endpoint fails: the other commands reach the endpoint in the
\* state they are for.
StopsFail(d, ev) ==
  \A i \in DOMAIN ev : ev[i].kind = "command" /\ ev[i].code = "ctx" =>
    CommandsIn(ev, i) \in DOMAIN d.cmds /\ d.cmds[CommandsIn(ev, i)].op = "stop"

\* No transfer is reported behind a halt; one is behind a command only if that
\* was a stop which came too early, and the endpoint still runs.
RunsBehind(h, ev) ==
  \A i, j \in DOMAIN ev : i < j /\ ev[j].kind = "transfer" =>
    /\ ~Halts(ev[i])
    /\ ev[i].kind = "command" =>
         ev[i].code = "ctx" /\ h.state = "running" /\ ~Halts(ev[j])

Signalled(d, h, n, ev) ==
  Counted(n, ev) /\ HaltTold(d, h, ev) /\ StopsFail(d, ev) /\ RunsBehind(h, ev)

-----------------------------------------------------------------------------
(* The invariant                                                           *)

\* A stopped endpoint with transfers, nothing pending and no doorbell has one
\* that is still being written, and will be rung when it is.
Rung(d, s, h) ==
  (h.state = "stopped" /\ ~h.db /\ d.ep_state = {} /\ d.td_list # <<>>) => s.urb # NoUrb

Good == Laid /\ Signalled(drv, hw, cmdhw.done, events) /\ Rung(drv, submit, hw)

\* What is kept as long as nothing has been lost.
OrderInv == Clean => Good

\* The parts that only hold together.
OrderedInv == TypeInv /\ PairInv /\ DeqInv /\ OrderInv

-----------------------------------------------------------------------------
(* What the handlers and the steps do, in the words of the proofs          *)

\* Nothing of this changed.
Same(d, e) ==
  /\ e.cmds = d.cmds /\ e.ep_state = d.ep_state /\ e.bell = d.bell
  /\ e.current = d.current
  /\ e.dying = d.dying /\ e.cmd_ring_state = d.cmd_ring_state
  /\ d.log \subseteq e.log /\ ("timeout" \in e.log => "timeout" \in d.log)

\* A command of this kind was queued, and its flag raised.
Queued(d, e, op) ==
  /\ FlagOf(op) \notin d.ep_state
  /\ \E c \in Fresh : c.op = op /\ e.cmds = Append(d.cmds, c)
  /\ e.ep_state = d.ep_state \cup {FlagOf(op)} /\ e.bell = d.bell
  /\ e.dying = d.dying /\ e.cmd_ring_state = d.cmd_ring_state
  /\ d.log \subseteq e.log /\ ("timeout" \in e.log => "timeout" \in d.log)

\* The handler cleared a flag, perhaps queued a command, and rang the
\* doorbell only with every flag down.
Effect(d, e, cleared, op) ==
  /\ \/ e.cmds = d.cmds /\ e.ep_state = d.ep_state \ cleared
     \/ /\ FlagOf(op) \notin d.ep_state \ cleared
        /\ \E c \in Fresh : c.op = op /\ e.cmds = Append(d.cmds, c)
        /\ e.ep_state = (d.ep_state \ cleared) \cup {FlagOf(op)}
  /\ e.bell => (d.bell \/ e.ep_state = {})
  /\ e.dying = d.dying /\ e.cmd_ring_state = d.cmd_ring_state
  /\ d.log \subseteq e.log /\ ("timeout" \in e.log => "timeout" \in d.log)

\* Handling a transfer event queues at most a reset, and that only for an
\* event that says the endpoint halted, or might have.
Handles(d, e, code) ==
  Same(d, e) \/ (code # "ok" /\ Queued(d, e, "reset"))

\* A handler queues one command or none, and loses nothing of the log.
AddsOne(d, e) ==
  /\ e.cmds = d.cmds \/ \E n \in Fresh : e.cmds = Append(d.cmds, n)
  /\ d.log \subseteq e.log

\* The doorbell is only rung with every flag down, and only reaches a
\* stopped endpoint.
Belled ==
  /\ hw.state' = hw.state
  /\ \/ hw.db' = hw.db
     \/ hw.db' = TRUE /\ hw.state = "stopped" /\ drv.ep_state' = {}

\* Nothing but the doorbell changed.
Aside ==
  /\ drv.cmds' = drv.cmds /\ drv.ep_state' = drv.ep_state
  /\ drv.log' = drv.log /\ drv.dying' = drv.dying
  /\ cmdhw.done' = cmdhw.done /\ events' = events
  /\ Belled

\* What the completion of a command c does to the commands.
Moved(d, r, h, c, code, elapsed, lost) ==
  \/ r.cmds = Tail(d.cmds)
  \/ \E n \in Fresh :
       /\ r.cmds = Append(Tail(d.cmds), n)
       /\ \/ n.op = "stop"
          \/ n.op = "reset" /\ h.state = "halted" /\ c.op = "stop"
          \/ /\ n.op = "setdeq"
             /\ \/ c.op # "stop" \/ code # "ctx" \/ lost
                \/ h.state = "stopped" /\ (elapsed \/ "EP_HALTED" \in d.ep_state)

\* What a completion does: one move, and all the flags are still paired.
Completed(d, r, h, code, elapsed, lost) ==
  LET c == Head(d.cmds) IN
  /\ c.live /\ Moved(d, r, h, c, code, elapsed, lost)
  /\ Paired(r.cmds, r.ep_state)
  /\ r.bell => r.ep_state = {}
  /\ "EP_HALTED" \in d.ep_state /\ c.op # "reset" => "EP_HALTED" \in r.ep_state
  /\ r.dying = d.dying /\ d.log \subseteq r.log
  /\ "timeout" \in r.log => "timeout" \in d.log

\* Either a completion will look at the cancelled TDs again, or all of them
\* can be given back.
Dealt(d) ==
  \/ "SET_DEQ_PENDING" \in d.ep_state
  \/ \A u \in ToSet(d.cancelled_td_list) : d.td[u].cancel_status = "cleared"

\* The transfers that are being written.
Submits == [urb : Urbs \cup {NoUrb}, left : Nat, start : Slots, cycle : {0, 1}]

\* The enqueue pointer moves on by one.
Steps(d, e) ==
  /\ e.enqueue = next_trb(d.enqueue) /\ e.dequeue = d.dequeue
  /\ e.cycle_state = IF d.enqueue = RingSize - 1 THEN 1 - d.cycle_state ELSE d.cycle_state

(* It leaves the slot it was on to the controller: a link as it is, or a   *)
(* slot of the transfer under way.                                         *)
Moves(d, e, s) ==
  /\ Steps(d, e) /\ Low(d) < RingSize - 1
  /\ e.td_list = d.td_list /\ e.cancelled_td_list = d.cancelled_td_list
  /\ e.queued_deq_ptr = d.queued_deq_ptr /\ e.cmds = d.cmds /\ e.ep_state = d.ep_state
  /\ \A p \in Slots \ {d.enqueue} : e.trb[p] = d.trb[p]
  /\ e.trb[d.enqueue].cycle = IF s.urb # NoUrb /\ s.start = d.enqueue
                              THEN 1 - Lap(d, d.enqueue) ELSE Lap(d, d.enqueue)
  /\ \A u \in Urbs : e.td[u].first = d.td[u].first /\ e.td[u].cancel_status = d.td[u].cancel_status
  /\ \A u \in Urbs \ {s.urb} : e.td[u].last = d.td[u].last
  /\ \/ /\ trb_is_link(d.enqueue) /\ e.trb[d.enqueue].urb = d.trb[d.enqueue].urb
        /\ s.urb # NoUrb => s.start # d.enqueue /\ e.td[s.urb].last = d.td[s.urb].last
     \/ /\ ~trb_is_link(d.enqueue) /\ s.urb \in Urbs /\ e.trb[d.enqueue].urb = s.urb
        /\ e.td[s.urb].last = d.enqueue

\* Only these parts of the driver and of the controller matter.
SameView(d, e) ==
  /\ e.enqueue = d.enqueue /\ e.dequeue = d.dequeue /\ e.cycle_state = d.cycle_state
  /\ e.trb = d.trb /\ e.td = d.td /\ e.td_list = d.td_list
  /\ e.cancelled_td_list = d.cancelled_td_list /\ e.queued_deq_ptr = d.queued_deq_ptr
  /\ e.cmds = d.cmds /\ e.ep_state = d.ep_state

\* The controller is where it was.
SameSpot(h, k) == k.deq = h.deq /\ k.cycle = h.cycle /\ k.cached = h.cached

\* A transfer is prepared.
ListedOn(p, u) ==
  [p EXCEPT !.td_list = Append(@, u), !.td[u] =
     [first |-> p.enqueue, last |-> p.enqueue, cancel_status |-> "dirty"]]

\* The submission of a transfer begins at the enqueue pointer.
Begun(p, u, size) == [urb |-> u, left |-> size, start |-> p.enqueue, cycle |-> p.cycle_state]

\* Nothing is elsewhere on the ring, or on another list.
SamePlaces(d, e) ==
  /\ e.enqueue = d.enqueue /\ e.dequeue = d.dequeue /\ e.cycle_state = d.cycle_state
  /\ e.trb = d.trb /\ e.td_list = d.td_list /\ e.queued_deq_ptr = d.queued_deq_ptr
  /\ \A u \in Urbs : e.td[u].first = d.td[u].first /\ e.td[u].last = d.td[u].last

\* What a driver state is after the endpoint is found to have halted on u.
HaltedBy(d, r, u, soft) ==
  /\ SamePlaces(d, r)
  /\ r.cmds = Append(d.cmds, Command("reset", 0, 0, soft))
  /\ r.ep_state = d.ep_state \cup {"EP_HALTED"}
  /\ IF ~soft /\ u \notin Cancelled(d)
     THEN /\ r.cancelled_td_list = Append(d.cancelled_td_list, u)
          /\ r.td[u].cancel_status = "halted"
          /\ \A v \in Urbs \ {u} : r.td[v].cancel_status = d.td[v].cancel_status
     ELSE /\ r.cancelled_td_list = d.cancelled_td_list
          /\ \A v \in Urbs : r.td[v].cancel_status = d.td[v].cancel_status

\* No other transfers leave the list.
Leaves(d, r, us) == Listed(d) \ Listed(r) \subseteq us

\* What the event of a transfer does not change, and the flag and the command
\* of an endpoint that halted.
TransferDone(d, x, r) ==
  /\ r.enqueue = d.enqueue /\ r.trb = d.trb
  /\ \A u \in Urbs : r.td[u].last = d.td[u].last
  /\ \A v \in Listed(r) : v \in Listed(d)
  /\ IF Halts(x)
     THEN /\ r.ep_state = d.ep_state \cup {"EP_HALTED"}
          /\ \E soft \in BOOLEAN : r.cmds = Append(d.cmds, Command("reset", 0, 0, soft))
     ELSE r.ep_state = d.ep_state /\ r.cmds = d.cmds

\* The cancelled transfers leave the list, and their TRBs become no-ops.
Dropped(d, r) ==
  /\ r.enqueue = d.enqueue /\ r.dequeue = d.dequeue /\ r.cycle_state = d.cycle_state
  /\ r.trb = td_to_noop(d.trb, d, Cancelled(d))
  /\ r.td_list = Kept(d.td_list, Urbs \ Cancelled(d))
  /\ \A u \in Urbs : r.td[u].first = d.td[u].first /\ r.td[u].last = d.td[u].last

\* What is given back or kept of the cancelled transfers, with the flags in
\* F cleared.
OnHand(d, h) ==
  Kept(d.cancelled_td_list, {u \in Urbs : \/ d.td[u].cancel_status = "halted"
                                          \/ trb_in_td(d, u, h.deq)})

\* The dequeue pointer is to be moved past u.
MovedPast(d, h, u, F, r) ==
  LET q == NewDequeue(d, h, u) IN
  /\ r.cmds = Append(d.cmds, Command("setdeq", q.ptr, q.cycle, FALSE))
  /\ r.queued_deq_ptr = q.ptr
  /\ Cancelled(r) = {u} /\ r.td[u].cancel_status = "clearing"
  /\ r.ep_state = (d.ep_state \ F) \cup {"SET_DEQ_PENDING"}

\* What looking at the cancelled TDs comes to, once flags F are cleared.
InvalidatedBy(d, h, F, r) ==
  IF "SET_DEQ_PENDING" \in d.ep_state
  THEN /\ SamePlaces(d, r) /\ Cancelled(r) = Cancelled(d)
       /\ \A u \in Urbs : r.td[u].cancel_status = d.td[u].cancel_status
       /\ r.cmds = d.cmds /\ r.ep_state = d.ep_state \ F
  ELSE /\ Dropped(d, r)
       /\ IF OnHand(d, h) = <<>>
          THEN r.cmds = d.cmds /\ Cancelled(r) = {} /\ r.ep_state = d.ep_state \ F
          ELSE MovedPast(d, h, Last(OnHand(d, h)), F, r)

\* The fields of what the driver makes of its cancelled transfers.
MarkedBy(d, keep, m) ==
  /\ Dropped(d, m) /\ m.cancelled_td_list = d.cancelled_td_list
  /\ m.queued_deq_ptr = d.queued_deq_ptr /\ m.cmds = d.cmds /\ m.ep_state = d.ep_state
  /\ \A u \in Cancelled(d) :
       m.td[u].cancel_status = IF u = keep THEN "clearing" ELSE "cleared"

\* The cleared transfers are given back, and flags cleared.
GivenBack(m, F, r) ==
  /\ r.enqueue = m.enqueue /\ r.dequeue = m.dequeue /\ r.cycle_state = m.cycle_state
  /\ r.trb = m.trb /\ r.td = m.td /\ r.td_list = m.td_list
  /\ r.queued_deq_ptr = m.queued_deq_ptr /\ r.cmds = m.cmds
  /\ r.ep_state = m.ep_state \ F
  /\ r.cancelled_td_list =
       Kept(m.cancelled_td_list, {u \in Urbs : m.td[u].cancel_status # "cleared"})

\* The command that completed leaves the list.
PartsBut(d, e) ==
  /\ e.enqueue = d.enqueue /\ e.dequeue = d.dequeue /\ e.cycle_state = d.cycle_state
  /\ e.trb = d.trb /\ e.td = d.td /\ e.td_list = d.td_list
  /\ e.cancelled_td_list = d.cancelled_td_list /\ e.queued_deq_ptr = d.queued_deq_ptr
  /\ e.ep_state = d.ep_state

\* The dequeue pointer has been set, and the transfer it waited for is given
\* back.
Set(d, h, e) ==
  LET clearing == {u \in Cancelled(d) : d.td[u].cancel_status = "clearing"} IN
  /\ e.enqueue = d.enqueue /\ e.cycle_state = d.cycle_state
  /\ e.trb = d.trb /\ e.td = d.td
  /\ e.dequeue = d.dequeue \/ (e.dequeue = h.deq /\ h.deq = d.queued_deq_ptr)
  /\ e.td_list = Kept(d.td_list, Urbs \ clearing)
  /\ e.cancelled_td_list = Kept(d.cancelled_td_list, Urbs \ clearing)
  /\ e.ep_state = d.ep_state \ {"SET_DEQ_PENDING"}

\* An endpoint with transfers and nothing pending is told to run.
Belling(r) == r.td_list # <<>> /\ r.ep_state = {} => r.bell

\* What the completion of a command comes to.
Completes(d, s, h, n, t, ev, r) ==
  /\ RingInv(r, s, h, n - 1, t, Tail(ev)) /\ Leaves(d, r, Cancelled(d))
  /\ Filled(r, s) /\ Belling(r)

\* What is known when the completion of the first command arrives: only a
\* stop may have failed, and events of transfers are still to come only if
\* the endpoint runs after all.
Answered(d, h, n, ev, code) ==
  /\ 1 <= n /\ n <= Len(d.cmds)
  /\ code = "ctx" => d.cmds[1].op = "stop"
  /\ code = "ok" \/ h.state # "running" => \A j \in DOMAIN ev : ev[j].kind # "transfer"
  /\ code = "ctx" /\ h.state = "halted" => "EP_HALTED" \in d.ep_state

\* The handler of the first command has run.
HandledBy(d, h, code, a) ==
  \E elapsed \in BOOLEAN : a = Handler(d, h, d.cmds[1], code, elapsed, TRUE)

\* The controller goes on, and reports what it has run.  What follows the old
\* events are the new ones.
RanTo(d, s, h, k, t, ev, new) ==
  /\ Len(ev) <= Len(new) /\ \A i \in DOMAIN ev : new[i] = ev[i]
  /\ \A i \in DOMAIN new \ DOMAIN ev : new[i].kind = "transfer" =>
       /\ LiveEvent(d, s, k, t, new[i])
       /\ Back(d, new[i].pos) <= Back(d, h.deq) /\ Final(d, new[i].urb) <= Back(d, h.deq)
  /\ \A i, j \in DOMAIN new \ DOMAIN ev :
       i < j /\ new[i].kind = "transfer" /\ new[j].kind = "transfer" =>
         /\ Back(d, new[i].pos) > Back(d, new[j].pos)
         /\ j = i + 1 /\ new[j].code = "ok" /\ new[j].pos = d.td[new[j].urb].last
  /\ \A u \in Listed(d) : Final(d, u) > Back(d, k.deq) /\ Final(d, u) <= Back(d, h.deq) =>
       \E i \in DOMAIN new :
         /\ new[i].kind = "transfer" /\ new[i].code = "ok" /\ new[i].urb = u
         /\ InTd(d, u, new[i].pos) /\ (t = "control" => new[i].pos = d.td[u].last)

\* Nothing is on its way that holds a running endpoint back.
Free(d, ev) ==
  /\ \A i \in DOMAIN d.cmds : d.cmds[i].op # "setdeq" /\ d.cmds[i].op # "reset"
  /\ "SET_DEQ_PENDING" \notin d.ep_state /\ "EP_HALTED" \notin d.ep_state
  /\ \A i \in DOMAIN ev : ~Halts(ev[i])
=============================================================================
