------------------------- MODULE XhciEndpoint_proofs -------------------------
(***************************************************************************)
(* TypeOK; of Covered, FlagsCovered (a pending flag has its command) and    *)
(* CancelledCovered (a cancelled transfer waits for a flag); and, for as    *)
(* long as no command has timed out or failed to be allocated,              *)
(* DequeueSetWhileStopped, RingAgrees, GivenBackUnused, all of Covered and  *)
(* OwnOutcome.  The invariant is that of XhciInvariant.                     *)
(*                                                                          *)
(* TypeInv adds to the types that the completions on their way are among    *)
(* those the controller counts, so that the driver never passes a command   *)
(* that is not there.  PairInv: a handler that clears a flag takes its      *)
(* command off, and one that queues a command raises its flag (Moved,       *)
(* CompletionEffect).  DeqInv follows what the controller does with them: a *)
(* reset that is not obeyed yet finds the endpoint halted, and from the     *)
(* moment a stop or a reset is obeyed until the list is empty the endpoint  *)
(* is stopped, as its doorbell is not rung with a flag up.  WaitInv: a      *)
(* completion deals with every cancelled TD (Dealt), so that either Set TR  *)
(* Dequeue Pointer is pending when it ends or all that was cancelled is     *)
(* given back.                                                              *)
(*                                                                          *)
(* OrderInv: the driver writes at the enqueue pointer, and every other      *)
(* place of the ring is given by its distance behind it.  Writing a slot    *)
(* adds one to all distances (StepIs, MovedTds); the controller and the    *)
(* dequeue pointer only lower their own (RunsRing, SetRing, CompleteRing);  *)
(* cancelling and giving back leave them alone (PlacesKeep, DroppedRing).   *)
(* The cycle bits are a function of the place (Cycled), so that what the    *)
(* controller owns is what lies before it (OwnedIs).  That it never comes   *)
(* past the dequeue pointer to slots in use is the spare slot that          *)
(* xhci_ring_expansion_needed keeps (Roomy); that a completion finds the    *)
(* endpoint where the event left it is what Signalled says of the order of  *)
(* the events.                                                              *)
(*                                                                          *)
(* The lists of TDs are cut with Kept, whose order is that of Sorted: that  *)
(* there is such an order for every set of numbers (Enumerable) is by the   *)
(* least counterexample (LeastNumber), and is all that is said of it.       *)
(***************************************************************************)
EXTENDS XhciInvariant, TLAPS, FiniteSetTheorems, WellFoundedInduction

-----------------------------------------------------------------------------
(* Lists                                                                   *)

\* A set of numbers that is not empty has a least one.
LEMMA LeastNumber ==
  ASSUME NEW T, T \subseteq Nat, T # {}
  PROVE  \E n \in T : \A m \in T : n <= m
<1> DEFINE R == {p \in Nat \X Nat : p[1] < p[2]}
<1>1. IsWellFoundedOn(R, Nat)
  BY NatLessThanWellFounded DEF OpToRel
<1> HIDE DEF R
<1>2. PICK n \in T : \A m \in T : <<m, n>> \notin R
  BY <1>1, WFMin
<1>3. ASSUME NEW m \in T
      PROVE  n <= m
  <2>1. <<m, n>> \in R <=> m < n
    BY DEF R
  <2> QED
    BY <1>2, <2>1
<1> QED
  BY <1>3

\* f lists I in order.
Enumerates(f, I) ==
  /\ f \in [1 .. Cardinality(I) -> I]
  /\ \A j, k \in 1 .. Cardinality(I) : j < k => f[j] < f[k]

\* A set of numbers up to n can be listed in order.
LEMMA Enumerable ==
  ASSUME NEW n \in Nat, NEW I, I \subseteq 1 .. n
  PROVE  \E f : Enumerates(f, I)
<1> DEFINE Listable(m) == \A J \in SUBSET (1 .. m) : \E f : Enumerates(f, J)
           Bad == {m \in Nat : ~Listable(m)}
<1>1. Listable(0)
  <2>1. ASSUME NEW J \in SUBSET (1 .. 0)
        PROVE  Enumerates([k \in 1 .. 0 |-> 0], J)
    <3>1. J = {}
      OBVIOUS
    <3> QED
      BY <3>1, FS_EmptySet DEF Enumerates
  <2> QED
    BY <2>1
<1>2. ASSUME NEW m \in Nat, Listable(m)
      PROVE  Listable(m + 1)
  <2>1. ASSUME NEW J \in SUBSET (1 .. m + 1)
        PROVE  \E f : Enumerates(f, J)
    <3> DEFINE K == J \ {m + 1}
               c == Cardinality(K)
    <3>1. K \in SUBSET (1 .. m)
      OBVIOUS
    <3>2. PICK f : Enumerates(f, K)
      BY <1>2, <3>1
    <3>3. CASE m + 1 \notin J
      BY <3>2, <3>3
    <3>4. CASE m + 1 \in J
      <4>1. IsFiniteSet(1 .. m)
        BY FS_Interval
      <4>2. IsFiniteSet(K)
        BY <3>1, <4>1, FS_Subset
      <4>3. J = K \cup {m + 1} /\ m + 1 \notin K
        BY <3>4
      <4>4. Cardinality(J) = c + 1 /\ c \in Nat
        BY <4>2, <4>3, FS_AddElement, FS_CardinalityType
      <4> DEFINE g == [k \in 1 .. c + 1 |-> IF k = c + 1 THEN m + 1 ELSE f[k]]
      <4> HIDE DEF c
      <4>5. f \in [1 .. c -> K] /\ \A j, k \in 1 .. c : j < k => f[j] < f[k]
        BY <3>2 DEF Enumerates, c
      <4>6. g \in [1 .. c + 1 -> J]
        BY <4>3, <4>4, <4>5
      <4>7. ASSUME NEW j \in 1 .. c + 1, NEW k \in 1 .. c + 1, j < k
            PROVE  g[j] < g[k]
        <5>1. j \in 1 .. c
          BY <4>4, <4>7
        <5>2. f[j] \in 1 .. m
          BY <3>1, <4>5, <5>1
        <5>3. CASE k = c + 1
          BY <4>4, <5>1, <5>2, <5>3
        <5>4. CASE k # c + 1
          BY <4>4, <4>5, <4>7, <5>1, <5>4
        <5> QED
          BY <5>3, <5>4
      <4> QED
        BY <4>4, <4>6, <4>7 DEF Enumerates
    <3> QED
      BY <3>3, <3>4
  <2> QED
    BY <2>1
<1> HIDE DEF Listable
<1>3. Bad = {}
  <2>1. SUFFICES ASSUME Bad # {} PROVE FALSE
    OBVIOUS
  <2>2. PICK m \in Bad : \A k \in Bad : m <= k
    BY <2>1, LeastNumber
  <2> QED
    BY <1>1, <1>2, <2>2
<1>4. Listable(n)
  BY <1>3
<1> QED
  BY <1>4 DEF Listable

\* A list that is cut keeps what is in S, and nothing else.
LEMMA KeptIsPart ==
  ASSUME NEW T, NEW s \in Seq(T), NEW S
  PROVE  /\ Kept(s, S) \in Seq(T)
         /\ ToSet(Kept(s, S)) = ToSet(s) \cap S
<1> DEFINE I == {i \in DOMAIN s : s[i] \in S}
           f == Sorted(I)
           n == Cardinality(I)
<1>1. I \subseteq 1 .. Len(s) /\ Len(s) \in Nat
  OBVIOUS
<1>2. IsFiniteSet(I) /\ n \in Nat
  <2>1. IsFiniteSet(1 .. Len(s))
    BY <1>1, FS_Interval
  <2> QED
    BY <1>1, <2>1, FS_Subset, FS_CardinalityType
<1>3. Enumerates(f, I)
  BY <1>1, Enumerable DEF Enumerates, Sorted
<1> HIDE DEF f, n
<1>4. f \in [1 .. n -> I] /\ \A j, k \in 1 .. n : j < k => f[j] < f[k]
  BY <1>3 DEF Enumerates, n
<1>5. Kept(s, S) = [k \in 1 .. n |-> s[f[k]]]
  BY <1>4 DEF Kept, f
<1>6. f \in Injection(1 .. n, I)
  BY <1>1, <1>2, <1>4 DEF Injection, IsInjective
<1>7. f \in Surjection(1 .. n, I)
  BY <1>2, <1>6, FS_Injection, FS_Interval DEF n
<1>8. \A i \in I : \E k \in 1 .. n : f[k] = i
  BY <1>7 DEF Surjection
<1>9. ASSUME NEW x \in ToSet(Kept(s, S))
      PROVE  x \in ToSet(s) \cap S
  BY <1>2, <1>4, <1>5 DEF ToSet
<1>10. ASSUME NEW x \in ToSet(s) \cap S
       PROVE  x \in ToSet(Kept(s, S))
  BY <1>2, <1>5, <1>8 DEF ToSet
<1> QED
  BY <1>1, <1>2, <1>4, <1>5, <1>9, <1>10
-----------------------------------------------------------------------------
(* The driver's state                                                      *)

\* What each part of it holds.
LEMMA Parts ==
  ASSUME NEW d \in DriverStates
  PROVE  /\ d.trb \in Rings
         /\ d.enqueue \in Slots
         /\ d.dequeue \in Slots
         /\ d.cycle_state \in {0, 1}
         /\ d.td_list \in Seq(Urbs)
         /\ d.cancelled_td_list \in Seq(Urbs)
         /\ d.td \in Tds
         /\ d.ep_state \in SUBSET Flags
         /\ d.err_count \in 0 .. MAX_SOFT_RETRY + 1
         /\ d.queued_deq_ptr \in Slots
         /\ d.cmds \in Seq(Commands)
         /\ d.cmd_ring_state \in {"running", "aborted", "stopped"}
         /\ d.current \in BOOLEAN
         /\ d.timer \in BOOLEAN
         /\ d.dying \in BOOLEAN
         /\ d.log \in Logs
         /\ d.bell \in BOOLEAN
         /\ d.cmd_db \in BOOLEAN
BY DEF DriverStates

\* A part can be replaced by another value of its own: so for each part.
LEMMA New_trb ==
  ASSUME NEW d \in DriverStates, NEW v \in Rings
  PROVE  [d EXCEPT !.trb = v] \in DriverStates
BY DEF DriverStates

LEMMA New_enqueue ==
  ASSUME NEW d \in DriverStates, NEW v \in Slots
  PROVE  [d EXCEPT !.enqueue = v] \in DriverStates
BY DEF DriverStates

LEMMA New_dequeue ==
  ASSUME NEW d \in DriverStates, NEW v \in Slots
  PROVE  [d EXCEPT !.dequeue = v] \in DriverStates
BY DEF DriverStates

LEMMA New_cycle_state ==
  ASSUME NEW d \in DriverStates, NEW v \in {0, 1}
  PROVE  [d EXCEPT !.cycle_state = v] \in DriverStates
BY DEF DriverStates

LEMMA New_td_list ==
  ASSUME NEW d \in DriverStates, NEW v \in Seq(Urbs)
  PROVE  [d EXCEPT !.td_list = v] \in DriverStates
BY DEF DriverStates

LEMMA New_cancelled_td_list ==
  ASSUME NEW d \in DriverStates, NEW v \in Seq(Urbs)
  PROVE  [d EXCEPT !.cancelled_td_list = v] \in DriverStates
BY DEF DriverStates

LEMMA New_td ==
  ASSUME NEW d \in DriverStates, NEW v \in Tds
  PROVE  [d EXCEPT !.td = v] \in DriverStates
BY DEF DriverStates

LEMMA New_ep_state ==
  ASSUME NEW d \in DriverStates, NEW v \in SUBSET Flags
  PROVE  [d EXCEPT !.ep_state = v] \in DriverStates
BY DEF DriverStates

LEMMA New_err_count ==
  ASSUME NEW d \in DriverStates, NEW v \in 0 .. MAX_SOFT_RETRY + 1
  PROVE  [d EXCEPT !.err_count = v] \in DriverStates
BY DEF DriverStates

LEMMA New_queued_deq_ptr ==
  ASSUME NEW d \in DriverStates, NEW v \in Slots
  PROVE  [d EXCEPT !.queued_deq_ptr = v] \in DriverStates
BY DEF DriverStates

LEMMA New_cmds ==
  ASSUME NEW d \in DriverStates, NEW v \in Seq(Commands)
  PROVE  [d EXCEPT !.cmds = v] \in DriverStates
BY DEF DriverStates

LEMMA New_cmd_ring_state ==
  ASSUME NEW d \in DriverStates, NEW v \in {"running", "aborted", "stopped"}
  PROVE  [d EXCEPT !.cmd_ring_state = v] \in DriverStates
BY DEF DriverStates

LEMMA New_current ==
  ASSUME NEW d \in DriverStates, NEW v \in BOOLEAN
  PROVE  [d EXCEPT !.current = v] \in DriverStates
BY DEF DriverStates

LEMMA New_timer ==
  ASSUME NEW d \in DriverStates, NEW v \in BOOLEAN
  PROVE  [d EXCEPT !.timer = v] \in DriverStates
BY DEF DriverStates

LEMMA New_dying ==
  ASSUME NEW d \in DriverStates, NEW v \in BOOLEAN
  PROVE  [d EXCEPT !.dying = v] \in DriverStates
BY DEF DriverStates

LEMMA New_log ==
  ASSUME NEW d \in DriverStates, NEW v \in Logs
  PROVE  [d EXCEPT !.log = v] \in DriverStates
BY DEF DriverStates

LEMMA New_bell ==
  ASSUME NEW d \in DriverStates, NEW v \in BOOLEAN
  PROVE  [d EXCEPT !.bell = v] \in DriverStates
BY DEF DriverStates

LEMMA New_cmd_db ==
  ASSUME NEW d \in DriverStates, NEW v \in BOOLEAN
  PROVE  [d EXCEPT !.cmd_db = v] \in DriverStates
BY DEF DriverStates

-----------------------------------------------------------------------------
(* The ring                                                                *)

\* The ring has slots, and every count of slots comes back into it.
LEMMA RingHasSlots == RingSize \in Nat \ {0} /\ 0 \in Slots
BY RingAssumption DEF RingSize, Slots

\* Whatever is counted modulo the ring is a slot.
LEMMA BackOnTheRing ==
  ASSUME NEW n \in Int
  PROVE  n % RingSize \in Slots
BY RingHasSlots DEF Slots

\* Slots are numbers.
LEMMA SlotsAreNumbers == Slots \subseteq Nat
BY RingHasSlots DEF Slots

\* So is what follows a slot.
LEMMA NextIsSlot ==
  ASSUME NEW p \in Slots
  PROVE  next_trb(p) \in Slots /\ inc_deq(p) \in Slots
<1>1. ASSUME NEW q \in Slots
      PROVE  next_trb(q) \in Slots
  BY SlotsAreNumbers, BackOnTheRing DEF next_trb
<1> QED
  BY <1>1 DEF inc_deq

\* A distance on the ring is less than the ring is long.
LEMMA AheadIsSlot ==
  ASSUME NEW p \in Slots, NEW q \in Slots
  PROVE  Ahead(p, q) \in Slots
BY SlotsAreNumbers, RingHasSlots, BackOnTheRing DEF Ahead

\* The controller stays on the ring.
LEMMA SeenIsSlot ==
  ASSUME hw \in ControllerStates, NEW n \in Nat
  PROVE  Seen(n).pos \in Slots /\ Seen(n).cycle \in {0, 1}
<1>1. \A p \in Slots : p + n \in Int
  BY SlotsAreNumbers
<1> QED
  BY <1>1, BackOnTheRing DEF Seen, ControllerStates

\* The controller that has moved on is a controller.
LEMMA AdvanceType ==
  ASSUME hw \in ControllerStates, NEW n \in Nat
  PROVE  Advance(n) \in ControllerStates
BY SeenIsSlot DEF Advance, ControllerStates

-----------------------------------------------------------------------------
(* What the driver's operators return                                      *)

\* Handing a link over, and writing TRBs.
LEMMA GiveLinkType ==
  ASSUME NEW d \in DriverStates
  PROVE  GiveLink(d) \in DriverStates
<1> DEFINE t == [d.trb EXCEPT ![d.enqueue].cycle = 1 - @]
           y == IF link_trb_toggles_cycle(d.enqueue) THEN 1 - d.cycle_state ELSE d.cycle_state
<1>1. t \in Rings
  BY Parts, NextIsSlot, New_enqueue DEF Rings
<1>2. y \in {0, 1}
  BY Parts
<1>3. GiveLink(d) = [d EXCEPT !.trb = t, !.cycle_state = y, !.enqueue = next_trb(d.enqueue)]
  BY Parts DEF GiveLink
<1> HIDE DEF t, y
<1> QED
  <2> DEFINE e == [d EXCEPT !.trb = t]
             f == [e EXCEPT !.cycle_state = y]
  <2>1. f \in DriverStates
    BY <1>1, <1>2, New_cycle_state, New_trb
  <2>2. GiveLink(d) = [f EXCEPT !.enqueue = next_trb(d.enqueue)]
    BY <1>3
  <2> HIDE DEF f
  <2> QED
    BY <2>1, <2>2, New_enqueue, NextIsSlot, Parts

\* What the driver's operators return is a state of the driver, or of the part
\* they are about: so for each of those called by the handlers.
LEMMA IncEnqType ==
  ASSUME NEW d \in DriverStates, NEW more
  PROVE  inc_enq(d, more) \in DriverStates
<1> DEFINE e == [d EXCEPT !.enqueue = next_trb(@)]
<1> HIDE DEF e
<1> QED
  BY GiveLinkType, NextIsSlot, Parts, New_enqueue DEF inc_enq, e

\* A command just made.
LEMMA CommandType ==
  ASSUME NEW op \in {"stop", "setdeq", "reset"}, NEW ptr \in Slots,
         NEW cycle \in {0, 1}, NEW soft \in BOOLEAN
  PROVE  /\ Command(op, ptr, cycle, soft) \in Commands
         /\ Command(op, ptr, cycle, soft).op = op
         /\ Command(op, ptr, cycle, soft).live
         /\ Command(op, ptr, cycle, soft).status = "none"
BY DEF Command, Commands

LEMMA QueueCommandType ==
  ASSUME NEW d \in DriverStates, NEW c \in Commands
  PROVE  queue_command(d, c) \in DriverStates
<1>1. Append(d.cmds, c) \in Seq(Commands)
  BY Parts
<1> DEFINE none == Live(d) = {}
           cur == d.current \/ none
           tim == d.timer \/ none
           run == d.cmd_ring_state = "running"
<1> HIDE DEF none, cur, tim, run
<1> QED
  BY <1>1, New_cmds, New_current, New_timer, New_cmd_db, Parts DEF queue_command

\* It leaves the ring and the flags alone.
LEMMA QueueCommandFields ==
  ASSUME NEW d \in DriverStates, NEW c, NEW q, q = queue_command(d, c)
  PROVE  /\ q.enqueue = d.enqueue /\ q.dequeue = d.dequeue /\ q.cycle_state = d.cycle_state
         /\ q.trb = d.trb /\ q.td_list = d.td_list /\ q.queued_deq_ptr = d.queued_deq_ptr
         /\ q.cancelled_td_list = d.cancelled_td_list /\ q.td = d.td
         /\ q.cmds = Append(d.cmds, c) /\ q.ep_state = d.ep_state
BY DEF queue_command, DriverStates

\* Where the dequeue pointer is to go is a slot, with a cycle bit.
LEMMA NewDequeueType ==
  ASSUME NEW d \in DriverStates, NEW h \in ControllerStates, NEW u \in Urbs
  PROVE  NewDequeue(d, h, u).ptr \in Slots /\ NewDequeue(d, h, u).cycle \in {0, 1}
BY NextIsSlot, Parts DEF ControllerStates, Tds, NewDequeue

LEMMA MoveDequeueType ==
  ASSUME NEW d \in DriverStates, NEW h \in ControllerStates, NEW u \in Urbs
  PROVE  xhci_move_dequeue_past_td(d, h, u) \in DriverStates
<1> DEFINE new == NewDequeue(d, h, u)
           q == queue_command(d, Command("setdeq", new.ptr, new.cycle, FALSE))
<1>1. new.ptr \in Slots /\ new.cycle \in {0, 1}
  BY NewDequeueType
<1>2. q \in DriverStates
  BY <1>1, CommandType, QueueCommandType
<1>3. xhci_move_dequeue_past_td(d, h, u)
        = [q EXCEPT !.queued_deq_ptr = new.ptr, !.ep_state = @ \cup {"SET_DEQ_PENDING"}]
  BY DEF xhci_move_dequeue_past_td
<1>4. q.ep_state \cup {"SET_DEQ_PENDING"} \in SUBSET Flags
  BY <1>2, Parts DEF Flags
<1> HIDE DEF new, q
<1> QED
  <2> DEFINE e == [q EXCEPT !.queued_deq_ptr = new.ptr]
  <2>1. e \in DriverStates
    BY <1>1, <1>2, New_queued_deq_ptr
  <2>2. xhci_move_dequeue_past_td(d, h, u)
          = [e EXCEPT !.ep_state = q.ep_state \cup {"SET_DEQ_PENDING"}]
    BY <1>3
  <2> HIDE DEF e
  <2> QED
    BY <1>4, <2>1, <2>2, New_ep_state

LEMMA CleanupType ==
  ASSUME NEW d \in DriverStates, NEW u
  PROVE  xhci_td_cleanup(d, u) \in DriverStates
BY KeptIsPart, Parts, New_td_list, New_cancelled_td_list DEF xhci_td_cleanup

LEMMA NoopType ==
  ASSUME NEW d \in DriverStates, NEW us
  PROVE  td_to_noop(d.trb, d, us) \in Rings
<1> DEFINE t(p) == IF \E u \in us : trb_in_td(d, u, p)
                   THEN [d.trb[p] EXCEPT !.urb = NoUrb] ELSE d.trb[p]
<1>1. ASSUME NEW p \in Slots
      PROVE  t(p) \in [cycle : {0, 1}, urb : Urbs \cup {NoUrb}]
  BY Parts DEF Rings
<1> HIDE DEF t
<1> QED
  BY <1>1 DEF td_to_noop, t, Rings

\* What Invalidate makes of the driver before a command is queued.
Marked0(d, cached, ok, keep, tds) ==
  [d EXCEPT
     !.td_list = Kept(@, Urbs \ ToSet(tds)),
     !.log = IF cached = <<>> \/ ok THEN @ ELSE @ \cup {"uncleared"},
     !.trb = td_to_noop(@, d, ToSet(tds)),
     !.td = [u \in Urbs |->
               IF u \notin ToSet(tds) THEN @[u]
               ELSE [@[u] EXCEPT !.cancel_status =
                       IF u = keep THEN "clearing" ELSE "cleared"]]]

LEMMA Marked0Type ==
  ASSUME NEW d \in DriverStates, NEW cached, NEW ok \in BOOLEAN, NEW keep, NEW tds
  PROVE  Marked0(d, cached, ok, keep, tds) \in DriverStates
<1> DEFINE log == IF cached = <<>> \/ ok THEN d.log ELSE d.log \cup {"uncleared"}
           trb == td_to_noop(d.trb, d, ToSet(tds))
           one(u) == IF u \notin ToSet(tds) THEN d.td[u]
                     ELSE [d.td[u] EXCEPT !.cancel_status =
                             IF u = keep THEN "clearing" ELSE "cleared"]
           td == [u \in Urbs |-> one(u)]
           list == Kept(d.td_list, Urbs \ ToSet(tds))
<1>1. list \in Seq(Urbs)
  BY KeptIsPart, Parts
<1>2. log \in Logs
  BY Parts DEF Logs
<1>3. trb \in Rings
  BY NoopType
<1>4. td \in Tds
  <2>1. ASSUME NEW u \in Urbs
        PROVE  one(u) \in [first : Slots, last : Slots,
                 cancel_status : {"dirty", "halted", "clearing", "cleared"}]
    BY Parts DEF Tds
  <2> HIDE DEF one
  <2> QED
    BY <2>1 DEF Tds
<1>5. Marked0(d, cached, ok, keep, tds)
        = [d EXCEPT !.td_list = list, !.log = log, !.trb = trb, !.td = td]
  BY Parts DEF Marked0
<1> HIDE DEF log, trb, td, list
<1> QED
  <2> DEFINE e == [d EXCEPT !.td_list = list]
             f == [e EXCEPT !.log = log]
             g == [f EXCEPT !.trb = trb]
  <2>1. g \in DriverStates
    BY <1>1, <1>2, <1>3, New_trb, New_log, New_td_list
  <2>2. Marked0(d, cached, ok, keep, tds) = [g EXCEPT !.td = td]
    BY <1>5
  <2> HIDE DEF g
  <2> QED
    BY <1>4, <2>1, <2>2, New_td

LEMMA InvalidateType ==
  ASSUME NEW d \in DriverStates, NEW h \in ControllerStates, NEW ok \in BOOLEAN,
         NEW tds \in Seq(Urbs)
  PROVE  Invalidate(d, h, ok, tds) \in DriverStates
<1> DEFINE cached == Kept(tds, {u \in Urbs : \/ d.td[u].cancel_status = "halted"
                                            \/ trb_in_td(d, u, h.deq)})
           keep == IF cached = <<>> \/ ~ok THEN NoUrb ELSE Last(cached)
           e == Marked0(d, cached, ok, keep, tds)
<1>1. cached \in Seq(Urbs)
  BY KeptIsPart
<1> HIDE DEF cached
<1>2. keep \in Urbs \cup {NoUrb}
  BY <1>1 DEF Last
<1>3. e \in DriverStates
  BY Marked0Type
<1>4. Invalidate(d, h, ok, tds)
        = IF "SET_DEQ_PENDING" \in d.ep_state THEN d
          ELSE IF keep = NoUrb THEN e
          ELSE xhci_move_dequeue_past_td(e, h, keep)
  BY DEF Invalidate, Marked0, cached
<1> HIDE DEF keep, e
<1> QED
  BY <1>2, <1>3, <1>4, MoveDequeueType

LEMMA InvalidateCancelledType ==
  ASSUME NEW d \in DriverStates, NEW h \in ControllerStates, NEW ok \in BOOLEAN
  PROVE  xhci_invalidate_cancelled_tds(d, h, ok) \in DriverStates
BY InvalidateType, Parts DEF xhci_invalidate_cancelled_tds

LEMMA GivebackType ==
  ASSUME NEW d \in DriverStates
  PROVE  xhci_giveback_invalidated_tds(d) \in DriverStates
<1> DEFINE l == Kept(d.cancelled_td_list, {u \in Urbs : d.td[u].cancel_status # "cleared"})
<1>1. l \in Seq(Urbs)
  BY KeptIsPart, Parts
<1>2. xhci_giveback_invalidated_tds(d) = [d EXCEPT !.cancelled_td_list = l]
  BY DEF xhci_giveback_invalidated_tds
<1> HIDE DEF l
<1> QED
  BY <1>1, <1>2, New_cancelled_td_list

LEMMA HaltedType ==
  ASSUME NEW d \in DriverStates, NEW u \in Urbs \cup {NoUrb}, NEW soft \in BOOLEAN,
         NEW ok
  PROVE  xhci_handle_halted_endpoint(d, u, soft, ok) \in DriverStates
<1> DEFINE marked == ~soft /\ u # NoUrb /\ u \notin ToSet(d.cancelled_td_list)
           e == IF marked
                THEN [d EXCEPT !.cancelled_td_list = Append(@, u),
                               !.td[u].cancel_status = "halted"]
                ELSE d
           c == Command("reset", 0, 0, soft)
           q == queue_command(e, c)
<1>1. ASSUME u \in Urbs
      PROVE  /\ Append(d.cancelled_td_list, u) \in Seq(Urbs)
             /\ [d.td EXCEPT ![u].cancel_status = "halted"] \in Tds
  <2>1. [d.td EXCEPT ![u].cancel_status = "halted"] \in Tds
    BY <1>1, Parts DEF Tds
  <2> QED
    BY <1>1, <2>1, Parts
<1>2. e \in DriverStates
  <2> DEFINE l == Append(d.cancelled_td_list, u)
             t == [d.td EXCEPT ![u].cancel_status = "halted"]
             f == [d EXCEPT !.cancelled_td_list = l]
  <2>1. CASE u \in Urbs
    BY <1>1, <2>1, New_cancelled_td_list, Parts, New_td DEF DriverStates
  <2>2. CASE u = NoUrb
    BY <2>2
  <2> QED
    BY <2>1, <2>2
<1>3. c \in Commands
  BY RingHasSlots, CommandType
<1> HIDE DEF e, c
<1>4. q \in DriverStates
  BY <1>2, <1>3, QueueCommandType
<1>5. xhci_handle_halted_endpoint(d, u, soft, ok)
        = IF "EP_HALTED" \in d.ep_state \/ ~ok THEN e
          ELSE [q EXCEPT !.ep_state = @ \cup {"EP_HALTED"}]
  BY DEF xhci_handle_halted_endpoint, e, c
<1>6. q.ep_state \cup {"EP_HALTED"} \in SUBSET Flags
  BY <1>4, Parts DEF Flags
<1> HIDE DEF q
<1> QED
  BY <1>2, <1>4, <1>5, <1>6, New_ep_state

LEMMA FindHaltedType ==
  ASSUME NEW d \in DriverStates, NEW h
  PROVE  find_halted_td(d, h) \in Urbs \cup {NoUrb}
BY Parts DEF find_halted_td

LEMMA DoorbellType ==
  ASSUME NEW d \in DriverStates
  PROVE  /\ xhci_ring_ep_doorbell(d) \in DriverStates
         /\ ring_doorbell_for_active_rings(d) \in DriverStates
BY New_bell DEF xhci_ring_ep_doorbell, ring_doorbell_for_active_rings

LEMMA CompleteType ==
  ASSUME NEW d \in DriverStates, NEW u \in Urbs
  PROVE  CompleteTd(d, u) \in DriverStates
<1> DEFINE e == [d EXCEPT !.dequeue = inc_deq(d.td[u].last)]
<1>1. e \in DriverStates
  BY NextIsSlot, New_dequeue, Parts DEF Tds
<1>2. CompleteTd(d, u) = xhci_td_cleanup(e, u)
  BY DEF CompleteTd
<1> HIDE DEF e
<1> QED
  BY <1>1, <1>2, CleanupType

LEMMA FinishType ==
  ASSUME NEW d \in DriverStates, NEW h, NEW u \in Urbs, NEW code \in Codes, NEW ok
  PROVE  finish_td(d, h, u, code, ok) \in DriverStates
BY CompleteType, HaltedType DEF finish_td, Codes

LEMMA BulkType ==
  ASSUME NEW d \in DriverStates, NEW h, NEW u \in Urbs, NEW code \in Codes, NEW ok
  PROVE  process_bulk_intr_td(d, h, u, code, ok) \in DriverStates
<1> DEFINE e == [d EXCEPT !.err_count = 0]
           f == [d EXCEPT !.err_count = d.err_count + 1]
<1>1. e \in DriverStates
  BY New_err_count, RingAssumption
<1>2. d.err_count \in 0 .. MAX_SOFT_RETRY + 1
  BY Parts
<1>3. ASSUME d.err_count <= MAX_SOFT_RETRY
      PROVE  f \in DriverStates
  BY <1>2, <1>3, New_err_count, RingAssumption
<1>4. process_bulk_intr_td(d, h, u, code, ok)
        = CASE code = "ok" -> finish_td(e, h, u, code, ok)
            [] code = "error" /\ d.err_count <= MAX_SOFT_RETRY ->
                 xhci_handle_halted_endpoint(f, u, TRUE, ok)
            [] OTHER -> finish_td(d, h, u, code, ok)
  BY DEF process_bulk_intr_td
<1> HIDE DEF e, f
<1> QED
  BY <1>1, <1>3, <1>4, FinishType, HaltedType

LEMMA ControlType ==
  ASSUME NEW d \in DriverStates, NEW h, NEW u \in Urbs, NEW pos, NEW code \in Codes, NEW ok
  PROVE  process_ctrl_td(d, h, u, pos, code, ok) \in DriverStates
BY FinishType DEF process_ctrl_td

\* Handling a transfer event.
LEMMA TransferEventType ==
  ASSUME NEW d \in DriverStates, NEW h, NEW t, NEW e, e.code \in Codes, NEW ok
  PROVE  handle_tx_event(d, h, t, e, ok) \in DriverStates
<1>1. CASE d.td_list = <<>>
  BY <1>1, HaltedType DEF handle_tx_event
<1>2. CASE d.td_list # <<>>
  <2> DEFINE u == Head(d.td_list)
  <2> HIDE DEF u
  <2> QED
    BY <1>2, ControlType, BulkType, Parts DEF handle_tx_event, u
<1> QED
  BY <1>1, <1>2

LEMMA SettledType ==
  ASSUME NEW d \in DriverStates, NEW h \in ControllerStates, NEW ok \in BOOLEAN
  PROVE  Settled(d, h, ok) \in DriverStates
<1> DEFINE e == xhci_invalidate_cancelled_tds(d, h, ok)
           flags == e.ep_state \ {"EP_STOP_CMD_PENDING"}
           f == [e EXCEPT !.ep_state = flags]
           g == xhci_giveback_invalidated_tds(f)
<1>1. e \in DriverStates
  BY InvalidateCancelledType
<1> HIDE DEF e
<1>2. flags \in SUBSET Flags
  BY <1>1, Parts
<1> HIDE DEF flags
<1>3. f \in DriverStates
  BY <1>1, <1>2, New_ep_state
<1>4. Settled(d, h, ok) = ring_doorbell_for_active_rings(g)
  BY DEF Settled, e, flags
<1> HIDE DEF f
<1>5. g \in DriverStates
  BY <1>3, GivebackType
<1> HIDE DEF g
<1> QED
  BY <1>4, <1>5, DoorbellType

LEMMA StopType ==
  ASSUME NEW d \in DriverStates, NEW h \in ControllerStates, NEW code,
         NEW elapsed, NEW ok \in BOOLEAN
  PROVE  xhci_handle_cmd_stop_ep(d, h, code, elapsed, ok) \in DriverStates
<1> DEFINE done(x) == [x EXCEPT !.ep_state = @ \ {"EP_STOP_CMD_PENDING"}]
           e == xhci_handle_halted_endpoint(d, find_halted_td(d, h), FALSE, ok)
<1>1. ASSUME NEW x \in DriverStates
      PROVE  done(x) \in DriverStates
  BY Parts, New_ep_state
<1>2. e \in DriverStates
  BY FindHaltedType, HaltedType
<1>3. Stop \in Commands
  BY RingHasSlots, CommandType DEF Stop
<1>4. \/ xhci_handle_cmd_stop_ep(d, h, code, elapsed, ok) \in {Settled(d, h, ok), Settled(e, h, TRUE), queue_command(d, Stop)}
      \/ xhci_handle_cmd_stop_ep(d, h, code, elapsed, ok) = done(d)
      \/ xhci_handle_cmd_stop_ep(d, h, code, elapsed, ok) = done(e)
  <2> HIDE DEF done
  <2> QED
    BY DEF xhci_handle_cmd_stop_ep, done
<1> HIDE DEF e, done
<1> QED
  BY <1>1, <1>2, <1>3, <1>4, SettledType, QueueCommandType

LEMMA DequeueSetType ==
  ASSUME NEW d \in DriverStates, NEW h, NEW code
  PROVE  DequeueSet(d, h, code) \in DriverStates
<1> DEFINE m == IF code = "ok" /\ h.deq = d.queued_deq_ptr
                THEN [d EXCEPT !.dequeue = d.queued_deq_ptr] ELSE d
           clearing == {u \in ToSet(d.cancelled_td_list) : d.td[u].cancel_status = "clearing"}
           can == Kept(m.cancelled_td_list, Urbs \ clearing)
           tds == Kept(m.td_list, Urbs \ clearing)
           flags == m.ep_state \ {"SET_DEQ_PENDING"}
           e == [m EXCEPT !.cancelled_td_list = can]
           f == [e EXCEPT !.td_list = tds]
           g == [f EXCEPT !.queued_deq_ptr = 0]
<1>1. m \in DriverStates
  BY Parts, New_dequeue
<1> HIDE DEF m, clearing
<1>2. can \in Seq(Urbs) /\ tds \in Seq(Urbs)
  BY <1>1, Parts, KeptIsPart
<1>3. flags \in SUBSET Flags
  BY <1>1, Parts
<1>4. DequeueSet(d, h, code) = [g EXCEPT !.ep_state = flags]
  BY DEF DequeueSet, m, clearing
<1> HIDE DEF can, tds, flags
<1>5. e \in DriverStates
  BY <1>1, <1>2, New_cancelled_td_list
<1> HIDE DEF e
<1>6. f \in DriverStates
  BY <1>2, <1>5, New_td_list
<1> HIDE DEF f
<1>7. g \in DriverStates
  BY <1>6, RingHasSlots, New_queued_deq_ptr
<1> HIDE DEF g
<1> QED
  BY <1>3, <1>4, <1>7, New_ep_state

LEMMA SetDeqType ==
  ASSUME NEW d \in DriverStates, NEW h \in ControllerStates, NEW code, NEW ok \in BOOLEAN
  PROVE  xhci_handle_cmd_set_deq(d, h, code, ok) \in DriverStates
<1> DEFINE e == DequeueSet(d, h, code)
           f == xhci_invalidate_cancelled_tds(e, h, ok)
           g == ring_doorbell_for_active_rings(f)
<1>1. e \in DriverStates
  BY DequeueSetType
<1>2. xhci_handle_cmd_set_deq(d, h, code, ok) =
        IF e.cancelled_td_list # <<>> THEN xhci_giveback_invalidated_tds(g)
        ELSE ring_doorbell_for_active_rings(e)
  BY DEF xhci_handle_cmd_set_deq
<1> HIDE DEF e
<1>3. f \in DriverStates
  BY <1>1, InvalidateCancelledType
<1> HIDE DEF f
<1>4. g \in DriverStates
  BY <1>3, DoorbellType
<1> HIDE DEF g
<1> QED
  BY <1>1, <1>2, <1>4, DoorbellType, GivebackType

LEMMA ResetType ==
  ASSUME NEW d \in DriverStates, NEW h \in ControllerStates, NEW soft, NEW ok \in BOOLEAN
  PROVE  xhci_handle_cmd_reset_ep(d, h, soft, ok) \in DriverStates
<1> DEFINE e == xhci_invalidate_cancelled_tds(d, h, ok)
           flags == e.ep_state \ {"EP_HALTED"}
           f == [e EXCEPT !.ep_state = flags]
           g == xhci_giveback_invalidated_tds(f)
<1>1. e \in DriverStates
  BY InvalidateCancelledType
<1>2. xhci_handle_cmd_reset_ep(d, h, soft, ok)
        = IF soft THEN ring_doorbell_for_active_rings(g) ELSE g
  BY DEF xhci_handle_cmd_reset_ep
<1> HIDE DEF e
<1>3. flags \in SUBSET Flags
  BY <1>1, Parts
<1> HIDE DEF flags
<1>4. f \in DriverStates
  BY <1>1, <1>3, New_ep_state
<1> HIDE DEF f
<1>5. g \in DriverStates
  BY <1>4, GivebackType
<1> HIDE DEF g
<1> QED
  BY <1>2, <1>5, DoorbellType

LEMMA HandlerType ==
  ASSUME NEW d \in DriverStates, NEW h \in ControllerStates, NEW c, NEW code,
         NEW elapsed, NEW ok \in BOOLEAN
  PROVE  Handler(d, h, c, code, elapsed, ok) \in DriverStates
BY StopType, SetDeqType, ResetType DEF Handler

-----------------------------------------------------------------------------
(* What the handlers do to the commands, the flags and the doorbell        *)

\* A command is queued, and its flag raised with it.
LEMMA QueueFlagged ==
  ASSUME NEW d \in DriverStates, NEW c \in Fresh, NEW v,
         FlagOf(c.op) \notin d.ep_state
  PROVE  Queued(d, [[queue_command(d, c) EXCEPT !.queued_deq_ptr = v]
                      EXCEPT !.ep_state = d.ep_state \cup {FlagOf(c.op)}], c.op)
<1> DEFINE q == queue_command(d, c)
           e == [[q EXCEPT !.queued_deq_ptr = v] EXCEPT !.ep_state = d.ep_state \cup {FlagOf(c.op)}]
<1>1. /\ q.cmds = Append(d.cmds, c) /\ q.ep_state = d.ep_state /\ q.bell = d.bell
      /\ q.dying = d.dying /\ q.cmd_ring_state = d.cmd_ring_state /\ q.log = d.log
  BY DEF queue_command, DriverStates
<1> HIDE DEF q
<1> HIDE DEF e
<1> QED
  BY <1>1, QueueCommandType DEF e, q, Queued, DriverStates, Fresh

\* A command just made is fresh.
LEMMA FreshCommand ==
  ASSUME NEW op \in {"stop", "setdeq", "reset"}, NEW ptr \in Slots,
         NEW cycle \in {0, 1}, NEW soft \in BOOLEAN
  PROVE  /\ Command(op, ptr, cycle, soft) \in Fresh
         /\ Command(op, ptr, cycle, soft).op = op
<1> DEFINE c == Command(op, ptr, cycle, soft)
<1> HIDE DEF c
<1> QED
  BY CommandType DEF c, Fresh

\* So is a Stop Endpoint.
LEMMA StopIsFresh == Stop \in Fresh /\ Stop \in Commands /\ Stop.op = "stop"
BY RingHasSlots, FreshCommand DEF Stop, Fresh

\* A Set TR Dequeue Pointer is queued with its flag.
LEMMA MoveDequeueQueues ==
  ASSUME NEW d \in DriverStates, NEW h \in ControllerStates, NEW u \in Urbs,
         "SET_DEQ_PENDING" \notin d.ep_state
  PROVE  Queued(d, xhci_move_dequeue_past_td(d, h, u), "setdeq")
<1> DEFINE new == NewDequeue(d, h, u)
           c == Command("setdeq", new.ptr, new.cycle, FALSE)
<1>1. c \in Fresh /\ c.op = "setdeq"
  <2>1. new.ptr \in Slots /\ new.cycle \in {0, 1}
    BY NewDequeueType
  <2> HIDE DEF new
  <2> QED
    BY <2>1, FreshCommand
<1>2. xhci_move_dequeue_past_td(d, h, u)
        = [[queue_command(d, c) EXCEPT !.queued_deq_ptr = new.ptr]
             EXCEPT !.ep_state = d.ep_state \cup {"SET_DEQ_PENDING"}]
  <2> DEFINE q == queue_command(d, c)
  <2> HIDE DEF q
  <2> QED
    BY <1>1, QueueCommandType DEF q, xhci_move_dequeue_past_td, DriverStates, Fresh,
      queue_command
<1> HIDE DEF c
<1> DEFINE r == [[queue_command(d, c) EXCEPT !.queued_deq_ptr = new.ptr]
                   EXCEPT !.ep_state = d.ep_state \cup {FlagOf(c.op)}]
<1>3. Queued(d, r, c.op)
  BY <1>1, QueueFlagged DEF FlagOf
<1>4. r = xhci_move_dequeue_past_td(d, h, u)
  BY <1>1, <1>2 DEF FlagOf
<1> HIDE DEF r
<1> QED
  BY <1>1, <1>3, <1>4

\* Marking the cancelled TDs queues nothing.
LEMMA Marked0Same ==
  ASSUME NEW d \in DriverStates, NEW cached, NEW ok \in BOOLEAN, NEW keep, NEW tds
  PROVE  Same(d, Marked0(d, cached, ok, keep, tds))
BY DEF Marked0, Same, DriverStates

\* Looking at the cancelled TDs queues Set TR Dequeue Pointer or nothing.
LEMMA InvalidateEffect ==
  ASSUME NEW d \in DriverStates, NEW h \in ControllerStates, NEW ok \in BOOLEAN
  PROVE  LET e == xhci_invalidate_cancelled_tds(d, h, ok) IN
         Same(d, e) \/ Queued(d, e, "setdeq")
<1> DEFINE tds == d.cancelled_td_list
           cached == Kept(tds, {u \in Urbs : \/ d.td[u].cancel_status = "halted"
                                            \/ trb_in_td(d, u, h.deq)})
           keep == IF cached = <<>> \/ ~ok THEN NoUrb ELSE Last(cached)
           m == Marked0(d, cached, ok, keep, tds)
           e == xhci_invalidate_cancelled_tds(d, h, ok)
<1>1. cached \in Seq(Urbs)
  BY KeptIsPart, Parts
<1>2. e = IF "SET_DEQ_PENDING" \in d.ep_state THEN d
          ELSE IF keep = NoUrb THEN m
          ELSE xhci_move_dequeue_past_td(m, h, keep)
  BY DEF xhci_invalidate_cancelled_tds, Invalidate, Marked0
<1> HIDE DEF cached, e
<1>3. keep \in Urbs \cup {NoUrb}
  BY <1>1 DEF Last
<1>4. m \in DriverStates /\ Same(d, m)
  BY Marked0Type, Marked0Same
<1> HIDE DEF keep, m
<1>5. CASE "SET_DEQ_PENDING" \notin d.ep_state /\ keep # NoUrb
  BY <1>2, <1>3, <1>4, <1>5, MoveDequeueQueues DEF Same, Queued, e
<1> QED
  BY <1>2, <1>4, <1>5 DEF e, Same

\* A halted endpoint is marked and reset once, if there is memory for it.
LEMMA HaltedEffect ==
  ASSUME NEW d \in DriverStates, NEW u \in Urbs \cup {NoUrb}, NEW soft \in BOOLEAN,
         NEW ok \in BOOLEAN
  PROVE  LET e == xhci_handle_halted_endpoint(d, u, soft, ok) IN
         IF "EP_HALTED" \in d.ep_state \/ ~ok THEN Same(d, e) ELSE Queued(d, e, "reset")
<1> DEFINE marked == ~soft /\ u # NoUrb /\ u \notin ToSet(d.cancelled_td_list)
           e == IF marked
                THEN [d EXCEPT !.cancelled_td_list = Append(@, u),
                               !.td[u].cancel_status = "halted"]
                ELSE d
           c == Command("reset", 0, 0, soft)
           q == queue_command(e, c)
           r == xhci_handle_halted_endpoint(d, u, soft, ok)
<1>1. e \in DriverStates
  <2>1. xhci_handle_halted_endpoint(d, u, soft, FALSE) = e
    BY DEF xhci_handle_halted_endpoint
  <2> HIDE DEF e
  <2> QED
    BY <2>1, HaltedType
<1>2. Same(d, e)
  BY DEF Same, DriverStates
<1>3. c \in Fresh /\ c.op = "reset"
  BY RingHasSlots, CommandType DEF Fresh
<1>4. r = IF "EP_HALTED" \in d.ep_state \/ ~ok THEN e
          ELSE [q EXCEPT !.ep_state = q.ep_state \cup {"EP_HALTED"}]
  BY DEF xhci_handle_halted_endpoint
<1> HIDE DEF e, c, r
<1>5. CASE "EP_HALTED" \in d.ep_state \/ ~ok
  BY <1>2, <1>4, <1>5 DEF r
<1>6. CASE ~("EP_HALTED" \in d.ep_state \/ ~ok)
  <2>1. /\ q.cmds = Append(e.cmds, c) /\ q.ep_state = e.ep_state /\ q.bell = e.bell
        /\ q.dying = e.dying /\ q.cmd_ring_state = e.cmd_ring_state /\ q.log = e.log
    BY <1>1 DEF queue_command, DriverStates
  <2> HIDE DEF q
  <2> QED
    BY <1>1, <1>2, <1>3, <1>4, <1>6, <2>1, QueueCommandType DEF r, Same, Queued, FlagOf,
      DriverStates, Fresh
<1> QED
  BY <1>5, <1>6

\* The doorbell is rung only when nothing is pending.
LEMMA DoorbellEffect ==
  ASSUME NEW d \in DriverStates
  PROVE  LET e == xhci_ring_ep_doorbell(d)
             f == ring_doorbell_for_active_rings(d) IN
         /\ e.cmds = d.cmds /\ e.ep_state = d.ep_state /\ e.dying = d.dying
         /\ e.cmd_ring_state = d.cmd_ring_state /\ e.log = d.log
         /\ e.bell => e.ep_state = {}
         /\ f.cmds = d.cmds /\ f.ep_state = d.ep_state /\ f.dying = d.dying
         /\ f.cmd_ring_state = d.cmd_ring_state /\ f.log = d.log
         /\ f.bell => (d.bell \/ f.ep_state = {})
<1> DEFINE e == xhci_ring_ep_doorbell(d)
           none == d.ep_state \cap {"EP_STOP_CMD_PENDING", "SET_DEQ_PENDING", "EP_HALTED"} = {}
<1>1. none => d.ep_state = {}
  BY Parts DEF Flags
<1>2. e = [d EXCEPT !.bell = none]
  BY DEF xhci_ring_ep_doorbell
<1> HIDE DEF none
<1> HIDE DEF e
<1> QED
  BY <1>1, <1>2 DEF e, ring_doorbell_for_active_rings, DriverStates

\* Giving back transfers queues nothing.
LEMMA GivebackSame ==
  ASSUME NEW d \in DriverStates
  PROVE  Same(d, xhci_giveback_invalidated_tds(d))
BY DEF xhci_giveback_invalidated_tds, Same, DriverStates

\* Neither does completing one.
LEMMA CompleteSame ==
  ASSUME NEW d \in DriverStates, NEW u \in Urbs
  PROVE  Same(d, CompleteTd(d, u))
<1> DEFINE e == [d EXCEPT !.dequeue = inc_deq(d.td[u].last)]
<1> HIDE DEF e
<1> QED
  BY NextIsSlot, New_dequeue, Parts DEF Same, xhci_td_cleanup, DriverStates, CompleteTd, Tds

\* A transfer event queues a reset or nothing,
LEMMA FinishEffect ==
  ASSUME NEW d \in DriverStates, NEW h, NEW u \in Urbs, NEW code \in Codes,
         NEW ok \in BOOLEAN
  PROVE  Handles(d, finish_td(d, h, u, code, ok), code)
<1>1. Same(d, CompleteTd(d, u)) /\ Same(d, d)
  BY CompleteSame DEF Same
<1> QED
  BY <1>1, HaltedEffect DEF finish_td, Codes, Handles

\* whatever its type.
LEMMA TransferEventEffect ==
  ASSUME NEW d \in DriverStates, NEW h, NEW t, NEW e, e.code \in Codes, NEW ok \in BOOLEAN
  PROVE  Handles(d, handle_tx_event(d, h, t, e, ok), e.code)
<1>1. Same(d, d)
  BY DEF Same
<1>2. CASE d.td_list = <<>>
  BY <1>1, <1>2, HaltedEffect DEF handle_tx_event, Handles, xhci_halted_host_endpoint
<1>3. CASE d.td_list # <<>>
  <2> DEFINE u == Head(d.td_list)
             c == [d EXCEPT !.err_count = 0]
             f == [d EXCEPT !.err_count = d.err_count + 1]
             b == process_bulk_intr_td(d, h, u, e.code, ok)
  <2>1. u \in Urbs
    BY <1>3, Parts
  <2> HIDE DEF u
  <2>2. MAX_SOFT_RETRY \in Nat /\ d.err_count \in 0 .. MAX_SOFT_RETRY + 1
    BY RingAssumption, Parts
  <2>3. c \in DriverStates /\ (d.err_count <= MAX_SOFT_RETRY => f \in DriverStates)
    BY <2>2, New_err_count
  <2>4. Same(d, c) /\ Same(d, f)
    BY DEF Same, DriverStates
  <2>5. /\ e.code = "ok" => b = finish_td(c, h, u, e.code, ok)
        /\ e.code = "error" /\ d.err_count <= MAX_SOFT_RETRY =>
             b = xhci_handle_halted_endpoint(f, u, TRUE, ok)
        /\ ~ (e.code = "ok" \/ (e.code = "error" /\ d.err_count <= MAX_SOFT_RETRY)) =>
             b = finish_td(d, h, u, e.code, ok)
    BY DEF process_bulk_intr_td
  <2> HIDE DEF c, f, b
  <2>6. ASSUME e.code = "ok"
        PROVE  Handles(d, b, e.code)
    BY <2>1, <2>3, <2>4, <2>5, <2>6, FinishEffect DEF Handles, Same
  <2>7. ASSUME e.code = "error" /\ d.err_count <= MAX_SOFT_RETRY
        PROVE  Handles(d, b, e.code)
    <3>1. \/ Same(f, xhci_handle_halted_endpoint(f, u, TRUE, ok))
          \/ Queued(f, xhci_handle_halted_endpoint(f, u, TRUE, ok), "reset")
      BY <2>1, <2>3, <2>7, HaltedEffect
    <3> QED
      BY <2>4, <2>5, <2>7, <3>1 DEF Handles, Same, Queued
  <2>8. ASSUME ~ (e.code = "ok" \/ (e.code = "error" /\ d.err_count <= MAX_SOFT_RETRY))
        PROVE  Handles(d, b, e.code)
    BY <2>1, <2>5, <2>8, FinishEffect
  <2> QED
    BY <1>1, <1>3, <2>1, <2>6, <2>7, <2>8, FinishEffect DEF handle_tx_event, u, b, Handles,
      process_ctrl_td
<1> QED
  BY <1>2, <1>3

\* A flag is cleared and the doorbell of an endpoint with transfers rung,
\* after a handler that may have queued Set TR Dequeue Pointer.
LEMMA ClearEffect ==
  ASSUME NEW d \in DriverStates, NEW m \in DriverStates,
         Same(d, m) \/ Queued(d, m, "setdeq"),
         NEW f \in {"EP_STOP_CMD_PENDING", "EP_HALTED"}
  PROVE  LET e == [m EXCEPT !.ep_state = m.ep_state \ {f}]
             g == xhci_giveback_invalidated_tds(e) IN
         /\ Effect(d, g, {f}, "setdeq")
         /\ Effect(d, ring_doorbell_for_active_rings(g), {f}, "setdeq")
<1> DEFINE e == [m EXCEPT !.ep_state = m.ep_state \ {f}]
           g == xhci_giveback_invalidated_tds(e)
           r == ring_doorbell_for_active_rings(g)
<1>1. e \in DriverStates
  BY New_ep_state, Parts
<1>2. /\ e.cmds = m.cmds /\ e.ep_state = m.ep_state \ {f} /\ e.bell = m.bell
      /\ e.dying = m.dying /\ e.cmd_ring_state = m.cmd_ring_state /\ e.log = m.log
  BY DEF DriverStates
<1> HIDE DEF e
<1>3. g \in DriverStates /\ Same(e, g)
  BY <1>1, GivebackType, GivebackSame
<1> HIDE DEF g
<1>4. Effect(d, g, {f}, "setdeq")
  BY <1>2, <1>3 DEF Same, Queued, Effect, FlagOf
<1>5. Effect(d, r, {f}, "setdeq")
  BY <1>3, <1>4, DoorbellEffect DEF Effect
<1> QED
  BY <1>4, <1>5 DEF e, g

\* A stop that ends clears its flag, and may queue the pointer's command.
LEMMA SettledEffect ==
  ASSUME NEW d \in DriverStates, NEW h \in ControllerStates, NEW ok \in BOOLEAN
  PROVE  Effect(d, Settled(d, h, ok), {"EP_STOP_CMD_PENDING"}, "setdeq")
<1> DEFINE m == xhci_invalidate_cancelled_tds(d, h, ok)
<1>1. m \in DriverStates /\ (Same(d, m) \/ Queued(d, m, "setdeq"))
  BY InvalidateCancelledType, InvalidateEffect
<1>2. Settled(d, h, ok) = ring_doorbell_for_active_rings(xhci_giveback_invalidated_tds(
                            [m EXCEPT !.ep_state = m.ep_state \ {"EP_STOP_CMD_PENDING"}]))
  BY DEF Settled
<1> HIDE DEF m
<1> QED
  BY <1>1, <1>2, ClearEffect

\* So does a reset.
LEMMA ResetEffect ==
  ASSUME NEW d \in DriverStates, NEW h \in ControllerStates, NEW soft, NEW ok \in BOOLEAN
  PROVE  Effect(d, xhci_handle_cmd_reset_ep(d, h, soft, ok), {"EP_HALTED"}, "setdeq")
<1> DEFINE m == xhci_invalidate_cancelled_tds(d, h, ok)
           g == xhci_giveback_invalidated_tds([m EXCEPT !.ep_state = m.ep_state \ {"EP_HALTED"}])
<1>1. m \in DriverStates /\ (Same(d, m) \/ Queued(d, m, "setdeq"))
  BY InvalidateCancelledType, InvalidateEffect
<1>2. xhci_handle_cmd_reset_ep(d, h, soft, ok)
        = IF soft THEN ring_doorbell_for_active_rings(g) ELSE g
  BY DEF xhci_handle_cmd_reset_ep
<1> HIDE DEF m
<1>3. /\ Effect(d, g, {"EP_HALTED"}, "setdeq")
      /\ Effect(d, ring_doorbell_for_active_rings(g), {"EP_HALTED"}, "setdeq")
  BY <1>1, ClearEffect
<1> HIDE DEF g
<1> QED
  BY <1>2, <1>3

\* So does the pointer's command, which may be queued again.
LEMMA SetDeqEffect ==
  ASSUME NEW d \in DriverStates, NEW h \in ControllerStates, NEW code, NEW ok \in BOOLEAN
  PROVE  Effect(d, xhci_handle_cmd_set_deq(d, h, code, ok), {"SET_DEQ_PENDING"}, "setdeq")
<1> DEFINE e == DequeueSet(d, h, code)
           f == xhci_invalidate_cancelled_tds(e, h, ok)
           g == ring_doorbell_for_active_rings(f)
           r == xhci_giveback_invalidated_tds(g)
<1>1. e \in DriverStates
  BY DequeueSetType
<1>2. /\ e.cmds = d.cmds /\ e.ep_state = d.ep_state \ {"SET_DEQ_PENDING"} /\ e.bell = d.bell
      /\ e.dying = d.dying /\ e.cmd_ring_state = d.cmd_ring_state /\ e.log = d.log
  BY DEF DequeueSet, DriverStates
<1>3. xhci_handle_cmd_set_deq(d, h, code, ok) =
        IF e.cancelled_td_list # <<>> THEN r ELSE ring_doorbell_for_active_rings(e)
  BY DEF xhci_handle_cmd_set_deq
<1> HIDE DEF e
<1>4. f \in DriverStates /\ (Same(e, f) \/ Queued(e, f, "setdeq"))
  BY <1>1, InvalidateCancelledType, InvalidateEffect
<1> HIDE DEF f
<1>5. g \in DriverStates
  BY <1>4, DoorbellType
<1>6. Effect(d, g, {"SET_DEQ_PENDING"}, "setdeq")
  BY <1>2, <1>4, DoorbellEffect DEF Same, Queued, Effect
<1> HIDE DEF g
<1>7. Effect(d, r, {"SET_DEQ_PENDING"}, "setdeq")
  BY <1>5, <1>6, GivebackSame DEF Same, Effect
<1> HIDE DEF r
<1> QED
  BY <1>1, <1>2, <1>3, <1>7, DoorbellEffect DEF Effect

\* A stop: it is settled, or the endpoint turns out to have halted and is
\* reset, or the stop is queued again, or none of this can be allocated.
LEMMA StopEffect ==
  ASSUME NEW d \in DriverStates, NEW h \in ControllerStates, NEW code,
         NEW elapsed \in BOOLEAN, NEW ok \in BOOLEAN
  PROVE  LET r == xhci_handle_cmd_stop_ep(d, h, code, elapsed, ok) IN
         \/ /\ Effect(d, r, {"EP_STOP_CMD_PENDING"}, "setdeq")
            /\ \/ ~ok \/ code # "ctx" \/ r.cmds = d.cmds
               \/ h.state = "stopped" /\ (elapsed \/ "EP_HALTED" \in d.ep_state)
         \/ /\ Effect(d, r, {"EP_STOP_CMD_PENDING"}, "reset")
            /\ h.state = "halted"
         \/ r = queue_command(d, Stop)
<1> DEFINE r == xhci_handle_cmd_stop_ep(d, h, code, elapsed, ok)
           S == "EP_STOP_CMD_PENDING"
           done(x) == [x EXCEPT !.ep_state = @ \ {S}]
           e == xhci_handle_halted_endpoint(d, find_halted_td(d, h), FALSE, ok)
<1>1. ASSUME NEW x \in DriverStates
      PROVE  /\ done(x).cmds = x.cmds /\ done(x).ep_state = x.ep_state \ {S}
             /\ done(x).bell = x.bell /\ done(x).dying = x.dying
             /\ done(x).cmd_ring_state = x.cmd_ring_state /\ done(x).log = x.log
  BY DEF DriverStates
<1>2. e \in DriverStates
  BY FindHaltedType, HaltedType
<1>3. IF "EP_HALTED" \in d.ep_state \/ ~ok THEN Same(d, e) ELSE Queued(d, e, "reset")
  BY FindHaltedType, HaltedEffect
<1>4. r = IF code # "ctx" THEN Settled(d, h, ok)
          ELSE IF h.state = "halted"
          THEN IF "EP_HALTED" \in d.ep_state THEN done(d)
               ELSE IF ok THEN done(e) ELSE Settled(e, h, TRUE)
          ELSE IF \/ h.state = "running"
                  \/ h.state = "stopped" /\ "EP_HALTED" \notin d.ep_state /\ ~elapsed
          THEN IF ok THEN queue_command(d, Stop) ELSE done(d)
          ELSE Settled(d, h, ok)
  BY DEF xhci_handle_cmd_stop_ep
<1> HIDE DEF r, e, done
<1>5. CASE code # "ctx"
  BY <1>4, <1>5, SettledEffect DEF r
<1>6. CASE code = "ctx" /\ h.state = "halted"
  <2>1. CASE "EP_HALTED" \in d.ep_state
    BY <1>1, <1>4, <1>6, <2>1 DEF r, Effect
  <2>2. CASE "EP_HALTED" \notin d.ep_state /\ ok
    BY <1>1, <1>2, <1>3, <1>4, <1>6, <2>2 DEF FlagOf, Effect, Queued, r
  <2>3. CASE "EP_HALTED" \notin d.ep_state /\ ~ok
    <3>1. Same(d, e) /\ Effect(e, Settled(e, h, TRUE), {S}, "setdeq")
      BY <1>2, <1>3, <2>3, SettledEffect
    <3> QED
      BY <1>4, <1>6, <2>3, <3>1 DEF r, Same, Effect
  <2> QED
    BY <2>1, <2>2, <2>3
<1>7. CASE code = "ctx" /\ h.state # "halted"
  BY <1>1, <1>4, <1>7, SettledEffect DEF ControllerStates, r, Effect
<1> QED
  BY <1>5, <1>6, <1>7

-----------------------------------------------------------------------------
(* Completions on the event ring                                           *)

\* The count goes up by one at an event of a command.
LEMMA CountStep ==
  ASSUME NEW s, NEW i \in Nat
  PROVE  /\ CommandsIn(s, i) \in Nat
         /\ CommandsIn(s, 0) = 0
         /\ CommandsIn(s, i + 1)
              = CommandsIn(s, i) + (IF s[i + 1].kind = "command" THEN 1 ELSE 0)
<1> DEFINE A == {j \in 1 .. i : s[j].kind = "command"}
           B == {j \in 1 .. i + 1 : s[j].kind = "command"}
<1>1. IsFiniteSet(1 .. i)
  BY FS_Interval
<1>2. IsFiniteSet(A)
  BY <1>1, FS_Subset
<1>3. Cardinality(A) \in Nat
  BY <1>2, FS_CardinalityType
<1>4. i + 1 \notin A /\ B = IF s[i + 1].kind = "command" THEN A \cup {i + 1} ELSE A
  OBVIOUS
<1>5. CommandsIn(s, i) = Cardinality(A) /\ CommandsIn(s, i + 1) = Cardinality(B)
  BY DEF CommandsIn
<1> HIDE DEF A, B
<1> QED
  BY <1>2, <1>3, <1>4, <1>5, FS_EmptySet, FS_AddElement DEF CommandsIn

\* It never goes down.
LEMMA CountGrows ==
  ASSUME NEW s, NEW i \in Nat, NEW k \in Nat, i <= k
  PROVE  /\ CommandsIn(s, i) <= CommandsIn(s, k)
         /\ i < k /\ s[i + 1].kind = "command" => CommandsIn(s, i) < CommandsIn(s, k)
<1> DEFINE A(n) == {j \in 1 .. n : s[j].kind = "command"}
<1>1. ASSUME NEW n \in Nat, n <= k
      PROVE  CommandsIn(s, n) <= CommandsIn(s, k)
  <2>1. IsFiniteSet(1 .. k)
    BY FS_Interval
  <2> QED
    BY <1>1, <2>1, FS_Subset DEF CommandsIn
<1> QED
  BY <1>1, CountStep

\* An event added at the end changes no count before it.
LEMMA CountAppend ==
  ASSUME NEW T, NEW s \in Seq(T), NEW e, NEW i \in 0 .. Len(s)
  PROVE  CommandsIn(Append(s, e), i) = CommandsIn(s, i)
<1>1. \A j \in 1 .. i : Append(s, e)[j] = s[j]
  OBVIOUS
<1> QED
  BY <1>1 DEF CommandsIn

\* An event taken off the front is one less, if it was a command's.
LEMMA CountTail ==
  ASSUME NEW T, NEW s \in Seq(T), s # <<>>, NEW i \in 0 .. Len(s) - 1
  PROVE  CommandsIn(s, i + 1)
           = CommandsIn(Tail(s), i) + (IF Head(s).kind = "command" THEN 1 ELSE 0)
<1> DEFINE A == {j \in 1 .. i : Tail(s)[j].kind = "command"}
           B == {j \in 2 .. i + 1 : s[j].kind = "command"}
           C == {j \in 1 .. i + 1 : s[j].kind = "command"}
           f == [j \in A |-> j + 1]
<1>1. i \in Nat /\ Len(s) \in Nat \ {0}
  OBVIOUS
<1>2. IsFiniteSet(1 .. i)
  BY <1>1, FS_Interval
<1>3. IsFiniteSet(A)
  BY <1>2, FS_Subset
<1>4. f \in Bijection(A, B)
  <2>1. f \in [A -> B]
    BY <1>1
  <2>2. \A a, b \in A : f[a] = f[b] => a = b
    OBVIOUS
  <2>3. \A b \in B : \E a \in A : f[a] = b
    <3> TAKE b \in B
    <3>1. b - 1 \in A /\ f[b - 1] = b
      BY <1>1
    <3> QED
      BY <3>1
  <2> QED
    BY <2>1, <2>2, <2>3 DEF Bijection, Injection, Surjection, IsInjective
<1>5. IsFiniteSet(B) /\ Cardinality(B) = Cardinality(A)
  BY <1>3, <1>4, FS_Bijection DEF ExistsBijection
<1>6. 1 \notin B /\ C = IF Head(s).kind = "command" THEN B \cup {1} ELSE B
  BY <1>1
<1>7. CommandsIn(Tail(s), i) = Cardinality(A) /\ CommandsIn(s, i + 1) = Cardinality(C)
  BY DEF CommandsIn
<1> HIDE DEF A, B, C
<1>8. Cardinality(B \cup {1}) = Cardinality(B) + 1
  BY <1>5, <1>6, FS_AddElement
<1>9. Cardinality(A) \in Nat
  BY <1>3, FS_CardinalityType
<1> QED
  BY <1>5, <1>6, <1>7, <1>8, <1>9

-----------------------------------------------------------------------------
(* Type correctness                                                        *)

\* No handler of a completion does more than that.
LEMMA HandlerCommands ==
  ASSUME NEW d \in DriverStates, NEW h \in ControllerStates, NEW c, NEW code,
         NEW elapsed \in BOOLEAN, NEW ok \in BOOLEAN
  PROVE  AddsOne(d, Handler(d, h, c, code, elapsed, ok))
<1> DEFINE e == Handler(d, h, c, code, elapsed, ok)
           q == queue_command(d, Stop)
<1>1. q.cmds = Append(d.cmds, Stop) /\ q.log = d.log
  BY DEF queue_command, DriverStates
<1> HIDE DEF q
<1>2. CASE c.op = "stop"
  <2>1. e = xhci_handle_cmd_stop_ep(d, h, code, elapsed, ok)
    BY <1>2 DEF Handler
  <2> HIDE DEF e
  <2>2. \/ Effect(d, e, {"EP_STOP_CMD_PENDING"}, "setdeq")
        \/ Effect(d, e, {"EP_STOP_CMD_PENDING"}, "reset")
        \/ e = q
    BY <2>1, StopEffect DEF q
  <2> QED
    BY <1>1, <2>2, StopIsFresh DEF Effect, AddsOne, e
<1>3. CASE c.op = "setdeq"
  <2> HIDE DEF e
  <2> QED
    BY <1>3, SetDeqEffect DEF Effect, AddsOne, e, Handler
<1>4. CASE c.op = "reset"
  <2> HIDE DEF e
  <2> QED
    BY <1>4, ResetEffect DEF Effect, AddsOne, e, Handler
<1>5. CASE c.op \notin {"stop", "setdeq", "reset"}
  BY <1>5 DEF Handler, AddsOne
<1> QED
  BY <1>2, <1>3, <1>4, <1>5

\* A completion takes its command off the list, if it is still there.
LEMMA CompletionType ==
  ASSUME NEW d \in DriverStates, d.cmds # <<>>, HasCurrent(d),
         NEW h \in ControllerStates, NEW code, NEW elapsed \in BOOLEAN, NEW ok \in BOOLEAN
  PROVE  LET r == handle_cmd_completion(d, h, code, elapsed, ok) IN
         /\ r \in DriverStates /\ HasCurrent(r) /\ d.log \subseteq r.log
         /\ Len(r.cmds) >= Len(d.cmds) - (IF Head(d.cmds).live THEN 1 ELSE 0)
<1> DEFINE r == handle_cmd_completion(d, h, code, elapsed, ok)
           c == Head(d.cmds)
           off == [d EXCEPT !.timer = FALSE]
           st == IF code = "aborted" THEN [off EXCEPT !.cmd_ring_state = "stopped"] ELSE off
           a == Handler(st, h, c, code, elapsed, ok)
           more == Cardinality(Live(a)) > 1
           missed == [off EXCEPT !.cmds = [d.cmds EXCEPT ![1].status = "missed"]]
           dropped == [[st EXCEPT !.current = FALSE] EXCEPT !.cmds = Tail(d.cmds)]
           passed == [[[a EXCEPT !.current = more] EXCEPT !.timer = more] EXCEPT !.cmds = Tail(a.cmds)]
<1>1. d.cmds \in Seq(Commands) /\ Len(d.cmds) \in Nat \ {0}
  BY Parts
<1>2. off \in DriverStates /\ off.cmds = d.cmds /\ off.current = d.current /\ off.log = d.log
  BY New_timer DEF DriverStates
<1>3. st \in DriverStates /\ st.cmds = d.cmds /\ st.log = d.log
  <2> HIDE DEF off
  <2> QED
    BY <1>2, New_cmd_ring_state DEF DriverStates
<1>4. r = IF ~c.live THEN IF c.status = "missed" THEN d ELSE missed
          ELSE IF code = "aborted" /\ c.status = "aborted" THEN dropped
          ELSE passed
  <2> DEFINE s2 == [st EXCEPT !.current = FALSE]
             a2 == [[a EXCEPT !.current = more] EXCEPT !.timer = more]
  <2> HIDE DEF a, more
  <2> HIDE DEF st, off
  <2> QED
    BY <1>2, <1>3, HandlerType DEF handle_cmd_completion, off, st, a, more, DriverStates
<1> HIDE DEF r, c
<1>5. /\ missed \in DriverStates /\ Len(missed.cmds) = Len(d.cmds) /\ HasCurrent(missed)
      /\ missed.log = d.log
  <2> DEFINE l == [d.cmds EXCEPT ![1].status = "missed"]
  <2>1. /\ l \in Seq(Commands) /\ Len(l) = Len(d.cmds)
        /\ \A i \in DOMAIN d.cmds : i \in DOMAIN l /\ l[i].live = d.cmds[i].live
    <3> DEFINE n == [d.cmds[1] EXCEPT !.status = "missed"]
    <3>1. d.cmds[1] \in Commands
      BY <1>1
    <3>2. n \in Commands /\ n.live = d.cmds[1].live
      BY <3>1 DEF Commands
    <3>3. l = [d.cmds EXCEPT ![1] = n]
      OBVIOUS
    <3> HIDE DEF n, l
    <3> QED
      BY <1>1, <3>2, <3>3
  <2> HIDE DEF l, off
  <2>2. [off EXCEPT !.cmds = l] \in DriverStates
    BY <1>2, <2>1, New_cmds
  <2> DEFINE m == [off EXCEPT !.cmds = l]
  <2> HIDE DEF m
  <2>3. m = missed
    BY DEF m, l
  <2> HIDE DEF missed
  <2> QED
    BY <1>2, <2>1, <2>2, <2>3 DEF HasCurrent, m, DriverStates
<1>6. /\ dropped \in DriverStates /\ Len(dropped.cmds) = Len(d.cmds) - 1 /\ HasCurrent(dropped)
      /\ dropped.log = d.log
  <2> DEFINE s2 == [st EXCEPT !.current = FALSE]
  <2> HIDE DEF st
  <2>1. Tail(d.cmds) \in Seq(Commands) /\ Len(Tail(d.cmds)) = Len(d.cmds) - 1
    BY <1>1
  <2> HIDE DEF s2
  <2> QED
    BY <1>3, <2>1, New_cmds, New_current DEF s2, HasCurrent, DriverStates
<1>7. /\ passed \in DriverStates /\ Len(passed.cmds) >= Len(d.cmds) - 1 /\ HasCurrent(passed)
      /\ d.log \subseteq passed.log
  <2> HIDE DEF st
  <2>1. a \in DriverStates
    BY <1>3, HandlerType
  <2>2. /\ a.cmds = d.cmds \/ \E n \in Fresh : a.cmds = Append(d.cmds, n)
        /\ d.log \subseteq a.log
    <3>1. AddsOne(st, a)
      BY <1>3, HandlerCommands
    <3> HIDE DEF a
    <3> QED
      BY <1>3, <3>1 DEF AddsOne
  <2> DEFINE a1 == [a EXCEPT !.current = more]
             a2 == [a1 EXCEPT !.timer = more]
             l == Tail(a.cmds)
  <2>3. more \in BOOLEAN
    OBVIOUS
  <2> HIDE DEF a
  <2>4. ASSUME more
        PROVE  \E i \in DOMAIN l : l[i].live
    <3>1. \E i \in Live(a) : i # 1
      <4>1. ASSUME Live(a) \subseteq {1} PROVE FALSE
        <5>1. Cardinality({1}) = 1 /\ IsFiniteSet({1})
          BY FS_Singleton
        <5> QED
          BY <2>4, <4>1, <5>1, FS_Subset, FS_CardinalityType
      <4> QED
        BY <4>1
    <3>2. PICK i \in DOMAIN a.cmds : a.cmds[i].live /\ i # 1
      BY <3>1 DEF Live
    <3> DEFINE c1 == a.cmds
               j == i - 1
    <3>3. j \in 1 .. Len(c1) - 1 /\ j + 1 = i /\ c1 \in Seq(Commands) /\ c1 # <<>>
      BY <1>1, <2>1, <2>2, <3>2, Parts
    <3> HIDE DEF c1, j
    <3>4. j \in DOMAIN Tail(c1) /\ Tail(c1)[j] = c1[j + 1]
      BY <3>3
    <3> QED
      BY <3>2, <3>3, <3>4 DEF c1
  <2> HIDE DEF more
  <2>5. l \in Seq(Commands) /\ Len(l) >= Len(d.cmds) - 1
    BY <1>1, <2>1, <2>2, Parts
  <2>6. a1 \in DriverStates /\ a1.current = more /\ a1.log = a.log
    BY <2>1, <2>3, New_current DEF DriverStates
  <2> HIDE DEF a1
  <2>7. a2 \in DriverStates /\ a2.current = more /\ a2.log = a.log
    BY <2>3, <2>6, New_timer DEF DriverStates
  <2> HIDE DEF a2, l
  <2> DEFINE p == [a2 EXCEPT !.cmds = l]
  <2> HIDE DEF p
  <2>8. p = passed
    BY DEF p, a1, a2, l
  <2> HIDE DEF passed
  <2> QED
    BY <2>2, <2>4, <2>5, <2>7, <2>8, New_cmds DEF HasCurrent, p, DriverStates
<1> HIDE DEF missed, dropped, passed
<1>8. CASE c.live
  BY <1>1, <1>4, <1>5, <1>6, <1>7, <1>8 DEF r, c
<1>9. CASE ~c.live
  BY <1>1, <1>4, <1>5, <1>6, <1>7, <1>9 DEF r, c
<1> QED
  BY <1>8, <1>9

\* The driver's new state is committed: its doorbells are rung, and the
\* completed commands are no longer counted.
LEMMA CommitType ==
  ASSUME TypeInv, NEW d \in DriverStates, NEW passed \in {0, 1},
         passed <= cmdhw.done, cmdhw.done - passed <= Len(d.cmds),
         Commit(d, passed)
  PROVE  /\ drv' \in DriverStates /\ hw' \in ControllerStates
         /\ cmdhw' \in [run : BOOLEAN, done : 0 .. Len(drv.cmds')]
         /\ drv.cmds' = d.cmds /\ drv.bell' = FALSE /\ drv.dying' = d.dying
         /\ drv.ep_state' = d.ep_state /\ drv.log' = d.log
         /\ drv.cmd_ring_state' = d.cmd_ring_state /\ drv.current' = d.current
         /\ cmdhw.done' = cmdhw.done - passed
<1> DEFINE e == [d EXCEPT !.bell = FALSE]
           f == [e EXCEPT !.cmd_db = FALSE]
           db == hw.db \/ (d.bell /\ hw.state = "stopped")
           run == cmdhw.run \/ d.cmd_db
<1>1. e \in DriverStates
  BY New_bell
<1>2. e.bell = FALSE /\ e.cmds = d.cmds /\ e.dying = d.dying /\ e.ep_state = d.ep_state
      /\ e.log = d.log /\ e.cmd_ring_state = d.cmd_ring_state /\ e.current = d.current
  BY DEF DriverStates
<1>3. drv' = f /\ hw' = [hw EXCEPT !.db = db]
      /\ cmdhw' = [run |-> run, done |-> cmdhw.done - passed]
  BY DEF Commit
<1> HIDE DEF e
<1>4. f \in DriverStates
  BY <1>1, New_cmd_db
<1>5. f.bell = e.bell /\ f.cmds = e.cmds /\ f.dying = e.dying /\ f.ep_state = e.ep_state
      /\ f.log = e.log /\ f.cmd_ring_state = e.cmd_ring_state /\ f.current = e.current
  BY <1>1 DEF DriverStates
<1> HIDE DEF f
<1>6. db \in BOOLEAN /\ run \in BOOLEAN
  OBVIOUS
<1>7. cmdhw.done - passed \in 0 .. Len(d.cmds)
  BY Parts DEF TypeInv, TypeOK
<1> HIDE DEF db, run
<1> QED
  BY <1>2, <1>3, <1>4, <1>5, <1>6, <1>7 DEF TypeInv, TypeOK, ControllerStates

\* Submission.
LEMMA SubmissionType ==
  ASSUME TypeInv
  PROVE  /\ \A u \in Urbs, n \in Sizes : prepare_transfer(u, n) => TypeInv'
         /\ queue_trb => TypeInv'
         /\ giveback_first_trb => TypeInv'
<1>1. /\ drv \in DriverStates /\ hw \in ControllerStates
      /\ submit \in [urb : Urbs \cup {NoUrb}, left : Nat, start : Slots, cycle : {0, 1}]
  BY DEF TypeInv, TypeOK
<1>2. ASSUME NEW u \in Urbs, NEW n \in Sizes, prepare_transfer(u, n)
      PROVE  TypeInv'
  <2> DEFINE d == prepare_ring(drv)
             l == Append(d.td_list, u)
             t == [d.td EXCEPT ![u] = [first |-> d.enqueue, last |-> d.enqueue,
                                       cancel_status |-> "dirty"]]
             e == [d EXCEPT !.td_list = l]
             f == [e EXCEPT !.td = t]
  <2>1. d \in DriverStates /\ d.cmds = drv.cmds /\ d.bell = drv.bell /\ d.dying = drv.dying
        /\ d.current = drv.current
    <3>1. GiveLink(drv) \in DriverStates
      BY <1>1, GiveLinkType
    <3> QED
      BY <1>1, <3>1 DEF prepare_ring, GiveLink, DriverStates
  <2> HIDE DEF d
  <2>2. l \in Seq(Urbs) /\ t \in Tds /\ d.enqueue \in Slots /\ d.cycle_state \in {0, 1}
    BY <2>1, Parts DEF Tds
  <2>3. e \in DriverStates
    BY <2>1, <2>2, New_td_list
  <2>4. e.cmds = d.cmds /\ e.bell = d.bell /\ e.dying = d.dying /\ e.td = d.td
        /\ e.current = d.current
    BY <2>1 DEF DriverStates
  <2>5. drv' = f
    BY <1>2, <2>4 DEF prepare_transfer, d
  <2> HIDE DEF e, t
  <2>6. f \in DriverStates
    BY <2>2, <2>3, New_td
  <2>7. drv' \in DriverStates /\ drv.cmds' = drv.cmds /\ drv.bell' = FALSE
        /\ drv.dying' = FALSE /\ drv.current' = drv.current
    BY <1>2, <2>1, <2>3, <2>4, <2>5, <2>6 DEF prepare_transfer, TypeInv, StepInv, Unlocked,
      DriverStates
  <2> QED
    BY <1>2, <2>2, <2>7, RingAssumption DEF prepare_transfer, TypeInv, TypeOK, CountInv,
      StepInv, HasCurrent, d
<1>3. ASSUME queue_trb
      PROVE  TypeInv'
  <2> DEFINE first == drv.enqueue = submit.start
             cycle == IF first THEN 1 - submit.cycle ELSE drv.cycle_state
             r == [drv.trb EXCEPT ![drv.enqueue] = [cycle |-> cycle, urb |-> submit.urb]]
             t == [drv.td EXCEPT ![submit.urb].last = drv.enqueue]
             e == [drv EXCEPT !.trb = r]
             f == [e EXCEPT !.td = t]
             more == submit.left > 1
             g == inc_enq(f, more)
  <2>1. submit.urb \in Urbs /\ submit.left \in Nat /\ submit.left > 0
    BY <1>1, <1>3 DEF queue_trb, Holding
  <2>2. drv.trb \in Rings /\ drv.td \in Tds /\ drv.enqueue \in Slots /\ drv.cycle_state \in {0, 1}
    BY <1>1, Parts
  <2>3. cycle \in {0, 1}
    BY <1>1, <2>2
  <2> HIDE DEF cycle
  <2>4. r \in Rings /\ t \in Tds
    BY <2>1, <2>2, <2>3 DEF Rings, Tds
  <2>5. drv' = g
    BY <1>1, <1>3 DEF queue_trb, cycle, DriverStates
  <2> HIDE DEF r, t, more
  <2>6. e \in DriverStates /\ e.cmds = drv.cmds /\ e.bell = drv.bell /\ e.dying = drv.dying
        /\ e.current = drv.current
    BY <1>1, <2>4, New_trb DEF DriverStates
  <2> HIDE DEF e
  <2>7. f \in DriverStates /\ f.cmds = drv.cmds /\ f.bell = drv.bell /\ f.dying = drv.dying
        /\ f.current = drv.current
    BY <2>4, <2>6, New_td DEF DriverStates
  <2> HIDE DEF f
  <2>8. g \in DriverStates
    BY <2>7, IncEnqType
  <2>9. g.cmds = f.cmds /\ g.bell = f.bell /\ g.dying = f.dying /\ g.current = f.current
    <3> DEFINE k == [f EXCEPT !.enqueue = next_trb(@)]
    <3>1. k \in DriverStates
      BY <2>7, NextIsSlot, Parts, New_enqueue
    <3>2. k.cmds = f.cmds /\ k.bell = f.bell /\ k.dying = f.dying /\ k.current = f.current
      BY <2>7 DEF DriverStates
    <3>3. g = GiveLink(k) \/ g = k
      BY DEF inc_enq
    <3> HIDE DEF k, g
    <3> QED
      BY <3>1, <3>2, <3>3 DEF GiveLink, DriverStates
  <2> QED
    BY <1>1, <1>3, <2>1, <2>5, <2>7, <2>8, <2>9 DEF queue_trb, TypeInv, TypeOK, CountInv,
      StepInv, Holding, HasCurrent
<1>4. ASSUME giveback_first_trb
      PROVE  TypeInv'
  <2> DEFINE r == [drv.trb EXCEPT ![submit.start].cycle = submit.cycle]
             d == [drv EXCEPT !.trb = r]
             e == xhci_ring_ep_doorbell(d)
  <2>1. r \in Rings
    BY <1>1, Parts DEF Rings
  <2>2. Commit(e, 0)
    BY <1>4 DEF giveback_first_trb
  <2> HIDE DEF r
  <2>3. d \in DriverStates /\ d.cmds = drv.cmds /\ d.dying = drv.dying /\ d.current = drv.current
    BY <1>1, <2>1, New_trb DEF DriverStates
  <2> HIDE DEF d
  <2>4. e \in DriverStates /\ e.cmds = drv.cmds /\ e.dying = drv.dying /\ e.current = drv.current
    <3>1. e.current = d.current
      BY <2>3 DEF xhci_ring_ep_doorbell, DriverStates
    <3> QED
      BY <2>3, <3>1, DoorbellType, DoorbellEffect
  <2> HIDE DEF e
  <2>5. 0 <= cmdhw.done /\ cmdhw.done - 0 <= Len(e.cmds) /\ cmdhw.done - 0 = cmdhw.done
    BY <1>1, <2>4, Parts DEF TypeInv, TypeOK
  <2> QED
    BY <1>4, <2>2, <2>4, <2>5, RingHasSlots, CommitType DEF giveback_first_trb, TypeInv,
      TypeOK, CountInv, StepInv, Holding, NotSubmitting, HasCurrent
<1> QED
  BY <1>2, <1>3, <1>4

\* A commit that leaves everything but the driver and its doorbells alone.
LEMMA PlainCommit ==
  ASSUME TypeInv, NEW d \in DriverStates, Len(d.cmds) >= Len(drv.cmds), HasCurrent(d),
         Commit(d, 0), UNCHANGED <<submit, events, type>>, ~Holding,
         worker' \in [pc : {"idle", "due", "wait"}, stopped : BOOLEAN, mute : BOOLEAN],
         left' \in [Faults -> Nat]
  PROVE  TypeInv'
<1>1. 0 <= cmdhw.done /\ cmdhw.done - 0 <= Len(d.cmds) /\ cmdhw.done - 0 = cmdhw.done
  BY Parts DEF TypeInv, TypeOK
<1> QED
  BY <1>1, CommitType DEF TypeInv, TypeOK, CountInv, StepInv, Holding, HasCurrent

\* A cancellation keeps the invariant.
LEMMA UnlinkType ==
  ASSUME TypeInv, NEW u \in Urbs, xhci_urb_dequeue(u)
  PROVE  TypeInv'
<1> DEFINE halted == u \in ToSet(drv.cancelled_td_list)
           l == Append(drv.cancelled_td_list, u)
           t == [drv.td EXCEPT ![u].cancel_status = "dirty"]
           e == [drv EXCEPT !.cancelled_td_list = l]
           f == [e EXCEPT !.td = t]
           d == IF halted THEN drv ELSE f
           q == queue_command(d, Stop)
           r == [q EXCEPT !.ep_state = q.ep_state \cup {"EP_STOP_CMD_PENDING"}]
<1>1. drv \in DriverStates
  BY DEF TypeInv, TypeOK
<1>2. l \in Seq(Urbs) /\ t \in Tds
  BY <1>1, Parts DEF Tds
<1>3. Commit(IF drv.ep_state # {} THEN d ELSE r, 0)
  BY <1>1 DEF xhci_urb_dequeue, DriverStates
<1> HIDE DEF l, t
<1>4. e \in DriverStates /\ e.cmds = drv.cmds /\ e.current = drv.current
  BY <1>1, <1>2, New_cancelled_td_list DEF DriverStates
<1> HIDE DEF e
<1>5. f \in DriverStates /\ f.cmds = drv.cmds /\ f.current = drv.current
  BY <1>2, <1>4, New_td DEF DriverStates
<1> HIDE DEF f, halted
<1>6. d \in DriverStates /\ d.cmds = drv.cmds /\ d.current = drv.current
  BY <1>1, <1>5
<1> HIDE DEF d
<1>7. q \in DriverStates /\ q.cmds = Append(d.cmds, Stop)
  <2>1. q \in DriverStates
    BY <1>6, QueueCommandType, StopIsFresh
  <2> QED
    BY <1>6, <2>1 DEF queue_command, DriverStates
<1> HIDE DEF q
<1>8. r \in DriverStates /\ r.cmds = q.cmds
  BY <1>7, Parts, New_ep_state DEF Flags, DriverStates
<1> HIDE DEF r
<1>9. drv.cmds \in Seq(Commands)
  BY <1>1, Parts
<1>10. Len(d.cmds) >= Len(drv.cmds) /\ Len(r.cmds) >= Len(drv.cmds)
  BY <1>6, <1>7, <1>8, <1>9
<1>11. HasCurrent(d) /\ HasCurrent(r)
  BY <1>6, <1>7, <1>8, <1>9 DEF TypeInv, HasCurrent, Stop, Command
<1> DEFINE z == IF drv.ep_state # {} THEN d ELSE r
<1> HIDE DEF z
<1> QED
  BY <1>3, <1>6, <1>8, <1>10, <1>11, PlainCommit DEF xhci_urb_dequeue, TypeInv, TypeOK,
    Unlocked

\* One event.
EventOK(e) ==
  /\ e.kind \in {"transfer", "command", "ring_stopped"}
  /\ e.kind = "transfer" => e.code \in Codes

\* The parts of an event.
LEMMA EventParts ==
  ASSUME NEW e \in Events
  PROVE  EventOK(e)
BY DEF Events, EventOK

\* The event handler returns a driver.
LEMMA HandledType ==
  ASSUME TypeInv, events # <<>>, NEW elapsed \in BOOLEAN, NEW ok \in BOOLEAN
  PROVE  /\ Handled(Head(events), elapsed, ok) \in DriverStates
         /\ HasCurrent(Handled(Head(events), elapsed, ok))
         /\ drv.log \subseteq Handled(Head(events), elapsed, ok).log
         /\ Passed \in {0, 1} /\ Passed <= cmdhw.done
         /\ cmdhw.done - Passed <= Len(Handled(Head(events), elapsed, ok).cmds)
         /\ CommandsIn(Tail(events), Len(Tail(events))) <= cmdhw.done - Passed
<1> DEFINE e == Head(events)
           r == Handled(e, elapsed, ok)
           n == CommandsIn(events, Len(events))
           m == CommandsIn(Tail(events), Len(Tail(events)))
<1>1. /\ drv \in DriverStates /\ hw \in ControllerStates /\ events \in Seq(Events)
      /\ cmdhw.done \in 0 .. Len(drv.cmds) /\ drv.cmds \in Seq(Commands) /\ Len(drv.cmds) \in Nat
      /\ HasCurrent(drv)
  BY Parts DEF TypeInv, TypeOK
<1>2. e \in Events /\ EventOK(e)
  BY <1>1, EventParts
<1>3. n <= cmdhw.done
  BY DEF TypeInv, CountInv
<1>4. n = m + (IF e.kind = "command" THEN 1 ELSE 0)
  BY <1>1, CountTail
<1>5. m \in Nat /\ n \in Nat
  BY <1>1, CountStep
<1> HIDE DEF e, n, m
<1>6. CASE e.kind = "command"
  <2>1. cmdhw.done >= 1 /\ drv.cmds # <<>> /\ m <= cmdhw.done - 1
    BY <1>1, <1>3, <1>4, <1>5, <1>6
  <2>2. r = handle_cmd_completion(drv, hw, e.code, elapsed, ok)
    BY <1>6 DEF Handled
  <2> HIDE DEF r
  <2>3. /\ r \in DriverStates /\ HasCurrent(r) /\ drv.log \subseteq r.log
        /\ Len(r.cmds) >= Len(drv.cmds) - (IF Head(drv.cmds).live THEN 1 ELSE 0)
    BY <1>1, <2>1, <2>2, CompletionType
  <2> HIDE DEF Passed
  <2>4. Passed \in {0, 1} /\ Len(r.cmds) >= Len(drv.cmds) - Passed
    BY <1>6, <2>3 DEF Passed, e
  <2> QED
    BY <1>1, <1>5, <2>1, <2>3, <2>4, Parts DEF r, e, m
<1>7. CASE e.kind = "transfer"
  <2>1. r = handle_tx_event(drv, hw, type, e, ok)
    BY <1>7 DEF Handled
  <2> HIDE DEF r
  <2>2. r \in DriverStates /\ Handles(drv, r, e.code)
    BY <1>1, <1>2, <1>7, <2>1, TransferEventType, TransferEventEffect DEF EventOK
  <2>3. HasCurrent(r)
    <3>1. CASE Same(drv, r)
      BY <1>1, <3>1 DEF Same, HasCurrent
    <3>2. CASE Queued(drv, r, "reset")
      BY <1>1, <3>2 DEF Queued, Fresh, HasCurrent
    <3> QED
      BY <2>2, <3>1, <3>2 DEF Handles
  <2> QED
    BY <1>1, <1>3, <1>4, <1>5, <1>7, <2>2, <2>3, Parts DEF r, e, m, Passed, Handles, Same,
      Queued
<1>8. CASE e.kind = "ring_stopped"
  <2> HIDE DEF r
  <2> QED
    BY <1>1, <1>3, <1>4, <1>5, <1>8 DEF r, e, m, Passed, Handled
<1> QED
  BY <1>2, <1>6, <1>7, <1>8 DEF EventOK

\* A budget is spent.
LEMMA SpendType ==
  ASSUME left \in [Faults -> Nat], NEW k \in Faults, Spend(k)
  PROVE  left' \in [Faults -> Nat]
BY DEF Spend

\* The event handler keeps the invariant.
LEMMA EventType ==
  ASSUME TypeInv, NEW elapsed \in BOOLEAN, xhci_handle_event_trb(elapsed)
  PROVE  TypeInv'
<1> DEFINE e == Head(events)
           good == Handled(e, elapsed, TRUE)
           bad == Handled(e, elapsed, FALSE)
           log == bad.log \cup {"alloc"}
           noted == [bad EXCEPT !.log = log]
<1>1. /\ events # <<>> /\ events' = Tail(events) /\ events \in Seq(Events)
      /\ ~Holding /\ UNCHANGED <<submit, type>>
      /\ worker \in [pc : {"idle", "due", "wait"}, stopped : BOOLEAN, mute : BOOLEAN]
      /\ worker' = [worker EXCEPT !.stopped = @ \/ Head(events).kind = "ring_stopped"]
      /\ left \in [Faults -> Nat] /\ type \in Types /\ TypeInv
      /\ submit \in [urb : Urbs \cup {NoUrb}, left : Nat, start : Slots, cycle : {0, 1}]
  BY DEF xhci_handle_event_trb, Unlocked, TypeInv, TypeOK
<1>2. /\ good \in DriverStates /\ bad \in DriverStates
      /\ HasCurrent(good) /\ HasCurrent(bad)
      /\ Passed \in {0, 1} /\ Passed <= cmdhw.done
      /\ cmdhw.done - Passed <= Len(good.cmds) /\ cmdhw.done - Passed <= Len(bad.cmds)
      /\ CommandsIn(Tail(events), Len(Tail(events))) <= cmdhw.done - Passed
  BY <1>1, HandledType
<1>3. \/ Commit(good, Passed) /\ UNCHANGED left
      \/ Commit(noted, Passed) /\ Spend("alloc")
  BY DEF xhci_handle_event_trb
<1> HIDE DEF good, bad, Passed
<1>4. noted \in DriverStates /\ noted.cmds = bad.cmds /\ noted.current = bad.current
  <2>1. log \in Logs
    BY <1>2, Parts DEF Logs
  <2> HIDE DEF log
  <2> QED
    BY <1>2, <2>1, New_log DEF DriverStates
<1> HIDE DEF noted
<1>5. PICK d \in {good, noted} : Commit(d, Passed)
  BY <1>3
<1>6. d \in DriverStates /\ cmdhw.done - Passed <= Len(d.cmds) /\ HasCurrent(d)
  BY <1>2, <1>4, <1>5 DEF HasCurrent
<1>7. /\ drv' \in DriverStates /\ hw' \in ControllerStates
      /\ cmdhw' \in [run : BOOLEAN, done : 0 .. Len(drv.cmds')]
      /\ drv.bell' = FALSE /\ cmdhw.done' = cmdhw.done - Passed
      /\ drv.cmds' = d.cmds /\ drv.current' = d.current
  BY <1>1, <1>2, <1>5, <1>6, CommitType
<1>8. events' \in Seq(Events) /\ CountInv'
  BY <1>1, <1>2, <1>7 DEF CountInv
<1> QED
  BY <1>1, <1>3, <1>6, <1>7, <1>8, SpendType DEF TypeInv, HasCurrent, StepInv, Holding, TypeOK,
    Faults

\* The worker.  The current command is the first live one of the list.
LEMMA CurrentIsFirst ==
  ASSUME TypeInv, drv.current
  PROVE  Current(drv) \in DOMAIN drv.cmds /\ drv.cmds[Current(drv)].live
<1> DEFINE L == {i \in DOMAIN drv.cmds : drv.cmds[i].live}
<1>1. L \subseteq Nat /\ L # {}
  BY Parts DEF TypeInv, HasCurrent, TypeOK
<1>2. PICK n \in L : \A m \in L : n <= m
  BY <1>1, LeastNumber
<1>3. \A j \in 1 .. n - 1 : j \in DOMAIN drv.cmds /\ ~drv.cmds[j].live
  BY <1>1, <1>2, Parts DEF TypeInv, TypeOK
<1> QED
  BY <1>3 DEF Current

\* What is done to the list of commands keeps its length.
LEMMA CleanupCommands ==
  ASSUME NEW d \in DriverStates
  PROVE  /\ xhci_cleanup_command_queue(d) \in DriverStates
         /\ Len(xhci_cleanup_command_queue(d).cmds) = Len(d.cmds)
         /\ \A i \in DOMAIN d.cmds : xhci_cleanup_command_queue(d).cmds[i].op = d.cmds[i].op
         /\ xhci_cleanup_command_queue(d).log = d.log
         /\ xhci_cleanup_command_queue(d).bell = d.bell
         /\ ~xhci_cleanup_command_queue(d).current
<1> DEFINE l == [i \in DOMAIN d.cmds |-> [d.cmds[i] EXCEPT !.live = FALSE]]
           e == [d EXCEPT !.current = FALSE]
           r == [e EXCEPT !.cmds = l]
<1>1. \A i \in DOMAIN d.cmds : l[i] \in Commands /\ l[i].op = d.cmds[i].op
  <2> TAKE i \in DOMAIN d.cmds
  <2>1. d.cmds[i] \in Commands
    BY Parts
  <2> QED
    BY <2>1 DEF Commands
<1>2. l \in Seq(Commands) /\ Len(l) = Len(d.cmds)
  <2>1. DOMAIN d.cmds = 1 .. Len(d.cmds) /\ Len(d.cmds) \in Nat
    BY Parts
  <2>2. DOMAIN l = 1 .. Len(d.cmds) /\ l \in [1 .. Len(d.cmds) -> Commands]
    BY <1>1, <2>1
  <2> HIDE DEF l
  <2> QED
    BY <2>1, <2>2
<1>3. e \in DriverStates /\ e.log = d.log /\ e.bell = d.bell /\ ~e.current
  BY New_current DEF DriverStates
<1>4. xhci_cleanup_command_queue(d) = r
  BY DEF xhci_cleanup_command_queue, DriverStates
<1> HIDE DEF e, l
<1>5. r.cmds = l /\ r.log = e.log /\ r.bell = e.bell /\ r.current = e.current
  BY <1>3 DEF DriverStates
<1> QED
  BY <1>1, <1>2, <1>3, <1>4, <1>5, New_cmds

\* Giving the controller up frees every command and keeps the list of them.
LEMMA DiedType ==
  ASSUME NEW d \in DriverStates
  PROVE  /\ xhci_hc_died(d) \in DriverStates
         /\ Len(xhci_hc_died(d).cmds) = Len(d.cmds)
         /\ \A i \in DOMAIN d.cmds : xhci_hc_died(d).cmds[i].op = d.cmds[i].op
         /\ xhci_hc_died(d).log = d.log /\ xhci_hc_died(d).dying
         /\ xhci_hc_died(d).bell = d.bell /\ ~xhci_hc_died(d).current
<1> DEFINE c == xhci_cleanup_command_queue(d)
           e == [c EXCEPT !.dying = TRUE]
           f == [e EXCEPT !.td_list = <<>>]
           r == [f EXCEPT !.cancelled_td_list = <<>>]
<1>1. /\ c \in DriverStates /\ Len(c.cmds) = Len(d.cmds)
      /\ \A i \in DOMAIN d.cmds : c.cmds[i].op = d.cmds[i].op
      /\ c.log = d.log /\ c.bell = d.bell /\ ~c.current
  BY CleanupCommands
<1>2. xhci_hc_died(d) = r
  BY DEF xhci_hc_died
<1> HIDE DEF c
<1>3. e \in DriverStates
  BY <1>1, New_dying
<1>4. e.cmds = c.cmds /\ e.log = c.log /\ e.dying /\ e.bell = c.bell /\ e.current = c.current
  BY <1>1 DEF DriverStates
<1> HIDE DEF e
<1>5. <<>> \in Seq(Urbs)
  OBVIOUS
<1>6. f \in DriverStates
  BY <1>3, <1>5, New_td_list
<1>7. /\ f.cmds = e.cmds /\ f.log = e.log /\ f.dying = e.dying /\ f.bell = e.bell
      /\ f.current = e.current
  BY <1>3 DEF DriverStates
<1> HIDE DEF f
<1>8. r \in DriverStates
  BY <1>5, <1>6, New_cancelled_td_list
<1>9. /\ r.cmds = f.cmds /\ r.log = f.log /\ r.dying = f.dying /\ r.bell = f.bell
      /\ r.current = f.current
  BY <1>6 DEF DriverStates
<1> HIDE DEF r
<1> QED
  BY <1>1, <1>2, <1>4, <1>7, <1>8, <1>9

\* So does restarting the command ring after an abort.
LEMMA StoppedRingType ==
  ASSUME NEW d \in DriverStates, HasCurrent(d)
  PROVE  /\ xhci_handle_stopped_cmd_ring(d) \in DriverStates
         /\ Len(xhci_handle_stopped_cmd_ring(d).cmds) = Len(d.cmds)
         /\ xhci_handle_stopped_cmd_ring(d).log = d.log
         /\ HasCurrent(xhci_handle_stopped_cmd_ring(d))
<1> DEFINE pending == Live(d) # {}
           l == [i \in DOMAIN d.cmds |->
                   IF d.cmds[i].live /\ d.cmds[i].status = "aborted"
                   THEN [[d.cmds[i] EXCEPT !.status = "stopped"] EXCEPT !.op = "noop"]
                   ELSE d.cmds[i]]
           cur == IF d.cmds # <<>> THEN pending ELSE d.current
           tim == d.timer \/ (d.cmds # <<>> /\ pending)
           db == d.cmds # <<>>
           e == [d EXCEPT !.cmds = l]
           f == [e EXCEPT !.cmd_ring_state = "running"]
           g == [f EXCEPT !.current = cur]
           k == [g EXCEPT !.timer = tim]
           r == [k EXCEPT !.cmd_db = db]
<1>1. d.cmds \in Seq(Commands) /\ d.current \in BOOLEAN /\ d.timer \in BOOLEAN
  BY Parts
<1>2. \A i \in DOMAIN d.cmds : l[i] \in Commands /\ l[i].live = d.cmds[i].live
  <2> TAKE i \in DOMAIN d.cmds
  <2>1. d.cmds[i] \in Commands
    BY <1>1
  <2> QED
    BY <2>1 DEF Commands
<1>3. l \in Seq(Commands) /\ Len(l) = Len(d.cmds)
  <2>1. DOMAIN d.cmds = 1 .. Len(d.cmds) /\ Len(d.cmds) \in Nat
    BY <1>1
  <2>2. DOMAIN l = 1 .. Len(d.cmds) /\ l \in [1 .. Len(d.cmds) -> Commands]
    BY <1>2, <2>1
  <2> HIDE DEF l
  <2> QED
    BY <2>1, <2>2
<1>4. cur \in BOOLEAN /\ tim \in BOOLEAN /\ db \in BOOLEAN
  BY <1>1
<1>5. cur => \E i \in DOMAIN l : l[i].live
  <2>1. DOMAIN l = DOMAIN d.cmds
    OBVIOUS
  <2>2. cur => \E i \in DOMAIN d.cmds : d.cmds[i].live
    BY DEF Live, HasCurrent
  <2> HIDE DEF l, cur
  <2> QED
    BY <1>2, <2>1, <2>2
<1>6. xhci_handle_stopped_cmd_ring(d) = r
  BY DEF DriverStates, xhci_handle_stopped_cmd_ring
<1> HIDE DEF l, cur, tim, db
<1>7. e \in DriverStates /\ e.cmds = l /\ e.log = d.log
  BY <1>3, New_cmds DEF DriverStates
<1> HIDE DEF e
<1>8. f \in DriverStates /\ f.cmds = l /\ f.log = d.log
  BY <1>7, New_cmd_ring_state DEF DriverStates
<1> HIDE DEF f
<1>9. g \in DriverStates /\ g.cmds = l /\ g.log = d.log /\ g.current = cur
  BY <1>4, <1>8, New_current DEF DriverStates
<1> HIDE DEF g
<1>10. k \in DriverStates /\ k.cmds = l /\ k.log = d.log /\ k.current = cur
  BY <1>4, <1>9, New_timer DEF DriverStates
<1> HIDE DEF k
<1>11. r \in DriverStates /\ r.cmds = l /\ r.log = d.log /\ r.current = cur
  BY <1>4, <1>10, New_cmd_db DEF DriverStates
<1> QED
  BY <1>3, <1>5, <1>6, <1>11 DEF HasCurrent

\* The current command is marked as timed out.
LEMMA CurrentMarked ==
  ASSUME TypeInv, drv.current
  PROVE  /\ Marked \in DriverStates /\ Len(Marked.cmds) = Len(drv.cmds) /\ HasCurrent(Marked)
         /\ "timeout" \in Marked.log /\ Marked.bell = drv.bell /\ Marked.dying = drv.dying
<1> DEFINE i == Current(drv)
           x == [drv.cmds[i] EXCEPT !.status = "aborted"]
           l == [drv.cmds EXCEPT ![i] = x]
           log == drv.log \cup {"timeout"}
           e == [drv EXCEPT !.cmds = l]
           r == [e EXCEPT !.log = log]
<1>1. drv \in DriverStates /\ i \in DOMAIN drv.cmds /\ drv.cmds[i].live
  BY CurrentIsFirst DEF TypeInv, TypeOK
<1>2. drv.cmds \in Seq(Commands) /\ drv.log \in Logs
  BY <1>1, Parts
<1>3. Marked = r
  BY <1>1 DEF DriverStates, Marked
<1> HIDE DEF i
<1>4. x \in Commands /\ x.live
  <2>1. drv.cmds[i] \in Commands
    BY <1>1, <1>2
  <2> QED
    BY <1>1, <2>1 DEF Commands
<1> HIDE DEF x
<1>5. l \in Seq(Commands) /\ Len(l) = Len(drv.cmds) /\ i \in DOMAIN l /\ l[i].live
  BY <1>1, <1>2, <1>4
<1>6. log \in Logs /\ "timeout" \in log
  BY <1>2 DEF Logs
<1> HIDE DEF l, log
<1>7. e \in DriverStates /\ e.cmds = l /\ e.bell = drv.bell /\ e.dying = drv.dying
  BY <1>1, <1>5, New_cmds DEF DriverStates
<1> HIDE DEF e
<1> QED
  BY <1>3, <1>5, <1>6, <1>7, New_log DEF HasCurrent, DriverStates

\* The timer and its worker keep the invariant.
LEMMA WorkerType ==
  ASSUME TypeInv, TimerExpires \/ xhci_handle_command_timeout
  PROVE  TypeInv'
<1> DEFINE Workers == [pc : {"idle", "due", "wait"}, stopped : BOOLEAN, mute : BOOLEAN]
<1>1. /\ drv \in DriverStates /\ drv.cmds \in Seq(Commands) /\ Len(drv.cmds) \in Nat
      /\ left \in [Faults -> Nat] /\ worker \in Workers /\ HasCurrent(drv)
      /\ cmdhw.done \in 0 .. Len(drv.cmds) /\ cmdhw \in [run : BOOLEAN, done : 0 .. Len(drv.cmds)]
      /\ hw \in ControllerStates /\ events \in Seq(Events) /\ Len(events) \in Nat
      /\ type \in Types
      /\ submit \in [urb : Urbs \cup {NoUrb}, left : Nat, start : Slots, cycle : {0, 1}]
  BY Parts DEF TypeInv, TypeOK
<1>2. WorkerIdle \in Workers
  BY DEF WorkerIdle
<1> DEFINE Idle == worker' = WorkerIdle
<1>3. CASE TimerExpires
  BY <1>1, <1>3, New_timer, SpendType DEF TimerExpires, DriverStates, Faults, TypeInv, TypeOK,
    CountInv, StepInv, Holding, HasCurrent
<1>4. CASE TimeoutRaced
  BY <1>2, <1>4 DEF TimeoutRaced, TypeInv, TypeOK, CountInv, StepInv, Holding, HasCurrent
<1>5. CASE TimeoutOfStop
  <2> DEFINE flags == drv.ep_state \ {"EP_STOP_CMD_PENDING"}
             e == [drv EXCEPT !.ep_state = flags]
             d == xhci_hc_died(e)
  <2>1. e \in DriverStates /\ e.cmds = drv.cmds
    BY <1>1, New_ep_state, Parts DEF DriverStates
  <2>2. Commit(d, 0)
    BY <1>5 DEF TimeoutOfStop
  <2> HIDE DEF e
  <2>3. d \in DriverStates /\ Len(d.cmds) >= Len(drv.cmds) /\ HasCurrent(d)
    <3>1. d \in DriverStates /\ Len(d.cmds) = Len(drv.cmds) /\ ~d.current
      BY <2>1, DiedType
    <3> HIDE DEF d
    <3> QED
      BY <1>1, <3>1 DEF HasCurrent
  <2> HIDE DEF d
  <2> QED
    BY <1>1, <1>2, <1>5, <2>2, <2>3, PlainCommit DEF TimeoutOfStop, Unlocked
<1>6. CASE xhci_abort_cmd_ring
  <2>1. /\ Marked \in DriverStates /\ Len(Marked.cmds) = Len(drv.cmds) /\ HasCurrent(Marked)
        /\ Marked.bell = drv.bell /\ Marked.dying = drv.dying
    BY <1>6, CurrentMarked DEF xhci_abort_cmd_ring
  <2> HIDE DEF Marked
  <2>2. /\ drv' \in DriverStates /\ drv.cmds' = Marked.cmds /\ drv.bell' = drv.bell
        /\ drv.dying' = drv.dying /\ drv.current' = Marked.current
    BY <1>6, <2>1, New_cmd_ring_state DEF DriverStates, xhci_abort_cmd_ring
  <2> DEFINE n == Len(events)
             a == [kind |-> "command", code |-> "aborted"]
             r == [kind |-> "ring_stopped"]
             ea == Append(events, a)
             er == Append(events, r)
             ear == Append(ea, r)
  <2>3. a \in Events /\ r \in Events /\ a.kind = "command" /\ r.kind # "command"
    BY DEF Events
  <2>4. events \o <<a, r>> = ear
    BY <1>1, <2>3
  <2> HIDE DEF a, r
  <2>5. /\ ea \in Seq(Events) /\ Len(ea) = n + 1 /\ ea[n + 1] = a
        /\ er \in Seq(Events) /\ Len(er) = n + 1 /\ er[n + 1] = r
    BY <1>1, <2>3
  <2> HIDE DEF ea
  <2>6. ear \in Seq(Events) /\ Len(ear) = n + 2 /\ ear[n + 2] = r
    BY <1>1, <2>3, <2>5
  <2>7. CommandsIn(ea, n + 1) = CommandsIn(events, n) + 1
    <3>1. CommandsIn(ea, n) = CommandsIn(events, n)
      BY <1>1, CountAppend DEF ea
    <3> QED
      BY <1>1, <2>3, <2>5, <3>1, CountStep
  <2>8. CommandsIn(er, n + 1) = CommandsIn(events, n)
    <3>1. CommandsIn(er, n) = CommandsIn(events, n)
      BY <1>1, CountAppend
    <3>2. CommandsIn(er, n) \in Nat
      BY <1>1, CountStep
    <3> HIDE DEF er
    <3>3. CommandsIn(er, n + 1) = CommandsIn(er, n) + 0
      BY <1>1, <2>3, <2>5, CountStep
    <3> QED
      BY <3>1, <3>2, <3>3
  <2>9. CommandsIn(ear, n + 2) = CommandsIn(events, n) + 1
    <3>1. n + 1 \in Nat /\ (n + 1) + 1 = n + 2 /\ n + 1 \in 0 .. Len(ea)
      BY <1>1, <2>5
    <3>2. CommandsIn(ear, n + 1) = CommandsIn(ea, n + 1)
      BY <2>5, <3>1, CountAppend
    <3>3. CommandsIn(ear, n + 1) \in Nat
      BY <3>1, CountStep
    <3> HIDE DEF ear
    <3>4. CommandsIn(ear, n + 2) = CommandsIn(ear, n + 1) + 0
      BY <2>3, <2>6, <3>1, CountStep
    <3> QED
      BY <2>7, <3>2, <3>3, <3>4
  <2>10. CommandsIn(events, n) \in Nat /\ CommandsIn(events, n) <= cmdhw.done
    BY <1>1, CountStep DEF TypeInv, CountInv
  <2>11. /\ events' \in Seq(Events) /\ CountInv'
         /\ cmdhw' \in [run : BOOLEAN, done : 0 .. Len(drv.cmds')]
    <3>1. CASE events' = ear /\ cmdhw' = [run |-> FALSE, done |-> cmdhw.done + 1]
               /\ cmdhw.done < Len(drv.cmds)
      BY <1>1, <2>1, <2>2, <2>6, <2>9, <2>10, <3>1 DEF CountInv
    <3>2. CASE events' = er /\ cmdhw' = [cmdhw EXCEPT !.run = FALSE]
      BY <1>1, <2>1, <2>2, <2>5, <2>8, <2>10, <3>2 DEF CountInv
    <3>3. CASE events' = events /\ cmdhw' = [cmdhw EXCEPT !.run = FALSE]
      BY <1>1, <2>1, <2>2, <2>10, <3>3 DEF CountInv
    <3> QED
      BY <1>6, <2>4, <3>1, <3>2, <3>3 DEF xhci_abort_cmd_ring, a, r
  <2>12. worker' \in Workers /\ UNCHANGED <<submit, hw, type>> /\ ~Holding
    <3>1. worker' \in Workers
      <4>1. CASE worker' = [worker EXCEPT !.pc = "wait", !.stopped = FALSE]
        BY <1>1, <4>1
      <4>2. CASE worker' = [pc |-> "wait", stopped |-> FALSE, mute |-> TRUE]
        BY <4>2
      <4> QED
        BY <1>6, <4>1, <4>2 DEF xhci_abort_cmd_ring
    <3> QED
      BY <1>6, <3>1 DEF xhci_abort_cmd_ring, Unlocked
  <2> QED
    BY <1>1, <1>6, <2>1, <2>2, <2>11, <2>12, SpendType DEF TypeInv, TypeOK, StepInv, Holding,
      xhci_abort_cmd_ring, Faults, HasCurrent
<1>7. CASE AbortFails
  <2> DEFINE e == [Marked EXCEPT !.cmd_ring_state = "aborted"]
             d == xhci_hc_died(e)
  <2>1. Commit(d, 0)
    BY <1>7 DEF AbortFails
  <2> HIDE DEF Marked
  <2>2. e \in DriverStates /\ e.cmds = Marked.cmds
    BY <1>7, New_cmd_ring_state, CurrentMarked DEF DriverStates, AbortFails
  <2> HIDE DEF e
  <2>3. d \in DriverStates /\ Len(d.cmds) >= Len(drv.cmds) /\ HasCurrent(d)
    <3>1. d \in DriverStates /\ Len(d.cmds) = Len(drv.cmds) /\ ~d.current
      BY <1>7, <2>2, DiedType, CurrentMarked DEF AbortFails
    <3> HIDE DEF d
    <3> QED
      BY <1>1, <3>1 DEF HasCurrent
  <2> HIDE DEF d
  <2> QED
    BY <1>1, <1>2, <1>7, <2>1, <2>3, PlainCommit, SpendType DEF AbortFails, Unlocked, Faults
<1>8. CASE TimeoutOnStoppedRing
  <2> DEFINE d == xhci_handle_stopped_cmd_ring(Marked)
  <2>1. Commit(d, 0)
    BY <1>8 DEF TimeoutOnStoppedRing
  <2> HIDE DEF Marked
  <2>2. d \in DriverStates /\ Len(d.cmds) >= Len(drv.cmds) /\ HasCurrent(d)
    <3>1. d \in DriverStates /\ Len(d.cmds) = Len(drv.cmds) /\ HasCurrent(d)
      BY <1>8, StoppedRingType, CurrentMarked DEF TimeoutOnStoppedRing
    <3> HIDE DEF d
    <3> QED
      BY <1>1, <3>1
  <2> HIDE DEF d
  <2> QED
    BY <1>1, <1>2, <1>8, <2>1, <2>2, PlainCommit DEF TimeoutOnStoppedRing, Unlocked
<1>9. CASE AbortDone
  <2> DEFINE d == IF worker.stopped THEN xhci_handle_stopped_cmd_ring(drv)
                  ELSE xhci_cleanup_command_queue(drv)
  <2>1. Commit(d, 0)
    BY <1>9 DEF AbortDone
  <2>2. d \in DriverStates /\ Len(d.cmds) = Len(drv.cmds) /\ HasCurrent(d)
    BY <1>1, StoppedRingType, CleanupCommands DEF HasCurrent
  <2> HIDE DEF d
  <2>3. Len(d.cmds) >= Len(drv.cmds)
    BY <1>1, <2>2
  <2> QED
    BY <1>1, <1>2, <1>9, <2>1, <2>2, <2>3, PlainCommit DEF AbortDone, Unlocked
<1> QED
  BY <1>3, <1>4, <1>5, <1>6, <1>7, <1>8, <1>9 DEF xhci_handle_command_timeout

\* The controller.
LEMMA EventsGrow ==
  ASSUME TypeInv, NEW e \in Events
  PROVE  /\ Append(events, e) \in Seq(Events)
         /\ Len(Append(events, e)) = Len(events) + 1
         /\ CommandsIn(Append(events, e), Len(events) + 1)
              = CommandsIn(events, Len(events)) + (IF e.kind = "command" THEN 1 ELSE 0)
<1>1. events \in Seq(Events) /\ Len(events) \in Nat
  BY DEF TypeInv, TypeOK
<1> DEFINE s == Append(events, e)
<1> HIDE DEF s
<1>2. CommandsIn(s, Len(events) + 1)
        = CommandsIn(s, Len(events)) + (IF s[Len(events) + 1].kind = "command" THEN 1 ELSE 0)
  BY <1>1, CountStep
<1> QED
  BY <1>1, <1>2, CountAppend DEF s

\* The controller that has moved on is in the same state.
LEMMA AdvanceFields ==
  ASSUME hw \in ControllerStates, NEW n \in Nat
  PROVE  Advance(n) \in ControllerStates /\ Advance(n).db = hw.db /\ Advance(n).state = hw.state
BY AdvanceType DEF Advance, ControllerStates

\* A command obeyed leaves a controller, and an event.
LEMMA ObeyedType ==
  ASSUME drv \in DriverStates, hw \in ControllerStates, NEW c \in Commands
  PROVE  /\ Obeyed(c).to \in ControllerStates
         /\ [kind |-> "command", code |-> Obeyed(c).code] \in Events
<1> HIDE DEF Fetched
<1>1. CASE c.op = "stop" /\ hw.state = "running"
  BY <1>1, Parts DEF Obeyed, ControllerStates, Events, Fetched, Running, Rings, OnCached
<1>2. CASE c.op = "setdeq" /\ hw.state = "stopped"
  BY <1>2 DEF Obeyed, ControllerStates, Events, Commands
<1>3. CASE c.op = "reset" /\ hw.state = "halted"
  BY <1>3 DEF Obeyed, ControllerStates, Events
<1>4. CASE c.op = "noop"
  BY <1>4 DEF Obeyed, ControllerStates, Events
<1>5. CASE ~ \/ c.op = "stop" /\ hw.state = "running"
             \/ c.op = "setdeq" /\ hw.state = "stopped"
             \/ c.op = "reset" /\ hw.state = "halted"
             \/ c.op = "noop"
  BY <1>5 DEF Obeyed, Events
<1> QED
  BY <1>1, <1>2, <1>3, <1>4, <1>5

\* What the controller reports of a transfer are events.
LEMMA TransferEvents ==
  ASSUME TypeInv, Running # NoUrb, NEW code \in Codes
  PROVE  /\ Transfer(code) \in Events /\ Transfer(code).kind = "transfer"
         /\ [Transfer("ok") EXCEPT !.pos = drv.td[Running].last] \in Events
         /\ Ahead(drv.td[Running].last, hw.deq) \in Nat
         /\ Running \in Urbs
<1>1. /\ drv.trb \in Rings /\ hw.deq \in Slots /\ drv.td \in Tds
      /\ hw.cached \in Urbs \cup {NoUrb}
  BY Parts DEF TypeInv, TypeOK, ControllerStates
<1> HIDE DEF Running
<1> QED
  BY <1>1, AheadIsSlot, SlotsAreNumbers DEF Transfer, Events, Codes, Tds, Running, Rings,
    OnCached

\* The controller keeps the invariant.
LEMMA ControllerType ==
  ASSUME TypeInv, Controller
  PROVE  TypeInv'
<1>1. /\ drv \in DriverStates /\ hw \in ControllerStates /\ events \in Seq(Events)
      /\ Len(events) \in Nat /\ cmdhw \in [run : BOOLEAN, done : 0 .. Len(drv.cmds)]
      /\ drv.cmds \in Seq(Commands) /\ Len(drv.cmds) \in Nat
  BY Parts DEF TypeInv, TypeOK
<1>2. CASE HwStart
  BY <1>1, <1>2 DEF HwStart, ControllerStates, TypeInv, TypeOK, CountInv, StepInv, Holding,
    HasCurrent
<1>3. CASE HwSkip
  BY <1>1, <1>3, AdvanceFields DEF HwSkip, TypeInv, TypeOK, CountInv, StepInv, Holding,
    HasCurrent
<1>4. ASSUME hw' \in ControllerStates, events' \in Seq(Events),
             UNCHANGED <<drv, submit, cmdhw, worker, type, left>>,
             CommandsIn(events', Len(events')) = CommandsIn(events, Len(events))
      PROVE  TypeInv'
  BY <1>4 DEF TypeInv, TypeOK, CountInv, StepInv, Holding, HasCurrent
<1>5. CommandsIn(events, Len(events)) \in Nat
  BY <1>1, CountStep
<1>6. ASSUME NEW e \in Events, e.kind = "transfer", events' = Append(events, e)
      PROVE  /\ events' \in Seq(Events)
             /\ CommandsIn(events', Len(events')) = CommandsIn(events, Len(events))
  BY <1>5, <1>6, EventsGrow
<1>7. CASE HwTransfer
  <2> DEFINE u == Running
             rest == Ahead(drv.td[u].last, hw.deq)
             last == [Transfer("ok") EXCEPT !.pos = drv.td[u].last]
  <2>1. /\ Running # NoUrb /\ UNCHANGED <<drv, submit, cmdhw, worker, type, left>>
        /\ hw' \in {Advance(1), Advance(rest + 1)}
        /\ \/ events' = events
           \/ events' = Append(events, Transfer("ok"))
           \/ events' = events \o <<Transfer("ok"), last>>
    BY <1>7 DEF HwTransfer
  <2>2. /\ Transfer("ok") \in Events /\ Transfer("ok").kind = "transfer"
        /\ last \in Events /\ rest \in Nat
    BY <2>1, TransferEvents DEF Codes
  <2>3. last.kind = "transfer"
    BY DEF Transfer
  <2> HIDE DEF rest, last
  <2>4. hw' \in ControllerStates
    BY <1>1, <2>1, <2>2, AdvanceFields
  <2>5. CASE events' = events
    BY <1>1, <1>4, <2>1, <2>4, <2>5
  <2>6. CASE events' = Append(events, Transfer("ok"))
    BY <1>4, <1>6, <2>1, <2>2, <2>4, <2>6
  <2>7. CASE events' = events \o <<Transfer("ok"), last>>
    <3> DEFINE t == Transfer("ok")
               s == Append(events, t)
               n == Len(events)
    <3> HIDE DEF t
    <3>1. events' = Append(s, last)
      BY <1>1, <2>2, <2>7 DEF t
    <3>2. s \in Seq(Events) /\ Len(s) = n + 1 /\ CommandsIn(s, n + 1) = CommandsIn(events, n)
      BY <1>5, <2>2, EventsGrow DEF t
    <3> DEFINE r == Append(s, last)
    <3> HIDE DEF s
    <3>3. r \in Seq(Events) /\ Len(r) = n + 2 /\ r[n + 2] = last
      BY <1>1, <2>2, <3>2
    <3>4. n + 1 \in Nat /\ (n + 1) + 1 = n + 2 /\ n + 1 \in 0 .. Len(s)
      BY <1>1, <3>2
    <3> HIDE DEF r
    <3>5. CommandsIn(r, n + 2) = CommandsIn(r, n + 1) + 0
      BY <2>3, <3>3, <3>4, CountStep
    <3> QED
      BY <1>4, <1>5, <2>1, <2>4, <3>1, <3>2, <3>3, <3>4, <3>5, CountAppend DEF r
  <2> QED
    BY <2>1, <2>5, <2>6, <2>7
<1>8. CASE HwHalt
  <2> DEFINE rest == Ahead(drv.td[Running].last, hw.deq)
  <2>1. PICK code \in {"error", "stall"} : events' = Append(events, Transfer(code))
    BY <1>8 DEF HwHalt
  <2>2. /\ Transfer(code) \in Events /\ Transfer(code).kind = "transfer"
        /\ rest \in Nat /\ Running \in Urbs
    BY <1>8, TransferEvents DEF Codes, HwHalt
  <2>3. hw' \in ControllerStates
    <3>1. PICK h \in {hw, Advance(0), Advance(rest + 1)} :
            hw' = [h EXCEPT !.state = "halted", !.cached = Running]
      BY <1>8 DEF HwHalt
    <3>2. h \in ControllerStates
      BY <1>1, <2>2, <3>1, AdvanceFields
    <3> QED
      BY <2>2, <3>1, <3>2 DEF ControllerStates
  <2> QED
    BY <1>4, <1>6, <1>8, <2>1, <2>2, <2>3 DEF HwHalt
<1>9. CASE HwCommand
  <2> DEFINE c == drv.cmds[cmdhw.done + 1]
             e == [kind |-> "command", code |-> Obeyed(c).code]
  <2>1. cmdhw.done < Len(drv.cmds) /\ cmdhw.done \in Nat
    BY <1>1, <1>9 DEF HwCommand
  <2>2. c \in Commands
    BY <1>1, <2>1
  <2>3. /\ hw' = Obeyed(c).to /\ events' = Append(events, e)
        /\ cmdhw' = [cmdhw EXCEPT !.done = @ + 1]
        /\ UNCHANGED <<drv, submit, worker, type, left>>
    BY <1>9 DEF HwCommand
  <2> HIDE DEF c
  <2>4. hw' \in ControllerStates /\ e \in Events
    BY <1>1, <2>2, <2>3, ObeyedType
  <2>5. e.kind = "command"
    OBVIOUS
  <2> HIDE DEF e
  <2>6. events' \in Seq(Events)
        /\ CommandsIn(events', Len(events')) = CommandsIn(events, Len(events)) + 1
    BY <2>3, <2>4, <2>5, EventsGrow
  <2>7. cmdhw' \in [run : BOOLEAN, done : 0 .. Len(drv.cmds)] /\ cmdhw.done' = cmdhw.done + 1
    BY <1>1, <2>1, <2>3
  <2> QED
    BY <1>5, <2>1, <2>3, <2>4, <2>6, <2>7 DEF TypeInv, TypeOK, StepInv, Holding, HasCurrent,
      CountInv
<1> QED
  BY <1>2, <1>3, <1>7, <1>8, <1>9 DEF Controller

\* It holds at first.
LEMMA TypeInit ==
  ASSUME Init
  PROVE  TypeInv
<1>1. RingSize \in Nat \ {0} /\ 0 \in Slots /\ MAX_SOFT_RETRY \in Nat
  BY RingHasSlots, RingAssumption
<1>2. drv \in DriverStates
  <2>1. 0 \in 0 .. MAX_SOFT_RETRY + 1
    BY <1>1
  <2>2. ASSUME NEW r \in Rings, NEW t \in Tds, NEW n \in Slots, NEW k \in 0 .. MAX_SOFT_RETRY + 1,
               NEW l \in Seq(Urbs), NEW c \in Seq(Commands)
        PROVE  [trb |-> r, enqueue |-> n, dequeue |-> n, cycle_state |-> 1,
                td_list |-> l, cancelled_td_list |-> l, td |-> t,
                ep_state |-> {}, err_count |-> k, queued_deq_ptr |-> n,
                cmds |-> c, cmd_ring_state |-> "running", current |-> FALSE,
                timer |-> FALSE, dying |-> FALSE, log |-> {}, bell |-> FALSE,
                cmd_db |-> FALSE] \in DriverStates
    BY DEF DriverStates, Logs
  <2>3. <<>> \in Seq(Urbs) /\ <<>> \in Seq(Commands)
    OBVIOUS
  <2> DEFINE r == [p \in Slots |-> [cycle |-> 0, urb |-> NoUrb]]
             t == [u \in Urbs |-> [first |-> 0, last |-> 0, cancel_status |-> "dirty"]]
  <2> HIDE DEF r, t
  <2> QED
    BY <1>1, <2>1, <2>2, <2>3 DEF Init, r, t, Rings, Tds
<1> QED
  BY <1>1, <1>2, CountStep, CaseAssumption DEF TypeInv, TypeOK, StepInv, HasCurrent, CountInv,
    Init, NotSubmitting, ControllerStates

\* Every step keeps it.
LEMMA TypeStep ==
  ASSUME TypeInv, [Next]_vars
  PROVE  TypeInv'
<1>1. CASE \E u \in Urbs, n \in Sizes : prepare_transfer(u, n)
  BY <1>1, SubmissionType
<1>2. CASE queue_trb \/ giveback_first_trb
  BY <1>2, SubmissionType
<1>3. CASE \E u \in Urbs : xhci_urb_dequeue(u)
  BY <1>3, UnlinkType
<1>4. CASE \E elapsed \in BOOLEAN : xhci_handle_event_trb(elapsed)
  BY <1>4, EventType
<1>5. CASE TimerExpires \/ xhci_handle_command_timeout
  BY <1>5, WorkerType
<1>6. CASE Controller
  BY <1>6, ControllerType
<1>7. CASE UNCHANGED vars
  BY <1>7 DEF vars, TypeInv, TypeOK, CountInv, StepInv, Holding, HasCurrent
<1> QED
  BY <1>1, <1>2, <1>3, <1>4, <1>5, <1>6, <1>7 DEF Next, Driver

\* Every state has its type: the dequeue pointers stay on the ring, and the
\* driver never passes more commands than the controller has completed.
THEOREM TypeCorrect == Spec => []TypeOK
<1> QED
  BY PTL, TypeStep, TypeInit DEF Spec, TypeInv

-----------------------------------------------------------------------------
(* What the steps do to the commands, the flags and the doorbell           *)

\* A handler that rings the bell only with no flag up does so for the endpoint.
LEMMA CommitDoorbell ==
  ASSUME TypeInv, NEW d \in DriverStates, NEW passed \in {0, 1},
         passed <= cmdhw.done, cmdhw.done - passed <= Len(d.cmds),
         d.bell => d.ep_state = {}, Commit(d, passed)
  PROVE  /\ drv.cmds' = d.cmds /\ drv.ep_state' = d.ep_state /\ drv.log' = d.log
         /\ drv.dying' = d.dying /\ cmdhw.done' = cmdhw.done - passed
         /\ Belled
<1>1. /\ drv.cmds' = d.cmds /\ drv.ep_state' = d.ep_state /\ drv.log' = d.log
      /\ drv.dying' = d.dying /\ cmdhw.done' = cmdhw.done - passed
  BY CommitType
<1> DEFINE b == hw.db \/ (d.bell /\ hw.state = "stopped")
<1> HIDE DEF b
<1> QED
  BY <1>1, Parts DEF Belled, ControllerStates, Commit, TypeInv, TypeOK

\* The same for a commit that passes no command.
LEMMA CommitPlain ==
  ASSUME TypeInv, NEW d \in DriverStates, Len(d.cmds) >= Len(drv.cmds),
         d.bell => d.ep_state = {}, Commit(d, 0)
  PROVE  /\ drv.cmds' = d.cmds /\ drv.ep_state' = d.ep_state /\ drv.log' = d.log
         /\ drv.dying' = d.dying /\ cmdhw.done' = cmdhw.done
         /\ Belled
BY Parts, CommitDoorbell DEF TypeInv, TypeOK

\* A submission is aside,
LEMMA SubmissionAside ==
  ASSUME TypeInv,
         \/ \E u \in Urbs, n \in Sizes : prepare_transfer(u, n)
         \/ queue_trb \/ giveback_first_trb
  PROVE  Aside /\ worker' = worker
<1>1. /\ drv \in DriverStates /\ hw \in ControllerStates
      /\ submit \in [urb : Urbs \cup {NoUrb}, left : Nat, start : Slots, cycle : {0, 1}]
  BY DEF TypeInv, TypeOK
<1> DEFINE Alike(d, e) == /\ e.cmds = d.cmds /\ e.ep_state = d.ep_state
                          /\ e.log = d.log /\ e.dying = d.dying
<1>2. ASSUME NEW d \in DriverStates
      PROVE  Alike(d, GiveLink(d))
  BY DEF GiveLink, DriverStates
<1>3. CASE \E u \in Urbs, n \in Sizes : prepare_transfer(u, n)
  <2>1. PICK u \in Urbs, n \in Sizes : prepare_transfer(u, n)
    BY <1>3
  <2> DEFINE d == prepare_ring(drv)
  <2>2. d \in DriverStates /\ Alike(drv, d)
    BY <1>1, <1>2, GiveLinkType DEF prepare_ring
  <2>3. drv' = [d EXCEPT !.td_list = Append(@, u), !.td[u] =
                 [first |-> d.enqueue, last |-> d.enqueue, cancel_status |-> "dirty"]]
        /\ UNCHANGED <<hw, cmdhw, events, worker>>
    BY <2>1 DEF prepare_transfer
  <2> HIDE DEF d
  <2> QED
    BY <2>2, <2>3 DEF Aside, Belled, DriverStates
<1>4. CASE queue_trb
  <2> DEFINE cycle == IF drv.enqueue = submit.start THEN 1 - submit.cycle ELSE drv.cycle_state
             d == [drv EXCEPT !.trb[drv.enqueue] = [cycle |-> cycle, urb |-> submit.urb],
                              !.td[submit.urb].last = drv.enqueue]
             k == [d EXCEPT !.enqueue = next_trb(@)]
  <2>1. drv' = inc_enq(d, submit.left > 1) /\ UNCHANGED <<hw, cmdhw, events, worker>>
    BY <1>4 DEF queue_trb
  <2>2. Alike(drv, d) /\ d \in DriverStates
    <3> DEFINE r == [drv.trb EXCEPT ![drv.enqueue] = [cycle |-> cycle, urb |-> submit.urb]]
               t == [drv.td EXCEPT ![submit.urb].last = drv.enqueue]
               e == [drv EXCEPT !.trb = r]
    <3>1. submit.urb \in Urbs
      BY <1>1, <1>4 DEF queue_trb, Holding
    <3>2. drv.trb \in Rings /\ drv.td \in Tds /\ drv.enqueue \in Slots /\ cycle \in {0, 1}
      BY <1>1, Parts
    <3> HIDE DEF cycle
    <3>3. r \in Rings /\ t \in Tds
      BY <3>1, <3>2 DEF Rings, Tds
    <3>4. d = [e EXCEPT !.td = t]
      BY <1>1 DEF DriverStates
    <3> HIDE DEF r, t, d
    <3>5. e \in DriverStates /\ Alike(drv, e)
      BY <1>1, <3>3, New_trb DEF DriverStates
    <3> HIDE DEF e
    <3> QED
      BY <3>4, <3>5, <3>3, New_td DEF DriverStates
  <2> HIDE DEF d
  <2>3. k \in DriverStates /\ Alike(d, k)
    BY <2>2, NextIsSlot, Parts, New_enqueue DEF DriverStates
  <2>4. drv' = GiveLink(k) \/ drv' = k
    BY <2>1 DEF inc_enq
  <2> HIDE DEF k
  <2> QED
    BY <1>2, <2>1, <2>2, <2>3, <2>4 DEF Aside, Belled
<1>5. CASE giveback_first_trb
  <2> DEFINE r == [drv.trb EXCEPT ![submit.start].cycle = submit.cycle]
             d == [drv EXCEPT !.trb = r]
             e == xhci_ring_ep_doorbell(d)
  <2>1. r \in Rings
    BY <1>1, Parts DEF Rings
  <2>2. Commit(e, 0) /\ UNCHANGED <<events, worker>>
    BY <1>5 DEF giveback_first_trb
  <2> HIDE DEF r
  <2>3. d \in DriverStates /\ Alike(drv, d)
    BY <1>1, <2>1, New_trb DEF DriverStates
  <2> HIDE DEF d
  <2>4. e \in DriverStates /\ Alike(d, e) /\ (e.bell => e.ep_state = {})
    BY <2>3, DoorbellType, DoorbellEffect
  <2> HIDE DEF e
  <2> QED
    BY <1>1, <2>2, <2>3, <2>4, CommitPlain, Parts DEF Aside
<1> QED
  BY <1>3, <1>4, <1>5

\* A stop is queued only with no flag up.
LEMMA UnlinkQueues ==
  ASSUME TypeInv, NEW u \in Urbs, xhci_urb_dequeue(u)
  PROVE  /\ worker' = worker /\ events' = events
         /\ drv.log' = drv.log /\ drv.dying' = drv.dying /\ cmdhw.done' = cmdhw.done
         /\ Belled
         /\ \/ /\ drv.cmds' = drv.cmds /\ drv.ep_state' = drv.ep_state
               /\ drv.ep_state # {}
            \/ /\ drv.cmds' = Append(drv.cmds, Stop) /\ drv.ep_state = {}
               /\ drv.ep_state' = {"EP_STOP_CMD_PENDING"}
<1> DEFINE Alike(d, e) == /\ e.cmds = d.cmds /\ e.ep_state = d.ep_state
                          /\ e.log = d.log /\ e.dying = d.dying /\ e.bell = d.bell
           halted == u \in ToSet(drv.cancelled_td_list)
           l == Append(drv.cancelled_td_list, u)
           t == [drv.td EXCEPT ![u].cancel_status = "dirty"]
           e == [drv EXCEPT !.cancelled_td_list = l]
           f == [e EXCEPT !.td = t]
           d == IF halted THEN drv ELSE f
           q == queue_command(d, Stop)
           r == [q EXCEPT !.ep_state = q.ep_state \cup {"EP_STOP_CMD_PENDING"}]
<1>1. drv \in DriverStates /\ drv.bell = FALSE
  BY DEF TypeInv, TypeOK, StepInv
<1>2. l \in Seq(Urbs) /\ t \in Tds
  BY <1>1, Parts DEF Tds
<1>3. Commit(IF drv.ep_state # {} THEN d ELSE r, 0)
  BY <1>1 DEF xhci_urb_dequeue, DriverStates
<1> HIDE DEF l, t
<1>4. e \in DriverStates /\ Alike(drv, e)
  BY <1>1, <1>2, New_cancelled_td_list DEF DriverStates
<1> HIDE DEF e
<1>5. f \in DriverStates /\ Alike(e, f)
  BY <1>2, <1>4, New_td DEF DriverStates
<1> HIDE DEF f, halted
<1>6. d \in DriverStates /\ Alike(drv, d)
  BY <1>1, <1>4, <1>5
<1> HIDE DEF d
<1>7. /\ q \in DriverStates /\ q.cmds = Append(d.cmds, Stop) /\ q.ep_state = d.ep_state
      /\ q.log = d.log /\ q.dying = d.dying /\ q.bell = d.bell
  <2>1. q \in DriverStates
    BY <1>6, QueueCommandType, StopIsFresh
  <2>2. q.ep_state = d.ep_state /\ q.log = d.log /\ q.dying = d.dying /\ q.bell = d.bell
    BY <1>6 DEF queue_command, DriverStates
  <2> QED
    BY <1>6, <2>1, <2>2 DEF queue_command, DriverStates
<1> HIDE DEF q
<1>8. /\ r \in DriverStates /\ r.cmds = q.cmds
      /\ r.ep_state = q.ep_state \cup {"EP_STOP_CMD_PENDING"}
      /\ r.log = q.log /\ r.dying = q.dying /\ r.bell = q.bell
  BY <1>7, Parts, New_ep_state DEF Flags, DriverStates
<1> HIDE DEF r
<1> DEFINE z == IF drv.ep_state # {} THEN d ELSE r
<1> HIDE DEF z
<1> QED
  BY <1>1, <1>3, <1>6, <1>7, <1>8, CommitPlain, Parts DEF xhci_urb_dequeue

\* and so is the timer.
LEMMA TimerAside ==
  ASSUME TypeInv, TimerExpires \/ TimeoutRaced
  PROVE  Aside /\ worker.pc' \in {"idle", "due"}
BY DEF TypeInv, TypeOK, TimerExpires, DriverStates, Aside, Belled, TimeoutRaced, WorkerIdle

\* What else the worker does: a timeout is noted, or the controller given up.
LEMMA WorkerLoses ==
  ASSUME TypeInv,
         \/ TimeoutOfStop \/ xhci_abort_cmd_ring \/ AbortFails
         \/ TimeoutOnStoppedRing \/ AbortDone
  PROVE  \/ "timeout" \in drv.log'
         \/ /\ drv.dying' = TRUE /\ drv.log' = drv.log
            /\ Len(drv.cmds') = Len(drv.cmds)
            /\ \A i \in DOMAIN drv.cmds : drv.cmds'[i].op = drv.cmds[i].op
            /\ hw.state' = hw.state /\ hw.db' = hw.db /\ cmdhw.done' = cmdhw.done
         \/ worker.pc = "wait" /\ drv.log' = drv.log /\ drv.dying' = drv.dying
<1>1. /\ drv \in DriverStates /\ hw \in ControllerStates /\ drv.bell = FALSE
      /\ drv.cmds \in Seq(Commands) /\ Len(drv.cmds) \in Nat
      /\ cmdhw.done \in 0 .. Len(drv.cmds)
  BY Parts DEF TypeInv, TypeOK, StepInv
<1>2. 0 <= cmdhw.done /\ cmdhw.done - 0 <= Len(drv.cmds) /\ cmdhw.done - 0 = cmdhw.done
  BY <1>1
<1>3. ASSUME NEW d \in DriverStates, Commit(d, 0), Len(d.cmds) = Len(drv.cmds)
      PROVE  drv.log' = d.log /\ drv.dying' = d.dying
  BY <1>2, <1>3, CommitType
<1>4. CASE TimeoutOfStop
  <2> DEFINE flags == drv.ep_state \ {"EP_STOP_CMD_PENDING"}
             e == [drv EXCEPT !.ep_state = flags]
             d == xhci_hc_died(e)
  <2>1. e \in DriverStates /\ e.cmds = drv.cmds /\ e.log = drv.log /\ e.bell = drv.bell
    BY <1>1, New_ep_state, Parts DEF DriverStates
  <2>2. Commit(d, 0)
    BY <1>4 DEF TimeoutOfStop
  <2> HIDE DEF e
  <2>3. /\ d \in DriverStates /\ Len(d.cmds) = Len(drv.cmds)
        /\ \A i \in DOMAIN drv.cmds : d.cmds[i].op = drv.cmds[i].op
        /\ d.log = drv.log /\ d.dying /\ d.bell = FALSE
    BY <1>1, <2>1, DiedType
  <2> HIDE DEF d
  <2>4. /\ drv.cmds' = d.cmds /\ drv.log' = d.log /\ drv.dying' = d.dying
        /\ cmdhw.done' = cmdhw.done
    BY <1>1, <1>2, <2>2, <2>3, CommitType
  <2> QED
    BY <1>1, <2>2, <2>3, <2>4, Parts DEF Commit, ControllerStates
<1>5. ASSUME drv.current
      PROVE  /\ Marked \in DriverStates /\ Len(Marked.cmds) = Len(drv.cmds)
             /\ HasCurrent(Marked) /\ "timeout" \in Marked.log
             /\ [Marked EXCEPT !.cmd_ring_state = "aborted"] \in DriverStates
             /\ [Marked EXCEPT !.cmd_ring_state = "aborted"].log = Marked.log
             /\ [Marked EXCEPT !.cmd_ring_state = "aborted"].cmds = Marked.cmds
  <2> HIDE DEF Marked
  <2> QED
    BY <1>5, New_cmd_ring_state, CurrentMarked DEF DriverStates
<1>6. CASE xhci_abort_cmd_ring
  <2> HIDE DEF Marked
  <2> QED
    BY <1>5, <1>6 DEF xhci_abort_cmd_ring
<1>7. CASE AbortFails
  <2> DEFINE e == [Marked EXCEPT !.cmd_ring_state = "aborted"]
             d == xhci_hc_died(e)
  <2>1. drv.current /\ Commit(d, 0)
    BY <1>7 DEF AbortFails
  <2> HIDE DEF Marked
  <2>2. e \in DriverStates /\ Len(e.cmds) = Len(drv.cmds) /\ "timeout" \in e.log
    BY <1>5, <2>1
  <2> HIDE DEF e
  <2>3. d \in DriverStates /\ Len(d.cmds) = Len(drv.cmds) /\ "timeout" \in d.log
    BY <2>2, DiedType
  <2> HIDE DEF d
  <2> QED
    BY <1>3, <2>1, <2>3
<1>8. CASE TimeoutOnStoppedRing
  <2> DEFINE d == xhci_handle_stopped_cmd_ring(Marked)
  <2>1. drv.current /\ Commit(d, 0)
    BY <1>8 DEF TimeoutOnStoppedRing
  <2> HIDE DEF Marked
  <2>2. d \in DriverStates /\ Len(d.cmds) = Len(drv.cmds) /\ "timeout" \in d.log
    BY <1>5, <2>1, StoppedRingType
  <2> HIDE DEF d
  <2> QED
    BY <1>3, <2>1, <2>2
<1>9. CASE AbortDone
  <2> DEFINE d == IF worker.stopped THEN xhci_handle_stopped_cmd_ring(drv)
                  ELSE xhci_cleanup_command_queue(drv)
  <2>1. Commit(d, 0) /\ worker.pc = "wait"
    BY <1>9 DEF AbortDone
  <2>2. d.dying = drv.dying
    BY <1>1 DEF xhci_handle_stopped_cmd_ring, xhci_cleanup_command_queue, DriverStates
  <2>3. d \in DriverStates /\ Len(d.cmds) = Len(drv.cmds) /\ d.log = drv.log
    BY <1>1, StoppedRingType, CleanupCommands DEF TypeInv
  <2> HIDE DEF d
  <2> QED
    BY <1>3, <2>1, <2>2, <2>3
<1> QED
  BY <1>4, <1>6, <1>7, <1>8, <1>9

-----------------------------------------------------------------------------
(* Every pending flag has its command                                      *)

\* Each command has a flag of its own.
LEMMA FlagsDiffer ==
  ASSUME NEW a \in Ops, NEW b \in Ops, FlagOf(a) = FlagOf(b)
  PROVE  a = b
BY DEF Ops, FlagOf

\* A command is queued with its flag.
LEMMA PairedAppend ==
  ASSUME NEW s \in Seq(Commands), NEW F, Paired(s, F),
         NEW c \in Fresh, c.op \in Ops, FlagOf(c.op) \notin F
  PROVE  Paired(Append(s, c), F \cup {FlagOf(c.op)})
<1> DEFINE r == Append(s, c)
           G == F \cup {FlagOf(c.op)}
<1>1. /\ Len(s) \in Nat /\ DOMAIN s = 1 .. Len(s) /\ DOMAIN r = 1 .. Len(s) + 1
      /\ r[Len(s) + 1] = c /\ \A i \in DOMAIN s : r[i] = s[i]
  BY DEF Fresh
<1> HIDE DEF r
<1>2. ASSUME NEW op \in Ops, FlagOf(op) \in G
      PROVE  \E i \in DOMAIN r : r[i].op = op
  BY <1>1, <1>2, FlagsDiffer DEF Paired
<1> HIDE DEF G
<1> QED
  BY <1>1, <1>2 DEF r, G, Paired

\* A command is taken off with its flag.
LEMMA PairedTail ==
  ASSUME NEW s \in Seq(Commands), s # <<>>, NEW F, Paired(s, F)
  PROVE  Paired(Tail(s), F \ {FlagOf(Head(s).op)})
<1> DEFINE r == Tail(s)
           G == F \ {FlagOf(Head(s).op)}
<1>1. /\ Len(s) \in Nat \ {0} /\ DOMAIN s = 1 .. Len(s) /\ DOMAIN r = 1 .. Len(s) - 1
      /\ Head(s) = s[1] /\ \A i \in 1 .. Len(s) - 1 : r[i] = s[i + 1]
  OBVIOUS
<1>2. \A i \in DOMAIN r : i + 1 \in DOMAIN s /\ i + 1 # 1 /\ r[i] = s[i + 1] /\ i \in Nat
  BY <1>1
<1>3. \A i \in DOMAIN s : i # 1 => i - 1 \in DOMAIN r /\ r[i - 1] = s[i]
  BY <1>1
<1> HIDE DEF r
<1>4. ASSUME NEW i \in DOMAIN r, NEW j \in DOMAIN r, r[i].op = r[j].op
      PROVE  i = j
  BY <1>2, <1>4 DEF Paired
<1>5. ASSUME NEW op \in Ops, FlagOf(op) \in G
      PROVE  \E i \in DOMAIN r : r[i].op = op
  BY <1>1, <1>3, <1>5 DEF Paired
<1> HIDE DEF G
<1> QED
  BY <1>1, <1>2, <1>4, <1>5, FlagsDiffer DEF r, G, Paired

\* At first there is neither.
LEMMA PairedStart == Paired(<<>>, {})
BY DEF Paired

\* Queueing and taking off can be swapped.
LEMMA TailOfAppend ==
  ASSUME NEW s \in Seq(Commands), s # <<>>, NEW c \in Commands
  PROVE  Tail(Append(s, c)) = Append(Tail(s), c) /\ Tail(s) \in Seq(Commands)
<1>1. Len(s) \in Nat \ {0}
  OBVIOUS
<1> DEFINE a == Append(s, c)
           l == Tail(a)
           r == Append(Tail(s), c)
<1>2. /\ a \in Seq(Commands) /\ Len(a) = Len(s) + 1 /\ a[Len(s) + 1] = c
      /\ \A i \in 1 .. Len(s) : a[i] = s[i]
  BY <1>1
<1>3. /\ Tail(s) \in Seq(Commands) /\ Len(Tail(s)) = Len(s) - 1
      /\ \A i \in 1 .. Len(s) - 1 : Tail(s)[i] = s[i + 1]
  BY <1>1
<1> DEFINE t == Tail(s)
<1> HIDE DEF a, t
<1>4. /\ l \in Seq(Commands) /\ Len(l) = Len(s)
      /\ \A i \in 1 .. Len(s) : l[i] = a[i + 1]
  BY <1>1, <1>2
<1>5. /\ r \in Seq(Commands) /\ Len(r) = Len(s) /\ r[Len(s)] = c
      /\ \A i \in 1 .. Len(s) - 1 : r[i] = t[i]
  BY <1>1, <1>3 DEF t
<1> HIDE DEF l, r
<1>6. ASSUME NEW i \in 1 .. Len(s)
      PROVE  l[i] = r[i]
  <2>1. CASE i = Len(s)
    BY <1>1, <1>2, <1>4, <1>5, <2>1
  <2>2. CASE i # Len(s)
    <3>1. i \in 1 .. Len(s) - 1 /\ i + 1 \in 1 .. Len(s)
      BY <1>1, <2>2
    <3> QED
      BY <1>2, <1>3, <1>4, <1>5, <3>1 DEF t
  <2> QED
    BY <2>1, <2>2
<1>7. l = r
  BY <1>4, <1>5, <1>6
<1> QED
  BY <1>3, <1>7 DEF l, r, a, t

\* That is what it does.
LEMMA CompletionEffect ==
  ASSUME NEW d \in DriverStates, d.cmds # <<>>, Paired(d.cmds, d.ep_state), d.bell = FALSE,
         NEW h \in ControllerStates, NEW code, code # "aborted",
         NEW elapsed \in BOOLEAN, NEW ok \in BOOLEAN
  PROVE  Completed(d, handle_cmd_completion(d, h, code, elapsed, ok), h, code, elapsed, ~ok)
<1> DEFINE c == Head(d.cmds)
           off == [d EXCEPT !.timer = FALSE]
           a == Handler(off, h, c, code, elapsed, ok)
           more == Cardinality(Live(a)) > 1
           r == [[[a EXCEPT !.current = more] EXCEPT !.timer = more] EXCEPT !.cmds = Tail(a.cmds)]
           t == Tail(d.cmds)
           G == d.ep_state \ {FlagOf(c.op)}
<1>1. d.cmds \in Seq(Commands) /\ c = d.cmds[1] /\ 1 \in DOMAIN d.cmds
  BY Parts
<1>2. c \in Fresh /\ c.live /\ c.op \in Ops /\ FlagOf(c.op) \in d.ep_state
  BY <1>1 DEF Paired, Fresh
<1>3. /\ off \in DriverStates /\ off.cmds = d.cmds /\ off.ep_state = d.ep_state
      /\ off.bell = d.bell /\ off.dying = d.dying /\ off.log = d.log
  BY New_timer DEF DriverStates
<1>4. a \in DriverStates
  BY <1>3, HandlerType
<1>5. handle_cmd_completion(d, h, code, elapsed, ok) = r
  <2> DEFINE a2 == [[a EXCEPT !.current = more] EXCEPT !.timer = more]
  <2> HIDE DEF a, more
  <2> HIDE DEF c, off
  <2> QED
    BY <1>2, <1>4 DEF handle_cmd_completion, a, more, off, c, DriverStates
<1>6. Paired(t, G) /\ t \in Seq(Commands)
  BY <1>1, PairedTail
<1> HIDE DEF c, off
<1>7. \/ \E op \in {"setdeq", "reset"} :
            /\ Effect(off, a, {FlagOf(c.op)}, op)
            /\ \/ a.cmds = off.cmds
               \/ op = "reset" /\ h.state = "halted" /\ c.op = "stop"
               \/ /\ op = "setdeq"
                  /\ \/ c.op # "stop" \/ code # "ctx" \/ ~ok
                     \/ h.state = "stopped" /\ (elapsed \/ "EP_HALTED" \in off.ep_state)
      \/ c.op = "stop" /\ a = queue_command(off, Stop)
  <2>1. CASE c.op = "stop"
    <3> HIDE DEF a
    <3> QED
      BY <1>3, <2>1, StopEffect DEF a, FlagOf, Handler
  <2>2. CASE c.op = "setdeq"
    <3> HIDE DEF a
    <3> QED
      BY <1>3, <2>2, SetDeqEffect DEF a, FlagOf, Handler
  <2>3. CASE c.op = "reset"
    <3> HIDE DEF a
    <3> QED
      BY <1>3, <2>3, ResetEffect DEF a, FlagOf, Handler
  <2> QED
    BY <1>2, <2>1, <2>2, <2>3 DEF Ops
<1> HIDE DEF a, more
<1>8. /\ r.cmds = Tail(a.cmds) /\ r.ep_state = a.ep_state /\ r.bell = a.bell
      /\ r.dying = a.dying /\ r.log = a.log
  BY <1>4 DEF DriverStates
<1> HIDE DEF r, t, G
<1>9. CASE \E op \in {"setdeq", "reset"} :
            /\ Effect(off, a, {FlagOf(c.op)}, op)
            /\ \/ a.cmds = off.cmds
               \/ op = "reset" /\ h.state = "halted" /\ c.op = "stop"
               \/ /\ op = "setdeq"
                  /\ \/ c.op # "stop" \/ code # "ctx" \/ ~ok
                     \/ h.state = "stopped" /\ (elapsed \/ "EP_HALTED" \in off.ep_state)
  <2>1. PICK op \in {"setdeq", "reset"} :
            /\ Effect(off, a, {FlagOf(c.op)}, op)
            /\ \/ a.cmds = off.cmds
               \/ op = "reset" /\ h.state = "halted" /\ c.op = "stop"
               \/ /\ op = "setdeq"
                  /\ \/ c.op # "stop" \/ code # "ctx" \/ ~ok
                     \/ h.state = "stopped" /\ (elapsed \/ "EP_HALTED" \in off.ep_state)
    BY <1>9
  <2>2. CASE a.cmds = d.cmds /\ a.ep_state = G
    BY <1>2, <1>3, <1>5, <1>6, <1>8, <2>1, <2>2 DEF Completed, Moved, c, t, G, FlagOf, Ops,
      Effect
  <2>3. CASE /\ FlagOf(op) \notin G
             /\ \E n \in Fresh : n.op = op /\ a.cmds = Append(d.cmds, n)
             /\ a.ep_state = G \cup {FlagOf(op)}
    <3>1. PICK n \in Fresh : n.op = op /\ a.cmds = Append(d.cmds, n)
      BY <2>3
    <3>2. n \in Commands /\ n.op \in Ops
      BY <3>1 DEF Fresh, Ops
    <3>3. r.cmds = Append(t, n)
      BY <1>1, <1>8, <3>1, <3>2, TailOfAppend DEF t
    <3>4. Paired(r.cmds, r.ep_state)
      <4>1. FlagOf(n.op) \notin G /\ r.ep_state = G \cup {FlagOf(n.op)}
        BY <1>8, <2>3, <3>1
      <4> QED
        BY <1>6, <3>1, <3>2, <3>3, <4>1, PairedAppend
    <3> QED
      BY <1>1, <1>2, <1>3, <1>5, <1>8, <2>1, <3>1, <3>2, <3>3, <3>4 DEF Completed, c, Moved, t,
        G, FlagOf, Ops, Effect
  <2> QED
    BY <1>3, <2>1, <2>2, <2>3 DEF Effect, G
<1>10. CASE c.op = "stop" /\ a = queue_command(off, Stop)
  <2>1. /\ a.cmds = Append(d.cmds, Stop) /\ a.ep_state = d.ep_state /\ a.bell = d.bell
        /\ a.dying = d.dying /\ a.log = d.log
    BY <1>3, <1>10 DEF queue_command, DriverStates
  <2>2. Stop \in Fresh /\ Stop.op = "stop" /\ Stop \in Commands
    BY StopIsFresh
  <2>3. r.cmds = Append(t, Stop)
    BY <1>1, <1>8, <2>1, <2>2, TailOfAppend DEF t
  <2>4. Paired(r.cmds, r.ep_state)
    <3>1. Paired(Append(t, Stop), G \cup {FlagOf(Stop.op)})
      BY <1>2, <1>6, <1>10, <2>2, PairedAppend DEF G, Ops
    <3> QED
      BY <1>2, <1>8, <1>10, <2>1, <2>2, <2>3, <3>1 DEF G, Ops
  <2> QED
    BY <1>2, <1>5, <1>8, <1>10, <2>1, <2>2, <2>3, <2>4 DEF Completed, c, Moved, t
<1> QED
  BY <1>7, <1>9, <1>10

\* The log of a step of the event handler only grows.
LEMMA LogGrows ==
  ASSUME TypeInv, NEW elapsed \in BOOLEAN, xhci_handle_event_trb(elapsed)
  PROVE  drv.log \subseteq drv.log'
<1> DEFINE good == Handled(Head(events), elapsed, TRUE)
           bad == Handled(Head(events), elapsed, FALSE)
           log == bad.log \cup {"alloc"}
           noted == [bad EXCEPT !.log = log]
<1>1. /\ good \in DriverStates /\ bad \in DriverStates
      /\ drv.log \subseteq good.log /\ drv.log \subseteq bad.log
      /\ Passed \in {0, 1} /\ Passed <= cmdhw.done
      /\ cmdhw.done - Passed <= Len(good.cmds) /\ cmdhw.done - Passed <= Len(bad.cmds)
  BY HandledType DEF xhci_handle_event_trb
<1>2. Commit(good, Passed) \/ Commit(noted, Passed)
  BY DEF xhci_handle_event_trb
<1> HIDE DEF good, bad, Passed
<1>3. noted \in DriverStates /\ noted.cmds = bad.cmds /\ noted.log = log
  <2>1. log \in Logs
    BY <1>1, Parts DEF Logs
  <2> HIDE DEF log
  <2> QED
    BY <1>1, <2>1, New_log DEF DriverStates
<1> HIDE DEF noted
<1>4. PICK d \in {good, noted} : Commit(d, Passed)
  BY <1>2
<1> QED
  BY <1>1, <1>3, <1>4, CommitType

\* The event handler keeps commands and flags together.
LEMMA EventEffect ==
  ASSUME TypeInv, PairInv, Intact, NEW elapsed \in BOOLEAN, xhci_handle_event_trb(elapsed)
  PROVE  /\ events # <<>> /\ events' = Tail(events)
         /\ worker.pc' = worker.pc /\ (elapsed => ~hw.db)
         /\ drv.dying' = drv.dying /\ drv.log \subseteq drv.log'
         /\ "timeout" \in drv.log' => "timeout" \in drv.log
         /\ Belled /\ Paired(drv.cmds', drv.ep_state')
         /\ Head(events).kind = "command" =>
              /\ drv.cmds # <<>> /\ cmdhw.done >= 1 /\ cmdhw.done' = cmdhw.done - 1
              /\ Moved(drv, drv', hw, Head(drv.cmds), Head(events).code, elapsed, drv.log' # {})
              /\ "EP_HALTED" \in drv.ep_state /\ Head(drv.cmds).op # "reset"
                   => "EP_HALTED" \in drv.ep_state'
         /\ Head(events).kind # "command" =>
              /\ cmdhw.done' = cmdhw.done
              /\ \/ drv.cmds' = drv.cmds /\ drv.ep_state' = drv.ep_state
                 \/ /\ Head(events).kind = "transfer" /\ Head(events).code # "ok"
                    /\ "EP_HALTED" \notin drv.ep_state
                    /\ \E c \in Fresh : c.op = "reset" /\ drv.cmds' = Append(drv.cmds, c)
                    /\ drv.ep_state' = drv.ep_state \cup {"EP_HALTED"}
<1> DEFINE e == Head(events)
           H(ok) == Handled(e, elapsed, ok)
           log == H(FALSE).log \cup {"alloc"}
           noted == [H(FALSE) EXCEPT !.log = log]
<1>1. /\ drv \in DriverStates /\ hw \in ControllerStates /\ events \in Seq(Events)
      /\ cmdhw.done \in 0 .. Len(drv.cmds) /\ drv.cmds \in Seq(Commands) /\ Len(drv.cmds) \in Nat
      /\ drv.bell = FALSE
  BY Parts DEF TypeInv, TypeOK, StepInv
<1>2. /\ events # <<>> /\ events' = Tail(events) /\ (elapsed => ~hw.db)
      /\ worker' = [worker EXCEPT !.stopped = @ \/ Head(events).kind = "ring_stopped"]
      /\ \/ Commit(H(TRUE), Passed)
         \/ Commit(noted, Passed)
  BY DEF xhci_handle_event_trb
<1>3. worker.pc' = worker.pc
  BY <1>2 DEF TypeInv, TypeOK
<1>4. e \in Events /\ EventOK(e) /\ e = events[1] /\ 1 \in DOMAIN events
  BY <1>1, <1>2, EventParts
<1>5. \A ok \in BOOLEAN :
        /\ H(ok) \in DriverStates /\ Passed \in {0, 1} /\ Passed <= cmdhw.done
        /\ cmdhw.done - Passed <= Len(H(ok).cmds)
  BY <1>2, HandledType
<1>6. Paired(drv.cmds, drv.ep_state) /\ (e.kind = "command" => e.code # "aborted")
  BY <1>4 DEF PairInv
<1>7. PICK ok \in BOOLEAN, d \in DriverStates :
        /\ Commit(d, Passed)
        /\ d.cmds = H(ok).cmds /\ d.ep_state = H(ok).ep_state /\ d.bell = H(ok).bell
        /\ d.dying = H(ok).dying /\ H(ok).log \subseteq d.log
        /\ "timeout" \in d.log => "timeout" \in H(ok).log
        /\ ~ok => d.log # {}
  <2>1. CASE Commit(H(TRUE), Passed)
    <3> HIDE DEF H
    <3> QED
      BY <1>5, <2>1
  <2>2. CASE Commit(noted, Passed)
    <3>1. H(FALSE) \in DriverStates
      BY <1>5
    <3> HIDE DEF H
    <3>2. log \in Logs
      BY <3>1, Parts DEF Logs
    <3>3. "alloc" \in log /\ H(FALSE).log \subseteq log
          /\ ("timeout" \in log => "timeout" \in H(FALSE).log)
      OBVIOUS
    <3> HIDE DEF log
    <3>4. noted \in DriverStates
      BY <3>1, <3>2, New_log
    <3>5. /\ noted.cmds = H(FALSE).cmds /\ noted.ep_state = H(FALSE).ep_state
          /\ noted.bell = H(FALSE).bell /\ noted.dying = H(FALSE).dying /\ noted.log = log
      BY <3>1 DEF DriverStates
    <3> HIDE DEF noted
    <3> QED
      BY <2>2, <3>3, <3>4, <3>5
  <2> QED
    BY <1>2, <2>1, <2>2
<1> DEFINE r == H(ok)
<1>8. ASSUME r.bell => r.ep_state = {}
      PROVE  /\ drv.cmds' = r.cmds /\ drv.ep_state' = r.ep_state /\ drv.log' = d.log
             /\ drv.dying' = r.dying /\ cmdhw.done' = cmdhw.done - Passed
             /\ Belled
  <2> HIDE DEF H, Passed
  <2> QED
    BY <1>5, <1>7, <1>8, CommitDoorbell
<1>9. CASE e.kind = "command"
  <2> DEFINE c == Head(drv.cmds)
  <2>1. drv.cmds # <<>> /\ cmdhw.done >= 1
    <3> DEFINE n == CommandsIn(events, Len(events))
    <3>1. n <= cmdhw.done
      BY DEF TypeInv, CountInv
    <3>2. CommandsIn(events, 0) < n /\ CommandsIn(events, 0) = 0 /\ n \in Nat
      <4>1. /\ 0 \in Nat /\ 0 < Len(events) /\ 0 <= Len(events) /\ 0 + 1 = 1
            /\ Len(events) \in Nat /\ events[1].kind = "command"
        BY <1>1, <1>2, <1>4, <1>9
      <4> QED
        BY <4>1, CountStep, CountGrows
    <3> HIDE DEF n
    <3> QED
      BY <1>1, <3>1, <3>2
  <2>2. r = handle_cmd_completion(drv, hw, e.code, elapsed, ok)
    BY <1>9 DEF Handled
  <2> HIDE DEF H
  <2>3. /\ c.live /\ Moved(drv, r, hw, c, e.code, elapsed, ~ok)
        /\ Paired(r.cmds, r.ep_state)
        /\ r.bell => r.ep_state = {}
        /\ "EP_HALTED" \in drv.ep_state /\ c.op # "reset" => "EP_HALTED" \in r.ep_state
        /\ r.dying = drv.dying /\ drv.log \subseteq r.log
        /\ "timeout" \in r.log => "timeout" \in drv.log
    <3>1. Completed(drv, handle_cmd_completion(drv, hw, e.code, elapsed, ok), hw, e.code,
                    elapsed, ~ok)
      BY <1>1, <1>6, <1>7, <1>9, <2>1, CompletionEffect
    <3> QED
      BY <2>2, <3>1 DEF Completed
  <2> QED
    BY <1>2, <1>3, <1>7, <1>8, <1>9, <2>1, <2>3 DEF Moved, Passed
<1>10. CASE e.kind # "command"
  <2>1. \/ Same(drv, r)
        \/ e.kind = "transfer" /\ e.code # "ok" /\ Queued(drv, r, "reset")
    <3>1. CASE e.kind = "transfer"
      <4>1. r = handle_tx_event(drv, hw, type, e, ok)
        BY <3>1 DEF Handled
      <4> HIDE DEF H
      <4> QED
        BY <1>1, <1>4, <3>1, <4>1, TransferEventEffect DEF Handles, EventOK
    <3>2. CASE e.kind # "transfer"
      BY <1>10, <3>2 DEF Handled, Same
    <3> QED
      BY <3>1, <3>2
  <2> HIDE DEF H
  <2>2. Paired(r.cmds, r.ep_state)
    <3>1. CASE Same(drv, r)
      BY <1>6, <3>1 DEF Same
    <3>2. CASE Queued(drv, r, "reset")
      BY <1>1, <1>6, <3>2, PairedAppend DEF Queued, FlagOf, Ops
    <3> QED
      BY <2>1, <3>1, <3>2
  <2>3. FlagOf("reset") = "EP_HALTED" /\ Passed = 0
    BY <1>10 DEF FlagOf, Passed
  <2>4. r.bell = FALSE /\ r.dying = drv.dying /\ drv.log \subseteq r.log
        /\ ("timeout" \in r.log => "timeout" \in drv.log)
    BY <1>1, <2>1 DEF Same, Queued
  <2>5. /\ drv.cmds' = r.cmds /\ drv.ep_state' = r.ep_state /\ drv.log' = d.log
        /\ drv.dying' = r.dying /\ cmdhw.done' = cmdhw.done /\ Belled
    BY <1>1, <1>8, <2>3, <2>4
  <2>6. \/ r.cmds = drv.cmds /\ r.ep_state = drv.ep_state
        \/ /\ e.kind = "transfer" /\ e.code # "ok" /\ "EP_HALTED" \notin drv.ep_state
           /\ \E c \in Fresh : c.op = "reset" /\ r.cmds = Append(drv.cmds, c)
           /\ r.ep_state = drv.ep_state \cup {"EP_HALTED"}
    BY <2>1, <2>3 DEF Same, Queued
  <2> QED
    BY <1>2, <1>3, <1>7, <1>10, <2>2, <2>4, <2>5, <2>6
<1> QED
  BY <1>9, <1>10

\* It holds at first.
LEMMA PairInit ==
  ASSUME Init
  PROVE  PairInv
BY PairedStart DEF Init, PairInv

\* What the controller adds to the events.
LEMMA ControllerKeeps ==
  ASSUME TypeInv, Controller
  PROVE  /\ drv' = drv /\ worker' = worker
         /\ ~drv.dying
         /\ events \in Seq(Events) /\ events' \in Seq(Events)
         /\ Len(events') \in Nat /\ Len(events) \in Nat /\ Len(events) <= Len(events')
         /\ \A i \in 1 .. Len(events) : events'[i] = events[i]
         /\ \A i \in Len(events) + 1 .. Len(events') :
              events'[i].kind = "command" => events'[i].code # "aborted"
<1>1. events \in Seq(Events) /\ Len(events) \in Nat
  BY DEF TypeInv, TypeOK
<1>2. TypeInv'
  BY ControllerType
<1>3. events' \in Seq(Events) /\ Len(events') \in Nat
  BY <1>2 DEF TypeInv, TypeOK
<1>4. drv' = drv /\ worker' = worker /\ ~drv.dying
  BY DEF Controller, HwStart, HwSkip, HwTransfer, HwHalt, HwCommand, HwReady
<1>5. ASSUME NEW a, a.kind = "command" => a.code # "aborted", events' = Append(events, a)
      PROVE  /\ Len(events) <= Len(events')
             /\ \A i \in 1 .. Len(events) : events'[i] = events[i]
             /\ \A i \in Len(events) + 1 .. Len(events') :
                  events'[i].kind = "command" => events'[i].code # "aborted"
  BY <1>1, <1>5
<1>6. CASE events' = events
  BY <1>1, <1>3, <1>4, <1>6
<1>7. CASE HwTransfer
  <2> DEFINE t == Transfer("ok")
             l == [Transfer("ok") EXCEPT !.pos = drv.td[Running].last]
  <2>1. t.kind = "transfer" /\ l.kind = "transfer"
    BY DEF Transfer
  <2>2. \/ events' = events
        \/ events' = Append(events, t)
        \/ events' = events \o <<t, l>>
    BY <1>7 DEF HwTransfer
  <2> HIDE DEF t, l
  <2>3. CASE events' = Append(events, t)
    BY <1>1, <1>3, <1>4, <1>5, <2>1, <2>3
  <2>4. CASE events' = events \o <<t, l>>
    BY <1>1, <1>3, <1>4, <2>1, <2>4
  <2> QED
    BY <1>6, <2>2, <2>3, <2>4
<1>8. CASE HwHalt
  BY <1>1, <1>3, <1>4, <1>5, <1>8 DEF HwHalt, Transfer
<1>9. CASE HwCommand
  <2> DEFINE c == drv.cmds[cmdhw.done + 1]
             e == [kind |-> "command", code |-> Obeyed(c).code]
  <2>1. events' = Append(events, e)
    BY <1>9 DEF HwCommand
  <2>2. e.code # "aborted"
    BY DEF Obeyed
  <2> HIDE DEF e
  <2> QED
    BY <1>1, <1>3, <1>4, <1>5, <2>1, <2>2
<1> QED
  BY <1>6, <1>7, <1>8, <1>9 DEF Controller, HwStart, HwSkip

\* Every step keeps it.
LEMMA PairStep ==
  ASSUME TypeInv, PairInv, [Next]_vars
  PROVE  PairInv'
<1> SUFFICES ASSUME Intact'
             PROVE  /\ Paired(drv.cmds', drv.ep_state')
                    /\ worker.pc' # "wait"
                    /\ \A i \in DOMAIN events' :
                         events'[i].kind = "command" => events'[i].code # "aborted"
  BY DEF PairInv
<1>1. /\ events \in Seq(Events) /\ drv \in DriverStates /\ drv.cmds \in Seq(Commands)
      /\ drv.ep_state \in SUBSET Flags
  BY Parts DEF TypeInv, TypeOK
<1>2. CASE Aside /\ worker.pc' \in {worker.pc, "idle", "due"}
  BY <1>2 DEF Aside, Intact, PairInv
<1>3. CASE \/ \E u \in Urbs, n \in Sizes : prepare_transfer(u, n)
           \/ queue_trb \/ giveback_first_trb
  BY <1>2, <1>3, SubmissionAside
<1>4. CASE \E u \in Urbs : xhci_urb_dequeue(u)
  <2>1. PICK u \in Urbs : xhci_urb_dequeue(u)
    BY <1>4
  <2>2. Paired(Append(drv.cmds, Stop), drv.ep_state \cup {FlagOf(Stop.op)})
        \/ FlagOf(Stop.op) \in drv.ep_state
    BY <1>1, <2>1, PairedAppend, StopIsFresh, UnlinkQueues DEF Ops, FlagOf, Intact, PairInv
  <2> QED
    BY <2>1, <2>2, StopIsFresh, UnlinkQueues DEF Ops, FlagOf, Intact, PairInv
<1>5. CASE \E elapsed \in BOOLEAN : xhci_handle_event_trb(elapsed)
  <2>1. PICK elapsed \in BOOLEAN : xhci_handle_event_trb(elapsed)
    BY <1>5
  <2>2. Intact
    BY <2>1, LogGrows DEF Intact, xhci_handle_event_trb, Unlocked
  <2>3. /\ events # <<>> /\ events' = Tail(events) /\ worker.pc' = worker.pc
        /\ Paired(drv.cmds', drv.ep_state')
    BY <2>1, <2>2, EventEffect
  <2> QED
    BY <1>1, <2>2, <2>3 DEF PairInv
<1>6. CASE TimerExpires \/ TimeoutRaced
  BY <1>2, <1>6, TimerAside
<1>7. CASE \/ TimeoutOfStop \/ xhci_abort_cmd_ring \/ AbortFails
           \/ TimeoutOnStoppedRing \/ AbortDone
  BY <1>7, WorkerLoses DEF Intact, PairInv
<1>8. CASE Controller
  BY <1>1, <1>8, ControllerKeeps DEF Intact, PairInv
<1>9. CASE UNCHANGED vars
  BY <1>9 DEF vars, Intact, PairInv
<1> QED
  BY <1>3, <1>4, <1>5, <1>6, <1>7, <1>8, <1>9 DEF Next, Driver, xhci_handle_command_timeout

\* Unless a command has timed out, every pending flag of the endpoint has
\* its command on the ring, whatever was allocated or not: what was put off
\* until the command completes is not put off for good.
THEOREM FlagsHaveCommands == Spec => []FlagsCovered
<1>1. PairInv => FlagsCovered
  BY DEF PairInv, Intact, Paired, Ops, FlagOf, FlagsCovered, Coming
<1> QED
  BY <1>1, PTL, TypeStep, PairStep, TypeInit, PairInit DEF Spec

-----------------------------------------------------------------------------
(* The dequeue pointer is set while the endpoint is stopped                *)

\* The events behind the first one, and the counts up to them.
LEMMA TailIndex ==
  ASSUME NEW T, NEW s \in Seq(T), s # <<>>
  PROVE  \A i \in DOMAIN Tail(s) :
           /\ i \in Nat /\ i \in 0 .. Len(s) - 1 /\ i + 1 \in DOMAIN s /\ Tail(s)[i] = s[i + 1]
           /\ CommandsIn(s, i + 1)
                = CommandsIn(Tail(s), i) + (IF Head(s).kind = "command" THEN 1 ELSE 0)
           /\ CommandsIn(Tail(s), i) \in Nat
<1> TAKE i \in DOMAIN Tail(s)
<1>1. i \in Nat /\ i \in 0 .. Len(s) - 1 /\ i + 1 \in DOMAIN s /\ Tail(s)[i] = s[i + 1]
  OBVIOUS
<1> QED
  BY <1>1, CountStep, CountTail

\* While a command is listed the doorbell is not rung.
LEMMA StaysParked ==
  ASSUME Parked, Belled, Paired(drv.cmds', drv.ep_state'), drv.cmds' \in Seq(Commands),
         drv.cmds' # <<>>
  PROVE  Parked'
BY DEF Paired, Parked, Belled

\* A command's event counts.
LEMMA CountsCommand ==
  ASSUME NEW T, NEW s \in Seq(T), NEW j \in DOMAIN s, s[j].kind = "command"
  PROVE  CommandsIn(s, Len(s)) \in Nat \ {0}
<1>1. CommandsIn(s, j - 1) \in Nat /\ CommandsIn(s, Len(s)) \in Nat
  BY CountStep
<1> QED
  BY <1>1, CountGrows

\* A completion on its way has a command on the list.
LEMMA EventHasCommand ==
  ASSUME TypeInv, NEW j \in DOMAIN events, events[j].kind = "command"
  PROVE  drv.cmds # <<>> /\ cmdhw.done >= 1
<1> DEFINE n == CommandsIn(events, Len(events))
<1>1. n \in Nat \ {0}
  BY CountsCommand, Parts DEF TypeInv, TypeOK
<1>2. n <= cmdhw.done
  BY DEF TypeInv, CountInv
<1> HIDE DEF n
<1> QED
  BY <1>1, <1>2, Parts DEF TypeInv, TypeOK

\* What is aside disturbs none of it.
LEMMA AsideStop ==
  ASSUME TypeInv, TypeInv', StopInv, Aside, Paired(drv.cmds', drv.ep_state')
  PROVE  StopInv'
<1>1. /\ drv.cmds' = drv.cmds /\ drv.ep_state' = drv.ep_state /\ events' = events
      /\ cmdhw.done' = cmdhw.done /\ Belled /\ hw.state' = hw.state
      /\ drv.cmds \in Seq(Commands)
  BY Parts DEF Aside, Belled, TypeInv, TypeOK
<1>2. ASSUME drv.cmds # <<>>, Parked
      PROVE  Parked'
  BY <1>1, <1>2, StaysParked
<1> QED
  BY <1>1, <1>2, EventHasCommand DEF StopInv, HaltLasts, HaltsBefore, OkParked, ResetsParked,
    SetsParked, ResetsHalted

\* Neither does a stop queued for a cancellation.
LEMMA UnlinkStop ==
  ASSUME TypeInv, TypeInv', StopInv, Paired(drv.cmds, drv.ep_state),
         drv.ep_state = {}, drv.cmds' = Append(drv.cmds, Stop),
         drv.ep_state' = {"EP_STOP_CMD_PENDING"}, events' = events,
         cmdhw.done' = cmdhw.done, Belled
  PROVE  StopInv'
<1>1. drv.cmds \in Seq(Commands) /\ Stop.op = "stop" /\ hw.state' = hw.state
  BY Parts DEF TypeInv, TypeOK, Stop, Command, Belled
<1> QED
  BY <1>1, EventHasCommand DEF StopInv, HaltLasts, OkParked, ResetsHalted, ResetsParked,
    SetsParked, HaltsBefore, Paired

\* An event that completes no command.
LEMMA TransferStop ==
  ASSUME TypeInv, TypeInv', StopInv, Paired(drv.cmds', drv.ep_state'),
         events # <<>>, events' = Tail(events), Head(events).kind # "command",
         cmdhw.done' = cmdhw.done, Belled,
         \/ drv.cmds' = drv.cmds /\ drv.ep_state' = drv.ep_state
         \/ /\ Head(events).kind = "transfer" /\ Head(events).code # "ok"
            /\ "EP_HALTED" \notin drv.ep_state
            /\ \E c \in Fresh : c.op = "reset" /\ drv.cmds' = Append(drv.cmds, c)
            /\ drv.ep_state' = drv.ep_state \cup {"EP_HALTED"}
  PROVE  StopInv'
<1>1. /\ drv.cmds \in Seq(Commands) /\ Len(drv.cmds) \in Nat /\ events \in Seq(Events)
      /\ drv.cmds' \in Seq(Commands)
      /\ cmdhw.done \in 0 .. Len(drv.cmds) /\ hw.state' = hw.state
  BY Parts DEF TypeInv, TypeOK, Belled
<1>2. ASSUME drv.cmds' # <<>>, Parked
      PROVE  Parked'
  BY <1>1, <1>2, StaysParked
<1>3. CASE drv.cmds' = drv.cmds /\ drv.ep_state' = drv.ep_state
  BY <1>1, <1>2, <1>3, EventHasCommand, TailIndex DEF StopInv, ResetsHalted, ResetsParked,
    SetsParked, HaltLasts, HaltsBefore, OkParked
<1>4. CASE /\ Head(events).kind = "transfer" /\ Head(events).code # "ok"
           /\ "EP_HALTED" \notin drv.ep_state
           /\ \E c \in Fresh : c.op = "reset" /\ drv.cmds' = Append(drv.cmds, c)
           /\ drv.ep_state' = drv.ep_state \cup {"EP_HALTED"}
  BY <1>1, <1>2, <1>4, EventHasCommand, TailIndex DEF StopInv, HaltLasts, Halts, Parked, Fresh,
    ResetsHalted, ResetsParked, SetsParked, HaltsBefore, OkParked
<1> QED
  BY <1>3, <1>4

\* The completion of a command.
LEMMA CompletionStop ==
  ASSUME TypeInv, TypeInv', StopInv, Paired(drv.cmds, drv.ep_state),
         Paired(drv.cmds', drv.ep_state'), NEW elapsed \in BOOLEAN,
         events # <<>>, events' = Tail(events), Head(events).kind = "command",
         Head(events).code # "aborted", drv.log' = {},
         drv.cmds # <<>>, cmdhw.done >= 1, cmdhw.done' = cmdhw.done - 1,
         Moved(drv, drv', hw, Head(drv.cmds), Head(events).code, elapsed, drv.log' # {}),
         "EP_HALTED" \in drv.ep_state /\ Head(drv.cmds).op # "reset"
           => "EP_HALTED" \in drv.ep_state',
         elapsed => ~hw.db, Belled
  PROVE  StopInv'
<1> DEFINE done == cmdhw.done
           old == Tail(drv.cmds)
           c == Head(drv.cmds)
<1>1. /\ drv.cmds \in Seq(Commands) /\ Len(drv.cmds) \in Nat \ {0} /\ events \in Seq(Events)
      /\ drv.cmds' \in Seq(Commands) /\ done \in 0 .. Len(drv.cmds) /\ done \in Nat \ {0}
      /\ hw.state' = hw.state
      /\ c = drv.cmds[1] /\ 1 \in DOMAIN drv.cmds
      /\ Head(events) = events[1] /\ 1 \in DOMAIN events
      /\ DOMAIN drv.cmds = 1 .. Len(drv.cmds)
  BY Parts DEF TypeInv, TypeOK, Belled
<1>2. \A j \in DOMAIN events' :
        /\ j + 1 \in DOMAIN events /\ events'[j] = events[j + 1]
        /\ CommandsIn(events, j + 1) = CommandsIn(events', j) + 1
        /\ CommandsIn(events', j) \in Nat
  BY <1>1, TailIndex
<1>3. \A i \in 1 .. Len(drv.cmds) - 1 : old[i] = drv.cmds[i + 1]
  BY <1>1
<1>4. old \in Seq(Commands) /\ Len(old) = Len(drv.cmds) - 1
  BY <1>1
<1> HIDE DEF old
<1>5. ASSUME drv.cmds' # <<>>, Parked
      PROVE  Parked'
  BY <1>1, <1>5, StaysParked
<1>6. \A i \in DOMAIN drv.cmds' : drv.cmds' # <<>>
  BY <1>1 \* The new list: what is left of the old one, and perhaps a command more.
<1>7. \A i \in DOMAIN drv.cmds' :
        \/ /\ i \in 1 .. Len(drv.cmds) - 1
           /\ i + 1 \in DOMAIN drv.cmds /\ drv.cmds'[i] = drv.cmds[i + 1]
        \/ /\ i = Len(drv.cmds)
           /\ \/ drv.cmds'[i].op = "stop"
              \/ drv.cmds'[i].op = "reset" /\ hw.state = "halted"
              \/ drv.cmds'[i].op = "setdeq" /\ Parked
  <2>1. CASE drv.cmds' = old
    BY <1>1, <1>3, <1>4, <2>1
  <2>2. CASE \E n \in Fresh :
         /\ drv.cmds' = Append(old, n)
         /\ \/ n.op = "stop"
            \/ n.op = "reset" /\ hw.state = "halted" /\ c.op = "stop"
            \/ /\ n.op = "setdeq"
               /\ \/ c.op # "stop" \/ Head(events).code # "ctx"
                  \/ hw.state = "stopped" /\ (elapsed \/ "EP_HALTED" \in drv.ep_state)
    <3>1. PICK n \in Fresh :
         /\ drv.cmds' = Append(old, n)
         /\ \/ n.op = "stop"
            \/ n.op = "reset" /\ hw.state = "halted" /\ c.op = "stop"
            \/ /\ n.op = "setdeq"
               /\ \/ c.op # "stop" \/ Head(events).code # "ctx"
                  \/ hw.state = "stopped" /\ (elapsed \/ "EP_HALTED" \in drv.ep_state)
      BY <2>2
    <3>2. /\ DOMAIN drv.cmds' = 1 .. Len(drv.cmds)
          /\ drv.cmds'[Len(drv.cmds)] = n
          /\ \A i \in 1 .. Len(drv.cmds) - 1 : drv.cmds'[i] = old[i]
      BY <1>1, <1>4, <3>1 DEF Fresh
    <3>3. ASSUME n.op = "setdeq"
          PROVE  Parked
      <4>1. CASE c.op # "stop"
        BY <1>1, <4>1 DEF Paired, Ops, StopInv, SetsParked, ResetsParked
      <4>2. CASE Head(events).code # "ctx"
        BY <1>1, <4>2 DEF Events, StopInv, OkParked
      <4>3. CASE hw.state = "stopped" /\ elapsed
        BY <4>3 DEF Parked
      <4>4. CASE hw.state = "stopped" /\ "EP_HALTED" \in drv.ep_state
        BY <1>1, <4>4 DEF Paired, Ops, FlagOf, StopInv, ResetsHalted, ResetsParked
      <4> QED
        BY <3>1, <3>3, <4>1, <4>2, <4>3, <4>4
    <3> TAKE i \in DOMAIN drv.cmds'
    <3>4. CASE i = Len(drv.cmds)
      BY <3>1, <3>2, <3>3, <3>4
    <3>5. CASE i # Len(drv.cmds)
      <4>1. i \in 1 .. Len(drv.cmds) - 1 /\ i + 1 \in 1 .. Len(drv.cmds)
        BY <1>1, <3>2, <3>5
      <4> QED
        BY <1>1, <1>3, <3>2, <4>1
    <3> QED
      BY <3>4, <3>5
  <2> QED
    BY <2>1, <2>2 DEF Moved, old
<1> HIDE DEF c
<1>8. ResetsHalted'
  <2> SUFFICES ASSUME NEW i \in DOMAIN drv.cmds', drv.cmds'[i].op = "reset", i > cmdhw.done'
               PROVE  hw.state = "halted"
    BY <1>1 DEF ResetsHalted
  <2>1. CASE i \in 1 .. Len(drv.cmds) - 1 /\ i + 1 \in DOMAIN drv.cmds
             /\ drv.cmds'[i] = drv.cmds[i + 1]
    BY <1>1, <2>1 DEF StopInv, ResetsHalted
  <2> QED
    BY <1>7, <2>1
<1>9. ResetsParked'
  <2> SUFFICES ASSUME NEW i \in DOMAIN drv.cmds', drv.cmds'[i].op = "reset", i <= cmdhw.done'
               PROVE  Parked
    BY <1>5, <1>6 DEF ResetsParked
  <2>1. i \in 1 .. Len(drv.cmds) - 1 /\ i + 1 \in DOMAIN drv.cmds
        /\ drv.cmds'[i] = drv.cmds[i + 1]
    BY <1>1, <1>7
  <2> QED
    BY <1>1, <2>1 DEF StopInv, ResetsParked
<1>10. OkParked'
  <2> SUFFICES ASSUME NEW j \in DOMAIN events', events'[j].kind = "command",
                      events'[j].code = "ok"
               PROVE  Parked'
    BY DEF OkParked
  <2>1. Parked
    BY <1>2 DEF StopInv, OkParked
  <2>2. CommandsIn(events', Len(events')) \in Nat \ {0}
    BY CountsCommand DEF TypeInv, TypeOK
  <2> QED
    BY <1>1, <1>5, <2>1, <2>2 DEF TypeInv, CountInv, TypeOK, c
<1>11. HaltLasts'
  <2> SUFFICES ASSUME NEW j \in DOMAIN events', Halts(events'[j]),
                      "EP_HALTED" \notin drv.ep_state'
               PROVE  hw.state = "halted"
    BY <1>1 DEF HaltLasts
  <2>1. CASE "EP_HALTED" \notin drv.ep_state
    BY <1>2, <2>1 DEF StopInv, HaltLasts
  <2>2. CASE "EP_HALTED" \in drv.ep_state
    <3>1. CommandsIn(events, j + 1) >= 1
      BY <1>2
    <3> QED
      BY <1>1, <1>2, <2>2, <3>1 DEF StopInv, HaltsBefore, c
  <2> QED
    BY <2>1, <2>2
<1>12. HaltsBefore'
  <2> SUFFICES ASSUME NEW k \in DOMAIN drv.cmds', drv.cmds'[k].op = "reset", k <= cmdhw.done',
                      NEW j \in DOMAIN events', CommandsIn(events', j) >= k
               PROVE  ~Halts(events'[j])
    BY DEF HaltsBefore
  <2>1. k \in 1 .. Len(drv.cmds) - 1 /\ k + 1 \in DOMAIN drv.cmds
        /\ drv.cmds'[k] = drv.cmds[k + 1]
    BY <1>1, <1>7
  <2>2. k + 1 <= cmdhw.done
    BY <1>1, <2>1
  <2>3. CommandsIn(events, j + 1) >= k + 1
    BY <1>1, <1>2, <2>1
  <2> QED
    BY <1>2, <2>1, <2>2, <2>3 DEF StopInv, HaltsBefore
<1> QED
  BY <1>5, <1>6, <1>7, <1>8, <1>9, <1>10, <1>11, <1>12 DEF StopInv, SetsParked

\* The controller while it runs: nothing is on its way that says otherwise.
LEMMA RunningMeans ==
  ASSUME StopInv, hw.state \notin {"halted"}, ~Parked
  PROVE  /\ \A i \in DOMAIN drv.cmds : i > cmdhw.done => drv.cmds[i].op # "reset"
         /\ \A i \in DOMAIN drv.cmds : i <= cmdhw.done => drv.cmds[i].op # "reset"
         /\ \A i \in DOMAIN drv.cmds : drv.cmds[i].op # "setdeq"
         /\ \A j \in DOMAIN events : ~ (events[j].kind = "command" /\ events[j].code = "ok")
         /\ \A j \in DOMAIN events : Halts(events[j]) => "EP_HALTED" \in drv.ep_state
BY DEF StopInv, ResetsHalted, ResetsParked, SetsParked, OkParked, HaltLasts

\* It runs or halts without a command.
LEMMA RunStop ==
  ASSUME TypeInv, TypeInv', StopInv, hw.state \notin {"halted"}, ~Parked,
         drv' = drv, cmdhw' = cmdhw,
         Len(events) <= Len(events'),
         \A i \in 1 .. Len(events) : events'[i] = events[i],
         \A i \in Len(events) + 1 .. Len(events') :
           /\ events'[i].kind = "transfer"
           /\ Halts(events'[i]) => hw.state' = "halted"
  PROVE  StopInv'
<1>1. \A j \in DOMAIN events' :
        j \in 1 .. Len(events) \/ j \in Len(events) + 1 .. Len(events')
  BY Parts DEF TypeInv, TypeOK
<1>2. \A j \in 1 .. Len(events) : j \in DOMAIN events
  BY Parts DEF TypeInv, TypeOK
<1> QED
  BY <1>1, <1>2, RunningMeans DEF StopInv, HaltLasts, OkParked, ResetsHalted, ResetsParked,
    SetsParked, HaltsBefore

\* It obeys a command.
LEMMA CommandStop ==
  ASSUME TypeInv, TypeInv', StopInv, Paired(drv.cmds, drv.ep_state),
         hw.db => hw.state = "stopped", HwCommand
  PROVE  StopInv' /\ (hw.db' => hw.state' = "stopped")
<1> DEFINE n == cmdhw.done + 1
           c == drv.cmds[n]
           e == [kind |-> "command", code |-> Obeyed(c).code]
<1>1. /\ events \in Seq(Events) /\ Len(events) \in Nat
      /\ drv.cmds \in Seq(Commands) /\ Len(drv.cmds) \in Nat /\ hw \in ControllerStates
      /\ cmdhw.done \in 0 .. Len(drv.cmds) /\ cmdhw \in [run : BOOLEAN, done : 0 .. Len(drv.cmds)]
  BY Parts DEF TypeInv, TypeOK
<1>2. /\ cmdhw.done < Len(drv.cmds) /\ hw' = Obeyed(c).to /\ events' = Append(events, e)
      /\ cmdhw' = [cmdhw EXCEPT !.done = @ + 1] /\ drv' = drv
  BY DEF HwCommand
<1>3. n \in DOMAIN drv.cmds /\ n \in Nat /\ cmdhw.done' = n
  BY <1>1, <1>2
<1>4. c \in Fresh /\ c.op \in Ops /\ FlagOf(c.op) \in drv.ep_state
  BY <1>3 DEF Paired
<1>5. \A i \in DOMAIN drv.cmds :
        /\ i > n => i > cmdhw.done /\ i # n
        /\ i <= n => i <= cmdhw.done \/ i = n
  BY <1>1
<1>6. /\ Len(events') = Len(events) + 1 /\ events'[Len(events) + 1] = e
      /\ \A j \in 1 .. Len(events) : events'[j] = events[j]
      /\ DOMAIN events' = 1 .. Len(events) + 1 /\ DOMAIN events = 1 .. Len(events)
      /\ \A j \in DOMAIN events' : j \in DOMAIN events \/ j = Len(events) + 1
  BY <1>1, <1>2
<1>7. \A j \in DOMAIN events :
        /\ CommandsIn(events', j) = CommandsIn(events, j)
        /\ CommandsIn(events, j) <= cmdhw.done /\ CommandsIn(events, j) \in Nat
  <2> TAKE j \in DOMAIN events
  <2>1. j \in 0 .. Len(events) /\ j \in Nat /\ j <= Len(events)
    BY <1>1
  <2>2. CommandsIn(events', j) = CommandsIn(events, j)
    BY <1>1, <1>2, <2>1, CountAppend
  <2>3. CommandsIn(events, j) \in Nat /\ CommandsIn(events, Len(events)) \in Nat
    BY <1>1, <2>1, CountStep
  <2> QED
    BY <1>1, <2>1, <2>2, <2>3, CountGrows DEF TypeInv, CountInv
<1>8. ~Halts(e)
  BY DEF Halts \* No halt is reported after the completion of a reset.
<1>9. HaltsBefore'
  BY <1>1, <1>2, <1>3, <1>5, <1>6, <1>7, <1>8 DEF HaltsBefore, StopInv
<1>10. ASSUME Parked', \A i \in DOMAIN drv.cmds : i > n => drv.cmds[i].op # "reset",
              hw.state = "halted" => "EP_HALTED" \in drv.ep_state
       PROVE  StopInv' /\ (hw.db' => hw.state' = "stopped")
  BY <1>2, <1>3, <1>6, <1>8, <1>9, <1>10 DEF ResetsHalted, ResetsParked, SetsParked, OkParked,
    HaltLasts, StopInv, Parked
<1>11. CASE c.op = "stop" /\ hw.state = "running"
  BY <1>1, <1>2, <1>5, <1>10, <1>11 DEF Obeyed, Parked, ControllerStates, StopInv, ResetsHalted
<1>12. CASE c.op = "setdeq"
  BY <1>1, <1>2, <1>3, <1>5, <1>10, <1>12 DEF StopInv, SetsParked, Obeyed, Parked,
    ControllerStates, ResetsHalted
<1>13. CASE c.op = "reset"
  BY <1>1, <1>2, <1>3, <1>4, <1>5, <1>10, <1>13 DEF StopInv, ResetsHalted, Obeyed, Parked,
    ControllerStates, FlagOf, Paired
<1>14. CASE c.op = "stop" /\ hw.state # "running"
  <2>1. hw' = hw /\ e.code = "ctx"
    BY <1>2, <1>14 DEF Obeyed
  <2> HIDE DEF c, e, n
  <2> QED
    BY <1>2, <1>3, <1>5, <1>6, <1>8, <1>9, <1>14, <2>1 DEF StopInv, HaltLasts, OkParked,
      Parked, SetsParked, ResetsParked, c, ResetsHalted
<1> QED
  BY <1>4, <1>11, <1>12, <1>13, <1>14 DEF Ops

\* The endpoint halts, its doorbell as it was.
LEMMA HaltedMeans ==
  ASSUME hw \in ControllerStates, TypeInv, HwHalt
  PROVE  hw.state' = "halted" /\ hw.db' = hw.db
<1> DEFINE rest == Ahead(drv.td[Running].last, hw.deq)
           u == Running
<1>1. rest \in Nat
  BY TransferEvents DEF HwHalt, Codes
<1>2. \/ hw' = [hw EXCEPT !.state = "halted", !.cached = u]
      \/ \E n \in {rest + 1, 0} : hw' = [Advance(n) EXCEPT !.state = "halted", !.cached = u]
  BY DEF HwHalt
<1> HIDE DEF rest, u
<1>3. CASE hw' = [hw EXCEPT !.state = "halted", !.cached = u]
  BY <1>3 DEF ControllerStates
<1>4. CASE \E n \in {rest + 1, 0} : hw' = [Advance(n) EXCEPT !.state = "halted", !.cached = u]
  <2>1. PICK n \in {rest + 1, 0} : hw' = [Advance(n) EXCEPT !.state = "halted", !.cached = u]
    BY <1>4
  <2> DEFINE a == Advance(n)
  <2>2. a \in ControllerStates /\ a.db = hw.db
    BY <1>1, <2>1, AdvanceFields
  <2>3. hw' = [a EXCEPT !.state = "halted", !.cached = u]
    BY <2>1
  <2> HIDE DEF a
  <2> QED
    BY <2>2, <2>3 DEF ControllerStates
<1> QED
  BY <1>2, <1>3, <1>4

\* A step of the controller: it runs, reports transfers, and halts, only while
\* nothing is on its way that says otherwise.
LEMMA ControllerStop ==
  ASSUME TypeInv, TypeInv', StopInv, Paired(drv.cmds, drv.ep_state),
         hw.db => hw.state = "stopped", Controller
  PROVE  StopInv'
<1>1. hw \in ControllerStates /\ events \in Seq(Events) /\ Len(events) \in Nat
  BY DEF TypeInv, TypeOK
<1>2. ASSUME hw.state = "running" \/ hw.db, drv' = drv, cmdhw' = cmdhw,
             \/ events' = events
             \/ \E a : /\ events' = Append(events, a) /\ a.kind = "transfer"
                       /\ Halts(a) => hw.state' = "halted"
             \/ \E a, b : /\ events' = events \o <<a, b>>
                          /\ a.kind = "transfer" /\ ~Halts(a)
                          /\ b.kind = "transfer" /\ ~Halts(b)
      PROVE  StopInv'
  <2>1. ASSUME Len(events) <= Len(events'),
               \A i \in 1 .. Len(events) : events'[i] = events[i],
               \A i \in Len(events) + 1 .. Len(events') :
                 /\ events'[i].kind = "transfer"
                 /\ Halts(events'[i]) => hw.state' = "halted"
        PROVE  StopInv'
    BY <1>2, <2>1, RunStop DEF Parked
  <2>2. CASE events' = events
    BY <1>1, <2>1, <2>2
  <2>3. CASE \E a : /\ events' = Append(events, a) /\ a.kind = "transfer"
                    /\ Halts(a) => hw.state' = "halted"
    BY <1>1, <2>1, <2>3
  <2>4. CASE \E a, b : /\ events' = events \o <<a, b>>
                       /\ a.kind = "transfer" /\ ~Halts(a)
                       /\ b.kind = "transfer" /\ ~Halts(b)
    BY <1>1, <2>1, <2>4
  <2> QED
    BY <1>2, <2>2, <2>3, <2>4
<1>3. CASE HwStart
  BY <1>2, <1>3 DEF HwStart
<1>4. CASE HwSkip
  BY <1>2, <1>4 DEF HwSkip, HwReady
<1>5. CASE HwTransfer
  <2> DEFINE t == Transfer("ok")
             l == [Transfer("ok") EXCEPT !.pos = drv.td[Running].last]
  <2>1. t.kind = "transfer" /\ l.kind = "transfer" /\ ~Halts(t) /\ ~Halts(l)
    BY DEF Transfer, Halts
  <2>2. \/ events' = events
        \/ events' = Append(events, t)
        \/ events' = events \o <<t, l>>
    BY <1>5 DEF HwTransfer
  <2> HIDE DEF t, l
  <2> QED
    BY <1>2, <1>5, <2>1, <2>2 DEF HwTransfer, HwReady
<1>6. CASE HwHalt
  BY <1>1, <1>2, <1>6, HaltedMeans DEF HwHalt, Transfer, HwReady
<1>7. CASE HwCommand
  BY <1>7, CommandStop
<1> QED
  BY <1>3, <1>4, <1>5, <1>6, <1>7 DEF Controller

\* A commit rings the doorbell of a stopped endpoint only.
LEMMA CommitStopped ==
  ASSUME hw \in ControllerStates, hw.db => hw.state = "stopped",
         NEW d, NEW passed, Commit(d, passed)
  PROVE  hw.db' => hw.state' = "stopped"
<1> DEFINE b == hw.db \/ (d.bell /\ hw.state = "stopped")
<1> HIDE DEF b
<1> QED
  BY DEF ControllerStates, Commit

\* A doorbell that waits for the endpoint to start waits at a stopped one.
LEMMA DoorbellStopped ==
  ASSUME TypeInv, hw.db => hw.state = "stopped", [Next]_vars
  PROVE  hw.db' => hw.state' = "stopped"
<1>1. hw \in ControllerStates /\ cmdhw.done \in Nat /\ Len(drv.cmds) \in Nat
      /\ drv.cmds \in Seq(Commands) /\ cmdhw.done \in 0 .. Len(drv.cmds)
  BY Parts DEF TypeInv, TypeOK
<1>2. CASE hw' = hw
  BY <1>2
<1>3. CASE \E d, passed : Commit(d, passed)
  BY <1>1, <1>3, CommitStopped
<1>4. CASE \/ \E u \in Urbs, n \in Sizes : prepare_transfer(u, n)
           \/ queue_trb \/ TimerExpires \/ TimeoutRaced \/ xhci_abort_cmd_ring
           \/ UNCHANGED vars
  BY <1>2, <1>4 DEF prepare_transfer, queue_trb, TimerExpires, TimeoutRaced,
    xhci_abort_cmd_ring, vars
<1>5. CASE giveback_first_trb
  BY <1>3, <1>5 DEF giveback_first_trb
<1>6. CASE \E u \in Urbs : xhci_urb_dequeue(u)
  BY <1>3, <1>6 DEF xhci_urb_dequeue
<1>7. CASE \E elapsed \in BOOLEAN : xhci_handle_event_trb(elapsed)
  BY <1>3, <1>7 DEF xhci_handle_event_trb
<1>8. CASE TimeoutOfStop \/ AbortFails \/ TimeoutOnStoppedRing \/ AbortDone
  BY <1>3, <1>8 DEF TimeoutOfStop, AbortFails, TimeoutOnStoppedRing, AbortDone
<1>9. CASE HwStart
  BY <1>1, <1>9 DEF HwStart, ControllerStates
<1>10. ASSUME NEW n \in Nat, hw' = Advance(n)
       PROVE  hw.db' => hw.state' = "stopped"
  BY <1>1, <1>10, AdvanceFields
<1>11. CASE HwSkip
  BY <1>10, <1>11 DEF HwSkip
<1>12. CASE HwTransfer
  <2> DEFINE rest == Ahead(drv.td[Running].last, hw.deq)
  <2> HIDE DEF rest
  <2> QED
    BY <1>10, <1>12, TransferEvents DEF HwTransfer, Codes
<1>13. CASE HwHalt
  BY <1>1, <1>13, HaltedMeans DEF HwHalt, HwReady
<1>14. CASE HwCommand
  <2> DEFINE c == drv.cmds[cmdhw.done + 1]
  <2> HIDE DEF c
  <2> HIDE DEF Fetched
  <2> QED
    BY <1>1, <1>14 DEF ControllerStates, Obeyed, HwCommand
<1> QED
  BY <1>4, <1>5, <1>6, <1>7, <1>8, <1>9, <1>11, <1>12, <1>13, <1>14 DEF Next, Driver,
    Controller, xhci_handle_command_timeout

\* It holds at first.
LEMMA DeqInit ==
  ASSUME Init
  PROVE  DeqInv
BY DEF Init, DequeueSetWhileStopped, StopInv, ResetsHalted, ResetsParked, SetsParked, OkParked,
  HaltLasts, HaltsBefore, DeqInv

\* The invariant is kept: the driver's steps one by one, then the controller's.
LEMMA DeqStep ==
  ASSUME TypeInv, PairInv, DeqInv, [Next]_vars
  PROVE  DeqInv'
<1>1. TypeInv' /\ PairInv' /\ (hw.db' => hw.state' = "stopped")
  BY TypeStep, PairStep, DoorbellStopped DEF DeqInv
<1>2. /\ drv.cmds \in Seq(Commands) /\ drv.cmds' \in Seq(Commands)
      /\ Len(drv.cmds) \in Nat /\ Len(drv.cmds') \in Nat
      /\ cmdhw.done \in 0 .. Len(drv.cmds) /\ cmdhw.done' \in 0 .. Len(drv.cmds')
      /\ events \in Seq(Events)
  BY <1>1, Parts DEF TypeInv, TypeOK
<1>3. Clean => Intact
  BY DEF Clean, Intact
<1>4. Clean' => Paired(drv.cmds', drv.ep_state')
  BY <1>1 DEF Clean, Intact, PairInv
<1>5. Clean => StopInv /\ Paired(drv.cmds, drv.ep_state)
  BY <1>3 DEF DeqInv, PairInv
<1>6. ASSUME ~drv.dying', Clean' => StopInv'
      PROVE  DeqInv'
  BY <1>1, <1>2, <1>6 DEF Clean, StopInv, DequeueSetWhileStopped, SetsParked, Parked, DeqInv
<1>7. CASE Aside /\ ~drv.dying
  BY <1>1, <1>4, <1>5, <1>6, <1>7, AsideStop DEF Aside, Clean
<1>8. CASE \/ \E u \in Urbs, n \in Sizes : prepare_transfer(u, n)
           \/ queue_trb \/ giveback_first_trb
  BY <1>7, <1>8, SubmissionAside DEF prepare_transfer, queue_trb, giveback_first_trb, Unlocked,
    TypeInv, StepInv
<1>9. CASE \E u \in Urbs : xhci_urb_dequeue(u)
  BY <1>1, <1>5, <1>6, <1>7, <1>9, UnlinkQueues, UnlinkStop DEF xhci_urb_dequeue, Unlocked,
    Aside, Clean
<1>10. CASE \E elapsed \in BOOLEAN : xhci_handle_event_trb(elapsed)
  <2>1. PICK elapsed \in BOOLEAN : xhci_handle_event_trb(elapsed)
    BY <1>10
  <2>2. ~drv.dying /\ drv.log \subseteq drv.log'
    BY <2>1, LogGrows DEF xhci_handle_event_trb, Unlocked
  <2>3. ASSUME Intact
        PROVE  ~drv.dying'
    BY <2>1, <2>2, <2>3, EventEffect
  <2>4. ASSUME drv.log' = {}
        PROVE  StopInv'
    <3>1. CASE Head(events).kind = "command"
      BY <1>1, <1>2, <1>3, <1>4, <1>5, <2>1, <2>2, <2>3, <2>4, <3>1, CompletionStop,
         EventEffect DEF PairInv, Clean
    <3>2. CASE Head(events).kind # "command"
      BY <1>1, <1>3, <1>4, <1>5, <2>1, <2>2, <2>3, <2>4, <3>2, TransferStop, EventEffect
      DEF Clean
    <3> QED
      BY <3>1, <3>2
  <2>5. ASSUME ~Intact
        PROVE  drv.log' # {}
    BY <2>2, <2>5 DEF Intact
  <2>6. CASE drv.log' = {}
    BY <1>6, <2>3, <2>4, <2>5, <2>6
  <2>7. CASE drv.log' # {}
    BY <1>1, <2>7 DEF DeqInv, Clean
  <2> QED
    BY <2>6, <2>7
<1>11. CASE TimerExpires \/ TimeoutRaced
  BY <1>7, <1>11, TimerAside DEF TimerExpires, TimeoutRaced, Unlocked
<1>12. CASE \/ TimeoutOfStop \/ xhci_abort_cmd_ring \/ AbortFails
            \/ TimeoutOnStoppedRing \/ AbortDone
  <2>1. CASE drv.log' # {}
    BY <1>1, <2>1 DEF DeqInv, Clean
  <2>2. CASE worker.pc = "wait" /\ drv.log' = drv.log
    BY <1>12, <2>1, <2>2 DEF PairInv, Intact, TimeoutOfStop, xhci_abort_cmd_ring, AbortFails,
      TimeoutOnStoppedRing, AbortDone, Unlocked
  <2>3. CASE /\ drv.dying' = TRUE /\ drv.log' = drv.log
             /\ Len(drv.cmds') = Len(drv.cmds)
             /\ \A i \in DOMAIN drv.cmds : drv.cmds'[i].op = drv.cmds[i].op
             /\ hw.state' = hw.state /\ hw.db' = hw.db /\ cmdhw.done' = cmdhw.done
    BY <1>1, <1>2, <2>3 DEF Clean, DequeueSetWhileStopped, DeqInv
  <2> QED
    BY <1>12, <2>1, <2>2, <2>3, WorkerLoses
<1>13. CASE Controller
  BY <1>1, <1>5, <1>6, <1>13, ControllerKeeps, ControllerStop DEF DeqInv, Clean
<1>14. CASE UNCHANGED vars
  BY <1>14 DEF vars, DeqInv, DequeueSetWhileStopped, Clean, StopInv, ResetsHalted,
    ResetsParked, SetsParked, OkParked, HaltLasts, HaltsBefore, Parked
<1> QED
  BY <1>8, <1>9, <1>10, <1>11, <1>12, <1>13, <1>14 DEF Next, Driver,
    xhci_handle_command_timeout

\* As long as no command has timed out or failed to be allocated, a Set TR
\* Dequeue Pointer command on its way finds the endpoint stopped, and
\* nothing has told it to start: the doorbell is held back by the flags, and
\* the command is queued only when a stop or a reset has been obeyed.
THEOREM DequeueSafe == Spec => [](drv.log = {} => DequeueSetWhileStopped)
<1> QED
  BY PTL, TypeStep, PairStep, DeqStep, TypeInit, PairInit, DeqInit DEF Spec, DeqInv

-----------------------------------------------------------------------------
(* A cancelled transfer is not forgotten                                   *)

\* What is left of a list was on it.
LEMMA KeptOfSome ==
  ASSUME NEW T, NEW s \in Seq(T), NEW S, Kept(s, S) # <<>>
  PROVE  \E x \in ToSet(s) : x \in S
<1> DEFINE k == Kept(s, S)
<1>1. k \in Seq(T) /\ ToSet(k) = ToSet(s) \cap S
  BY KeptIsPart
<1> HIDE DEF k
<1> QED
  BY <1>1 DEF ToSet, k

\* A list that leaves something was not empty.
LEMMA KeptOfNone ==
  ASSUME NEW T, NEW s \in Seq(T), NEW S, Kept(s, S) # <<>>
  PROVE  s # <<>>
BY KeptOfSome DEF ToSet

\* Looking at the cancelled TDs deals with them all, if there is memory for it.
LEMMA InvalidateDeals ==
  ASSUME NEW d \in DriverStates, NEW h \in ControllerStates
  PROVE  Dealt(xhci_invalidate_cancelled_tds(d, h, TRUE))
<1> DEFINE tds == d.cancelled_td_list
           cached == Kept(tds, {u \in Urbs : \/ d.td[u].cancel_status = "halted"
                                            \/ trb_in_td(d, u, h.deq)})
           keep == IF cached = <<>> \/ ~TRUE THEN NoUrb ELSE Last(cached)
           m == Marked0(d, cached, TRUE, keep, tds)
           e == xhci_invalidate_cancelled_tds(d, h, TRUE)
<1>1. cached \in Seq(Urbs)
  BY KeptIsPart, Parts
<1>2. e = IF "SET_DEQ_PENDING" \in d.ep_state THEN d
          ELSE IF keep = NoUrb THEN m
          ELSE xhci_move_dequeue_past_td(m, h, keep)
  BY DEF xhci_invalidate_cancelled_tds, Invalidate, Marked0
<1> HIDE DEF cached, e
<1>3. keep \in Urbs \cup {NoUrb}
  BY <1>1 DEF Last
<1>4. m \in DriverStates /\ Same(d, m)
  BY Marked0Type, Marked0Same
<1>5. CASE "SET_DEQ_PENDING" \in d.ep_state
  BY <1>2, <1>5 DEF Dealt, e
<1>6. CASE "SET_DEQ_PENDING" \notin d.ep_state /\ keep = NoUrb
  <2> DEFINE one(u) == IF u \notin ToSet(tds) THEN d.td[u]
                       ELSE [d.td[u] EXCEPT !.cancel_status =
                               IF u = keep THEN "clearing" ELSE "cleared"]
             td == [u \in Urbs |-> one(u)]
  <2>1. m.cancelled_td_list = tds /\ m.td = td
    BY DEF Marked0, DriverStates
  <2> HIDE DEF m, keep
  <2>2. ASSUME NEW u \in ToSet(tds)
        PROVE  td[u].cancel_status = "cleared"
    BY <1>6, UrbAssumption, Parts DEF Tds, ToSet
  <2> HIDE DEF td
  <2> QED
    BY <1>2, <1>6, <2>1, <2>2 DEF e, Dealt
<1>7. CASE "SET_DEQ_PENDING" \notin d.ep_state /\ keep # NoUrb
  <2> HIDE DEF keep, m
  <2>1. Queued(m, e, "setdeq")
    BY <1>2, <1>3, <1>4, <1>7, MoveDequeueQueues DEF Same
  <2> QED
    BY <2>1 DEF Queued, FlagOf, Dealt, e
<1> QED
  BY <1>5, <1>6, <1>7

\* A flag is cleared, and what can be given back is.
LEMMA GivebackWaits ==
  ASSUME NEW m \in DriverStates, Dealt(m), NEW F, "SET_DEQ_PENDING" \notin F
  PROVE  LET g == xhci_giveback_invalidated_tds([m EXCEPT !.ep_state = m.ep_state \ F]) IN
         Waits(g) /\ Waits(ring_doorbell_for_active_rings(g))
<1> DEFINE e == [m EXCEPT !.ep_state = m.ep_state \ F]
           g == xhci_giveback_invalidated_tds(e)
           r == ring_doorbell_for_active_rings(g)
<1>1. e \in DriverStates
  BY New_ep_state, Parts
<1>2. /\ e.ep_state = m.ep_state \ F /\ e.td = m.td
      /\ e.cancelled_td_list = m.cancelled_td_list
  BY DEF DriverStates
<1> HIDE DEF e
<1>3. g \in DriverStates /\ g.ep_state = e.ep_state
  BY <1>1, GivebackType, GivebackSame DEF Same
<1>4. g.cancelled_td_list = Kept(e.cancelled_td_list, {u \in Urbs : e.td[u].cancel_status # "cleared"})
  BY <1>1 DEF xhci_giveback_invalidated_tds, DriverStates
<1> HIDE DEF g
<1>5. Waits(g)
  <2>1. CASE "SET_DEQ_PENDING" \in m.ep_state
    BY <1>2, <1>3, <2>1 DEF Waits
  <2>2. CASE \A u \in ToSet(m.cancelled_td_list) : m.td[u].cancel_status = "cleared"
    BY <1>1, <1>2, <1>4, <2>2, Parts, KeptOfSome DEF Waits
  <2> QED
    BY <2>1, <2>2 DEF Dealt
<1> HIDE DEF r
<1> QED
  BY <1>3, <1>5 DEF e, g, r, Waits, ring_doorbell_for_active_rings, xhci_ring_ep_doorbell,
    DriverStates

\* So does a stop that ends,
LEMMA SettledWaits ==
  ASSUME NEW d \in DriverStates, NEW h \in ControllerStates
  PROVE  Waits(Settled(d, h, TRUE))
<1> DEFINE m == xhci_invalidate_cancelled_tds(d, h, TRUE)
<1>1. m \in DriverStates /\ Dealt(m)
  BY InvalidateCancelledType, InvalidateDeals
<1>2. Settled(d, h, TRUE) = ring_doorbell_for_active_rings(xhci_giveback_invalidated_tds(
                            [m EXCEPT !.ep_state = m.ep_state \ {"EP_STOP_CMD_PENDING"}]))
  BY DEF Settled
<1> HIDE DEF m
<1> QED
  BY <1>1, <1>2, GivebackWaits

\* a reset,
LEMMA ResetWaits ==
  ASSUME NEW d \in DriverStates, NEW h \in ControllerStates, NEW soft
  PROVE  Waits(xhci_handle_cmd_reset_ep(d, h, soft, TRUE))
<1> DEFINE m == xhci_invalidate_cancelled_tds(d, h, TRUE)
           g == xhci_giveback_invalidated_tds([m EXCEPT !.ep_state = m.ep_state \ {"EP_HALTED"}])
<1>1. m \in DriverStates /\ Dealt(m)
  BY InvalidateCancelledType, InvalidateDeals
<1>2. xhci_handle_cmd_reset_ep(d, h, soft, TRUE)
        = IF soft THEN ring_doorbell_for_active_rings(g) ELSE g
  BY DEF xhci_handle_cmd_reset_ep
<1> HIDE DEF m
<1>3. Waits(g) /\ Waits(ring_doorbell_for_active_rings(g))
  BY <1>1, GivebackWaits
<1> HIDE DEF g
<1> QED
  BY <1>2, <1>3

\* and the pointer's command.
LEMMA SetDeqWaits ==
  ASSUME NEW d \in DriverStates, NEW h \in ControllerStates, NEW code
  PROVE  Waits(xhci_handle_cmd_set_deq(d, h, code, TRUE))
<1> DEFINE e == DequeueSet(d, h, code)
           f == xhci_invalidate_cancelled_tds(e, h, TRUE)
           g == ring_doorbell_for_active_rings(f)
           r == xhci_giveback_invalidated_tds(g)
           s == [g EXCEPT !.ep_state = g.ep_state \ {}]
<1>1. e \in DriverStates
  BY DequeueSetType
<1>2. xhci_handle_cmd_set_deq(d, h, code, TRUE) =
        IF e.cancelled_td_list # <<>> THEN r ELSE ring_doorbell_for_active_rings(e)
  BY DEF xhci_handle_cmd_set_deq
<1> HIDE DEF e
<1>3. f \in DriverStates /\ Dealt(f)
  BY <1>1, InvalidateCancelledType, InvalidateDeals
<1> HIDE DEF f
<1>4. g \in DriverStates
  BY <1>3, DoorbellType
<1>5. Dealt(g)
  BY <1>3 DEF ring_doorbell_for_active_rings, xhci_ring_ep_doorbell, DriverStates, Dealt
<1> HIDE DEF g
<1>6. Waits(xhci_giveback_invalidated_tds(s))
  BY <1>4, <1>5, GivebackWaits
<1>7. s = g
  BY <1>4 DEF DriverStates
<1>8. ASSUME e.cancelled_td_list = <<>>
      PROVE  Waits(ring_doorbell_for_active_rings(e))
  BY <1>1, <1>8 DEF ring_doorbell_for_active_rings, xhci_ring_ep_doorbell, DriverStates, Waits
<1> HIDE DEF s
<1> QED
  BY <1>2, <1>6, <1>7, <1>8

\* A halted endpoint is marked.
LEMMA HaltedWaits ==
  ASSUME NEW d \in DriverStates, NEW u \in Urbs \cup {NoUrb}, NEW soft \in BOOLEAN
  PROVE  "EP_HALTED" \in xhci_handle_halted_endpoint(d, u, soft, TRUE).ep_state
<1> DEFINE e == xhci_handle_halted_endpoint(d, u, soft, TRUE)
<1>1. IF "EP_HALTED" \in d.ep_state \/ ~TRUE THEN Same(d, e) ELSE Queued(d, e, "reset")
  BY HaltedEffect
<1> HIDE DEF e
<1> QED
  BY <1>1 DEF Same, Queued, FlagOf, e

\* A stop that failed leaves a flag up, or deals with them.
LEMMA StopWaits ==
  ASSUME NEW d \in DriverStates, Waits(d), NEW h \in ControllerStates, NEW code,
         NEW elapsed \in BOOLEAN
  PROVE  Waits(xhci_handle_cmd_stop_ep(d, h, code, elapsed, TRUE))
<1> DEFINE S == "EP_STOP_CMD_PENDING"
           done(x) == [x EXCEPT !.ep_state = @ \ {S}]
           e == xhci_handle_halted_endpoint(d, find_halted_td(d, h), FALSE, TRUE)
           q == queue_command(d, Stop)
           r == xhci_handle_cmd_stop_ep(d, h, code, elapsed, TRUE)
<1>1. ASSUME NEW x \in DriverStates, "EP_HALTED" \in x.ep_state
      PROVE  Waits(done(x))
  <2>1. done(x).ep_state = x.ep_state \ {S}
    BY DEF DriverStates
  <2> HIDE DEF done
  <2> QED
    BY <1>1, <2>1 DEF Waits
<1>2. e \in DriverStates /\ "EP_HALTED" \in e.ep_state
  BY FindHaltedType, HaltedType, HaltedWaits
<1>3. Waits(q)
  BY DEF queue_command, DriverStates, Waits
<1>4. \/ r = Settled(d, h, TRUE)
      \/ "EP_HALTED" \in d.ep_state /\ r = done(d)
      \/ r = done(e)
      \/ r = q
  <2> HIDE DEF done, e, q
  <2> QED
    BY DEF xhci_handle_cmd_stop_ep, done, e, q
<1> HIDE DEF done, e, q, r
<1> QED
  BY <1>1, <1>2, <1>3, <1>4, SettledWaits DEF r

\* So every completion keeps what waits waiting.
LEMMA CompletionWaits ==
  ASSUME NEW d \in DriverStates, d.cmds # <<>>, Paired(d.cmds, d.ep_state), Waits(d),
         NEW h \in ControllerStates, NEW code, code # "aborted", NEW elapsed \in BOOLEAN
  PROVE  Waits(handle_cmd_completion(d, h, code, elapsed, TRUE))
<1> DEFINE c == Head(d.cmds)
           off == [d EXCEPT !.timer = FALSE]
           a == Handler(off, h, c, code, elapsed, TRUE)
           more == Cardinality(Live(a)) > 1
           r == [[[a EXCEPT !.current = more] EXCEPT !.timer = more] EXCEPT !.cmds = Tail(a.cmds)]
<1>1. c.live /\ c.op \in Ops
  BY Parts DEF Paired, Fresh
<1>2. off \in DriverStates /\ Waits(off)
  BY New_timer DEF DriverStates, Waits
<1>3. a \in DriverStates
  BY <1>2, HandlerType
<1>4. handle_cmd_completion(d, h, code, elapsed, TRUE) = r
  <2> DEFINE a2 == [[a EXCEPT !.current = more] EXCEPT !.timer = more]
  <2> HIDE DEF a, more
  <2> HIDE DEF c, off
  <2> QED
    BY <1>1, <1>3 DEF handle_cmd_completion, a, more, off, c, DriverStates
<1> HIDE DEF c, off
<1>5. Waits(a)
  BY <1>1, <1>2, StopWaits, SetDeqWaits, ResetWaits DEF Handler, Ops
<1> HIDE DEF a, more
<1>6. r.cancelled_td_list = a.cancelled_td_list /\ r.ep_state = a.ep_state
  BY <1>3 DEF DriverStates
<1> HIDE DEF r
<1> QED
  BY <1>4, <1>5, <1>6 DEF Waits

\* A transfer completed waits no more,
LEMMA CompleteWaits ==
  ASSUME NEW d \in DriverStates, Waits(d), NEW u \in Urbs
  PROVE  Waits(CompleteTd(d, u))
<1> DEFINE e == [d EXCEPT !.dequeue = inc_deq(d.td[u].last)]
           r == xhci_td_cleanup(e, u)
<1>1. e \in DriverStates
  BY NextIsSlot, New_dequeue, Parts DEF Tds
<1>2. e.cancelled_td_list = d.cancelled_td_list /\ e.ep_state = d.ep_state
  BY DEF DriverStates
<1>3. CompleteTd(d, u) = r
  BY DEF CompleteTd
<1> HIDE DEF e
<1>4. r.cancelled_td_list = Kept(e.cancelled_td_list, Urbs \ {u}) /\ r.ep_state = e.ep_state
  BY <1>1 DEF xhci_td_cleanup, DriverStates
<1> HIDE DEF r
<1> QED
  BY <1>1, <1>2, <1>3, <1>4, Parts, KeptOfNone DEF Waits

\* whether by its event
LEMMA FinishWaits ==
  ASSUME NEW d \in DriverStates, Waits(d), NEW h, NEW u \in Urbs, NEW code \in Codes
  PROVE  Waits(finish_td(d, h, u, code, TRUE))
BY CompleteWaits, HaltedWaits DEF Waits, finish_td, Codes

\* or by that of one behind it.
LEMMA TransferEventWaits ==
  ASSUME NEW d \in DriverStates, Waits(d), NEW h, NEW t, NEW e, e.code \in Codes
  PROVE  Waits(handle_tx_event(d, h, t, e, TRUE))
<1>1. ASSUME NEW f \in DriverStates, NEW u \in Urbs \cup {NoUrb}, NEW soft \in BOOLEAN
      PROVE  Waits(xhci_handle_halted_endpoint(f, u, soft, TRUE))
  BY HaltedWaits DEF Waits
<1>2. CASE d.td_list = <<>>
  BY <1>1, <1>2 DEF handle_tx_event
<1>3. CASE d.td_list # <<>>
  <2> DEFINE u == Head(d.td_list)
             c == [d EXCEPT !.err_count = 0]
             f == [d EXCEPT !.err_count = d.err_count + 1]
  <2>1. u \in Urbs
    BY <1>3, Parts
  <2> HIDE DEF u
  <2>2. MAX_SOFT_RETRY \in Nat /\ d.err_count \in 0 .. MAX_SOFT_RETRY + 1
    BY RingAssumption, Parts
  <2>3. c \in DriverStates /\ (d.err_count <= MAX_SOFT_RETRY => f \in DriverStates)
    BY <2>2, New_err_count
  <2>4. Waits(c)
    BY DEF Waits, DriverStates
  <2> HIDE DEF c
  <2> HIDE DEF f
  <2> QED
    BY <1>1, <1>3, <2>1, <2>3, <2>4, FinishWaits DEF handle_tx_event, u, process_bulk_intr_td,
      c, f, process_ctrl_td
<1> QED
  BY <1>2, <1>3

\* Writing a transfer leaves what is cancelled alone, as do the timers.
LEMMA SubmissionCancels ==
  ASSUME TypeInv,
         \/ \E u \in Urbs, n \in Sizes : prepare_transfer(u, n)
         \/ queue_trb \/ giveback_first_trb \/ TimerExpires \/ TimeoutRaced
  PROVE  drv.cancelled_td_list' = drv.cancelled_td_list
<1>1. drv \in DriverStates
  BY DEF TypeInv, TypeOK
<1>2. ASSUME NEW d
      PROVE  GiveLink(d).cancelled_td_list = d.cancelled_td_list
  BY DEF GiveLink
<1>3. CASE \E u \in Urbs, n \in Sizes : prepare_transfer(u, n)
  <2>1. PICK u \in Urbs, n \in Sizes : prepare_transfer(u, n)
    BY <1>3
  <2> DEFINE d == prepare_ring(drv)
  <2>2. d \in DriverStates /\ d.cancelled_td_list = drv.cancelled_td_list
    BY <1>1, <1>2, GiveLinkType DEF prepare_ring
  <2>3. drv' = [d EXCEPT !.td_list = Append(@, u), !.td[u] =
                 [first |-> d.enqueue, last |-> d.enqueue, cancel_status |-> "dirty"]]
    BY <2>1 DEF prepare_transfer
  <2> HIDE DEF d
  <2> QED
    BY <2>2, <2>3 DEF DriverStates
<1>4. CASE queue_trb
  <2> DEFINE cycle == IF drv.enqueue = submit.start THEN 1 - submit.cycle ELSE drv.cycle_state
             d == [drv EXCEPT !.trb[drv.enqueue] = [cycle |-> cycle, urb |-> submit.urb],
                              !.td[submit.urb].last = drv.enqueue]
             k == [d EXCEPT !.enqueue = next_trb(@)]
  <2>1. drv' = inc_enq(d, submit.left > 1)
    BY <1>4 DEF queue_trb
  <2>2. k.cancelled_td_list = drv.cancelled_td_list
    BY <1>1 DEF DriverStates
  <2> HIDE DEF d
  <2>3. drv' = GiveLink(k) \/ drv' = k
    BY <2>1 DEF inc_enq
  <2> HIDE DEF k
  <2> QED
    BY <1>2, <2>2, <2>3
<1>5. CASE giveback_first_trb
  <2> DEFINE d == [drv EXCEPT !.trb[submit.start].cycle = submit.cycle]
             e == xhci_ring_ep_doorbell(d)
  <2>1. Commit(e, 0)
    BY <1>5 DEF giveback_first_trb
  <2>2. e.cancelled_td_list = drv.cancelled_td_list
    BY <1>1 DEF xhci_ring_ep_doorbell, DriverStates
  <2> HIDE DEF e
  <2> QED
    BY <2>1, <2>2 DEF Commit
<1>6. CASE TimerExpires \/ TimeoutRaced
  BY <1>1, <1>6 DEF TimerExpires, TimeoutRaced, DriverStates
<1> QED
  BY <1>3, <1>4, <1>5, <1>6

\* The event handler keeps what waits waiting.
LEMMA EventWaits ==
  ASSUME TypeInv, PairInv, Waits(drv), Clean, drv.log' = {},
         NEW elapsed \in BOOLEAN, xhci_handle_event_trb(elapsed)
  PROVE  Waits(drv)'
<1> DEFINE e == Head(events)
           r == Handled(e, elapsed, TRUE)
           bad == Handled(e, elapsed, FALSE)
           noted == [bad EXCEPT !.log = @ \cup {"alloc"}]
<1>1. drv \in DriverStates /\ hw \in ControllerStates /\ events \in Seq(Events)
  BY DEF TypeInv, TypeOK
<1>2. e \in Events /\ EventOK(e) /\ e = events[1] /\ 1 \in DOMAIN events
  BY <1>1, EventParts DEF xhci_handle_event_trb
<1>3. Waits(r)
  <2>1. CASE e.kind = "transfer"
    <3>1. r = handle_tx_event(drv, hw, type, e, TRUE) /\ e.code \in Codes
      BY <1>2, <2>1 DEF Handled, EventOK
    <3> HIDE DEF r
    <3> QED
      BY <1>1, <3>1, TransferEventWaits
  <2>2. CASE e.kind = "command"
    <3>1. r = handle_cmd_completion(drv, hw, e.code, elapsed, TRUE)
      BY <2>2 DEF Handled
    <3> HIDE DEF r
    <3> QED
      BY <1>1, <1>2, <2>2, <3>1, CompletionWaits, EventHasCommand DEF PairInv, Clean, Intact
  <2>3. CASE e.kind \notin {"transfer", "command"}
    BY <2>3 DEF Handled
  <2> QED
    BY <2>1, <2>2, <2>3
<1>4. Commit(r, Passed)
  <2>1. ASSUME Commit(noted, Passed)
        PROVE  FALSE
    <3> HIDE DEF bad
    <3>1. noted.log = bad.log \cup {"alloc"}
      BY HandledType DEF DriverStates, xhci_handle_event_trb
    <3> HIDE DEF noted
    <3> QED
      BY <2>1, <3>1 DEF Commit
  <2> QED
    BY <2>1 DEF xhci_handle_event_trb
<1> HIDE DEF r
<1> QED
  BY <1>3, <1>4, HandledType DEF Waits, DriverStates, Commit, xhci_handle_event_trb

\* Every step keeps it.
LEMMA WaitStep ==
  ASSUME TypeInv, PairInv, WaitInv, [Next]_vars
  PROVE  WaitInv'
<1> SUFFICES ASSUME Clean'
             PROVE  Waits(drv)'
  BY DEF WaitInv
<1>1. CASE \/ \E u \in Urbs, n \in Sizes : prepare_transfer(u, n)
           \/ queue_trb \/ giveback_first_trb \/ TimerExpires \/ TimeoutRaced
  BY <1>1, SubmissionAside, TimerAside, SubmissionCancels DEF Aside, WaitInv, Waits, Clean
<1>2. CASE \E u \in Urbs : xhci_urb_dequeue(u)
  BY <1>2, UnlinkQueues DEF Waits
<1>3. CASE \E elapsed \in BOOLEAN : xhci_handle_event_trb(elapsed)
  BY <1>3, LogGrows, EventWaits DEF xhci_handle_event_trb, Unlocked, Clean, WaitInv
<1>4. CASE \/ TimeoutOfStop \/ xhci_abort_cmd_ring \/ AbortFails
           \/ TimeoutOnStoppedRing \/ AbortDone
  BY <1>4, WorkerLoses DEF Clean, PairInv, Intact
<1>5. CASE Controller
  BY <1>5, ControllerKeeps DEF WaitInv, Waits, Clean
<1>6. CASE UNCHANGED vars
  BY <1>6 DEF vars, WaitInv, Waits, Clean
<1> QED
  BY <1>1, <1>2, <1>3, <1>4, <1>5, <1>6 DEF Next, Driver, xhci_handle_command_timeout

\* As long as every command could be allocated and none timed out, a
\* cancelled transfer waits for a flag, and so, by FlagsHaveCommands, for a
\* command whose completion looks at it again: it is not forgotten.
THEOREM CancelledNotForgotten == Spec => []CancelledCovered
<1>1. Init => TypeInv /\ PairInv /\ WaitInv
  BY TypeInit, PairInit DEF Init, WaitInv, Waits
<1> QED
  BY <1>1, PTL, TypeStep, PairStep, WaitStep DEF Spec, WaitInv, Waits, Clean, CancelledCovered,
    Unlocked

-----------------------------------------------------------------------------
(* The ring as numbers                                                     *)

\* The quotient and the remainder of a number by the length of a segment.
LEMMA Division ==
  ASSUME NEW n \in Nat, NEW t \in Nat \ {0}
  PROVE  /\ n \div t \in Nat /\ n % t \in 0 .. t - 1
         /\ n = t * (n \div t) + (n % t)
OBVIOUS

\* Quotient and remainder are what they are said to be.
LEMMA DivisionIs ==
  ASSUME NEW n \in Nat, NEW t \in Nat \ {0}, NEW k \in Nat, NEW r \in 0 .. t - 1,
         n = t * k + r
  PROVE  n \div t = k /\ n % t = r
<1> DEFINE q == n \div t
           s == n % t
<1> HIDE DEF q, s
<1> QED
  BY Division DEF q, s

\* How far one slot is ahead of another, and what follows a slot.
LEMMA AheadIs ==
  ASSUME NEW p \in Slots, NEW q \in Slots
  PROVE  /\ Ahead(p, q) = IF p >= q THEN p - q ELSE p - q + RingSize
         /\ Ahead(p, q) \in 0 .. RingSize - 1
<1>1. RingSize \in Nat \ {0} /\ p \in 0 .. RingSize - 1 /\ q \in 0 .. RingSize - 1
  BY RingHasSlots DEF Slots
<1>2. CASE p >= q
  <2>1. p - q + RingSize = RingSize * 1 + (p - q) /\ p - q \in 0 .. RingSize - 1
        /\ p - q + RingSize \in Nat
    BY <1>1, <1>2
  <2> QED
    BY <1>1, <1>2, <2>1, DivisionIs DEF Ahead
<1>3. CASE p < q
  <2>1. p - q + RingSize = RingSize * 0 + (p - q + RingSize)
        /\ p - q + RingSize \in 0 .. RingSize - 1 /\ p - q + RingSize \in Nat
    BY <1>1, <1>3
  <2>2. (p - q + RingSize) % RingSize = p - q + RingSize
    BY <1>1, <2>1, DivisionIs
  <2> QED
    BY <1>1, <1>3, <2>1, <2>2 DEF Ahead
<1> QED
  BY <1>1, <1>2, <1>3

\* The slot after a slot is the next number, or 0.
LEMMA NextIs ==
  ASSUME NEW p \in Slots
  PROVE  next_trb(p) = IF p = RingSize - 1 THEN 0 ELSE p + 1
BY RingHasSlots, DivisionIs DEF Slots, next_trb

\* The segments of the ring: a slot that is no link is followed by one of
\* the same segment, a link by the first of the next.
LEMMA SegmentOf ==
  ASSUME NEW p \in Slots
  PROVE  /\ SegOf(p) \in 0 .. NumSegs - 1 /\ p % TRBS_PER_SEGMENT \in 0 .. TRBS_PER_SEGMENT - 1
         /\ p = TRBS_PER_SEGMENT * SegOf(p) + (p % TRBS_PER_SEGMENT)
<1> DEFINE t == TRBS_PER_SEGMENT
           n == NumSegs
           k == p \div t
<1>1. t \in Nat \ {0} /\ n \in Nat \ {0} /\ p \in Nat /\ p < n * t
  BY RingHasSlots, RingAssumption DEF Slots, RingSize
<1>2. k \in Nat /\ p % t \in 0 .. t - 1 /\ p = t * k + (p % t)
  BY <1>1, Division
<1> HIDE DEF k, n, t
<1>3. ASSUME k >= n
      PROVE  FALSE
  BY <1>1, <1>2, <1>3
<1> QED
  BY <1>1, <1>2, <1>3 DEF SegOf, k, n, t

\* A slot's segment, and its place there.
LEMMA SegmentIs ==
  ASSUME NEW p \in Slots, NEW k \in Nat, NEW r \in 0 .. TRBS_PER_SEGMENT - 1,
         p = TRBS_PER_SEGMENT * k + r
  PROVE  SegOf(p) = k /\ p % TRBS_PER_SEGMENT = r
BY DivisionIs, RingAssumption, SlotsAreNumbers DEF SegOf

\* The last slot is a link.
LEMMA LastIsLink == RingSize - 1 \in Slots /\ trb_is_link(RingSize - 1)
<1> DEFINE t == TRBS_PER_SEGMENT
           n == NumSegs
<1> HIDE DEF t, n
<1> QED
  BY SegmentIs, RingHasSlots, RingAssumption DEF trb_is_link, t, Slots, RingSize

\* After a slot that is no link comes the next of its segment.
LEMMA NextInSegment ==
  ASSUME NEW p \in Slots, ~trb_is_link(p)
  PROVE  /\ p # RingSize - 1 /\ next_trb(p) = p + 1
         /\ SegOf(next_trb(p)) = SegOf(p)
         /\ next_trb(p) % TRBS_PER_SEGMENT = (p % TRBS_PER_SEGMENT) + 1
<1> DEFINE t == TRBS_PER_SEGMENT
           r == p % t
           k == SegOf(p)
<1>1. k \in Nat /\ r \in 0 .. t - 1 /\ p = t * k + r /\ t \in Nat
  BY SegmentOf, RingAssumption
<1>2. r # t - 1
  BY DEF trb_is_link
<1> HIDE DEF k, r, t
<1> QED
  BY <1>1, <1>2, SegmentIs, NextIs, NextIsSlot, LastIsLink DEF k, r, t

\* After a link comes the first slot of the next segment.
LEMMA NextSegment ==
  ASSUME NEW p \in Slots, trb_is_link(p)
  PROVE  /\ SegOf(next_trb(p)) = (SegOf(p) + 1) % NumSegs
         /\ SegOf(next_trb(p)) # SegOf(p)
         /\ next_trb(p) % TRBS_PER_SEGMENT = 0
         /\ ~trb_is_link(next_trb(p))
<1> DEFINE t == TRBS_PER_SEGMENT
           n == NumSegs
           k == SegOf(p)
           q == next_trb(p)
<1>1. t \in Nat \ {0, 1} /\ n \in Nat \ {0, 1} /\ RingSize = n * t /\ RingSize \in Nat
  BY RingHasSlots, RingAssumption DEF RingSize
<1>2. k \in 0 .. n - 1 /\ p = t * k + (p % t) /\ p % t = t - 1
  BY SegmentOf DEF trb_is_link
<1>3. p = t * k + (t - 1) /\ k \in Nat
  BY <1>1, <1>2
<1>4. q \in Slots /\ q = IF p = RingSize - 1 THEN 0 ELSE p + 1
  BY NextIs, NextIsSlot
<1> HIDE DEF k, t, n, q
<1>5. \A a, b \in Nat : (a * t = t * a) /\ ((b + 1) * t = t * b + t) /\ t * a \in Nat
                        /\ t * (b + 1) = t * b + t
  BY <1>1
<1>6. CASE p = RingSize - 1
  BY <1>1, <1>2, <1>3, <1>4, <1>5, <1>6, SegmentIs, DivisionIs DEF t, k, n, q, trb_is_link
<1>7. CASE p # RingSize - 1
  <2>1. SegOf(q) = k + 1 /\ q % t = 0
    BY <1>1, <1>3, <1>4, <1>5, <1>7, SegmentIs DEF t
  <2>2. k + 1 = n * 0 + (k + 1) /\ k + 1 \in 0 .. n - 1
    BY <1>1, <1>4, <2>1, SegmentOf DEF n
  <2>3. (k + 1) % n = k + 1
    BY <1>1, <1>3, <1>4, <1>5, <1>7, <2>2, DivisionIs
  <2> QED
    BY <1>1, <1>3, <2>1, <2>3 DEF k, t, n, q, trb_is_link
<1> QED
  BY <1>6, <1>7

\* What lies between two slots of a segment is of the segment.
LEMMA WithinSegment ==
  ASSUME NEW p \in Slots, NEW q \in Slots, NEW r \in Slots,
         p <= q, q <= r, SegOf(p) = SegOf(r)
  PROVE  SegOf(q) = SegOf(p)
<1> DEFINE t == TRBS_PER_SEGMENT
           k == SegOf(p)
           j == SegOf(q)
<1>1. /\ t \in Nat \ {0} /\ k \in Nat /\ j \in Nat /\ p \in Nat /\ q \in Nat /\ r \in Nat
      /\ p = t * k + (p % t) /\ q = t * j + (q % t) /\ r = t * k + (r % t)
      /\ p % t \in 0 .. t - 1 /\ q % t \in 0 .. t - 1 /\ r % t \in 0 .. t - 1
  BY SegmentOf, RingAssumption, SlotsAreNumbers
<1> HIDE DEF t, k, j
<1>2. ~ (j < k)
  <2>1. ASSUME j < k
        PROVE  FALSE
    <3> DEFINE a == t * k
               b == t * j
               c == t * (k - j - 1)
    <3> HIDE DEF a, b, c
    <3> QED
      BY <1>1, <2>1 DEF a, b, c
  <2> QED
    BY <2>1
<1>3. ~ (k < j)
  <2>1. ASSUME k < j
        PROVE  FALSE
    <3> DEFINE a == t * k
               b == t * j
               c == t * (j - k - 1)
    <3> HIDE DEF a, b, c
    <3> QED
      BY <1>1, <2>1 DEF a, b, c
  <2> QED
    BY <2>1
<1> QED
  BY <1>1, <1>2, <1>3 DEF k, j

-----------------------------------------------------------------------------
(* Distances on the ring                                                   *)

\* A slot follows the one before it.
LEMMA PrevIs ==
  ASSUME NEW q \in Slots
  PROVE  Prev(q) \in Slots /\ next_trb(Prev(q)) = q
BY RingHasSlots, NextIs DEF Slots, Prev

\* A slot is before the one that follows it.
LEMMA PrevOfNext ==
  ASSUME NEW p \in Slots
  PROVE  Prev(next_trb(p)) = p
BY RingHasSlots, NextIs DEF Slots, Prev

\* The slot a dequeue pointer stands for is itself, or the link before it.
LEMMA FloorIs ==
  ASSUME NEW q \in Slots
  PROVE  /\ Floor(q) \in Slots
         /\ \/ Floor(q) = q /\ ~trb_is_link(Prev(q))
            \/ trb_is_link(Floor(q)) /\ next_trb(Floor(q)) = q /\ ~trb_is_link(q)
BY PrevIs, NextSegment DEF Floor

\* It never comes right after a link.
LEMMA FloorNotAfterLink ==
  ASSUME NEW p \in Slots, trb_is_link(p), NEW q \in Slots
  PROVE  Floor(q) # next_trb(p)
BY FloorIs, PrevOfNext, NextSegment

\* Moving a dequeue pointer skips the link.
LEMMA IncDeqIs ==
  ASSUME NEW p \in Slots, ~trb_is_link(p)
  PROVE  /\ inc_deq(p) \in Slots /\ ~trb_is_link(inc_deq(p))
         /\ Floor(inc_deq(p)) = next_trb(p)
         /\ \/ inc_deq(p) = next_trb(p)
            \/ trb_is_link(next_trb(p)) /\ inc_deq(p) = next_trb(next_trb(p))
BY NextIsSlot, NextSegment, PrevOfNext DEF inc_deq, Floor

\* Distances back from the enqueue pointer.
LEMMA BackIs ==
  ASSUME NEW d \in DriverStates, NEW p \in Slots
  PROVE  /\ Back(d, p) = IF p <= d.enqueue THEN d.enqueue - p ELSE d.enqueue - p + RingSize
         /\ Back(d, p) \in 0 .. RingSize - 1
         /\ Back(d, p) = 0 <=> p = d.enqueue
<1>1. /\ Back(d, p) = IF d.enqueue >= p THEN d.enqueue - p ELSE d.enqueue - p + RingSize
      /\ Back(d, p) \in 0 .. RingSize - 1
  BY AheadIs, Parts DEF Back
<1> QED
  BY <1>1, RingHasSlots, Parts DEF Slots

\* A distance says which slot.
LEMMA BackDiffers ==
  ASSUME NEW d \in DriverStates, NEW p \in Slots, NEW q \in Slots,
         Back(d, p) = Back(d, q)
  PROVE  p = q
<1>1. /\ RingSize \in Nat \ {0} /\ p \in 0 .. RingSize - 1 /\ q \in 0 .. RingSize - 1
      /\ d.enqueue \in 0 .. RingSize - 1
  BY Parts, RingHasSlots DEF Slots
<1> QED
  BY <1>1, BackIs

\* The next slot is one nearer.
LEMMA BackNext ==
  ASSUME NEW d \in DriverStates, NEW p \in Slots
  PROVE  /\ next_trb(p) \in Slots
         /\ Back(d, next_trb(p)) = IF p = d.enqueue THEN RingSize - 1 ELSE Back(d, p) - 1
         /\ p # d.enqueue =>
              Lap(d, next_trb(p)) = IF p = RingSize - 1 THEN 1 - Lap(d, p) ELSE Lap(d, p)
<1>1. /\ RingSize \in Nat \ {0} /\ p \in 0 .. RingSize - 1
      /\ d.enqueue \in 0 .. RingSize - 1
  BY Parts, RingHasSlots DEF Slots
<1>2. ASSUME p # d.enqueue
      PROVE  Lap(d, next_trb(p)) = IF p = RingSize - 1 THEN 1 - Lap(d, p) ELSE Lap(d, p)
  BY <1>1, <1>2, Parts, NextIs, NextIsSlot DEF Lap
<1> QED
  BY <1>1, <1>2, BackIs, NextIs, NextIsSlot

\* How far one slot is before another.
LEMMA AheadByBack ==
  ASSUME NEW d \in DriverStates, NEW p \in Slots, NEW q \in Slots
  PROVE  Ahead(p, q) = IF Back(d, q) >= Back(d, p) THEN Back(d, q) - Back(d, p)
                       ELSE Back(d, q) - Back(d, p) + RingSize
<1>1. /\ RingSize \in Nat \ {0} /\ p \in 0 .. RingSize - 1 /\ q \in 0 .. RingSize - 1
      /\ d.enqueue \in 0 .. RingSize - 1
  BY Parts, RingHasSlots DEF Slots
<1> QED
  BY <1>1, AheadIs, BackIs

\* A cycle bit and its opposite.
LEMMA LapIs ==
  ASSUME NEW d \in DriverStates, NEW p \in Slots
  PROVE  Lap(d, p) \in {0, 1} /\ 1 - Lap(d, p) \in {0, 1} /\ 1 - Lap(d, p) # Lap(d, p)
BY Parts DEF Lap

\* The slots of a transfer.
LEMMA TdIs ==
  ASSUME NEW d \in DriverStates, NEW u \in Urbs
  PROVE  /\ d.td[u].first \in Slots /\ d.td[u].last \in Slots
         /\ d.td[u].cancel_status \in {"dirty", "halted", "clearing", "cleared"}
         /\ First(d, u) \in 0 .. RingSize - 1 /\ Final(d, u) \in 0 .. RingSize - 1
BY Parts, BackIs DEF Tds, First, Final

\* The slots of a transfer are those between its ends.
LEMMA InTdIs ==
  ASSUME NEW d \in DriverStates, NEW u \in Urbs, Final(d, u) <= First(d, u),
         NEW p \in Slots
  PROVE  trb_in_td(d, u, p) <=> InTd(d, u, p)
<1> DEFINE f == d.td[u].first
           l == d.td[u].last
<1> HIDE DEF f, l
<1> QED
  BY AheadByBack, BackIs, RingHasSlots, TdIs DEF First, Final, InTd, f, l, trb_in_td, Span

\* The slots of the dequeue pointer.
LEMMA LowIs ==
  ASSUME NEW d \in DriverStates
  PROVE  /\ Floor(d.dequeue) \in Slots /\ Low(d) \in 0 .. RingSize - 1
         /\ RingSize \in Nat \ {0} /\ d.enqueue \in Slots /\ d.dequeue \in Slots
BY Parts, FloorIs, BackIs, RingHasSlots DEF Low

-----------------------------------------------------------------------------
(* The room the driver leaves                                              *)

\* The enqueue pointer can move: what follows it is not the slot the
\* dequeue pointer stands for.
LEMMA RoomToMove ==
  ASSUME NEW d \in DriverStates, Apart(d),
         \/ trb_is_link(d.enqueue)
         \/ (d.enqueue % TRBS_PER_SEGMENT) + 1 >= TRBS_PER_SEGMENT - 1 =>
              (SegOf(d.enqueue) + 1) % NumSegs # SegOf(d.dequeue)
  PROVE  Low(d) < RingSize - 1 /\ Floor(d.dequeue) # next_trb(d.enqueue)
<1> DEFINE n == next_trb(d.enqueue)
           l == Floor(d.dequeue)
<1>1. l \in Slots /\ Low(d) \in 0 .. RingSize - 1 /\ RingSize \in Nat \ {0}
      /\ d.enqueue \in Slots /\ d.dequeue \in Slots /\ n \in Slots
  BY LowIs, NextIsSlot
<1>2. ASSUME l = n
      PROVE  FALSE
  <2>1. /\ n = d.enqueue + 1 /\ SegOf(n) = SegOf(d.enqueue)
        /\ n % TRBS_PER_SEGMENT = (d.enqueue % TRBS_PER_SEGMENT) + 1
    BY <1>1, <1>2, NextInSegment, FloorNotAfterLink
  <2>2. CASE l = d.dequeue
    <3>1. d.enqueue \in Nat
      BY <1>1, SlotsAreNumbers
    <3> QED
      BY <1>2, <2>1, <2>2, <3>1 DEF Apart
  <2>3. CASE trb_is_link(l) /\ next_trb(l) = d.dequeue
    BY <1>1, <1>2, <2>1, <2>3, NextSegment, RingAssumption, FloorNotAfterLink DEF trb_is_link
  <2> QED
    BY <1>1, <2>2, <2>3, FloorIs
<1> QED
  BY <1>1, <1>2, BackDiffers, BackNext DEF Low

\* The dequeue pointer moves on towards the enqueue pointer.
LEMMA ApartKeeps ==
  ASSUME NEW d \in DriverStates, NEW e \in DriverStates, Apart(d), e.enqueue = d.enqueue,
         \/ Back(d, e.dequeue) < Low(d)
         \/ trb_is_link(d.enqueue) /\ e.dequeue = next_trb(d.enqueue)
  PROVE  Apart(e)
<1> DEFINE q == e.dequeue
           l == Floor(d.dequeue)
           w == d.enqueue
<1>1. /\ l \in Slots /\ w \in Slots /\ q \in Slots /\ d.dequeue \in Slots
      /\ RingSize \in Nat \ {0}
      /\ l \in 0 .. RingSize - 1 /\ w \in 0 .. RingSize - 1 /\ q \in 0 .. RingSize - 1
  BY LowIs DEF Slots
<1>2. SUFFICES ASSUME SegOf(q) = SegOf(w), ~ (q <= w)
               PROVE  FALSE
  BY DEF Apart
<1>3. Back(d, q) < Back(d, l)
  BY <1>1, <1>2, NextSegment DEF Low
<1>4. /\ Back(d, q) = w - q + RingSize
      /\ Back(d, l) = IF l <= w THEN w - l ELSE w - l + RingSize
  BY <1>1, <1>2, BackIs
<1> HIDE DEF q, l, w
<1>5. CASE l = d.dequeue
  BY <1>1, <1>2, <1>3, <1>4, <1>5, WithinSegment DEF Apart, w
<1>6. CASE trb_is_link(l)
  BY <1>1, <1>2, <1>3, <1>4, <1>6, NextIs, NextIsSlot, WithinSegment, NextSegment
<1> QED
  BY <1>1, <1>5, <1>6, FloorIs DEF l

-----------------------------------------------------------------------------
(* The enqueue pointer moves by one slot                                   *)

\* Then every slot but the new one is one farther back.
LEMMA StepIs ==
  ASSUME NEW d \in DriverStates, NEW e \in DriverStates, Steps(d, e), Low(d) < RingSize - 1
  PROVE  /\ e.enqueue \in Slots /\ e.enqueue # d.enqueue
         /\ \A p \in Slots \ {e.enqueue} :
              Back(e, p) = Back(d, p) + 1 /\ Lap(e, p) = Lap(d, p)
         /\ Lap(e, e.enqueue) = 1 - Lap(d, e.enqueue)
         /\ Back(d, e.enqueue) = RingSize - 1 /\ Back(e, e.enqueue) = 0
         /\ Back(e, d.enqueue) = 1 /\ Back(d, d.enqueue) = 0
         /\ Low(e) = Low(d) + 1
<1> DEFINE w == d.enqueue
           v == e.enqueue
<1>1. /\ RingSize \in Nat \ {0, 1} /\ w \in Slots /\ w \in 0 .. RingSize - 1
      /\ v = (IF w = RingSize - 1 THEN 0 ELSE w + 1) /\ v \in Slots /\ v \in 0 .. RingSize - 1
  BY LowIs, NextIs, NextIsSlot DEF Steps, Slots
<1>2. d.cycle_state \in {0, 1}
      /\ e.cycle_state = IF w = RingSize - 1 THEN 1 - d.cycle_state ELSE d.cycle_state
  BY Parts DEF Steps
<1>3. ASSUME NEW p \in Slots
      PROVE  /\ p \in 0 .. RingSize - 1
             /\ Back(d, p) = IF p <= w THEN w - p ELSE w - p + RingSize
             /\ Back(e, p) = IF p <= v THEN v - p ELSE v - p + RingSize
             /\ Lap(d, p) = IF p <= w THEN d.cycle_state ELSE 1 - d.cycle_state
             /\ Lap(e, p) = IF p <= v THEN e.cycle_state ELSE 1 - e.cycle_state
  BY BackIs DEF Slots, Lap
<1> HIDE DEF w, v
<1>4. ASSUME NEW p \in Slots \ {v}
      PROVE  Back(e, p) = Back(d, p) + 1 /\ Lap(e, p) = Lap(d, p)
  BY <1>1, <1>2, <1>3
<1>5. Low(e) = Low(d) + 1
  <2>1. Floor(d.dequeue) # v
    BY <1>1, <1>2, <1>3, LowIs DEF Low
  <2> QED
    BY <1>4, <2>1, LowIs DEF Low, Steps
<1> QED
  BY <1>1, <1>2, <1>3, <1>4, <1>5 DEF w, v

\* The lists are of transfers.
LEMMA ListedAreUrbs ==
  ASSUME NEW d \in DriverStates
  PROVE  Listed(d) \subseteq Urbs /\ Cancelled(d) \subseteq Urbs
         /\ \A i \in DOMAIN d.td_list : d.td_list[i] \in Listed(d)
BY Parts DEF Listed, Cancelled, ToSet

\* Where the transfers of the list are after the move.
LEMMA MovedTds ==
  ASSUME NEW d \in DriverStates, NEW e \in DriverStates, NEW s \in Submits,
         Moves(d, e, s), Roomy(d, s), Placed(d, s)
  PROVE  /\ Listed(e) = Listed(d) /\ Cancelled(e) = Cancelled(d)
         /\ \A u \in Listed(d) :
              /\ First(e, u) = First(d, u) + 1
              /\ Final(e, u) = IF u = s.urb /\ ~trb_is_link(d.enqueue) THEN 1
                               ELSE Final(d, u) + 1
              /\ Final(d, u) \in Nat /\ First(d, u) \in Nat
              /\ ~trb_is_link(e.td[u].last)
         /\ Edge(e, s) = IF s.urb # NoUrb THEN Edge(d, s) + 1 ELSE 0
         /\ Edge(d, s) \in Nat
         /\ \A p \in Slots : Back(d, p) <= Low(d) => p # e.enqueue
BY StepIs, LowIs, ListedAreUrbs, TdIs, UrbAssumption, BackIs DEF Moves, Listed, Cancelled,
  Placed, First, Final, Submits, Roomy, Edge

\* The ring stays as it should be, but for the room that is left.
LEMMA MovesRing ==
  ASSUME NEW d \in DriverStates, NEW e \in DriverStates, NEW s \in Submits, NEW s2 \in Submits,
         NEW h \in ControllerStates, NEW n \in Nat, NEW t, NEW ev \in Seq(Events),
         Moves(d, e, s), RingInv(d, s, h, n, t, ev),
         s2.urb = s.urb, s2.start = s.start, s2.cycle = s.cycle
  PROVE  Roomy(e, s2) => RingInv(e, s2, h, n, t, ev)
<1> DEFINE w == d.enqueue
           v == e.enqueue
<1>1. /\ \A p \in Slots \ {v} : Back(e, p) = Back(d, p) + 1 /\ Lap(e, p) = Lap(d, p)
      /\ Lap(e, v) = 1 - Lap(d, v)
      /\ Back(d, v) = RingSize - 1 /\ Back(e, w) = 1 /\ Back(d, w) = 0 /\ v # w
      /\ Back(e, v) = 0
      /\ Low(d) < RingSize - 1 /\ Low(d) \in 0 .. RingSize - 1 /\ RingSize \in Nat
      /\ v \in Slots /\ w \in Slots /\ Low(e) = Low(d) + 1
  BY StepIs, LowIs DEF Moves
<1>2. /\ Listed(e) = Listed(d) /\ Cancelled(e) = Cancelled(d)
      /\ \A u \in Listed(d) :
           /\ First(e, u) = First(d, u) + 1
           /\ Final(e, u) = IF u = s.urb /\ ~trb_is_link(w) THEN 1 ELSE Final(d, u) + 1
           /\ Final(d, u) \in Nat /\ First(d, u) \in Nat
           /\ ~trb_is_link(e.td[u].last)
      /\ Edge(e, s) = (IF s.urb # NoUrb THEN Edge(d, s) + 1 ELSE 0)
      /\ Edge(d, s) \in Nat
      /\ \A p \in Slots : Back(d, p) <= Low(d) => p # v
  BY MovedTds DEF RingInv
<1>3. Listed(d) \subseteq Urbs /\ Cancelled(d) \subseteq Urbs
      /\ \A i \in DOMAIN d.td_list : d.td_list[i] \in Listed(d)
  BY ListedAreUrbs
<1>4. \A p \in Slots : Back(d, p) \in Nat /\ Lap(d, p) \in {0, 1} /\ 1 - Lap(d, p) \in {0, 1}
  BY BackIs, LapIs
<1>5. h.deq \in Slots /\ h.deq # v /\ s.start \in Slots /\ (s.urb # NoUrb => s.start # v)
      /\ s.urb \in Urbs \cup {NoUrb}
  BY <1>2 DEF RingInv, Placed_hw, Roomy, ControllerStates, Submits
<1>6. Edge(e, s2) = Edge(e, s)
  BY DEF Edge
<1> HIDE DEF w, v
<1>7. Cycled(e, s2)
  <2>1. ASSUME NEW p \in Slots
        PROVE  e.trb[p].cycle = IF p = v \/ (s.urb # NoUrb /\ p = s.start)
                                THEN 1 - Lap(e, p) ELSE Lap(e, p)
    <3>1. CASE p = v
      <4>1. d.trb[v].cycle = Lap(d, v) /\ e.trb[v] = d.trb[v]
        BY <1>1, <1>5, <3>1 DEF Moves, w, RingInv, Cycled
      <4> QED
        BY <1>1, <1>4, <3>1, <4>1
    <3>2. CASE p = w
      BY <1>1, <1>4, <1>5, <3>2 DEF Moves, w
    <3>3. CASE p # v /\ p # w
      BY <1>1, <1>4, <1>5, <3>3 DEF Moves, w, RingInv, Cycled
    <3> QED
      BY <3>1, <3>2, <3>3
  <2> QED
    BY <1>1, <1>5, <2>1 DEF Cycled, v, RingInv
<1>8. Placed(e, s2)
  <2>1. ASSUME NEW u \in Listed(d)
        PROVE  /\ ~trb_is_link(e.td[u].first) /\ ~trb_is_link(e.td[u].last)
               /\ Final(e, u) <= First(e, u) /\ First(e, u) <= Low(e)
               /\ u # s.urb => Final(e, u) > Edge(e, s)
               /\ u = s.urb => Final(e, u) > 0 \/ v = s.start
    BY <1>1, <1>2, <1>3 DEF RingInv, Placed, Moves
  <2>2. ASSUME NEW i \in DOMAIN d.td_list, NEW j \in DOMAIN d.td_list, i < j
        PROVE  Final(e, d.td_list[i]) > First(e, d.td_list[j])
    <3>1. d.td_list[i] # s.urb
      <4>1. ASSUME d.td_list[i] = s.urb
            PROVE  FALSE
        <5>1. First(d, s.urb) = Back(d, s.start)
          BY <1>3, <4>1, UrbAssumption DEF RingInv, Roomy, First
        <5> QED
          BY <1>2, <1>3, <1>4, <1>5, <2>2, <4>1, <5>1, UrbAssumption DEF RingInv, Placed, Edge
      <4> QED
        BY <4>1
    <3> QED
      BY <1>2, <1>3, <2>2, <3>1 DEF RingInv, Placed
  <2> QED
    BY <1>2, <1>6, <2>1, <2>2 DEF Placed, v, Moves
<1>9. Placed_hw(e, s2, h)
  BY <1>1, <1>2, <1>4, <1>5, <1>6 DEF RingInv, Placed_hw
<1>10. \A u \in Listed(d), p \in Slots : InTd(d, u, p) => InTd(e, u, p)
  <2>1. ASSUME NEW u \in Listed(d), NEW p \in Slots, InTd(d, u, p)
        PROVE  InTd(e, u, p)
    <3>1. Back(d, p) <= Low(d)
      BY <1>1, <1>2, <1>4, <2>1 DEF InTd, RingInv, Placed
    <3> QED
      BY <1>1, <1>2, <1>4, <2>1, <3>1 DEF InTd
  <2> QED
    BY <2>1
<1>11. Slotted(e, h)
  <2>1. ASSUME NEW p \in Slots
        PROVE  /\ trb_is_link(p) => e.trb[p].urb = NoUrb
               /\ 0 < Back(e, p) /\ Back(e, p) <= Back(e, h.deq) /\ e.trb[p].urb # NoUrb =>
                    e.trb[p].urb \in Listed(e) /\ InTd(e, e.trb[p].urb, p)
    <3>1. CASE p = w /\ trb_is_link(w)
      BY <3>1 DEF Moves, w, RingInv, Slotted
    <3>2. CASE p = w /\ ~trb_is_link(w)
      BY <1>1, <1>2, <3>2, UrbAssumption DEF Moves, w, RingInv, Roomy, InTd
    <3>3. CASE p # w
      <4>1. ASSUME 0 < Back(e, p), Back(e, p) <= Back(e, h.deq)
            PROVE  0 < Back(d, p) /\ Back(d, p) <= Back(d, h.deq)
        BY <1>1, <1>4, <1>5, <3>3, <4>1, BackIs DEF w
      <4> QED
        BY <1>2, <1>10, <3>3, <4>1 DEF Moves, w, RingInv, Slotted
    <3> QED
      BY <3>1, <3>2, <3>3
  <2> QED
    BY <2>1 DEF Slotted
<1>12. Setting(e, s2, h, n, ev)
  <2>1. SUFFICES ASSUME NEW i \in DOMAIN d.cmds, d.cmds[i].op = "setdeq", NEW ptr,
                        ptr = d.cmds[i].ptr
                 PROVE
         /\ ptr = e.queued_deq_ptr /\ d.cmds[i].cycle = Lap(e, ptr)
         /\ Edge(e, s) <= Back(e, ptr) /\ Back(e, ptr) <= Back(e, h.deq)
         /\ Back(e, ptr) < Low(e)
         /\ \A u \in Listed(d) : First(e, u) <= Back(e, ptr)
         /\ \A j \in DOMAIN ev : ev[j].kind # "transfer"
         /\ i <= n => h.cached = NoUrb
         /\ \A j \in DOMAIN d.cmds : d.cmds[j].op = "reset" => j < i
    BY <1>2, <1>6 DEF Setting, Moves
  <2>2. ptr \in Slots
    <3>1. d.cmds[i] \in Commands
      BY Parts
    <3> QED
      BY <2>1, <3>1 DEF Commands
  <2>3. /\ ptr = d.queued_deq_ptr /\ d.cmds[i].cycle = Lap(d, ptr)
        /\ Edge(d, s) <= Back(d, ptr) /\ Back(d, ptr) <= Back(d, h.deq)
        /\ Back(d, ptr) < Low(d)
        /\ \A u \in Listed(d) : First(d, u) <= Back(d, ptr)
        /\ \A j \in DOMAIN ev : ev[j].kind # "transfer"
        /\ i <= n => h.cached = NoUrb
        /\ \A j \in DOMAIN d.cmds : d.cmds[j].op = "reset" => j < i
    BY <2>1 DEF RingInv, Setting
  <2> QED
    BY <1>1, <1>2, <1>4, <1>5, <2>1, <2>2, <2>3 DEF Moves
<1>13. Cancels(e, h)
  BY <1>2, <1>3, <1>5, <1>10 DEF RingInv, Cancels, Moves
<1>14. Resetting(e, h)
  BY <1>2, <1>5, <1>10 DEF RingInv, Cancels, Resetting, Moves
<1>15. ASSUME NEW i \in DOMAIN ev, ev[i].kind = "transfer"
       PROVE  /\ LiveEvent(d, s, h, t, ev[i]) => LiveEvent(e, s2, h, t, ev[i])
              /\ Stale(d, ev[i]) => Stale(e, ev[i])
              /\ LiveEvent(d, s, h, t, ev[i]) =>
                   /\ Back(e, ev[i].pos) = Back(d, ev[i].pos) + 1
                   /\ e.td[ev[i].urb].last = d.td[ev[i].urb].last
              /\ ev[i].pos \in Slots /\ ev[i].urb \in Urbs
  <2>1. ev[i].pos \in Slots /\ ev[i].urb \in Urbs
    BY <1>15 DEF Events
  <2>2. ASSUME LiveEvent(d, s, h, t, ev[i])
        PROVE  /\ LiveEvent(e, s2, h, t, ev[i])
               /\ Back(e, ev[i].pos) = Back(d, ev[i].pos) + 1
               /\ e.td[ev[i].urb].last = d.td[ev[i].urb].last
    <3>1. /\ ev[i].urb \in Listed(d) /\ ev[i].urb # s.urb /\ InTd(d, ev[i].urb, ev[i].pos)
          /\ IF ev[i].code = "ok"
             THEN /\ Back(d, ev[i].pos) > Back(d, h.deq)
                  /\ t = "bulk" => Final(d, ev[i].urb) > Back(d, h.deq)
             ELSE ev[i].pos = h.deq
      BY <2>2 DEF LiveEvent
    <3>2. Back(e, ev[i].pos) = Back(d, ev[i].pos) + 1
      BY <1>1, <1>2, <1>4, <2>1, <3>1 DEF InTd, RingInv, Placed
    <3>3. Back(e, h.deq) = Back(d, h.deq) + 1
      BY <1>1, <1>5
    <3>4. Final(e, ev[i].urb) = Final(d, ev[i].urb) + 1
      BY <1>2, <3>1
    <3>5. e.td[ev[i].urb].last = d.td[ev[i].urb].last
      BY <2>1, <3>1 DEF Moves
    <3> QED
      BY <1>2, <1>4, <1>5, <1>10, <2>1, <3>1, <3>2, <3>3, <3>4, <3>5 DEF LiveEvent
  <2> QED
    BY <2>1, <2>2 DEF Stale, Moves, Steps
<1>16. Awaited(e, h, t, ev)
  <2>1. ASSUME NEW u \in Listed(d), Final(e, u) > Back(e, h.deq)
        PROVE  \E i \in DOMAIN ev :
                 /\ ev[i].kind = "transfer" /\ ev[i].code = "ok" /\ ev[i].urb = u
                 /\ InTd(e, u, ev[i].pos) /\ (t = "control" => ev[i].pos = e.td[u].last)
    <3>1. Final(e, u) = Final(d, u) + 1 /\ ~ (u = s.urb /\ ~trb_is_link(w)) /\ Final(d, u) \in Nat
      BY <1>1, <1>2, <1>4, <1>5, <2>1
    <3>2. PICK i \in DOMAIN ev :
            /\ ev[i].kind = "transfer" /\ ev[i].code = "ok" /\ ev[i].urb = u
            /\ InTd(d, u, ev[i].pos) /\ (t = "control" => ev[i].pos = d.td[u].last)
      BY <1>1, <1>4, <1>5, <2>1, <3>1 DEF RingInv, Awaited
    <3> QED
      BY <1>3, <1>5, <1>10, <1>15, <3>1, <3>2, UrbAssumption DEF Moves, w
  <2> QED
    BY <1>2, <2>1 DEF Awaited
<1> QED
  BY <1>2, <1>4, <1>7, <1>8, <1>9, <1>11, <1>12, <1>13, <1>14, <1>15, <1>16, UrbAssumption
  DEF RingInv, Reported, Held, ControllerStates, Roomy, Moves, trb_in_td

\* What is said of the ring depends on the parts the driver sees there.
LEMMA ViewOperators ==
  ASSUME NEW d, NEW e, e.enqueue = d.enqueue, e.cycle_state = d.cycle_state
  PROVE  /\ \A p : Back(e, p) = Back(d, p) /\ Lap(e, p) = Lap(d, p)
         /\ \A s : Edge(e, s) = Edge(d, s)
         /\ e.dequeue = d.dequeue => Low(e) = Low(d)
         /\ e.td = d.td => \A u : /\ First(e, u) = First(d, u) /\ Final(e, u) = Final(d, u)
                                  /\ \A p : InTd(e, u, p) <=> InTd(d, u, p)
                                  /\ \A p : trb_in_td(e, u, p) <=> trb_in_td(d, u, p)
         /\ e.td_list = d.td_list => Listed(e) = Listed(d)
         /\ e.cancelled_td_list = d.cancelled_td_list => Cancelled(e) = Cancelled(d)
BY DEF Back, Lap, Edge, Low, First, Final, InTd, trb_in_td, Listed, Cancelled

\* So the order is kept by what leaves them alone.
LEMMA ViewKeeps ==
  ASSUME NEW d, NEW e, NEW s, NEW h, NEW k, NEW n, NEW t, NEW ev,
         SameView(d, e), SameSpot(h, k), RingInv(d, s, h, n, t, ev)
  PROVE  RingInv(e, s, k, n, t, ev)
<1>1. /\ \A p : Back(e, p) = Back(d, p) /\ Lap(e, p) = Lap(d, p)
      /\ Edge(e, s) = Edge(d, s) /\ Low(e) = Low(d)
      /\ \A u : /\ First(e, u) = First(d, u) /\ Final(e, u) = Final(d, u)
                /\ \A p : InTd(e, u, p) <=> InTd(d, u, p)
                /\ \A p : trb_in_td(e, u, p) <=> trb_in_td(d, u, p)
      /\ Listed(e) = Listed(d) /\ Cancelled(e) = Cancelled(d)
  BY ViewOperators DEF SameView
<1>2. Cycled(e, s)
  BY <1>1 DEF RingInv, Cycled, SameView
<1>3. Roomy(e, s)
  BY <1>1 DEF RingInv, Roomy, Apart, SameView
<1>4. Placed(e, s) /\ Placed_hw(e, s, k)
  BY <1>1 DEF RingInv, Placed, Placed_hw, SameView, SameSpot
<1>5. Slotted(e, k)
  BY <1>1 DEF RingInv, Slotted, SameView, SameSpot
<1>6. Setting(e, s, k, n, ev)
  BY <1>1 DEF RingInv, Setting, SameView, SameSpot
<1> QED
  BY <1>1, <1>2, <1>3, <1>4, <1>5, <1>6 DEF RingInv, Awaited, SameView, SameSpot, Reported,
    LiveEvent, Stale, Cancels, Resetting, Held

-----------------------------------------------------------------------------
(* Submission                                                              *)

\* A link is handed over.
LEMMA GiveLinkMoves ==
  ASSUME NEW d \in DriverStates, NEW s \in Submits, trb_is_link(d.enqueue),
         Cycled(d, s), Low(d) < RingSize - 1, s.urb # NoUrb => s.start # d.enqueue
  PROVE  Moves(d, GiveLink(d), s) /\ GiveLink(d) \in DriverStates
<1> DEFINE e == GiveLink(d)
           w == d.enqueue
           r == [d.trb EXCEPT ![w].cycle = 1 - @]
<1>1. /\ e.enqueue = next_trb(w) /\ e.trb = r /\ e.dequeue = d.dequeue
      /\ e.cycle_state = (IF w = RingSize - 1 THEN 1 - d.cycle_state ELSE d.cycle_state)
      /\ e.td = d.td /\ e.td_list = d.td_list /\ e.cancelled_td_list = d.cancelled_td_list
      /\ e.queued_deq_ptr = d.queued_deq_ptr /\ e.cmds = d.cmds /\ e.ep_state = d.ep_state
  BY DEF GiveLink, DriverStates, link_trb_toggles_cycle
<1> HIDE DEF e
<1>2. /\ \A p \in Slots \ {w} : r[p] = d.trb[p]
      /\ r[w].cycle = 1 - d.trb[w].cycle /\ r[w].urb = d.trb[w].urb
  BY Parts, NextIsSlot DEF Rings
<1> HIDE DEF r
<1> QED
  BY <1>1, <1>2, LapIs, GiveLinkType, Parts, NextIsSlot DEF e, Moves, Steps, Cycled

\* What is in a list with one more element, and in the tail of a list.
LEMMA ToSetAppend ==
  ASSUME NEW T, NEW s \in Seq(T), NEW x \in T
  PROVE  ToSet(Append(s, x)) = ToSet(s) \cup {x}
<1> DEFINE a == Append(s, x)
<1>1. /\ DOMAIN s = 1 .. Len(s) /\ DOMAIN a = 1 .. Len(s) + 1 /\ Len(s) \in Nat
      /\ \A i \in 1 .. Len(s) : a[i] = s[i]
      /\ a[Len(s) + 1] = x
  OBVIOUS
<1> HIDE DEF a
<1>2. ASSUME NEW y \in ToSet(a)
      PROVE  y \in ToSet(s) \cup {x}
  BY <1>1 DEF ToSet
<1>3. ASSUME NEW y \in ToSet(s) \cup {x}
      PROVE  y \in ToSet(a)
  BY <1>1 DEF ToSet
<1> QED
  BY <1>2, <1>3 DEF a

\* A transfer is put on the list, and its first TRB is the next.
LEMMA ListRing ==
  ASSUME NEW d \in DriverStates, NEW e \in DriverStates, NEW h \in ControllerStates,
         NEW n \in Nat, NEW t, NEW ev \in Seq(Events),
         NEW u \in Urbs, u \notin Listed(d), u \notin Cancelled(d),
         NEW size \in 1 .. TRBS_PER_SEGMENT - 1,
         RingInv(d, NotSubmitting, h, n, t, ev), ~trb_is_link(d.enqueue),
         (d.enqueue % TRBS_PER_SEGMENT) + size >= TRBS_PER_SEGMENT - 1 =>
            (SegOf(d.enqueue) + 1) % NumSegs # SegOf(d.dequeue),
         e.enqueue = d.enqueue, e.dequeue = d.dequeue, e.cycle_state = d.cycle_state,
         e.trb = d.trb, e.td_list = Append(d.td_list, u),
         e.cancelled_td_list = d.cancelled_td_list, e.queued_deq_ptr = d.queued_deq_ptr,
         e.cmds = d.cmds, e.ep_state = d.ep_state,
         \A v \in Urbs \ {u} : e.td[v] = d.td[v],
         e.td[u].first = d.enqueue, e.td[u].last = d.enqueue,
         NEW s, s = [urb |-> u, left |-> size, start |-> d.enqueue, cycle |-> d.cycle_state]
  PROVE  RingInv(e, s, h, n, t, ev)
<1>1. /\ d.enqueue \in Slots /\ Back(d, d.enqueue) = 0 /\ Lap(d, d.enqueue) = d.cycle_state
      /\ Low(d) \in Nat /\ h.deq \in Slots /\ Back(d, h.deq) \in Nat
  <2>1. d.enqueue \in Slots /\ Low(d) \in Nat /\ h.deq \in Slots
    BY LowIs DEF ControllerStates
  <2>2. d.enqueue \in Nat
    BY <2>1, SlotsAreNumbers
  <2> QED
    BY <2>1, <2>2, BackIs DEF Lap
<1>2. /\ \A p : Back(e, p) = Back(d, p) /\ Lap(e, p) = Lap(d, p)
      /\ Low(e) = Low(d) /\ Cancelled(e) = Cancelled(d)
  BY ViewOperators
<1>3. /\ s.urb = u /\ s.left = size /\ s.start = d.enqueue /\ s.cycle = d.cycle_state
      /\ u # NoUrb /\ Edge(e, s) = 0 /\ Edge(d, NotSubmitting) = 0
  BY <1>1, <1>2, UrbAssumption DEF Edge, NotSubmitting
<1>4. /\ Listed(d) \subseteq Urbs /\ Cancelled(d) \subseteq Urbs /\ d.td_list \in Seq(Urbs)
      /\ \A i \in DOMAIN d.td_list : d.td_list[i] \in Listed(d)
  BY ListedAreUrbs, Parts
<1>5. Listed(e) = Listed(d) \cup {u}
  BY <1>4, ToSetAppend DEF Listed
<1>6. /\ \A v \in Urbs \ {u} : /\ First(e, v) = First(d, v) /\ Final(e, v) = Final(d, v)
                               /\ e.td[v] = d.td[v]
                               /\ \A p : InTd(e, v, p) <=> InTd(d, v, p)
                               /\ \A p : trb_in_td(e, v, p) <=> trb_in_td(d, v, p)
      /\ First(e, u) = 0 /\ Final(e, u) = 0
  BY <1>1, <1>2 DEF First, Final, InTd, trb_in_td
<1>7. \A v \in Listed(d) : v \in Urbs \ {u} /\ v # s.urb /\ v # NotSubmitting.urb
  BY <1>3, <1>4, UrbAssumption DEF NotSubmitting
<1> HIDE DEF NotSubmitting
<1>8. Roomy(e, s)
  BY <1>1, <1>2, <1>3, <1>5, RingAssumption DEF RingInv, Roomy, Apart
<1>9. Placed(e, s)
  <2>1. ASSUME NEW v \in Listed(e)
        PROVE  /\ ~trb_is_link(e.td[v].first) /\ ~trb_is_link(e.td[v].last)
               /\ Final(e, v) <= First(e, v) /\ First(e, v) <= Low(e)
               /\ v # s.urb => Final(e, v) > Edge(e, s)
               /\ v = s.urb => Final(e, v) > 0 \/ e.enqueue = s.start
    BY <1>1, <1>2, <1>3, <1>5, <1>6, <1>7 DEF RingInv, Placed
  <2>2. ASSUME NEW i \in DOMAIN e.td_list, NEW j \in DOMAIN e.td_list, i < j
        PROVE  Final(e, e.td_list[i]) > First(e, e.td_list[j])
    BY <1>3, <1>4, <1>6, <1>7, <2>2 DEF RingInv, Placed
  <2> QED
    BY <2>1, <2>2 DEF Placed
<1>10. Setting(e, s, h, n, ev)
  <2>1. ASSUME NEW i \in DOMAIN d.cmds, d.cmds[i].op = "setdeq"
        PROVE  \A v \in Listed(e) : First(e, v) <= Back(e, d.cmds[i].ptr)
    <3>1. Back(d, d.cmds[i].ptr) \in Nat
      <4>1. d.cmds[i] \in Commands
        BY Parts
      <4> QED
        BY <4>1, BackIs DEF Commands
    <3> QED
      BY <1>2, <1>5, <1>6, <1>7, <2>1, <3>1 DEF RingInv, Setting
  <2> QED
    BY <1>2, <1>3, <2>1 DEF RingInv, Setting
<1>11. Cancels(e, h) /\ Resetting(e, h)
  BY <1>2, <1>4, <1>5, <1>6 DEF RingInv, Cancels, Resetting
<1>12. \A x : /\ LiveEvent(d, NotSubmitting, h, t, x) =>
                   LiveEvent(e, s, h, t, x) /\ e.td[x.urb] = d.td[x.urb]
              /\ Stale(d, x) <=> Stale(e, x)
  BY <1>2, <1>5, <1>6, <1>7 DEF LiveEvent, Stale
<1>13. Reported(e, s, h, t, ev)
  <2>1. ASSUME NEW i \in DOMAIN ev, ev[i].kind = "transfer"
        PROVE  LiveEvent(e, s, h, t, ev[i]) \/ (i = 1 /\ Stale(e, ev[i]))
    BY <1>12, <2>1 DEF RingInv, Reported
  <2>2. ASSUME NEW i \in DOMAIN ev, NEW j \in DOMAIN ev, i < j,
               ev[i].kind = "transfer", ev[j].kind = "transfer",
               ~ (i = 1 /\ Stale(e, ev[i]))
        PROVE  /\ Back(e, ev[i].pos) > Back(e, ev[j].pos)
               /\ t = "bulk" /\ ev[i].urb = ev[j].urb =>
                    j = i + 1 /\ ev[j].code = "ok" /\ ev[j].pos = e.td[ev[j].urb].last
    <3>1. ~ (i = 1 /\ Stale(d, ev[i]))
      BY <1>12, <2>2
    <3> QED
      BY <1>2, <1>12, <2>2, <3>1 DEF RingInv, Reported
  <2> QED
    BY <2>1, <2>2 DEF Reported
<1> QED
  BY <1>1, <1>2, <1>3, <1>5, <1>6, <1>7, <1>8, <1>9, <1>10, <1>11, <1>13 DEF RingInv,
    ControllerStates, Held, Slotted, Awaited, Cycled, NotSubmitting, Placed_hw

\* No transfer is being written, whatever was left of the last one.
LEMMA IdleSubmit ==
  ASSUME NEW d \in DriverStates, NEW s, NEW z, s.urb = NoUrb, z.urb = NoUrb,
         NEW h, NEW n, NEW t, NEW ev, RingInv(d, s, h, n, t, ev)
  PROVE  RingInv(d, z, h, n, t, ev)
BY UrbAssumption, ListedAreUrbs DEF Edge, RingInv, Cycled, Roomy, Placed, Placed_hw, Setting,
  LiveEvent, Reported

\* Where the enqueue pointer is when a transfer that does not need the ring
\* to grow has been prepared.
LEMMA NotNeeded ==
  ASSUME NEW d \in DriverStates, NEW size \in 1 .. TRBS_PER_SEGMENT - 1,
         ~xhci_ring_expansion_needed(d, size)
  PROVE  /\ ~trb_is_link(d.enqueue) =>
              ((d.enqueue % TRBS_PER_SEGMENT) + size >= TRBS_PER_SEGMENT - 1 =>
                 (SegOf(d.enqueue) + 1) % NumSegs # SegOf(d.dequeue))
         /\ trb_is_link(d.enqueue) =>
              LET w == next_trb(d.enqueue) IN
              /\ SegOf(d.dequeue) = SegOf(w) => d.dequeue = w
              /\ size >= TRBS_PER_SEGMENT - 1 => (SegOf(w) + 1) % NumSegs # SegOf(d.dequeue)
<1> DEFINE T == TRBS_PER_SEGMENT
           r == d.enqueue % TRBS_PER_SEGMENT
           past == r + size - (T - 1)
           new == 1 + (past \div (T - 1))
           a == SegOf(d.enqueue)
           q == SegOf(d.dequeue)
<1>1. /\ T \in Nat \ {0, 1} /\ NumSegs \in Nat \ {0, 1} /\ r \in 0 .. T - 1
      /\ a \in 0 .. NumSegs - 1 /\ q \in 0 .. NumSegs - 1 /\ size \in 1 .. T - 1
      /\ d.enqueue \in Slots /\ d.dequeue \in Slots
  BY Parts, SegmentOf, RingAssumption
<1>2. past >= 0 /\ ~(trb_is_link(d.enqueue) /\ next_trb(d.enqueue) = d.dequeue)
        => \A k \in 1 .. new : (a + k) % NumSegs # q
  BY DEF xhci_ring_expansion_needed
<1>3. past >= 0 => past \div (T - 1) \in Nat /\ (past >= T - 1 => past \div (T - 1) >= 1)
  <2>1. SUFFICES ASSUME past >= 0
                 PROVE  past \div (T - 1) \in Nat /\ (past >= T - 1 => past \div (T - 1) >= 1)
    OBVIOUS
  <2>2. past \in Nat /\ T - 1 \in Nat \ {0}
    BY <1>1, <2>1
  <2> DEFINE b == T - 1
             k == past \div b
             m == past % b
  <2>3. k \in Nat /\ m \in 0 .. b - 1 /\ past = b * k + m
    BY <2>2, Division
  <2> QED
    BY <2>2, <2>3
<1> HIDE DEF a, q
<1>4. CASE ~trb_is_link(d.enqueue)
  BY <1>1, <1>2, <1>3, <1>4 DEF a, q
<1>5. CASE trb_is_link(d.enqueue)
  <2> DEFINE w == next_trb(d.enqueue)
             b == SegOf(w)
  <2>1. b = (a + 1) % NumSegs /\ w \in Slots
    BY <1>1, <1>5, NextSegment, NextIsSlot DEF a
  <2>2. b \in 0 .. NumSegs - 1
    BY <2>1, SegmentOf
  <2> HIDE DEF b
  <2>3. (a + 2) % NumSegs = (b + 1) % NumSegs
    <3>1. CASE a + 1 < NumSegs
      BY <1>1, <2>1, <3>1
    <3>2. CASE a + 1 >= NumSegs
      <4>1. (NumSegs + 1) % NumSegs = 1
        BY <1>1, DivisionIs
      <4> QED
        BY <1>1, <2>1, <3>2, <4>1, DivisionIs
    <3> QED
      BY <1>1, <3>1, <3>2
  <2>4. CASE w = d.dequeue
    BY <1>1, <1>5, <2>2, <2>4, DivisionIs DEF q, b
  <2>5. CASE w # d.dequeue
    BY <1>1, <1>2, <1>3, <1>5, <2>1, <2>3, <2>5 DEF q, b, trb_is_link
  <2> QED
    BY <2>4, <2>5
<1> QED
  BY <1>4, <1>5

\* A transfer that fits is put on the list.
LEMMA PrepareRing ==
  ASSUME NEW d \in DriverStates, NEW s \in Submits, s.urb = NoUrb, NEW h \in ControllerStates,
         NEW n \in Nat, NEW t, NEW ev \in Seq(Events), RingInv(d, s, h, n, t, ev),
         NEW u \in Urbs, u \notin Listed(d), u \notin Cancelled(d),
         NEW size \in 1 .. TRBS_PER_SEGMENT - 1, ~xhci_ring_expansion_needed(d, size),
         NEW p, p = prepare_ring(d),
         NEW e, e = ListedOn(p, u), NEW z, z = Begun(p, u, size)
  PROVE  RingInv(e, z, h, n, t, ev)
<1>1. NotSubmitting \in Submits /\ NotSubmitting.urb = NoUrb
  BY RingHasSlots DEF NotSubmitting, Submits
<1>2. RingInv(d, NotSubmitting, h, n, t, ev)
  BY <1>1, IdleSubmit
<1>3. /\ p \in DriverStates /\ ~trb_is_link(p.enqueue)
      /\ RingInv(p, NotSubmitting, h, n, t, ev)
      /\ (p.enqueue % TRBS_PER_SEGMENT) + size >= TRBS_PER_SEGMENT - 1 =>
           (SegOf(p.enqueue) + 1) % NumSegs # SegOf(p.dequeue)
      /\ p.td_list = d.td_list /\ p.cancelled_td_list = d.cancelled_td_list
  <2>1. CASE ~trb_is_link(d.enqueue)
    BY <1>2, <2>1, NotNeeded DEF prepare_ring
  <2>2. CASE trb_is_link(d.enqueue)
    <3>1. Moves(d, p, NotSubmitting) /\ p \in DriverStates
      BY <1>1, <1>2, <2>2, GiveLinkMoves, RoomToMove DEF RingInv, Roomy, prepare_ring
    <3>2. /\ p.enqueue = next_trb(d.enqueue) /\ p.dequeue = d.dequeue /\ p.td_list = d.td_list
          /\ p.cancelled_td_list = d.cancelled_td_list
      BY <3>1 DEF Moves, Steps
    <3>3. d.enqueue \in Slots /\ p.enqueue \in Slots /\ p.enqueue \in Nat
      BY <3>1, Parts, SlotsAreNumbers
    <3>4. p.enqueue % TRBS_PER_SEGMENT = 0 /\ ~trb_is_link(p.enqueue)
      BY <2>2, <3>2, <3>3, NextSegment
    <3>5. /\ SegOf(p.dequeue) = SegOf(p.enqueue) => p.dequeue = p.enqueue
          /\ size >= TRBS_PER_SEGMENT - 1 => (SegOf(p.enqueue) + 1) % NumSegs # SegOf(p.dequeue)
      BY <2>2, <3>2, NotNeeded
    <3>6. Roomy(p, NotSubmitting)
      BY <1>1, <3>3, <3>5 DEF Roomy, Apart
    <3>7. RingInv(p, NotSubmitting, h, n, t, ev)
      BY <1>1, <1>2, <3>1, <3>6, MovesRing
    <3> QED
      BY <3>1, <3>2, <3>4, <3>5, <3>7
  <2> QED
    BY <2>1, <2>2
<1> DEFINE l == Append(p.td_list, u)
           x == [first |-> p.enqueue, last |-> p.enqueue, cancel_status |-> "dirty"]
           m == [p.td EXCEPT ![u] = x]
<1>4. l \in Seq(Urbs) /\ m \in Tds
  BY <1>3, Parts DEF Tds
<1>5. (\A v \in Urbs \ {u} : m[v] = p.td[v]) /\ m[u] = x
  BY <1>3, Parts DEF Tds
<1> HIDE DEF l, m
<1>6. e = [[p EXCEPT !.td_list = l] EXCEPT !.td = m]
  BY <1>3 DEF DriverStates, ListedOn, l, m
<1>7. e \in DriverStates
  <2> DEFINE q == [p EXCEPT !.td_list = l]
  <2>1. q \in DriverStates
    BY <1>3, <1>4, New_td_list
  <2>2. e = [q EXCEPT !.td = m]
    BY <1>6
  <2> HIDE DEF q
  <2> QED
    BY <1>4, <2>1, <2>2, New_td
<1>8. /\ \A v \in Urbs \ {u} : e.td[v] = p.td[v]
      /\ e.td[u].first = p.enqueue /\ e.td[u].last = p.enqueue
  <2>1. x.first = p.enqueue /\ x.last = p.enqueue
    OBVIOUS
  <2> HIDE DEF x
  <2> QED
    BY <1>3, <1>5, <1>6, <2>1 DEF DriverStates
<1> HIDE DEF x
<1> QED
  BY <1>3, <1>6, <1>7, <1>8, ListRing DEF Begun, l, Listed, Cancelled, DriverStates

\* A TRB is written, with the link after it if more are to come.
LEMMA QueueRing ==
  ASSUME NEW d \in DriverStates, NEW s \in Submits, s.urb # NoUrb, s.left > 0,
         NEW h \in ControllerStates, NEW n \in Nat, NEW t, NEW ev \in Seq(Events),
         RingInv(d, s, h, n, t, ev),
         NEW k, k = [d EXCEPT !.trb[d.enqueue] =
                       [cycle |-> IF d.enqueue = s.start THEN 1 - s.cycle ELSE d.cycle_state,
                        urb |-> s.urb],
                     !.td[s.urb].last = d.enqueue],
         NEW z, z = [s EXCEPT !.left = @ - 1]
  PROVE  RingInv(inc_enq(k, s.left > 1), z, h, n, t, ev)
<1> DEFINE w == d.enqueue
           T == TRBS_PER_SEGMENT
           c == IF w = s.start THEN 1 - s.cycle ELSE d.cycle_state
           x == [cycle |-> c, urb |-> s.urb]
           r == [d.trb EXCEPT ![w] = x]
           m == [d.td EXCEPT ![s.urb].last = w]
           e == [k EXCEPT !.enqueue = next_trb(@)]
<1>1. /\ s.urb \in Urbs /\ s.left \in Nat /\ s.start \in Slots /\ s.cycle \in {0, 1}
      /\ w \in Slots /\ d.trb \in Rings /\ d.td \in Tds /\ d.cycle_state \in {0, 1}
      /\ d.dequeue \in Slots /\ T \in Nat \ {0, 1} /\ RingSize \in Nat \ {0}
  BY Parts, RingAssumption, RingHasSlots DEF Submits
<1>2. /\ Apart(d)
      /\ (w % T) + s.left >= T - 1 => (SegOf(w) + 1) % NumSegs # SegOf(d.dequeue)
      /\ s.left <= T - 1 /\ (s.start # w => s.left <= T - 2)
      /\ ~trb_is_link(w) /\ Back(d, s.start) <= Low(d)
      /\ s.urb \in Listed(d) /\ d.td[s.urb].first = s.start
  BY <1>1 DEF RingInv, Roomy
<1>3. /\ w # RingSize - 1 /\ next_trb(w) = w + 1 /\ SegOf(next_trb(w)) = SegOf(w)
      /\ next_trb(w) % T = (w % T) + 1 /\ next_trb(w) \in Slots /\ w % T \in 0 .. T - 1
      /\ w \in Nat
  BY <1>1, <1>2, NextInSegment, NextIsSlot, SegmentOf, SlotsAreNumbers
<1>4. Low(d) < RingSize - 1
  <2>1. (w % T) + 1 >= T - 1 => (SegOf(w) + 1) % NumSegs # SegOf(d.dequeue)
    BY <1>1, <1>2, <1>3
  <2> QED
    BY <1>2, <2>1, RoomToMove
<1>5. c \in {0, 1} /\ r \in Rings /\ m \in Tds
  <2>1. c \in {0, 1}
    BY <1>1
  <2> HIDE DEF c
  <2> QED
    BY <1>1, <2>1 DEF Rings, Tds
<1>6. /\ \A p \in Slots \ {w} : r[p] = d.trb[p]
      /\ r[w] = x
      /\ \A v \in Urbs : m[v].first = d.td[v].first /\ m[v].cancel_status = d.td[v].cancel_status
      /\ \A v \in Urbs \ {s.urb} : m[v].last = d.td[v].last
      /\ m[s.urb].last = w
  BY <1>1 DEF Rings, Tds
<1> HIDE DEF r, m
<1>7. e = [[[d EXCEPT !.trb = r] EXCEPT !.td = m] EXCEPT !.enqueue = next_trb(w)]
  BY DEF DriverStates, r, m
<1> HIDE DEF e
<1>8. e \in DriverStates
  BY <1>3, <1>5, <1>7, New_trb, New_td, New_enqueue
<1>9. /\ e.enqueue = next_trb(w) /\ e.dequeue = d.dequeue /\ e.cycle_state = d.cycle_state
      /\ e.trb = r /\ e.td = m /\ e.td_list = d.td_list
      /\ e.cancelled_td_list = d.cancelled_td_list /\ e.queued_deq_ptr = d.queued_deq_ptr
      /\ e.cmds = d.cmds /\ e.ep_state = d.ep_state
  BY <1>7 DEF DriverStates
<1>10. Moves(d, e, s)
  <2>1. Steps(d, e)
    BY <1>3, <1>9 DEF Steps
  <2> QED
    BY <1>1, <1>2, <1>4, <1>6, <1>9, <2>1, SlotsAreNumbers DEF Moves, RingInv, Cycled, Lap
<1>11. /\ Low(e) = Low(d) + 1 /\ Back(e, s.start) = Back(d, s.start) + 1
       /\ s.start # e.enqueue /\ Listed(e) = Listed(d) /\ Low(d) \in Nat /\ Back(d, s.start) \in Nat
  <2>1. s.start # e.enqueue /\ Listed(e) = Listed(d)
    BY <1>1, <1>2, <1>8, <1>10, MovedTds DEF RingInv
  <2>2. Low(d) \in Nat /\ Back(d, s.start) \in Nat
    BY <1>1, LowIs, BackIs
  <2> QED
    BY <1>1, <1>4, <1>8, <1>10, <2>1, <2>2, StepIs DEF Moves
<1>12. Apart(e)
  <2>1. d.dequeue \in Nat
    BY <1>1, SlotsAreNumbers
  <2> QED
    BY <1>2, <1>3, <1>9, <2>1 DEF Apart
<1>13. ASSUME NEW y \in Submits, y.urb = s.urb, y.start = s.start, y.cycle = s.cycle,
              y.left <= s.left - 1, y.left > 0 => ~trb_is_link(e.enqueue),
              (e.enqueue % T) + y.left >= T - 1 => (w % T) + s.left >= T - 1
       PROVE  RingInv(e, y, h, n, t, ev)
  <2>1. (e.enqueue % T) + y.left >= T - 1 => (SegOf(e.enqueue) + 1) % NumSegs # SegOf(e.dequeue)
    BY <1>2, <1>3, <1>9, <1>13
  <2>2. y.left <= T - 1 /\ y.left <= T - 2
    BY <1>1, <1>2, <1>13 DEF Submits
  <2>3. e.td[y.urb].first = y.start
    BY <1>1, <1>2, <1>6, <1>9, <1>13
  <2> QED
    BY <1>2, <1>8, <1>10, <1>11, <1>12, <1>13, <2>1, <2>2, <2>3, MovesRing DEF Roomy
<1>14. /\ z \in Submits /\ z.urb = s.urb /\ z.start = s.start /\ z.cycle = s.cycle
       /\ z.left = s.left - 1 /\ z.left \in Nat
  BY <1>1 DEF Submits
<1>15. CASE ~ (trb_is_link(e.enqueue) /\ s.left > 1)
  <2>1. z.left > 0 => ~trb_is_link(e.enqueue)
    BY <1>1, <1>14, <1>15
  <2>2. (e.enqueue % T) + z.left = (w % T) + s.left
    <3> DEFINE a == e.enqueue % T
               b == w % T
    <3>1. a = b + 1 /\ b \in Nat
      BY <1>1, <1>3, <1>9
    <3> HIDE DEF a, b
    <3>2. z.left = s.left - 1 /\ s.left \in Nat
      BY <1>1, <1>14
    <3> QED
      BY <3>1, <3>2 DEF a, b
  <2>3. z.left <= s.left - 1
    BY <1>1, <1>14
  <2> QED
    BY <1>13, <1>14, <1>15, <2>1, <2>2, <2>3 DEF inc_enq, e
<1>16. CASE trb_is_link(e.enqueue) /\ s.left > 1
  <2> DEFINE y == [s EXCEPT !.left = 0]
             g == GiveLink(e)
  <2>1. inc_enq(k, s.left > 1) = g
    BY <1>16 DEF inc_enq, e
  <2>2. y \in Submits /\ y.urb = s.urb /\ y.start = s.start /\ y.cycle = s.cycle /\ y.left = 0
    BY <1>1 DEF Submits
  <2> HIDE DEF y
  <2>3. (w % T) + s.left >= T - 1
    BY <1>1, <1>3, <1>9, <1>16 DEF trb_is_link
  <2>4. RingInv(e, y, h, n, t, ev)
    BY <1>1, <1>13, <2>2, <2>3
  <2>5. Moves(e, g, y) /\ g \in DriverStates
    BY <1>8, <1>11, <1>12, <1>16, <2>2, <2>4, GiveLinkMoves, RoomToMove DEF RingInv
  <2> HIDE DEF g
  <2>6. /\ SegOf(g.enqueue) = (SegOf(e.enqueue) + 1) % NumSegs /\ g.enqueue % T = 0
        /\ ~trb_is_link(g.enqueue)
    BY <1>3, <1>9, <1>16, <2>5, NextSegment DEF Moves, Steps
  <2>7. s.start # g.enqueue /\ Listed(g) = Listed(d)
    BY <1>1, <1>8, <1>11, <2>2, <2>4, <2>5, MovedTds DEF RingInv, Roomy
  <2>8. Low(g) = Low(e) + 1 /\ Back(g, s.start) = Back(e, s.start) + 1
    BY <1>1, <1>8, <1>12, <1>16, <2>5, <2>7, StepIs, RoomToMove DEF Moves
  <2>9. g.td[s.urb].first = s.start
    BY <1>1, <1>2, <1>6, <1>9, <2>5 DEF Moves
  <2>10. /\ z.left <= T - 1 /\ z.left <= T - 2
         /\ ~ ((g.enqueue % T) + z.left >= T - 1)
    BY <1>1, <1>2, <1>14, <2>6
  <2>11. Roomy(g, z)
    BY <1>2, <1>3, <1>9, <1>11, <1>14, <2>3, <2>5, <2>6, <2>7, <2>8, <2>9, <2>10 DEF Roomy,
      Apart, Moves, Steps
  <2>12. RingInv(g, z, h, n, t, ev)
    BY <1>8, <1>14, <2>2, <2>4, <2>5, <2>11, MovesRing
  <2> QED
    BY <2>1, <2>12
<1> QED
  BY <1>15, <1>16

\* The first TRB of the transfer is handed over.
LEMMA HandOverRing ==
  ASSUME NEW d \in DriverStates, NEW s \in Submits, s.urb # NoUrb, s.left = 0,
         NEW z, z.urb = NoUrb,
         NEW h \in ControllerStates, NEW n, NEW t, NEW ev \in Seq(Events), RingInv(d, s, h, n, t, ev),
         NEW e, e.trb = [d.trb EXCEPT ![s.start].cycle = s.cycle],
         e.enqueue = d.enqueue, e.dequeue = d.dequeue, e.cycle_state = d.cycle_state,
         e.td = d.td, e.td_list = d.td_list,
         e.cancelled_td_list = d.cancelled_td_list, e.queued_deq_ptr = d.queued_deq_ptr,
         e.cmds = d.cmds, e.ep_state = d.ep_state
  PROVE  RingInv(e, z, h, n, t, ev)
<1>1. /\ \A p : Back(e, p) = Back(d, p) /\ Lap(e, p) = Lap(d, p)
      /\ Low(e) = Low(d)
      /\ \A u : /\ First(e, u) = First(d, u) /\ Final(e, u) = Final(d, u)
                /\ \A p : InTd(e, u, p) <=> InTd(d, u, p)
                /\ \A p : trb_in_td(e, u, p) <=> trb_in_td(d, u, p)
      /\ Listed(e) = Listed(d) /\ Cancelled(e) = Cancelled(d)
  <2>1. \A p : Back(e, p) = Back(d, p) /\ Lap(e, p) = Lap(d, p)
    BY ViewOperators
  <2> QED
    BY <2>1, ViewOperators
<1>2. s.start \in Slots /\ s.cycle \in {0, 1} /\ d.trb \in Rings
  BY Parts DEF Submits
<1>3. s.start # d.enqueue /\ s.cycle = Lap(d, s.start) /\ Apart(d)
  BY DEF RingInv, Roomy, Cycled
<1>4. Edge(e, z) = 0 /\ Edge(d, s) \in Nat
  BY <1>2, BackIs DEF Edge
<1>5. Cycled(e, z)
  BY <1>1, <1>2, <1>3 DEF RingInv, Cycled, Rings
<1>6. Roomy(e, z)
  BY <1>3 DEF Roomy, Apart
<1>7. \A u \in Listed(d) : u # NoUrb /\ Final(d, u) \in Nat
  BY ListedAreUrbs, UrbAssumption, TdIs
<1>8. Placed(e, z)
  BY <1>1, <1>3, <1>4, <1>7 DEF RingInv, Placed
<1>9. ASSUME NEW q \in Slots
      PROVE  0 <= Back(d, q)
  BY BackIs
<1>10. Placed_hw(e, z, h)
  BY <1>1, <1>4, <1>9 DEF RingInv, Placed_hw, ControllerStates
<1>11. Slotted(e, h)
  <2>1. ASSUME NEW p \in Slots
        PROVE  /\ trb_is_link(p) => e.trb[p].urb = NoUrb
               /\ 0 < Back(e, p) /\ Back(e, p) <= Back(e, h.deq) /\ e.trb[p].urb # NoUrb =>
                    e.trb[p].urb \in Listed(e) /\ InTd(e, e.trb[p].urb, p)
    <3>1. e.trb[p].urb = d.trb[p].urb
      BY <1>2 DEF Rings
    <3> QED
      BY <1>1, <3>1 DEF RingInv, Slotted
  <2> QED
    BY <2>1 DEF Slotted
<1>12. Held(e, h)
  BY <1>1 DEF RingInv, Held
<1>13. Setting(e, z, h, n, ev)
  <2>1. ASSUME NEW i \in DOMAIN d.cmds
        PROVE  0 <= Back(d, d.cmds[i].ptr)
    <3>1. d.cmds[i] \in Commands
      BY Parts
    <3> QED
      BY <1>9, <3>1 DEF Commands
  <2> QED
    BY <1>1, <1>4, <2>1 DEF RingInv, Setting
<1>14. Cancels(e, h) /\ Resetting(e, h)
  BY <1>1 DEF RingInv, Cancels, Resetting
<1>15. \A x : /\ LiveEvent(d, s, h, t, x) => LiveEvent(e, z, h, t, x)
              /\ Stale(d, x) <=> Stale(e, x)
  BY <1>1, <1>7 DEF LiveEvent, Stale
<1> QED
  BY <1>1, <1>5, <1>6, <1>8, <1>10, <1>11, <1>12, <1>13, <1>14, <1>15 DEF RingInv, Reported,
    Awaited

-----------------------------------------------------------------------------
(* A transfer is cancelled                                                 *)

\* Transfers leaving the lists change no place.
LEMMA PlacesKeep ==
  ASSUME NEW d \in DriverStates, NEW e, SamePlaces(d, e),
         NEW s, NEW h, NEW n, NEW t, NEW ev \in Seq(Events), RingInv(d, s, h, n, t, ev)
  PROVE  /\ \A p : Back(e, p) = Back(d, p) /\ Lap(e, p) = Lap(d, p)
         /\ Low(e) = Low(d) /\ Edge(e, s) = Edge(d, s)
         /\ \A u \in Urbs : /\ First(e, u) = First(d, u) /\ Final(e, u) = Final(d, u)
                            /\ \A p : InTd(e, u, p) <=> InTd(d, u, p)
                            /\ \A p : trb_in_td(e, u, p) <=> trb_in_td(d, u, p)
         /\ Listed(e) = Listed(d) /\ Listed(d) \subseteq Urbs
         /\ Cycled(e, s) /\ Roomy(e, s) /\ Placed(e, s) /\ Placed_hw(e, s, h)
         /\ Slotted(e, h) /\ Reported(e, s, h, t, ev) /\ Awaited(e, h, t, ev)
<1>1. /\ \A p : Back(e, p) = Back(d, p) /\ Lap(e, p) = Lap(d, p)
      /\ Low(e) = Low(d) /\ Edge(e, s) = Edge(d, s)
      /\ Listed(e) = Listed(d) /\ Listed(d) \subseteq Urbs
  BY ViewOperators, ListedAreUrbs DEF SamePlaces
<1>2. \A u \in Urbs : /\ First(e, u) = First(d, u) /\ Final(e, u) = Final(d, u)
                      /\ \A p : trb_in_td(e, u, p) <=> trb_in_td(d, u, p)
  BY <1>1 DEF SamePlaces, First, Final, trb_in_td
<1>3. \A u \in Urbs : \A p : InTd(e, u, p) <=> InTd(d, u, p)
  BY <1>1, <1>2 DEF InTd
<1>4. Cycled(e, s)
  BY <1>1 DEF RingInv, Cycled, SamePlaces
<1>5. Roomy(e, s)
  BY <1>1 DEF RingInv, Roomy, Apart, SamePlaces
<1> QED
  BY <1>1, <1>2, <1>3, <1>4, <1>5, ListedAreUrbs DEF RingInv, Awaited, SamePlaces, Reported,
    Events, LiveEvent, Stale, Slotted, Placed_hw, Placed

\* It is marked, and a stop perhaps queued.
LEMMA UnlinkRing ==
  ASSUME NEW d \in DriverStates, NEW s, NEW h \in ControllerStates,
         NEW n \in Nat, NEW t, NEW ev \in Seq(Events),
         RingInv(d, s, h, n, t, ev), NEW u \in Listed(d), u \notin Cancelled(d),
         NEW e, SamePlaces(d, e),
         e.cancelled_td_list = Append(d.cancelled_td_list, u),
         e.td[u].cancel_status = "dirty",
         \A v \in Urbs \ {u} : e.td[v].cancel_status = d.td[v].cancel_status,
         \/ e.cmds = d.cmds /\ e.ep_state = d.ep_state
         \/ e.cmds = Append(d.cmds, Stop) /\ d.ep_state \subseteq e.ep_state
            /\ "SET_DEQ_PENDING" \notin e.ep_state
  PROVE  RingInv(e, s, h, n, t, ev)
<1>1. /\ \A p : Back(e, p) = Back(d, p) /\ Lap(e, p) = Lap(d, p)
      /\ Low(e) = Low(d) /\ Edge(e, s) = Edge(d, s)
      /\ \A v \in Urbs : /\ First(e, v) = First(d, v) /\ Final(e, v) = Final(d, v)
                         /\ \A p : InTd(e, v, p) <=> InTd(d, v, p)
                         /\ \A p : trb_in_td(e, v, p) <=> trb_in_td(d, v, p)
      /\ Listed(e) = Listed(d) /\ Listed(d) \subseteq Urbs
      /\ Cycled(e, s) /\ Roomy(e, s) /\ Placed(e, s) /\ Placed_hw(e, s, h)
      /\ Slotted(e, h) /\ Reported(e, s, h, t, ev) /\ Awaited(e, h, t, ev)
  BY PlacesKeep
<1>2. Cancelled(e) = Cancelled(d) \cup {u} /\ Cancelled(d) \subseteq Urbs /\ u \in Urbs
  BY <1>1, Parts, ToSetAppend, ListedAreUrbs DEF Cancelled
<1>3. /\ DOMAIN d.cmds \subseteq DOMAIN e.cmds
      /\ \A i \in DOMAIN d.cmds : e.cmds[i] = d.cmds[i]
      /\ \A i \in DOMAIN e.cmds : e.cmds[i].op \in {"setdeq", "reset"} => i \in DOMAIN d.cmds
  <2>1. CASE e.cmds = Append(d.cmds, Stop)
    BY <2>1, Parts, StopIsFresh
  <2> QED
    BY <2>1
<1> QED
  BY <1>1, <1>2, <1>3 DEF RingInv, Resetting, Cancels, Setting, SamePlaces, ControllerStates,
    Held

-----------------------------------------------------------------------------
(* The events of transfers                                                 *)

\* The parts of a transfer's event.
LEMMA TransferParts ==
  ASSUME NEW x \in Events, x.kind = "transfer"
  PROVE  x.pos \in Slots /\ x.urb \in Urbs /\ x.code \in {"ok", "stall", "error"}
BY DEF Events, Codes

\* What is kept of a list keeps its order.
LEMMA KeptOrder ==
  ASSUME NEW T, NEW s \in Seq(T), NEW S
  PROVE  \A i, j \in DOMAIN Kept(s, S) : i < j =>
           \E a, b \in DOMAIN s :
             a < b /\ Kept(s, S)[i] = s[a] /\ Kept(s, S)[j] = s[b]
<1> DEFINE I == {i \in DOMAIN s : s[i] \in S}
           f == Sorted(I)
           n == Cardinality(I)
<1>1. I \subseteq 1 .. Len(s) /\ Len(s) \in Nat /\ I \subseteq DOMAIN s
  OBVIOUS
<1>2. IsFiniteSet(I) /\ n \in Nat
  <2>1. IsFiniteSet(1 .. Len(s))
    BY <1>1, FS_Interval
  <2> QED
    BY <1>1, <2>1, FS_Subset, FS_CardinalityType
<1>3. Enumerates(f, I)
  BY <1>1, Enumerable DEF Enumerates, Sorted
<1> HIDE DEF f, n
<1>4. Kept(s, S) = [k \in 1 .. n |-> s[f[k]]]
  BY <1>3 DEF Kept, f, Enumerates, n
<1> HIDE DEF I
<1> TAKE i, j \in DOMAIN Kept(s, S)
<1> HAVE i < j
<1> QED
  BY <1>1, <1>3, <1>4 DEF Enumerates, n

\* The last TRB of a transfer that left the list is past.
LEMMA StaleNotIn ==
  ASSUME NEW d \in DriverStates, NEW s, Placed(d, s), NEW u \in Listed(d), Final(d, u) > 0,
         NEW x, Stale(d, x), x.pos \in Slots
  PROVE  ~InTd(d, u, x.pos)
BY LowIs, BackIs, ListedAreUrbs, TdIs, BackNext, IncDeqIs DEF Placed, InTd, Stale, Low

\* An event that is not stale is for the first transfer of the list.
LEMMA HeadOfList ==
  ASSUME NEW d \in DriverStates, NEW s, NEW h \in ControllerStates, NEW n,
         NEW t, NEW ev \in Seq(Events),
         RingInv(d, s, h, n, t, ev), s.urb = NoUrb,
         ev # <<>>, ev[1].kind = "transfer", LiveEvent(d, s, h, t, ev[1])
  PROVE  /\ d.td_list # <<>> /\ Head(d.td_list) = ev[1].urb /\ ~Stale(d, ev[1])
         /\ Head(d.td_list) \in Listed(d)
         /\ \A v \in Listed(d) : v # ev[1].urb => First(d, v) < Final(d, ev[1].urb)
<1> DEFINE l == d.td_list
           x == ev[1]
<1>1. /\ Listed(d) \subseteq Urbs /\ \A i \in DOMAIN l : l[i] \in Listed(d)
      /\ l \in Seq(Urbs) /\ DOMAIN l = 1 .. Len(l) /\ Len(l) \in Nat
      /\ DOMAIN ev = 1 .. Len(ev) /\ Len(ev) \in Nat \ {0} /\ 1 \in DOMAIN ev
  BY ListedAreUrbs, Parts
<1>2. x.urb \in Listed(d) /\ InTd(d, x.urb, x.pos) /\ x.pos \in Slots
  BY <1>1, TransferParts DEF LiveEvent
<1>3. ~Stale(d, x)
  BY <1>1, <1>2, StaleNotIn, UrbAssumption DEF RingInv, Placed, Edge
<1>4. PICK k \in DOMAIN l : l[k] = x.urb
  BY <1>2 DEF Listed, ToSet
<1>5. l # <<>> /\ 1 \in DOMAIN l /\ Head(l) = l[1]
  BY <1>1, <1>4
<1>6. /\ h.deq \in Slots /\ Back(d, h.deq) \in Nat /\ Back(d, x.pos) \in Nat
      /\ \A v \in Listed(d) : Final(d, v) \in Nat /\ First(d, v) \in Nat
  BY <1>1, <1>2, TdIs, BackIs DEF ControllerStates
<1>7. k = 1
  <2>1. SUFFICES ASSUME k # 1
                 PROVE  FALSE
    OBVIOUS
  <2> DEFINE v == l[1]
  <2>2. v \in Listed(d) /\ Final(d, v) > First(d, x.urb)
    BY <1>1, <1>4, <1>5, <2>1 DEF RingInv, Placed
  <2> HIDE DEF v
  <2>3. Back(d, x.pos) >= Back(d, h.deq)
    BY <1>6 DEF LiveEvent
  <2>4. PICK i \in DOMAIN ev : ev[i].kind = "transfer" /\ ev[i].urb = v /\ InTd(d, v, ev[i].pos)
    BY <1>2, <1>6, <2>2, <2>3 DEF RingInv, Awaited, InTd
  <2>5. 1 < i
    BY <1>1, <1>2, <1>6, <2>2, <2>4, UrbAssumption DEF RingInv, Placed, Edge
  <2> QED
    BY <1>1, <1>2, <1>3, <1>6, <2>2, <2>3, <2>4, <2>5, BackIs, TransferParts DEF InTd, RingInv,
      Reported
<1>8. ASSUME NEW v \in Listed(d), v # x.urb
      PROVE  First(d, v) < Final(d, x.urb)
  <2>1. PICK j \in DOMAIN l : l[j] = v
    BY DEF Listed, ToSet
  <2>2. 1 < j
    BY <1>1, <1>4, <1>7, <1>8, <2>1
  <2> QED
    BY <1>1, <1>2, <1>4, <1>5, <1>6, <1>7, <2>1, <2>2 DEF RingInv, Placed
<1> QED
  BY <1>2, <1>3, <1>4, <1>5, <1>7, <1>8

\* An event is dropped that says nothing of a transfer still on the list.
LEMMA TailRing ==
  ASSUME NEW d \in DriverStates, NEW s, NEW h, NEW n \in Int, NEW m \in Int, m <= n, NEW t, NEW ev \in Seq(Events),
         ev # <<>>, RingInv(d, s, h, n, t, ev),
         \A u \in Listed(d) :
           ~ (/\ ev[1].kind = "transfer" /\ ev[1].code = "ok" /\ ev[1].urb = u
              /\ Final(d, u) > Back(d, h.deq)
              /\ InTd(d, u, ev[1].pos) /\ (t = "control" => ev[1].pos = d.td[u].last))
  PROVE  RingInv(d, s, h, m, t, Tail(ev))
<1>1. /\ \A i \in DOMAIN Tail(ev) : i \in Nat /\ i >= 1 /\ i + 1 \in DOMAIN ev /\ Tail(ev)[i] = ev[i + 1]
      /\ \A i \in DOMAIN ev : i # 1 => i - 1 \in DOMAIN Tail(ev) /\ Tail(ev)[i - 1] = ev[i]
  OBVIOUS
<1> DEFINE tl == Tail(ev)
<1> HIDE DEF tl
<1>2. Reported(d, s, h, t, tl)
  <2>1. ASSUME NEW i \in DOMAIN tl, tl[i].kind = "transfer"
        PROVE  LiveEvent(d, s, h, t, tl[i])
    BY <1>1, <2>1 DEF tl, RingInv, Reported
  <2>2. ASSUME NEW i \in DOMAIN tl, NEW j \in DOMAIN tl, i < j,
               tl[i].kind = "transfer", tl[j].kind = "transfer"
        PROVE  /\ Back(d, tl[i].pos) > Back(d, tl[j].pos)
               /\ t = "bulk" /\ tl[i].urb = tl[j].urb =>
                    j = i + 1 /\ tl[j].code = "ok" /\ tl[j].pos = d.td[tl[j].urb].last
    <3> DEFINE a == i + 1
               b == j + 1
    <3> HIDE DEF a, b
    <3> QED
      BY <1>1, <2>2 DEF RingInv, Reported, tl
  <2> QED
    BY <2>1, <2>2 DEF Reported
<1>3. Awaited(d, h, t, tl)
  <2>1. ASSUME NEW u \in Listed(d), Final(d, u) > Back(d, h.deq)
        PROVE  \E i \in DOMAIN tl :
                 /\ tl[i].kind = "transfer" /\ tl[i].code = "ok" /\ tl[i].urb = u
                 /\ InTd(d, u, tl[i].pos) /\ (t = "control" => tl[i].pos = d.td[u].last)
    <3>1. PICK i \in DOMAIN ev :
             /\ ev[i].kind = "transfer" /\ ev[i].code = "ok" /\ ev[i].urb = u
             /\ InTd(d, u, ev[i].pos) /\ (t = "control" => ev[i].pos = d.td[u].last)
      BY <2>1 DEF RingInv, Awaited
    <3> QED
      BY <1>1, <2>1, <3>1 DEF tl
  <2> QED
    BY <2>1 DEF Awaited
<1> QED
  BY <1>1, <1>2, <1>3, Parts DEF RingInv, tl, Setting

\* The first transfer of the list is done.
LEMMA CompleteRing ==
  ASSUME NEW d \in DriverStates, NEW s, NEW h \in ControllerStates, NEW n \in Int,
         NEW t \in Types, NEW ev \in Seq(Events),
         RingInv(d, s, h, n, t, ev), s.urb = NoUrb,
         ev # <<>>, ev[1].kind = "transfer", ev[1].code = "ok", LiveEvent(d, s, h, t, ev[1]),
         NEW u, u = ev[1].urb, t = "control" => ev[1].pos = d.td[u].last,
         NEW e \in DriverStates, e.dequeue = inc_deq(d.td[u].last),
         e.td_list = Kept(d.td_list, Urbs \ {u}),
         e.cancelled_td_list = Kept(d.cancelled_td_list, Urbs \ {u}),
         e.enqueue = d.enqueue, e.cycle_state = d.cycle_state,
         e.trb = d.trb, e.td = d.td, e.queued_deq_ptr = d.queued_deq_ptr,
         e.cmds = d.cmds, e.ep_state = d.ep_state
  PROVE  RingInv(e, s, h, n, t, Tail(ev))
<1> DEFINE tl == Tail(ev)
           x == ev[1]
           b == d.td[u].last
<1>1. /\ DOMAIN ev = 1 .. Len(ev) /\ Len(ev) \in Nat \ {0} /\ 1 \in DOMAIN ev
      /\ \A i \in DOMAIN tl : i \in Nat /\ i >= 1 /\ i + 1 \in DOMAIN ev /\ tl[i] = ev[i + 1]
      /\ \A i \in DOMAIN ev : i # 1 => i - 1 \in DOMAIN tl /\ tl[i - 1] = ev[i]
      /\ \A i \in DOMAIN ev : ev[i] \in Events
  OBVIOUS
<1> HIDE DEF tl
<1>2. /\ u \in Listed(d) /\ u \in Urbs /\ ~Stale(d, x)
      /\ \A v \in Listed(d) : v # u => First(d, v) < Final(d, u)
      /\ Listed(d) \subseteq Urbs /\ Cancelled(d) \subseteq Urbs
  BY HeadOfList, ListedAreUrbs
<1>3. /\ b \in Slots /\ x.pos \in Slots /\ h.deq \in Slots /\ d.enqueue \in Slots
      /\ Final(d, u) = Back(d, b) /\ ~trb_is_link(b)
      /\ Final(d, u) <= First(d, u) /\ First(d, u) <= Low(d)
      /\ RingSize \in Nat \ {0} /\ Low(d) \in 0 .. RingSize - 1
      /\ \A p \in Slots : Back(d, p) \in Nat
      /\ \A v \in Listed(d) : Final(d, v) \in Nat /\ First(d, v) \in Nat
  <2>1. x.pos \in Slots
    BY <1>1, TransferParts
  <2>2. h.deq \in Slots
    BY DEF ControllerStates
  <2>3. ~trb_is_link(b) /\ Final(d, u) <= First(d, u) /\ First(d, u) <= Low(d)
    BY <1>2 DEF RingInv, Placed
  <2>4. RingSize \in Nat \ {0} /\ Low(d) \in 0 .. RingSize - 1 /\ d.enqueue \in Slots
    BY LowIs
  <2> QED
    BY <1>2, <2>1, <2>2, <2>3, <2>4, TdIs, BackIs DEF Final
<1>4. /\ Final(d, u) > Back(d, h.deq) /\ InTd(d, u, x.pos)
      /\ t = "control" => Back(d, x.pos) = Final(d, u)
  BY <1>3 DEF LiveEvent, Types
<1>5. b # d.enqueue /\ Final(d, u) > 0
  <2> QED
    BY <1>3, <1>4, BackIs
<1>6. /\ e.dequeue \in Slots /\ Floor(e.dequeue) = next_trb(b) /\ ~trb_is_link(e.dequeue)
      /\ \/ e.dequeue = next_trb(b)
         \/ trb_is_link(next_trb(b)) /\ e.dequeue = next_trb(next_trb(b))
  BY <1>3, IncDeqIs
<1>7. Back(d, next_trb(b)) = Final(d, u) - 1 /\ next_trb(b) \in Slots
  <2>1. /\ next_trb(b) \in Slots
        /\ Back(d, next_trb(b)) = IF b = d.enqueue THEN RingSize - 1 ELSE Back(d, b) - 1
    BY <1>3, BackNext
  <2> QED
    BY <1>3, <1>5, <2>1
<1>8. /\ \A p : Back(e, p) = Back(d, p) /\ Lap(e, p) = Lap(d, p)
      /\ Edge(e, s) = Edge(d, s) /\ Edge(d, s) = 0
      /\ \A v : /\ First(e, v) = First(d, v) /\ Final(e, v) = Final(d, v)
                /\ \A p : InTd(e, v, p) <=> InTd(d, v, p)
                /\ \A p : trb_in_td(e, v, p) <=> trb_in_td(d, v, p)
  BY ViewOperators DEF Edge
<1>9. Listed(e) = Listed(d) \ {u} /\ Cancelled(e) = Cancelled(d) \ {u}
  BY <1>2, Parts, KeptIsPart DEF Listed, Cancelled
<1>10. Roomy(e, s)
  <2>1. \/ Back(d, e.dequeue) < Low(d)
        \/ trb_is_link(d.enqueue) /\ e.dequeue = next_trb(d.enqueue)
    <3>1. Final(d, u) \in Nat /\ Final(d, u) <= Low(d) /\ Low(d) \in Nat
      BY <1>2, <1>3
    <3>2. CASE e.dequeue = next_trb(b)
      BY <1>7, <3>1, <3>2
    <3>3. CASE e.dequeue # next_trb(b)
      BY <1>6, <1>7, <3>1, <3>3, BackNext
    <3> QED
      BY <3>2, <3>3
  <2> QED
    BY <2>1, ApartKeeps DEF Roomy, RingInv
<1>11. Cycled(e, s)
  BY <1>8 DEF RingInv, Cycled
<1>12. Placed(e, s)
  <2>1. ASSUME NEW v \in Listed(e)
        PROVE  /\ ~trb_is_link(e.td[v].first) /\ ~trb_is_link(e.td[v].last)
               /\ Final(e, v) <= First(e, v) /\ First(e, v) <= Low(e)
               /\ v # s.urb => Final(e, v) > Edge(e, s)
               /\ v = s.urb => Final(e, v) > 0 \/ e.enqueue = s.start
    BY <1>2, <1>3, <1>6, <1>7, <1>8, <1>9 DEF RingInv, Placed, Low
  <2>2. ASSUME NEW i \in DOMAIN e.td_list, NEW j \in DOMAIN e.td_list, i < j
        PROVE  Final(e, e.td_list[i]) > First(e, e.td_list[j])
    BY <1>8, <2>2, Parts, KeptOrder DEF RingInv, Placed
  <2> QED
    BY <2>1, <2>2 DEF Placed
<1>13. Placed_hw(e, s, h)
  BY <1>3, <1>4, <1>6, <1>7, <1>8 DEF RingInv, Placed_hw, Low
<1>14. Slotted(e, h)
  BY <1>3, <1>4, <1>8, <1>9 DEF InTd, RingInv, Slotted
<1>15. ~InTd(d, u, h.deq) /\ ~trb_in_td(d, u, h.deq)
  BY <1>2, <1>3, <1>4, InTdIs DEF InTd
<1>16. Held(e, h)
  BY <1>8, <1>9, <1>15 DEF RingInv, Held
<1>17. Setting(e, s, h, n, tl)
  BY <1>1 DEF RingInv, Setting
<1>18. ASSUME NEW i \in DOMAIN tl, tl[i].kind = "transfer"
       PROVE  /\ i + 1 \in DOMAIN ev /\ tl[i] = ev[i + 1] /\ 1 < i + 1
              /\ LiveEvent(d, s, h, t, tl[i])
              /\ tl[i].urb # u => LiveEvent(e, s, h, t, tl[i])
              /\ tl[i].urb = u => i = 1 /\ Stale(e, tl[i])
  <2>1. i + 1 \in DOMAIN ev /\ tl[i] = ev[i + 1] /\ 1 < i + 1 /\ i + 1 # 1
    BY <1>1
  <2>2. ASSUME tl[i].urb = u
        PROVE  i = 1 /\ Stale(e, tl[i])
    <3>1. /\ Back(d, x.pos) > Back(d, ev[i + 1].pos)
          /\ t = "bulk" /\ x.urb = ev[i + 1].urb =>
               i + 1 = 1 + 1 /\ ev[i + 1].code = "ok" /\ ev[i + 1].pos = d.td[ev[i + 1].urb].last
      BY <1>1, <1>2, <1>18, <2>1 DEF RingInv, Reported
    <3> QED
      BY <1>1, <1>3, <1>4, <1>18, <2>1, <2>2, <3>1, TransferParts DEF Stale, Types, InTd,
        LiveEvent, RingInv, Reported
  <2> QED
    BY <1>8, <1>9, <1>18, <2>1, <2>2 DEF LiveEvent, RingInv, Reported
<1>19. Reported(e, s, h, t, tl)
  <2>1. ASSUME NEW i \in DOMAIN tl, tl[i].kind = "transfer"
        PROVE  LiveEvent(e, s, h, t, tl[i]) \/ (i = 1 /\ Stale(e, tl[i]))
    BY <1>18, <2>1
  <2>2. ASSUME NEW i \in DOMAIN tl, NEW j \in DOMAIN tl, i < j,
               tl[i].kind = "transfer", tl[j].kind = "transfer"
        PROVE  /\ Back(d, tl[i].pos) > Back(d, tl[j].pos)
               /\ t = "bulk" /\ tl[i].urb = tl[j].urb =>
                    j = i + 1 /\ tl[j].code = "ok" /\ tl[j].pos = d.td[tl[j].urb].last
    <3> DEFINE a == i + 1
               c == j + 1
    <3>1. /\ a \in DOMAIN ev /\ tl[i] = ev[a] /\ a # 1 /\ a < c
          /\ c \in DOMAIN ev /\ tl[j] = ev[c] /\ (c = a + 1 => j = i + 1)
      BY <1>1, <2>2
    <3> HIDE DEF a, c
    <3> QED
      BY <2>2, <3>1 DEF RingInv, Reported
  <2> QED
    BY <1>8, <2>1, <2>2 DEF Reported
<1>20. Awaited(e, h, t, tl)
  <2>1. ASSUME NEW v \in Listed(e), Final(e, v) > Back(e, h.deq)
        PROVE  \E i \in DOMAIN tl :
                 /\ tl[i].kind = "transfer" /\ tl[i].code = "ok" /\ tl[i].urb = v
                 /\ InTd(e, v, tl[i].pos) /\ (t = "control" => tl[i].pos = e.td[v].last)
    <3>1. PICK i \in DOMAIN ev :
             /\ ev[i].kind = "transfer" /\ ev[i].code = "ok" /\ ev[i].urb = v
             /\ InTd(d, v, ev[i].pos) /\ (t = "control" => ev[i].pos = d.td[v].last)
      BY <1>8, <1>9, <2>1 DEF RingInv, Awaited
    <3>2. i - 1 \in DOMAIN tl /\ tl[i - 1] = ev[i]
      BY <1>1, <1>8, <1>9, <2>1, <3>1
    <3> QED
      BY <1>8, <3>1, <3>2
  <2> QED
    BY <2>1 DEF Awaited
<1> QED
  BY <1>8, <1>9, <1>10, <1>11, <1>12, <1>13, <1>14, <1>15, <1>16, <1>17, <1>19, <1>20
  DEF RingInv, tl, Cancels, Resetting

\* The endpoint halted on the first transfer of the list.
LEMMA HaltRing ==
  ASSUME NEW d \in DriverStates, NEW s, NEW h \in ControllerStates, NEW n \in Int,
         NEW t \in Types, NEW ev \in Seq(Events),
         RingInv(d, s, h, n, t, ev), s.urb = NoUrb, Paired(d.cmds, d.ep_state),
         ev # <<>>, ev[1].kind = "transfer", ev[1].code # "ok", LiveEvent(d, s, h, t, ev[1]),
         "EP_HALTED" \notin d.ep_state,
         NEW u, u = ev[1].urb, NEW soft \in BOOLEAN,
         NEW e \in DriverStates, HaltedBy(d, e, u, soft)
  PROVE  RingInv(e, s, h, n, t, Tail(ev))
<1> DEFINE c == Command("reset", 0, 0, soft)
<1>1. /\ SamePlaces(d, e) /\ e.cmds = Append(d.cmds, c) /\ e.ep_state = d.ep_state \cup {"EP_HALTED"}
      /\ c.op = "reset" /\ c.soft = soft
      /\ IF ~soft /\ u \notin Cancelled(d)
         THEN /\ e.cancelled_td_list = Append(d.cancelled_td_list, u)
              /\ e.td[u].cancel_status = "halted"
              /\ \A v \in Urbs \ {u} : e.td[v].cancel_status = d.td[v].cancel_status
         ELSE /\ e.cancelled_td_list = d.cancelled_td_list
              /\ \A v \in Urbs : e.td[v].cancel_status = d.td[v].cancel_status
  BY DEF HaltedBy, Command
<1> HIDE DEF c
<1>2. /\ \A p : Back(e, p) = Back(d, p) /\ Lap(e, p) = Lap(d, p)
      /\ Low(e) = Low(d) /\ Edge(e, s) = Edge(d, s)
      /\ \A v \in Urbs : /\ First(e, v) = First(d, v) /\ Final(e, v) = Final(d, v)
                         /\ \A p : InTd(e, v, p) <=> InTd(d, v, p)
                         /\ \A p : trb_in_td(e, v, p) <=> trb_in_td(d, v, p)
      /\ Listed(e) = Listed(d) /\ Listed(d) \subseteq Urbs
      /\ Cycled(e, s) /\ Roomy(e, s) /\ Placed(e, s) /\ Placed_hw(e, s, h)
      /\ Slotted(e, h) /\ Reported(e, s, h, t, ev) /\ Awaited(e, h, t, ev)
  BY <1>1, PlacesKeep
<1>3. /\ u \in Listed(d) /\ u \in Urbs /\ InTd(d, u, h.deq) /\ Cancelled(d) \subseteq Urbs
      /\ 1 \in DOMAIN ev
  BY <1>2, ListedAreUrbs DEF LiveEvent
<1>4. /\ \A i \in DOMAIN e.cmds : e.cmds[i].op # "setdeq"
      /\ \A i \in DOMAIN e.cmds : e.cmds[i].op = "reset" => e.cmds[i].soft = soft
  BY <1>1, <1>3, Parts DEF RingInv, Setting, Paired, FlagOf
<1>5. /\ Cancelled(e) = IF ~soft /\ u \notin Cancelled(d) THEN Cancelled(d) \cup {u} ELSE Cancelled(d)
      /\ ~soft => u \in Cancelled(e)
  <2>1. ToSet(Append(d.cancelled_td_list, u)) = ToSet(d.cancelled_td_list) \cup {u}
    BY <1>3, ToSetAppend, Parts
  <2> QED
    BY <1>1, <2>1 DEF Cancelled
<1>6. Held(e, h)
  BY <1>1, <1>2, <1>3, <1>5 DEF ControllerStates, Held, RingInv
<1>7. Cancels(e, h)
  BY <1>1, <1>2, <1>3, <1>5 DEF RingInv, Cancels, Paired, FlagOf, Ops, Setting
<1>8. Resetting(e, h)
  BY <1>1, <1>2, <1>3, <1>4, <1>5 DEF Resetting
<1> QED
  BY <1>2, <1>4, <1>6, <1>7, <1>8, TailRing DEF RingInv, Setting

\* A halted endpoint is marked, and its transfer cancelled.
LEMMA HaltedFields ==
  ASSUME NEW d \in DriverStates, NEW u \in Urbs, NEW soft \in BOOLEAN,
         "EP_HALTED" \notin d.ep_state,
         NEW r, r = xhci_handle_halted_endpoint(d, u, soft, TRUE)
  PROVE  r \in DriverStates /\ HaltedBy(d, r, u, soft)
<1> DEFINE m == [d.td EXCEPT ![u].cancel_status = "halted"]
           l == Append(d.cancelled_td_list, u)
           e == IF ~soft /\ u \notin Cancelled(d)
                THEN [d EXCEPT !.cancelled_td_list = l, !.td = m] ELSE d
           c == Command("reset", 0, 0, soft)
<1>1. /\ \A v \in Urbs : m[v].first = d.td[v].first /\ m[v].last = d.td[v].last
      /\ m[u].cancel_status = "halted"
      /\ \A v \in Urbs \ {u} : m[v].cancel_status = d.td[v].cancel_status
  BY Parts, UrbAssumption DEF Tds
<1>2. r = [queue_command(e, c) EXCEPT !.ep_state = @ \cup {"EP_HALTED"}]
  BY Parts, UrbAssumption DEF DriverStates, xhci_handle_halted_endpoint, Cancelled
<1> HIDE DEF m, l, c
<1>3. /\ e.enqueue = d.enqueue /\ e.dequeue = d.dequeue /\ e.cycle_state = d.cycle_state
      /\ e.trb = d.trb /\ e.td_list = d.td_list /\ e.queued_deq_ptr = d.queued_deq_ptr
      /\ e.cmds = d.cmds /\ e.ep_state = d.ep_state
      /\ IF ~soft /\ u \notin Cancelled(d)
         THEN e.cancelled_td_list = l /\ e.td = m
         ELSE e.cancelled_td_list = d.cancelled_td_list /\ e.td = d.td
      /\ e = [e EXCEPT !.bell = e.bell]
      /\ DOMAIN e = DOMAIN d
  BY DEF DriverStates
<1> HIDE DEF e
<1>4. /\ r.enqueue = e.enqueue /\ r.dequeue = e.dequeue /\ r.cycle_state = e.cycle_state
      /\ r.trb = e.trb /\ r.td_list = e.td_list /\ r.queued_deq_ptr = e.queued_deq_ptr
      /\ r.cancelled_td_list = e.cancelled_td_list /\ r.td = e.td
      /\ r.cmds = Append(e.cmds, c) /\ r.ep_state = e.ep_state \cup {"EP_HALTED"}
  <2> DEFINE q == queue_command(e, c)
  <2>1. /\ q.enqueue = e.enqueue /\ q.dequeue = e.dequeue /\ q.cycle_state = e.cycle_state
        /\ q.trb = e.trb /\ q.td_list = e.td_list /\ q.queued_deq_ptr = e.queued_deq_ptr
        /\ q.cancelled_td_list = e.cancelled_td_list /\ q.td = e.td
        /\ q.cmds = Append(e.cmds, c) /\ q.ep_state = e.ep_state /\ DOMAIN q = DOMAIN e
    BY <1>3 DEF queue_command, DriverStates
  <2> HIDE DEF q
  <2> QED
    BY <1>2, <1>3, <2>1 DEF q, DriverStates
<1>5. /\ \A v \in Urbs : r.td[v].first = d.td[v].first /\ r.td[v].last = d.td[v].last
      /\ IF ~soft /\ u \notin Cancelled(d)
         THEN /\ r.td[u].cancel_status = "halted"
              /\ \A v \in Urbs \ {u} : r.td[v].cancel_status = d.td[v].cancel_status
         ELSE \A v \in Urbs : r.td[v].cancel_status = d.td[v].cancel_status
  <2>1. CASE ~soft /\ u \notin Cancelled(d)
    <3>1. r.td = m
      BY <1>3, <1>4, <2>1
    <3> QED
      BY <1>1, <2>1, <3>1
  <2>2. CASE ~ (~soft /\ u \notin Cancelled(d))
    BY <1>3, <1>4, <2>2
  <2> QED
    BY <2>1, <2>2
<1> QED
  BY <1>3, <1>4, <1>5, HaltedType DEF l, c, HaltedBy, SamePlaces

\* A transfer completed moves the dequeue pointer past it.
LEMMA CompleteFields ==
  ASSUME NEW d \in DriverStates, NEW u \in Urbs, NEW r, r = CompleteTd(d, u)
  PROVE  /\ r \in DriverStates /\ r.dequeue = inc_deq(d.td[u].last)
         /\ r.td_list = Kept(d.td_list, Urbs \ {u})
         /\ r.cancelled_td_list = Kept(d.cancelled_td_list, Urbs \ {u})
         /\ r.enqueue = d.enqueue /\ r.cycle_state = d.cycle_state
         /\ r.trb = d.trb /\ r.td = d.td /\ r.queued_deq_ptr = d.queued_deq_ptr
         /\ r.cmds = d.cmds /\ r.ep_state = d.ep_state
BY CompleteType DEF CompleteTd, xhci_td_cleanup, DriverStates

\* One event of a transfer is handled.  A transfer leaves the list only by
\* an event of its own.
LEMMA TransferRing ==
  ASSUME NEW d \in DriverStates, NEW s, s.urb = NoUrb, NEW h \in ControllerStates, NEW n \in Int,
         NEW t \in Types, NEW ev \in Seq(Events),
         RingInv(d, s, h, n, t, ev), Paired(d.cmds, d.ep_state),
         ev # <<>>, ev[1].kind = "transfer",
         Halts(ev[1]) => "EP_HALTED" \notin d.ep_state /\ h.state = "halted",
         NEW r, r = handle_tx_event(d, h, t, ev[1], TRUE)
  PROVE  /\ RingInv(r, s, h, n, t, Tail(ev)) /\ TransferDone(d, ev[1], r)
         /\ Leaves(d, r, {ev[1].urb})
<1> DEFINE x == ev[1]
           u == Head(d.td_list)
<1>1. x \in Events /\ x.pos \in Slots /\ x.urb \in Urbs /\ x.code \in {"ok", "stall", "error"}
      /\ 1 \in DOMAIN ev
  BY TransferParts
<1>2. \A v \in Listed(d) : /\ v \in Urbs /\ Final(d, v) > 0 /\ Final(d, v) <= First(d, v)
                           /\ \A p \in Slots : trb_in_td(d, v, p) <=> InTd(d, v, p)
  BY ListedAreUrbs, UrbAssumption, InTdIs DEF RingInv, Placed, Edge
<1>3. d.td_list # <<>> => u \in Listed(d)
  BY Parts, ListedAreUrbs
<1> HIDE DEF x
<1>4. ASSUME r = d, x.code = "ok",
             \A v \in Listed(d) :
               ~ (/\ x.code = "ok" /\ x.urb = v /\ InTd(d, v, x.pos)
                  /\ (t = "control" => x.pos = d.td[v].last))
      PROVE  RingInv(r, s, h, n, t, Tail(ev)) /\ Listed(r) = Listed(d) /\ TransferDone(d, x, r)
  <2>1. n <= n
    OBVIOUS
  <2> QED
    BY <1>4, <2>1, TailRing DEF TransferDone, Halts, x
<1>5. ASSUME Stale(d, x)
      PROVE  RingInv(r, s, h, n, t, Tail(ev)) /\ Listed(r) = Listed(d) /\ TransferDone(d, x, r)
  BY <1>1, <1>2, <1>3, <1>4, <1>5, StaleNotIn DEF RingInv, Stale, handle_tx_event,
    xhci_halted_host_endpoint, x
<1>6. ASSUME LiveEvent(d, s, h, t, x)
      PROVE  /\ RingInv(r, s, h, n, t, Tail(ev)) /\ TransferDone(d, x, r)
             /\ \A v \in Listed(d) \ Listed(r) : v = x.urb
  <2>1. d.td_list # <<>> /\ u = x.urb /\ u \in Listed(d) /\ u \in Urbs
    BY <1>2, <1>6, HeadOfList DEF x
  <2>2. r = IF t = "control" THEN process_ctrl_td(d, h, u, x.pos, x.code, TRUE)
            ELSE process_bulk_intr_td(d, h, u, x.code, TRUE)
    BY <1>1, <1>2, <1>6, <2>1 DEF handle_tx_event, x, LiveEvent
  <2> HIDE DEF u
  <2>3. ASSUME NEW f \in DriverStates, SameView(d, f), r = CompleteTd(f, u), x.code = "ok",
               t = "control" => x.pos = d.td[u].last
        PROVE  /\ RingInv(r, s, h, n, t, Tail(ev)) /\ TransferDone(d, x, r)
               /\ \A v \in Listed(d) \ Listed(r) : v = x.urb
    <3>1. /\ r \in DriverStates /\ r.dequeue = inc_deq(d.td[u].last)
          /\ r.td_list = Kept(d.td_list, Urbs \ {u})
          /\ r.cancelled_td_list = Kept(d.cancelled_td_list, Urbs \ {u})
          /\ r.enqueue = d.enqueue /\ r.cycle_state = d.cycle_state
          /\ r.trb = d.trb /\ r.td = d.td /\ r.queued_deq_ptr = d.queued_deq_ptr
          /\ r.cmds = d.cmds /\ r.ep_state = d.ep_state
      <4>1. /\ r \in DriverStates /\ r.dequeue = inc_deq(f.td[u].last)
            /\ r.td_list = Kept(f.td_list, Urbs \ {u})
            /\ r.cancelled_td_list = Kept(f.cancelled_td_list, Urbs \ {u})
            /\ r.enqueue = f.enqueue /\ r.cycle_state = f.cycle_state
            /\ r.trb = f.trb /\ r.td = f.td /\ r.queued_deq_ptr = f.queued_deq_ptr
            /\ r.cmds = f.cmds /\ r.ep_state = f.ep_state
        <5>1. u \in Urbs /\ r = CompleteTd(f, u) /\ f \in DriverStates
          BY <2>1, <2>3
        <5> QED
          BY <5>1, CompleteFields
      <4> QED
        BY <2>3, <4>1 DEF SameView
    <3>2. ToSet(r.td_list) = ToSet(d.td_list) \cap (Urbs \ {u})
      <4>1. ToSet(Kept(d.td_list, Urbs \ {u})) = ToSet(d.td_list) \cap (Urbs \ {u})
        BY KeptIsPart, Parts
      <4> QED
        BY <3>1, <4>1
    <3> QED
      BY <1>2, <1>6, <2>1, <2>3, <3>1, <3>2, CompleteRing DEF Listed, TransferDone, Halts, x
  <2>4. ASSUME NEW f \in DriverStates, SameView(d, f), NEW soft \in BOOLEAN,
               r = xhci_handle_halted_endpoint(f, u, soft, TRUE), x.code # "ok"
        PROVE  /\ RingInv(r, s, h, n, t, Tail(ev)) /\ TransferDone(d, x, r)
               /\ \A v \in Listed(d) \ Listed(r) : v = x.urb
    <3>1. "EP_HALTED" \notin d.ep_state /\ "EP_HALTED" \notin f.ep_state /\ Cancelled(f) = Cancelled(d)
      BY <2>4 DEF Halts, SameView, Cancelled, x
    <3>2. r \in DriverStates /\ HaltedBy(f, r, u, soft)
      BY <2>1, <2>4, <3>1, HaltedFields
    <3>3. SamePlaces(d, r) /\ HaltedBy(d, r, u, soft)
      BY <2>4, <3>1, <3>2 DEF HaltedBy, SamePlaces, SameView
    <3> QED
      BY <1>6, <2>1, <2>4, <3>1, <3>2, <3>3, HaltRing DEF Halts, x, HaltedBy, TransferDone,
        SamePlaces, Listed
  <2>5. SameView(d, d)
    BY DEF SameView
  <2>6. CASE t = "control"
    <3>1. CASE x.code = "ok" /\ x.pos # d.td[u].last
      BY <1>4, <2>1, <2>2, <2>6, <3>1 DEF process_ctrl_td
    <3>2. CASE x.code = "ok" /\ x.pos = d.td[u].last
      BY <2>2, <2>3, <2>5, <2>6, <3>2 DEF process_ctrl_td, finish_td
    <3>3. CASE x.code # "ok"
      BY <1>1, <2>2, <2>4, <2>5, <2>6, <3>3 DEF process_ctrl_td, finish_td, Halts, x
    <3> QED
      BY <3>1, <3>2, <3>3
  <2>7. CASE t # "control"
    <3> DEFINE f == [d EXCEPT !.err_count = 0]
               g == [d EXCEPT !.err_count = d.err_count + 1]
    <3>1. f \in DriverStates /\ SameView(d, f)
      <4>1. 0 \in 0 .. MAX_SOFT_RETRY + 1
        BY RingAssumption, Parts
      <4> QED
        BY <4>1, New_err_count DEF SameView, DriverStates
    <3>2. d.err_count <= MAX_SOFT_RETRY => g \in DriverStates /\ SameView(d, g)
      <4>1. d.err_count <= MAX_SOFT_RETRY => d.err_count + 1 \in 0 .. MAX_SOFT_RETRY + 1
        BY RingAssumption, Parts
      <4> QED
        BY <4>1, New_err_count DEF SameView, DriverStates
    <3>3. r = CASE x.code = "ok" -> finish_td(f, h, u, x.code, TRUE)
                [] x.code = "error" /\ d.err_count <= MAX_SOFT_RETRY ->
                     xhci_handle_halted_endpoint(g, u, TRUE, TRUE)
                [] OTHER -> finish_td(d, h, u, x.code, TRUE)
      BY <2>2, <2>7 DEF process_bulk_intr_td
    <3> HIDE DEF f, g
    <3>4. CASE x.code = "ok"
      BY <2>3, <2>7, <3>1, <3>3, <3>4 DEF finish_td
    <3>5. CASE x.code = "error" /\ d.err_count <= MAX_SOFT_RETRY
      BY <2>4, <3>2, <3>3, <3>5
    <3>6. CASE x.code # "ok" /\ ~ (x.code = "error" /\ d.err_count <= MAX_SOFT_RETRY)
      BY <1>1, <2>4, <2>5, <3>3, <3>6 DEF finish_td, Halts, x
    <3> QED
      BY <3>4, <3>5, <3>6
  <2> QED
    BY <2>6, <2>7
<1> QED
  BY <1>1, <1>5, <1>6 DEF x, Leaves, RingInv, Reported

-----------------------------------------------------------------------------
(* The completions of commands                                             *)

\* A command leaves the list, or a stop joins it: nothing else depends on
\* the stops and their flag.
LEMMA CmdsRing ==
  ASSUME NEW d \in DriverStates, NEW s, NEW h \in ControllerStates, NEW n \in Int, NEW t,
         NEW ev \in Seq(Events), RingInv(d, s, h, n, t, ev),
         NEW e \in DriverStates, SamePlaces(d, e), e.cancelled_td_list = d.cancelled_td_list,
         \A v \in Urbs : e.td[v].cancel_status = d.td[v].cancel_status,
         NEW k \in {0, 1},
         \A i \in DOMAIN e.cmds : \/ e.cmds[i].op = "stop"
                                  \/ i + k \in DOMAIN d.cmds /\ e.cmds[i] = d.cmds[i + k],
         \A f \in {"SET_DEQ_PENDING", "EP_HALTED"} : f \in e.ep_state <=> f \in d.ep_state
  PROVE  RingInv(e, s, h, n - k, t, ev)
<1>1. /\ \A p : Back(e, p) = Back(d, p) /\ Lap(e, p) = Lap(d, p)
      /\ Low(e) = Low(d) /\ Edge(e, s) = Edge(d, s)
      /\ \A v \in Urbs : /\ First(e, v) = First(d, v) /\ Final(e, v) = Final(d, v)
                         /\ \A p : InTd(e, v, p) <=> InTd(d, v, p)
                         /\ \A p : trb_in_td(e, v, p) <=> trb_in_td(d, v, p)
      /\ Listed(e) = Listed(d) /\ Listed(d) \subseteq Urbs
      /\ Cycled(e, s) /\ Roomy(e, s) /\ Placed(e, s) /\ Placed_hw(e, s, h)
      /\ Slotted(e, h) /\ Reported(e, s, h, t, ev) /\ Awaited(e, h, t, ev)
  BY PlacesKeep
<1>2. /\ Cancelled(e) = Cancelled(d) /\ Cancelled(d) \subseteq Urbs
      /\ DOMAIN e.cmds \subseteq Int /\ e.queued_deq_ptr = d.queued_deq_ptr
  BY Parts DEF Cancelled, ToSet, SamePlaces
<1> QED
  BY <1>1, <1>2 DEF RingInv, Resetting, Cancels, Setting, ControllerStates, Held

\* Cancelled transfers off the list leave the rest in order.
LEMMA DroppedRing ==
  ASSUME NEW d \in DriverStates, NEW s, s.urb = NoUrb, NEW h \in ControllerStates, NEW n,
         NEW t, NEW ev \in Seq(Events), RingInv(d, s, h, n, t, ev),
         \A j \in DOMAIN ev : ev[j].kind # "transfer",
         NEW r \in DriverStates, Dropped(d, r)
  PROVE  /\ \A p : Back(r, p) = Back(d, p) /\ Lap(r, p) = Lap(d, p)
         /\ Low(r) = Low(d) /\ Edge(r, s) = 0 /\ Edge(d, s) = 0
         /\ \A v \in Urbs : /\ First(r, v) = First(d, v) /\ Final(r, v) = Final(d, v)
                            /\ \A p : InTd(r, v, p) <=> InTd(d, v, p)
                            /\ \A p : trb_in_td(r, v, p) <=> trb_in_td(d, v, p)
         /\ Listed(r) = Listed(d) \ Cancelled(d) /\ Listed(d) \subseteq Urbs
         /\ \A v \in Listed(d) : Final(d, v) <= Back(d, h.deq)
         /\ Cycled(r, s) /\ Roomy(r, s) /\ Placed(r, s) /\ Placed_hw(r, s, h)
         /\ Slotted(r, h) /\ Reported(r, s, h, t, ev) /\ Awaited(r, h, t, ev)
<1>1. /\ r.enqueue = d.enqueue /\ r.dequeue = d.dequeue /\ r.cycle_state = d.cycle_state
      /\ \A u \in Urbs : r.td[u].first = d.td[u].first /\ r.td[u].last = d.td[u].last
  BY DEF Dropped
<1>2. /\ \A p : Back(r, p) = Back(d, p) /\ Lap(r, p) = Lap(d, p)
      /\ Low(r) = Low(d) /\ Edge(r, s) = 0 /\ Edge(d, s) = 0
  BY <1>1, ViewOperators DEF Edge
<1>3. \A v \in Urbs : /\ First(r, v) = First(d, v) /\ Final(r, v) = Final(d, v)
                      /\ \A p : InTd(r, v, p) <=> InTd(d, v, p)
                      /\ \A p : trb_in_td(r, v, p) <=> trb_in_td(d, v, p)
  BY <1>1, <1>2 DEF First, Final, trb_in_td, InTd
<1>4. Listed(r) = Listed(d) \ Cancelled(d) /\ Listed(d) \subseteq Urbs
  BY Parts, KeptIsPart, ListedAreUrbs DEF Listed, Dropped
<1>5. \A p \in Slots : /\ r.trb[p].cycle = d.trb[p].cycle
                       /\ r.trb[p].urb = IF \E u \in Cancelled(d) : trb_in_td(d, u, p)
                                         THEN NoUrb ELSE d.trb[p].urb
  BY Parts DEF Rings, Dropped, td_to_noop
<1>6. Placed(r, s)
  <2>1. ASSUME NEW i \in DOMAIN r.td_list, NEW j \in DOMAIN r.td_list, i < j
        PROVE  Final(r, r.td_list[i]) > First(r, r.td_list[j])
    BY <1>3, <2>1, Parts, KeptOrder DEF Dropped, RingInv, Placed
  <2> QED
    BY <1>1, <1>2, <1>3, <1>4, <2>1 DEF Placed, RingInv
<1>7. Slotted(r, h)
  <2>1. ASSUME NEW p \in Slots
        PROVE  /\ trb_is_link(p) => r.trb[p].urb = NoUrb
               /\ 0 < Back(r, p) /\ Back(r, p) <= Back(r, h.deq) /\ r.trb[p].urb # NoUrb =>
                    r.trb[p].urb \in Listed(r) /\ InTd(r, r.trb[p].urb, p)
    <3>1. ASSUME 0 < Back(r, p), Back(r, p) <= Back(r, h.deq), r.trb[p].urb # NoUrb
          PROVE  r.trb[p].urb \in Listed(r) /\ InTd(r, r.trb[p].urb, p)
      <4> DEFINE v == d.trb[p].urb
      <4>1. r.trb[p].urb = v /\ v # NoUrb /\ \A u \in Cancelled(d) : ~trb_in_td(d, u, p)
        BY <1>5, <3>1
      <4>2. v \in Listed(d) /\ InTd(d, v, p)
        BY <1>2, <3>1, <4>1 DEF RingInv, Slotted
      <4> HIDE DEF v
      <4> QED
        BY <1>3, <1>4, <4>1, <4>2, InTdIs DEF RingInv, Placed
    <3> QED
      BY <1>5, <3>1 DEF RingInv, Slotted
  <2> QED
    BY <2>1 DEF Slotted
<1> QED
  BY <1>1, <1>2, <1>3, <1>4, <1>5, <1>6, <1>7, TdIs, BackIs DEF Awaited, Reported, RingInv,
    Placed_hw, Roomy, Apart, Cycled, ControllerStates

\* Where the dequeue pointer is moved to past a transfer that the
\* controller is on: the slot after the transfer, with the cycle it has.
LEMMA NewDequeueIs ==
  ASSUME NEW d \in DriverStates, NEW h \in ControllerStates, NEW u \in Urbs,
         ~trb_is_link(d.td[u].first), ~trb_is_link(d.td[u].last),
         0 < Final(d, u), First(d, u) <= Low(d), InTd(d, u, h.deq), h.cycle = Lap(d, h.deq),
         NEW q, q = NewDequeue(d, h, u)
  PROVE  /\ q.ptr \in Slots /\ Back(d, q.ptr) = Final(d, u) - 1 /\ q.cycle = Lap(d, q.ptr)
<1> DEFINE l == d.td[u].last
           w == d.enqueue
           p == h.deq
           z == RingSize - 1
<1>1. /\ l \in Slots /\ p \in Slots /\ w \in Slots /\ z \in Slots /\ d.dequeue \in Slots
      /\ RingSize \in Nat \ {0} /\ d.td[u].first \in Slots
      /\ l \in 0 .. z /\ p \in 0 .. z /\ w \in 0 .. z
  BY TdIs, LowIs, LastIsLink DEF ControllerStates, Slots
<1>2. /\ Back(d, l) \in 0 .. z /\ Back(d, p) \in 0 .. z /\ First(d, u) \in 0 .. z
      /\ Final(d, u) = Back(d, l) /\ Low(d) \in 0 .. z
      /\ 0 < Back(d, l) /\ Back(d, l) <= Back(d, p) /\ Back(d, p) <= First(d, u)
      /\ First(d, u) <= Low(d)
  BY <1>1, TdIs, LowIs, BackIs DEF Final, InTd
<1>3. ~ (Ahead(p, d.dequeue) > Ahead(l, d.dequeue))
  <2> DEFINE b == Back(d, d.dequeue)
  <2>1. b \in 0 .. z /\ b >= Back(d, p)
    <3>1. b \in 0 .. z
      BY <1>1, BackIs
    <3>2. CASE Floor(d.dequeue) = d.dequeue
      BY <1>2, <3>1, <3>2 DEF Low
    <3>3. CASE trb_is_link(Floor(d.dequeue)) /\ next_trb(Floor(d.dequeue)) = d.dequeue
      <4>1. Floor(d.dequeue) # w
        BY <1>1, <1>2, BackIs, LowIs DEF Low
      <4> QED
        BY <1>1, <1>2, <3>1, <3>3, <4>1, BackDiffers, LowIs, BackNext DEF Low, First
    <3> QED
      BY <1>1, <3>2, <3>3, FloorIs
  <2> HIDE DEF b
  <2> QED
    BY <1>1, <1>2, <2>1, AheadByBack DEF b
<1>4. \A x \in Slots : x \in Span(p, l) <=> Back(d, l) <= Back(d, x) /\ Back(d, x) <= Back(d, p)
  BY <1>1, <1>2, BackIs, AheadByBack DEF Span
<1>5. Lap(d, l) = IF Back(d, l) <= Back(d, z) /\ Back(d, z) <= Back(d, p)
                  THEN 1 - Lap(d, p) ELSE Lap(d, p)
  <2>1. IF Back(d, l) <= Back(d, z) /\ Back(d, z) <= Back(d, p)
        THEN l <= w /\ ~ (p <= w) ELSE (l <= w) <=> (p <= w)
    <3> DEFINE bp == Back(d, p)
               bl == Back(d, l)
               bz == Back(d, z)
    <3>1. /\ RingSize = z + 1 /\ z \in Nat /\ l \in 0 .. z /\ p \in 0 .. z /\ w \in 0 .. z
          /\ bl \in 0 .. z /\ bp \in 0 .. z /\ 0 < bl /\ bl <= bp
          /\ bp = (IF p <= w THEN w - p ELSE w - p + RingSize)
          /\ bl = (IF l <= w THEN w - l ELSE w - l + RingSize)
          /\ bz = (IF z <= w THEN w - z ELSE w - z + RingSize)
      BY <1>1, <1>2, BackIs
    <3> HIDE DEF bp, bl, bz, l, w, p, z
    <3>2. CASE w = z
      BY <3>1, <3>2 DEF bz, bl
    <3>3. CASE w < z
      BY <1>1, <1>2, <3>1, <3>3, LastIsLink, BackIs DEF l, z, bz, bl, bp
    <3> QED
      BY <3>1, <3>2, <3>3
  <2>2. /\ Lap(d, l) = IF l <= w THEN d.cycle_state ELSE 1 - d.cycle_state
        /\ Lap(d, p) = IF p <= w THEN d.cycle_state ELSE 1 - d.cycle_state
    BY DEF Lap
  <2> HIDE DEF l, w, p, z
  <2> QED
    BY <2>1, <2>2, Parts
<1>6. (\E x \in Span(p, l) : link_trb_toggles_cycle(x))
        <=> Back(d, l) <= Back(d, z) /\ Back(d, z) <= Back(d, p)
  <2>1. (\E x \in Span(p, l) : link_trb_toggles_cycle(x)) <=> z \in Span(p, l)
    BY <1>1 DEF link_trb_toggles_cycle, Span
  <2> QED
    BY <1>1, <1>4, <2>1
<1>7. q = [ptr |-> next_trb(l),
           cycle |-> IF \E x \in Span(p, l) : link_trb_toggles_cycle(x)
                     THEN 1 - h.cycle ELSE h.cycle]
  BY <1>3 DEF NewDequeue
<1>8. l # z /\ l # w
  <2>1. l # z
    BY LastIsLink
  <2> QED
    BY <1>1, <1>2, <2>1, BackIs
<1>9. /\ next_trb(l) \in Slots /\ Back(d, next_trb(l)) = Back(d, l) - 1
      /\ Lap(d, next_trb(l)) = Lap(d, l)
  BY <1>1, <1>8, BackNext
<1> QED
  BY <1>2, <1>5, <1>6, <1>7, <1>9

\* The one transfer the controller is on is kept until its dequeue pointer
\* has moved past it.
LEMMA OnHandIs ==
  ASSUME NEW d \in DriverStates, NEW s, s.urb = NoUrb, NEW h \in ControllerStates, NEW n,
         NEW t, NEW ev, RingInv(d, s, h, n, t, ev), "SET_DEQ_PENDING" \notin d.ep_state
  PROVE  /\ \A u \in Cancelled(d) : /\ u \in Urbs /\ u \in Listed(d)
                                    /\ trb_in_td(d, u, h.deq) <=> InTd(d, u, h.deq)
         /\ OnHand(d, h) = <<>> => \A u \in Cancelled(d) : ~InTd(d, u, h.deq)
         /\ OnHand(d, h) # <<>> =>
              /\ Last(OnHand(d, h)) \in Cancelled(d)
              /\ InTd(d, Last(OnHand(d, h)), h.deq)
<1> DEFINE S == {u \in Urbs : \/ d.td[u].cancel_status = "halted"
                              \/ trb_in_td(d, u, h.deq)}
           c == OnHand(d, h)
<1>1. /\ c \in Seq(Urbs) /\ ToSet(c) = Cancelled(d) \cap S
      /\ Cancelled(d) \subseteq Urbs
  <2>1. Cancelled(d) \subseteq Urbs
    BY Parts DEF Cancelled, ToSet
  <2> HIDE DEF S
  <2> QED
    BY <2>1, KeptIsPart, Parts DEF OnHand, Cancelled, S
<1>2. ASSUME NEW u \in Cancelled(d)
      PROVE  /\ u \in Urbs /\ u \in Listed(d)
             /\ trb_in_td(d, u, h.deq) <=> InTd(d, u, h.deq)
             /\ u \in S <=> InTd(d, u, h.deq)
  BY <1>1, InTdIs DEF RingInv, Cancels, Placed, ControllerStates
<1> HIDE DEF S, c
<1> QED
  BY <1>1, <1>2 DEF c, Last, ToSet

\* A slot is of one transfer.
LEMMA Disjoint ==
  ASSUME NEW d \in DriverStates, NEW s, Placed(d, s), NEW u \in Listed(d), NEW v \in Listed(d),
         NEW p \in Slots, InTd(d, u, p), InTd(d, v, p)
  PROVE  u = v
<1>1. PICK i \in DOMAIN d.td_list : d.td_list[i] = u
  BY DEF Listed, ToSet
<1>2. PICK j \in DOMAIN d.td_list : d.td_list[j] = v
  BY DEF Listed, ToSet
<1>3. i \in Nat /\ j \in Nat
  BY Parts
<1> QED
  BY <1>1, <1>2, <1>3, ListedAreUrbs, TdIs, BackIs DEF Placed, InTd

\* The cancelled transfers are given back, or kept until a command has moved
\* the dequeue pointer.
LEMMA InvalidateRing ==
  ASSUME NEW d \in DriverStates, NEW s, s.urb = NoUrb, NEW h \in ControllerStates,
         NEW n \in Int, n <= Len(d.cmds),
         NEW t, NEW ev \in Seq(Events), RingInv(d, s, h, n, t, ev),
         \A j \in DOMAIN ev : ev[j].kind # "transfer",
         "SET_DEQ_PENDING" \notin d.ep_state => \A i \in DOMAIN d.cmds : d.cmds[i].op # "setdeq",
         NEW F, "SET_DEQ_PENDING" \notin F,
         NEW r \in DriverStates, InvalidatedBy(d, h, F, r)
  PROVE  RingInv(r, s, h, n, t, ev)
<1>1. CASE "SET_DEQ_PENDING" \in d.ep_state
  <2>1. /\ SamePlaces(d, r) /\ Cancelled(r) = Cancelled(d)
        /\ \A u \in Urbs : r.td[u].cancel_status = d.td[u].cancel_status
        /\ r.cmds = d.cmds /\ r.ep_state = d.ep_state \ F
    BY <1>1 DEF InvalidatedBy
  <2>2. /\ \A p : Back(r, p) = Back(d, p) /\ Lap(r, p) = Lap(d, p)
        /\ Low(r) = Low(d) /\ Edge(r, s) = Edge(d, s)
        /\ \A v \in Urbs : /\ First(r, v) = First(d, v) /\ Final(r, v) = Final(d, v)
                           /\ \A p : InTd(r, v, p) <=> InTd(d, v, p)
                           /\ \A p : trb_in_td(r, v, p) <=> trb_in_td(d, v, p)
        /\ Listed(r) = Listed(d) /\ Listed(d) \subseteq Urbs
        /\ Cycled(r, s) /\ Roomy(r, s) /\ Placed(r, s) /\ Placed_hw(r, s, h)
        /\ Slotted(r, h) /\ Reported(r, s, h, t, ev) /\ Awaited(r, h, t, ev)
    BY <2>1, PlacesKeep
  <2>3. Cancelled(d) \subseteq Urbs /\ r.queued_deq_ptr = d.queued_deq_ptr
    BY <2>1, Parts DEF Cancelled, ToSet, SamePlaces
  <2> QED
    BY <1>1, <2>1, <2>2, <2>3 DEF RingInv, Resetting, Cancels, Setting, ControllerStates, Held
<1>2. CASE "SET_DEQ_PENDING" \notin d.ep_state
  <2> DEFINE c == OnHand(d, h)
             u == Last(c)
  <2>1. /\ \A p : Back(r, p) = Back(d, p) /\ Lap(r, p) = Lap(d, p)
        /\ Low(r) = Low(d) /\ Edge(r, s) = 0 /\ Edge(d, s) = 0
        /\ \A v \in Urbs : /\ First(r, v) = First(d, v) /\ Final(r, v) = Final(d, v)
                           /\ \A p : InTd(r, v, p) <=> InTd(d, v, p)
                           /\ \A p : trb_in_td(r, v, p) <=> trb_in_td(d, v, p)
        /\ Listed(r) = Listed(d) \ Cancelled(d) /\ Listed(d) \subseteq Urbs
        /\ \A v \in Listed(d) : Final(d, v) <= Back(d, h.deq)
        /\ Cycled(r, s) /\ Roomy(r, s) /\ Placed(r, s) /\ Placed_hw(r, s, h)
        /\ Slotted(r, h) /\ Reported(r, s, h, t, ev) /\ Awaited(r, h, t, ev)
    BY <1>2, DroppedRing DEF InvalidatedBy
  <2>2. /\ \A v \in Cancelled(d) : /\ v \in Urbs /\ v \in Listed(d)
                                   /\ trb_in_td(d, v, h.deq) <=> InTd(d, v, h.deq)
        /\ c = <<>> => \A v \in Cancelled(d) : ~InTd(d, v, h.deq)
        /\ c # <<>> => u \in Cancelled(d) /\ InTd(d, u, h.deq)
    BY <1>2, OnHandIs
  <2>3. /\ h.cached \in Urbs \cup {NoUrb} /\ h.deq \in Slots
        /\ d.cmds \in Seq(Commands) /\ Len(d.cmds) \in Nat
        /\ DOMAIN d.cmds = 1 .. Len(d.cmds)
    BY Parts DEF ControllerStates
  <2>4. IF c = <<>>
        THEN r.cmds = d.cmds /\ Cancelled(r) = {} /\ r.ep_state = d.ep_state \ F
        ELSE MovedPast(d, h, u, F, r)
    BY <1>2 DEF InvalidatedBy
  <2> HIDE DEF c
  <2>5. CASE c = <<>>
    BY <1>2, <2>1, <2>2, <2>3, <2>4, <2>5 DEF Held, Setting, Cancels, RingInv, Resetting
  <2>6. CASE c # <<>>
    <3> DEFINE q == NewDequeue(d, h, u)
               a == Command("setdeq", q.ptr, q.cycle, FALSE)
    <3>1. /\ r.cmds = Append(d.cmds, a) /\ r.queued_deq_ptr = q.ptr
          /\ Cancelled(r) = {u} /\ r.td[u].cancel_status = "clearing"
          /\ "SET_DEQ_PENDING" \in r.ep_state
      BY <2>4, <2>6 DEF MovedPast
    <3>2. a.op = "setdeq" /\ a.ptr = q.ptr /\ a.cycle = q.cycle
      BY DEF Command
    <3>3. u \in Cancelled(d) /\ u \in Listed(d) /\ u \in Urbs /\ InTd(d, u, h.deq)
      BY <2>2, <2>6
    <3> HIDE DEF u
    <3>4. q.ptr \in Slots /\ Back(d, q.ptr) = Final(d, u) - 1 /\ q.cycle = Lap(d, q.ptr)
      BY <2>1, <3>3, NewDequeueIs, UrbAssumption DEF RingInv, Placed, Placed_hw
    <3> HIDE DEF a, q
    <3>5. \A v \in Listed(r) : First(d, v) <= Final(d, u) - 1
      <4>1. SUFFICES ASSUME NEW v \in Listed(r)
                     PROVE  First(d, v) <= Final(d, u) - 1
        OBVIOUS
      <4>2. v \in Listed(d) /\ v # u /\ v \in Urbs
        BY <2>1, <3>3
      <4>3. /\ First(d, v) \in Nat /\ Final(d, v) \in Nat /\ First(d, u) \in Nat
            /\ Final(d, u) \in Nat /\ Back(d, h.deq) \in Nat
        BY <2>3, <3>3, <4>2, TdIs, BackIs
      <4>4. PICK i \in DOMAIN d.td_list : d.td_list[i] = u
        BY <3>3 DEF Listed, ToSet
      <4>5. PICK j \in DOMAIN d.td_list : d.td_list[j] = v
        BY <4>2 DEF Listed, ToSet
      <4>6. CASE i < j
        BY <4>3, <4>4, <4>5, <4>6 DEF RingInv, Placed
      <4>7. CASE j < i
        BY <2>1, <3>3, <4>2, <4>3, <4>4, <4>5, <4>7 DEF RingInv, Placed, InTd
      <4> QED
        BY <4>2, <4>4, <4>5, <4>6, <4>7, Parts
    <3>6. Setting(r, s, h, n, ev)
      <4>1. ASSUME NEW i \in DOMAIN r.cmds, r.cmds[i].op = "setdeq"
            PROVE  i = Len(d.cmds) + 1
        BY <1>2, <2>3, <3>1, <4>1
      <4>2. /\ 0 <= Back(d, q.ptr) /\ Back(d, q.ptr) <= Back(d, h.deq) /\ Back(d, q.ptr) < Low(d)
        BY <2>1, <2>3, <3>3, <3>4, UrbAssumption, TdIs, BackIs, LowIs DEF InTd, RingInv,
          Placed, Placed_hw
      <4> QED
        BY <2>1, <2>3, <3>1, <3>2, <3>4, <3>5, <4>1, <4>2 DEF Setting
    <3> QED
      BY <1>2, <2>1, <2>2, <2>3, <3>1, <3>3, <3>6, Disjoint DEF RingInv, Resetting, Cancels,
        Held
  <2> QED
    BY <2>5, <2>6
<1> QED
  BY <1>1, <1>2

\* What the marking does to the parts.
LEMMA MarkedFields ==
  ASSUME NEW d \in DriverStates, NEW cached, NEW keep,
         NEW m, m = Marked0(d, cached, TRUE, keep, d.cancelled_td_list)
  PROVE  m \in DriverStates /\ MarkedBy(d, keep, m)
<1> DEFINE tds == d.cancelled_td_list
           one(u) == IF u \notin ToSet(tds) THEN d.td[u]
                     ELSE [d.td[u] EXCEPT !.cancel_status =
                             IF u = keep THEN "clearing" ELSE "cleared"]
           td == [u \in Urbs |-> one(u)]
           trb == td_to_noop(d.trb, d, ToSet(tds))
           list == Kept(d.td_list, Urbs \ ToSet(tds))
<1>1. m = [d EXCEPT !.td_list = list, !.log = d.log, !.trb = trb, !.td = td]
  BY DEF Marked0, DriverStates
<1>2. \A u \in Urbs : /\ td[u].first = d.td[u].first /\ td[u].last = d.td[u].last
                      /\ u \in ToSet(tds) =>
                           td[u].cancel_status = IF u = keep THEN "clearing" ELSE "cleared"
  BY Parts DEF Tds
<1>3. ToSet(tds) \subseteq Urbs
  BY Parts DEF ToSet
<1> HIDE DEF td, trb, list
<1>4. /\ m.td = td /\ m.trb = trb /\ m.td_list = list /\ m.enqueue = d.enqueue
      /\ m.dequeue = d.dequeue /\ m.cycle_state = d.cycle_state
      /\ m.cancelled_td_list = tds /\ m.queued_deq_ptr = d.queued_deq_ptr
      /\ m.cmds = d.cmds /\ m.ep_state = d.ep_state
  BY <1>1 DEF DriverStates
<1> QED
  BY <1>2, <1>3, <1>4, Marked0Type DEF MarkedBy, Cancelled, Dropped, trb, list

\* So much for xhci_invalidate_cancelled_tds and what follows it.
LEMMA InvalidatedFields ==
  ASSUME NEW d \in DriverStates, NEW h \in ControllerStates, NEW F, "SET_DEQ_PENDING" \notin F,
         \A u \in Cancelled(d) : d.td[u].cancel_status # "cleared",
         NEW m, m = xhci_invalidate_cancelled_tds(d, h, TRUE),
         NEW r, GivenBack(m, F, r)
  PROVE  InvalidatedBy(d, h, F, r)
<1> DEFINE cached == OnHand(d, h)
           keep == IF cached = <<>> \/ ~TRUE THEN NoUrb ELSE Last(cached)
           e == Marked0(d, cached, TRUE, keep, d.cancelled_td_list)
<1>1. m = IF "SET_DEQ_PENDING" \in d.ep_state THEN d
          ELSE IF keep = NoUrb THEN e
          ELSE xhci_move_dequeue_past_td(e, h, keep)
  BY DEF xhci_invalidate_cancelled_tds, Invalidate, Marked0, OnHand
<1>2. /\ m \in DriverStates /\ Cancelled(d) \subseteq Urbs
      /\ Cancelled(r) = {u \in Cancelled(m) : u \in Urbs /\ m.td[u].cancel_status # "cleared"}
  <2>1. m \in DriverStates
    BY InvalidateCancelledType
  <2>2. d.cancelled_td_list \in Seq(Urbs) /\ m.cancelled_td_list \in Seq(Urbs)
    BY <2>1, Parts
  <2> DEFINE S == {u \in Urbs : m.td[u].cancel_status # "cleared"}
  <2> HIDE DEF S
  <2>3. ToSet(Kept(m.cancelled_td_list, S)) = ToSet(m.cancelled_td_list) \cap S
    BY <2>2, KeptIsPart
  <2>4. Cancelled(d) \subseteq Urbs
    BY <2>2 DEF Cancelled, ToSet
  <2> QED
    BY <2>1, <2>3, <2>4 DEF S, GivenBack, Cancelled
<1>3. e \in DriverStates /\ MarkedBy(d, keep, e)
  <2> DEFINE k == cached
             v == keep
  <2> HIDE DEF cached, keep
  <2> QED
    BY MarkedFields
<1> HIDE DEF e
<1>4. CASE "SET_DEQ_PENDING" \in d.ep_state
  BY <1>1, <1>2, <1>4 DEF GivenBack, InvalidatedBy, SamePlaces
<1>5. CASE "SET_DEQ_PENDING" \notin d.ep_state /\ cached = <<>>
  <2>1. m = e /\ keep = NoUrb
    BY <1>1, <1>5
  <2>2. \A u \in Cancelled(d) : m.td[u].cancel_status = "cleared"
    BY <1>2, <1>3, <2>1, UrbAssumption DEF MarkedBy
  <2>3. Dropped(d, r)
    <3>1. Dropped(d, e)
      BY <1>3 DEF MarkedBy
    <3> QED
      BY <2>1, <3>1 DEF Dropped, GivenBack
  <2> QED
    BY <1>2, <1>3, <1>5, <2>1, <2>2, <2>3 DEF InvalidatedBy, MarkedBy, GivenBack, Cancelled
<1>6. CASE "SET_DEQ_PENDING" \notin d.ep_state /\ cached # <<>>
  <2>1. keep = Last(cached) /\ keep \in Cancelled(d)
    <3> DEFINE S == {u \in Urbs : d.td[u].cancel_status = "halted" \/ trb_in_td(d, u, h.deq)}
    <3>1. cached = Kept(d.cancelled_td_list, S)
      BY DEF OnHand
    <3> HIDE DEF S, cached
    <3>2. cached \in Seq(Urbs) /\ ToSet(cached) = ToSet(d.cancelled_td_list) \cap S
      BY <3>1, KeptIsPart, Parts
    <3> QED
      BY <1>6, <3>2 DEF Cancelled, Last, ToSet
  <2>2. keep \in Urbs /\ keep # NoUrb
    BY <1>2, <2>1, UrbAssumption
  <2> DEFINE q == NewDequeue(e, h, keep)
             a == Command("setdeq", q.ptr, q.cycle, FALSE)
  <2>3. m = [queue_command(e, a) EXCEPT !.queued_deq_ptr = q.ptr,
                                         !.ep_state = @ \cup {"SET_DEQ_PENDING"}]
    BY <1>1, <1>6, <2>2 DEF xhci_move_dequeue_past_td
  <2>4. q = NewDequeue(d, h, keep)
    <3> HIDE DEF keep
    <3> QED
      BY <1>3, <2>2 DEF NewDequeue, MarkedBy, Dropped
  <2> HIDE DEF q, a, keep
  <2>5. /\ m.enqueue = e.enqueue /\ m.dequeue = e.dequeue /\ m.cycle_state = e.cycle_state
        /\ m.trb = e.trb /\ m.td = e.td /\ m.td_list = e.td_list
        /\ m.cancelled_td_list = e.cancelled_td_list
        /\ m.queued_deq_ptr = q.ptr /\ m.cmds = Append(e.cmds, a)
        /\ m.ep_state = e.ep_state \cup {"SET_DEQ_PENDING"}
    BY <1>3, <2>3 DEF queue_command, DriverStates
  <2>6. Cancelled(m) = Cancelled(d)
    BY <1>3, <2>5 DEF MarkedBy, Cancelled
  <2>7. \A u \in Cancelled(d) :
          m.td[u].cancel_status = IF u = keep THEN "clearing" ELSE "cleared"
    BY <1>3, <2>5 DEF MarkedBy
  <2>8. Cancelled(r) = {keep} /\ r.td[keep].cancel_status = "clearing"
    BY <1>2, <2>1, <2>2, <2>6, <2>7 DEF GivenBack
  <2>9. Dropped(d, r)
    <3>1. Dropped(d, e)
      BY <1>3 DEF MarkedBy
    <3> QED
      BY <2>5, <3>1 DEF Dropped, GivenBack
  <2> QED
    BY <1>3, <1>6, <2>1, <2>4, <2>5, <2>8, <2>9 DEF InvalidatedBy, MovedPast, a, MarkedBy,
      GivenBack
<1> QED
  BY <1>4, <1>5, <1>6

\* It commutes with taking the command off the list.
LEMMA PopInvalidated ==
  ASSUME NEW d \in DriverStates, NEW h \in ControllerStates, NEW F,
         NEW x \in DriverStates, InvalidatedBy(d, h, F, x), d.cmds # <<>>,
         NEW e, PartsBut(d, e), e.cmds = Tail(d.cmds),
         NEW r, PartsBut(x, r), r.cmds = Tail(x.cmds)
  PROVE  InvalidatedBy(e, h, F, r)
<1>1. OnHand(e, h) = OnHand(d, h) /\ Cancelled(e) = Cancelled(d) /\ Cancelled(r) = Cancelled(x)
  BY DEF PartsBut, OnHand, Cancelled, trb_in_td
<1>2. \A u : NewDequeue(e, h, u) = NewDequeue(d, h, u)
  BY DEF PartsBut, NewDequeue
<1>3. Dropped(d, x) => Dropped(e, r)
  BY <1>1 DEF td_to_noop, PartsBut, trb_in_td, Dropped
<1>4. ASSUME NEW u, MovedPast(d, h, u, F, x)
      PROVE  MovedPast(e, h, u, F, r)
  <2> DEFINE q == NewDequeue(d, h, u)
             a == Command("setdeq", q.ptr, q.cycle, FALSE)
  <2>1. d.cmds \in Seq(Commands) /\ x.cmds \in Seq(Commands) /\ x.cmds = Append(d.cmds, a)
    BY <1>4, Parts DEF MovedPast
  <2> HIDE DEF a
  <2>2. a \in Commands
    BY <2>1
  <2> HIDE DEF q
  <2> QED
    BY <1>1, <1>2, <1>4, <2>1, <2>2, TailOfAppend DEF MovedPast, PartsBut, a, q
<1>5. e.ep_state = d.ep_state /\ r.ep_state = x.ep_state /\ r.td = x.td /\ e.td = d.td
  BY DEF PartsBut
<1>6. CASE "SET_DEQ_PENDING" \in d.ep_state
  BY <1>1, <1>5, <1>6 DEF InvalidatedBy, SamePlaces, PartsBut
<1>7. CASE "SET_DEQ_PENDING" \notin d.ep_state /\ OnHand(d, h) = <<>>
  BY <1>1, <1>3, <1>5, <1>7 DEF InvalidatedBy
<1>8. CASE "SET_DEQ_PENDING" \notin d.ep_state /\ OnHand(d, h) # <<>>
  BY <1>1, <1>3, <1>4, <1>5, <1>8 DEF InvalidatedBy
<1> QED
  BY <1>6, <1>7, <1>8

\* The controller has been moved, and its command taken off the list.
LEMMA SetRing ==
  ASSUME NEW d \in DriverStates, NEW s, s.urb = NoUrb, NEW h \in ControllerStates,
         NEW n \in Int, n >= 1, NEW t, NEW ev \in Seq(Events), RingInv(d, s, h, n, t, ev),
         Paired(d.cmds, d.ep_state), d.cmds # <<>>, d.cmds[1].op = "setdeq",
         NEW e \in DriverStates, Set(d, h, e), e.cmds = Tail(d.cmds)
  PROVE  /\ RingInv(e, s, h, n - 1, t, ev)
         /\ \A j \in DOMAIN ev : ev[j].kind # "transfer"
         /\ \A i \in DOMAIN e.cmds : e.cmds[i].op # "setdeq"
         /\ \A u \in Cancelled(e) : e.td[u].cancel_status # "cleared"
<1> DEFINE p == d.cmds[1].ptr
           clearing == {u \in Cancelled(d) : d.td[u].cancel_status = "clearing"}
<1>1. /\ 1 \in DOMAIN d.cmds /\ d.cmds \in Seq(Commands) /\ d.td_list \in Seq(Urbs)
      /\ d.cancelled_td_list \in Seq(Urbs)
      /\ \A i \in DOMAIN e.cmds : /\ i \in Nat /\ i # 0
                                  /\ i + 1 \in DOMAIN d.cmds /\ e.cmds[i] = d.cmds[i + 1]
  BY Parts
<1>2. /\ p = d.queued_deq_ptr /\ Back(d, p) <= Back(d, h.deq) /\ Back(d, p) < Low(d)
      /\ \A u \in Listed(d) : First(d, u) <= Back(d, p)
      /\ \A j \in DOMAIN ev : ev[j].kind # "transfer"
      /\ h.cached = NoUrb
      /\ \A j \in DOMAIN d.cmds : d.cmds[j].op = "reset" => j < 1
  BY <1>1 DEF RingInv, Setting
<1>3. \A i \in DOMAIN e.cmds : e.cmds[i].op # "setdeq" /\ e.cmds[i].op # "reset"
  BY <1>1, <1>2 DEF Paired
<1> HIDE DEF p
<1>4. /\ e.enqueue = d.enqueue /\ e.cycle_state = d.cycle_state /\ e.trb = d.trb /\ e.td = d.td
      /\ e.dequeue = d.dequeue \/ (e.dequeue = p /\ h.deq = p)
      /\ e.td_list = Kept(d.td_list, Urbs \ clearing)
      /\ e.cancelled_td_list = Kept(d.cancelled_td_list, Urbs \ clearing)
      /\ e.ep_state = d.ep_state \ {"SET_DEQ_PENDING"}
  BY <1>2 DEF Set
<1>5. /\ \A x : Back(e, x) = Back(d, x) /\ Lap(e, x) = Lap(d, x)
      /\ Edge(e, s) = 0 /\ Edge(d, s) = 0
      /\ \A u : /\ First(e, u) = First(d, u) /\ Final(e, u) = Final(d, u)
                /\ \A x : InTd(e, u, x) <=> InTd(d, u, x)
                /\ \A x : trb_in_td(e, u, x) <=> trb_in_td(d, u, x)
  BY <1>4, ViewOperators DEF Edge
<1>6. /\ Listed(e) = Listed(d) /\ Listed(d) \subseteq Urbs
      /\ Cancelled(e) = Cancelled(d) \ clearing
  <2> HIDE DEF clearing
  <2>1. /\ ToSet(e.td_list) = ToSet(d.td_list) \cap (Urbs \ clearing)
        /\ ToSet(e.cancelled_td_list) = ToSet(d.cancelled_td_list) \cap (Urbs \ clearing)
    BY <1>1, <1>4, KeptIsPart
  <2> QED
    BY <1>1, <2>1, ListedAreUrbs DEF Listed, Cancelled, RingInv, Cancels, clearing, ToSet
<1>7. /\ Back(d, p) \in Nat /\ Back(d, h.deq) \in Nat /\ Low(d) \in Nat /\ Low(e) \in Nat
      /\ p \in Slots /\ h.deq \in Slots /\ RingSize \in Nat \ {0} /\ Low(d) <= RingSize - 1
      /\ \A u \in Listed(d) : First(d, u) \in Nat /\ Final(d, u) \in Nat
  BY <1>2, <1>6, Parts, BackIs, LowIs, TdIs DEF ControllerStates
<1>8. /\ Apart(e) /\ Back(d, h.deq) <= Low(e)
      /\ \A u \in Listed(d) : First(d, u) <= Low(e)
  BY <1>2, <1>4, <1>5, <1>7, ApartKeeps, FloorIs, BackNext DEF Low, RingInv, Roomy, Apart,
    Placed, Placed_hw
<1>9. Placed(e, s)
  <2>1. ASSUME NEW i \in DOMAIN e.td_list, NEW j \in DOMAIN e.td_list, i < j
        PROVE  Final(e, e.td_list[i]) > First(e, e.td_list[j])
    <3> HIDE DEF clearing
    <3>1. PICK a \in DOMAIN d.td_list, b \in DOMAIN d.td_list :
            a < b /\ e.td_list[i] = d.td_list[a] /\ e.td_list[j] = d.td_list[b]
      BY <1>1, <1>4, <2>1, KeptOrder
    <3> QED
      BY <1>5, <3>1 DEF RingInv, Placed
  <2> QED
    BY <1>4, <1>5, <1>6, <1>8, <2>1 DEF Placed, RingInv
<1>10. Slotted(e, h)
  BY <1>4, <1>5, <1>6 DEF RingInv, Slotted
<1>11. Cancels(e, h) /\ \A u \in Cancelled(e) : e.td[u].cancel_status # "cleared"
  BY <1>1, <1>4, <1>6 DEF Paired, FlagOf, RingInv, Cancels
<1> QED
  BY <1>2, <1>3, <1>4, <1>5, <1>6, <1>7, <1>8, <1>9, <1>10, <1>11 DEF RingInv, Reported,
    Resetting, Setting, Placed, Awaited, Held, Placed_hw, Roomy, Cycled

-----------------------------------------------------------------------------
(* What a completion does to the ring                                      *)

\* The doorbell is no part of the view.
LEMMA DoorbellView ==
  ASSUME NEW d \in DriverStates
  PROVE  SameView(d, ring_doorbell_for_active_rings(d))
BY DEF SameView, ring_doorbell_for_active_rings, xhci_ring_ep_doorbell, DriverStates

\* What giving the cleared transfers back leaves.
LEMMA GivenBackFields ==
  ASSUME NEW m \in DriverStates, NEW F
  PROVE  LET g == xhci_giveback_invalidated_tds([m EXCEPT !.ep_state = m.ep_state \ F]) IN
         GivenBack(m, F, g) /\ GivenBack(m, F, ring_doorbell_for_active_rings(g))
<1> DEFINE e == [m EXCEPT !.ep_state = m.ep_state \ F]
           g == xhci_giveback_invalidated_tds(e)
<1>1. e \in DriverStates
  BY New_ep_state, Parts
<1>2. e.ep_state = m.ep_state \ F /\ SameView([m EXCEPT !.ep_state = m.ep_state \ F], e)
      /\ e.enqueue = m.enqueue /\ e.dequeue = m.dequeue /\ e.cycle_state = m.cycle_state
      /\ e.trb = m.trb /\ e.td = m.td /\ e.td_list = m.td_list
      /\ e.queued_deq_ptr = m.queued_deq_ptr /\ e.cmds = m.cmds
      /\ e.cancelled_td_list = m.cancelled_td_list
  BY DEF DriverStates, SameView
<1> HIDE DEF e
<1>3. /\ g.enqueue = e.enqueue /\ g.dequeue = e.dequeue /\ g.cycle_state = e.cycle_state
      /\ g.trb = e.trb /\ g.td = e.td /\ g.td_list = e.td_list
      /\ g.queued_deq_ptr = e.queued_deq_ptr /\ g.cmds = e.cmds /\ g.ep_state = e.ep_state
      /\ g.cancelled_td_list
           = Kept(e.cancelled_td_list, {u \in Urbs : e.td[u].cancel_status # "cleared"})
  BY <1>1 DEF xhci_giveback_invalidated_tds, DriverStates
<1> HIDE DEF g
<1>4. GivenBack(m, F, g)
  BY <1>2, <1>3 DEF GivenBack
<1> QED
  BY <1>1, <1>4, DoorbellView, GivebackType DEF e, g, GivenBack, SameView

\* A stop, a reset and a Set TR Dequeue Pointer give transfers back, each
\* with its own flag cleared.
LEMMA SettledFields ==
  ASSUME NEW d \in DriverStates, NEW h \in ControllerStates,
         \A u \in Cancelled(d) : d.td[u].cancel_status # "cleared"
  PROVE  InvalidatedBy(d, h, {"EP_STOP_CMD_PENDING"}, Settled(d, h, TRUE))
<1> DEFINE m == xhci_invalidate_cancelled_tds(d, h, TRUE)
           F == {"EP_STOP_CMD_PENDING"}
<1> HIDE DEF m
<1> HIDE DEF F
<1> QED
  BY InvalidatedFields, GivenBackFields, InvalidateCancelledType DEF F, m, Settled

\* A reset looks at the cancelled TDs.
LEMMA ResetFields ==
  ASSUME NEW d \in DriverStates, NEW h \in ControllerStates, NEW soft,
         \A u \in Cancelled(d) : d.td[u].cancel_status # "cleared"
  PROVE  InvalidatedBy(d, h, {"EP_HALTED"}, xhci_handle_cmd_reset_ep(d, h, soft, TRUE))
<1> DEFINE m == xhci_invalidate_cancelled_tds(d, h, TRUE)
           F == {"EP_HALTED"}
           g == xhci_giveback_invalidated_tds([m EXCEPT !.ep_state = m.ep_state \ F])
           r == xhci_handle_cmd_reset_ep(d, h, soft, TRUE)
<1>1. m \in DriverStates
  BY InvalidateCancelledType
<1>2. r = IF soft THEN ring_doorbell_for_active_rings(g) ELSE g
  BY DEF xhci_handle_cmd_reset_ep
<1> HIDE DEF m
<1>3. GivenBack(m, F, g) /\ GivenBack(m, F, ring_doorbell_for_active_rings(g))
  BY <1>1, GivenBackFields
<1> HIDE DEF g
<1> HIDE DEF F, r
<1> QED
  BY <1>2, <1>3, InvalidatedFields DEF F, r, m

\* The pointer's command does if any are left.
LEMMA SetDeqFields ==
  ASSUME NEW d \in DriverStates, NEW h \in ControllerStates
  PROVE  LET e == DequeueSet(d, h, "ok")
             r == xhci_handle_cmd_set_deq(d, h, "ok", TRUE) IN
         /\ e \in DriverStates /\ Set(d, h, e) /\ e.cmds = d.cmds
         /\ (\A u \in Cancelled(e) : e.td[u].cancel_status # "cleared") =>
              SameView(e, r) \/ InvalidatedBy(e, h, {}, r)
<1> DEFINE e == DequeueSet(d, h, "ok")
           f == xhci_invalidate_cancelled_tds(e, h, TRUE)
           g == ring_doorbell_for_active_rings(f)
           r == xhci_handle_cmd_set_deq(d, h, "ok", TRUE)
           s == [g EXCEPT !.ep_state = g.ep_state \ {}]
<1>1. e \in DriverStates
  BY DequeueSetType
<1>2. Set(d, h, e) /\ e.cmds = d.cmds
  <2> DEFINE moved == IF "ok" = "ok" /\ h.deq = d.queued_deq_ptr
                      THEN [d EXCEPT !.dequeue = d.queued_deq_ptr] ELSE d
             clearing == {u \in ToSet(d.cancelled_td_list) : d.td[u].cancel_status = "clearing"}
  <2>1. e = [moved EXCEPT !.cancelled_td_list = Kept(moved.cancelled_td_list, Urbs \ clearing),
                !.td_list = Kept(moved.td_list, Urbs \ clearing),
                !.queued_deq_ptr = 0,
                !.ep_state = moved.ep_state \ {"SET_DEQ_PENDING"}]
    BY DEF DequeueSet
  <2>2. /\ moved \in DriverStates /\ moved.enqueue = d.enqueue /\ moved.cycle_state = d.cycle_state
        /\ moved.trb = d.trb /\ moved.td = d.td
        /\ moved.dequeue = d.dequeue \/ (moved.dequeue = h.deq /\ h.deq = d.queued_deq_ptr)
        /\ moved.td_list = d.td_list /\ moved.cancelled_td_list = d.cancelled_td_list
        /\ moved.ep_state = d.ep_state /\ moved.cmds = d.cmds
    <3>1. CASE h.deq = d.queued_deq_ptr
      <4>1. moved = [d EXCEPT !.dequeue = d.queued_deq_ptr]
        BY <3>1
      <4> HIDE DEF moved
      <4> QED
        BY <3>1, <4>1, New_dequeue, Parts DEF DriverStates
    <3>2. CASE h.deq # d.queued_deq_ptr
      <4>1. moved = d
        BY <3>2
      <4> HIDE DEF moved
      <4> QED
        BY <4>1
    <3> QED
      BY <3>1, <3>2
  <2> HIDE DEF moved, clearing
  <2> HIDE DEF e
  <2> QED
    BY <2>1, <2>2 DEF Set, Cancelled, clearing, DriverStates
<1>3. r = IF e.cancelled_td_list # <<>> THEN xhci_giveback_invalidated_tds(g)
          ELSE ring_doorbell_for_active_rings(e)
  BY DEF xhci_handle_cmd_set_deq
<1> HIDE DEF e, r
<1>4. CASE e.cancelled_td_list = <<>>
  BY <1>1, <1>2, <1>3, <1>4, DoorbellView DEF e, r
<1>5. CASE e.cancelled_td_list # <<>>
  <2>1. f \in DriverStates
    BY <1>1, InvalidateCancelledType
  <2> HIDE DEF f
  <2>2. g \in DriverStates /\ SameView(f, g)
    BY <2>1, DoorbellType, DoorbellView
  <2> HIDE DEF g
  <2>3. s = g /\ GivenBack(g, {}, xhci_giveback_invalidated_tds(s))
    BY <2>2, GivenBackFields DEF DriverStates
  <2>4. GivenBack(f, {}, r)
    BY <1>3, <1>5, <2>2, <2>3 DEF GivenBack, SameView
  <2>5. (\A u \in Cancelled(e) : e.td[u].cancel_status # "cleared") => InvalidatedBy(e, h, {}, r)
    <3> DEFINE F == {}
    <3> HIDE DEF F
    <3> QED
      BY <1>1, <2>4, InvalidatedFields DEF F, f
  <2> QED
    BY <1>1, <1>2, <2>5 DEF e, r
<1> QED
  BY <1>4, <1>5

\* The transfers that leave the list were cancelled.
LEMMA InvalidatedLoses ==
  ASSUME NEW d \in DriverStates, NEW h, NEW F, NEW r, InvalidatedBy(d, h, F, r)
  PROVE  Listed(d) \ Listed(r) \subseteq Cancelled(d)
<1>1. CASE SamePlaces(d, r)
  BY <1>1 DEF SamePlaces, Listed
<1>2. CASE Dropped(d, r)
  <2> DEFINE S == Urbs \ Cancelled(d)
  <2> HIDE DEF S
  <2> QED
    BY <1>2, KeptIsPart, Parts, ListedAreUrbs DEF Listed, S, Dropped
<1> QED
  BY <1>1, <1>2 DEF InvalidatedBy

\* The doorbell is rung when nothing holds it back.
LEMMA DoorbellBells ==
  ASSUME NEW d \in DriverStates
  PROVE  Belling(ring_doorbell_for_active_rings(d))
<1> DEFINE b == d.ep_state \cap {"EP_STOP_CMD_PENDING", "SET_DEQ_PENDING", "EP_HALTED"} = {}
           e == [d EXCEPT !.bell = b]
<1>1. e.td_list = d.td_list /\ e.ep_state = d.ep_state /\ e.bell = b
  BY DEF DriverStates
<1>2. d.ep_state = {} => b
  OBVIOUS
<1>3. xhci_ring_ep_doorbell(d) = e
  BY DEF xhci_ring_ep_doorbell
<1> HIDE DEF e, b
<1> QED
  BY <1>1, <1>2, <1>3 DEF Belling, ring_doorbell_for_active_rings

\* Giving transfers back does not silence it.
LEMMA GivebackBells ==
  ASSUME NEW d \in DriverStates, Belling(d)
  PROVE  Belling(xhci_giveback_invalidated_tds(d))
<1> DEFINE l == Kept(d.cancelled_td_list, {u \in Urbs : d.td[u].cancel_status # "cleared"})
           e == [d EXCEPT !.cancelled_td_list = l]
<1>1. e.td_list = d.td_list /\ e.ep_state = d.ep_state /\ e.bell = d.bell
  <2> HIDE DEF l
  <2> QED
    BY DEF DriverStates
<1> HIDE DEF e
<1> QED
  BY <1>1 DEF Belling, xhci_giveback_invalidated_tds

\* It is rung when a stop has been dealt with, and when a pointer has been set.
LEMMA SettledBells ==
  ASSUME NEW d \in DriverStates, NEW h \in ControllerStates
  PROVE  Belling(Settled(d, h, TRUE))
<1> DEFINE e == xhci_invalidate_cancelled_tds(d, h, TRUE)
           f == [e EXCEPT !.ep_state = @ \ {"EP_STOP_CMD_PENDING"}]
           g == xhci_giveback_invalidated_tds(f)
<1> HIDE DEF e
<1> HIDE DEF f
<1> HIDE DEF g
<1> QED
  BY DoorbellBells, GivebackType, Parts, New_ep_state, InvalidateCancelledType DEF Settled, g,
    f, e

\* It rings the doorbell for what is left.
LEMMA SetDeqBells ==
  ASSUME NEW d \in DriverStates, NEW h \in ControllerStates, NEW code
  PROVE  Belling(xhci_handle_cmd_set_deq(d, h, code, TRUE))
<1> DEFINE e == DequeueSet(d, h, code)
           f == xhci_invalidate_cancelled_tds(e, h, TRUE)
           g == ring_doorbell_for_active_rings(f)
<1> HIDE DEF e
<1> HIDE DEF f
<1> HIDE DEF g
<1> QED
  BY GivebackBells, DoorbellBells, DoorbellType, InvalidateCancelledType, DequeueSetType
  DEF xhci_handle_cmd_set_deq, e, f, g

\* A reset that follows a retry of the transfer rings it as well.
LEMMA SoftResetBells ==
  ASSUME NEW d \in DriverStates, NEW h \in ControllerStates
  PROVE  Belling(xhci_handle_cmd_reset_ep(d, h, TRUE, TRUE))
<1> DEFINE e == xhci_invalidate_cancelled_tds(d, h, TRUE)
           f == [e EXCEPT !.ep_state = @ \ {"EP_HALTED"}]
           g == xhci_giveback_invalidated_tds(f)
<1> HIDE DEF e
<1> HIDE DEF f
<1> HIDE DEF g
<1> QED
  BY DoorbellBells, GivebackType, Parts, New_ep_state, InvalidateCancelledType
  DEF xhci_handle_cmd_reset_ep, g, f, e

\* Taking transfers off the list keeps that.
LEMMA FilledKeeps ==
  ASSUME NEW d, NEW e, NEW s, Filled(d, s), e.enqueue = d.enqueue, e.trb = d.trb,
         \A u \in Listed(e) : u \in Listed(d) /\ e.td[u].last = d.td[u].last
  PROVE  Filled(e, s)
BY DEF Filled

\* So does making no-ops of the cancelled ones: they hold no slot of another.
LEMMA InvalidatedFills ==
  ASSUME NEW d \in DriverStates, NEW s, s.urb = NoUrb, NEW h \in ControllerStates,
         NEW n, NEW t, NEW ev, RingInv(d, s, h, n, t, ev), Filled(d, s),
         NEW F, NEW r \in DriverStates, InvalidatedBy(d, h, F, r)
  PROVE  Filled(r, s)
<1>1. Listed(d) \subseteq Urbs /\ d.trb \in Rings /\ d.td_list \in Seq(Urbs)
  BY ListedAreUrbs, Parts
<1>2. CASE "SET_DEQ_PENDING" \in d.ep_state
  BY <1>1, <1>2, FilledKeeps DEF InvalidatedBy, SamePlaces, Listed
<1>3. CASE "SET_DEQ_PENDING" \notin d.ep_state
  <2>1. Dropped(d, r)
    BY <1>3 DEF InvalidatedBy
  <2>2. Listed(r) = Listed(d) \ Cancelled(d)
    <3> DEFINE S == Urbs \ Cancelled(d)
    <3> HIDE DEF S
    <3> QED
      BY <1>1, <2>1, KeptIsPart DEF Listed, S, Dropped
  <2>3. ASSUME NEW v \in Listed(r)
        PROVE  r.trb[r.td[v].last].urb = v
    <3>1. v \in Listed(d) /\ v \in Urbs /\ v \notin Cancelled(d) /\ r.td[v].last = d.td[v].last
      BY <1>1, <2>1, <2>2 DEF Dropped
    <3> DEFINE p == d.td[v].last
    <3>2. p \in Slots /\ Final(d, v) <= First(d, v) /\ InTd(d, v, p)
      BY <3>1, TdIs DEF RingInv, Placed, InTd, Final
    <3>3. ASSUME NEW u \in Cancelled(d), trb_in_td(d, u, p)
          PROVE  FALSE
      BY <1>1, <1>3, <3>1, <3>2, <3>3, InTdIs, Disjoint, OnHandIs DEF RingInv, Placed
    <3> QED
      BY <2>1, <3>1, <3>2, <3>3, UrbAssumption DEF Filled, Dropped, td_to_noop
  <2> QED
    BY <2>3 DEF Filled
<1> QED
  BY <1>2, <1>3

\* The command that completed leaves the list: what its handler did to the
\* cancelled transfers stays.
LEMMA PoppedRing ==
  ASSUME NEW d \in DriverStates, NEW s, s.urb = NoUrb, NEW h \in ControllerStates,
         NEW n \in Int, n <= Len(d.cmds), NEW t, NEW ev \in Seq(Events),
         RingInv(d, s, h, n, t, ev), Paired(d.cmds, d.ep_state), d.cmds # <<>>,
         \A j \in DOMAIN ev : ev[j].kind # "transfer",
         NEW F, "SET_DEQ_PENDING" \notin F,
         NEW x \in DriverStates, InvalidatedBy(d, h, F, x),
         NEW r \in DriverStates, PartsBut(x, r), r.cmds = Tail(x.cmds)
  PROVE  RingInv(r, s, h, n - 1, t, ev)
<1> DEFINE e == [d EXCEPT !.cmds = Tail(d.cmds)]
<1>1. /\ Tail(d.cmds) \in Seq(Commands) /\ Len(Tail(d.cmds)) = Len(d.cmds) - 1
      /\ \A i \in DOMAIN Tail(d.cmds) :
           i + 1 \in DOMAIN d.cmds /\ Tail(d.cmds)[i] = d.cmds[i + 1]
  BY Parts
<1>2. e \in DriverStates
  BY <1>1, New_cmds
<1>3. PartsBut(d, e) /\ e.cmds = Tail(d.cmds)
  BY DEF PartsBut, DriverStates
<1> HIDE DEF e
<1>4. RingInv(e, s, h, n - 1, t, ev)
  <2> DEFINE k == 1
  <2> HIDE DEF k
  <2> QED
    BY <1>1, <1>2, <1>3, CmdsRing DEF k, PartsBut, SamePlaces
<1>5. n - 1 \in Int /\ n - 1 <= Len(e.cmds)
  BY <1>1, <1>3, Parts
<1>6. "SET_DEQ_PENDING" \notin e.ep_state => \A i \in DOMAIN e.cmds : e.cmds[i].op # "setdeq"
  BY <1>1, <1>3 DEF Paired, FlagOf, PartsBut
<1> QED
  BY <1>2, <1>3, <1>4, <1>5, <1>6, InvalidateRing, PopInvalidated

\* A command completes.  Only cancelled transfers leave the list.
LEMMA HandlerRing ==
  ASSUME NEW d \in DriverStates, NEW s, s.urb = NoUrb, NEW h \in ControllerStates,
         NEW n \in Int, NEW t, NEW ev \in Seq(Events),
         RingInv(d, s, h, n, t, ev), Paired(d.cmds, d.ep_state),
         NEW code \in {"ok", "ctx"}, Answered(d, h, n, ev, code),
         NEW a, HandledBy(d, h, code, a),
         NEW r \in DriverStates, PartsBut(a, r), r.cmds = Tail(a.cmds)
  PROVE  /\ RingInv(r, s, h, n - 1, t, ev)
         /\ Listed(d) \ Listed(r) \subseteq Cancelled(d)
         /\ Filled(d, s) => Filled(r, s)
<1> USE DEF Answered
<1> DEFINE c == d.cmds[1]
<1>1. d.cmds \in Seq(Commands) /\ Len(d.cmds) \in Nat \ {0} /\ 1 \in DOMAIN d.cmds /\ d.cmds # <<>>
  BY Parts
<1> PICK elapsed \in BOOLEAN : a = Handler(d, h, d.cmds[1], code, elapsed, TRUE)
  BY DEF HandledBy
<1>2. a \in DriverStates
  BY HandlerType
<1>3. Listed(r) = Listed(a)
  BY DEF PartsBut, Listed
<1>4. ASSUME NEW F, "SET_DEQ_PENDING" \notin F, InvalidatedBy(d, h, F, a),
             \A j \in DOMAIN ev : ev[j].kind # "transfer"
      PROVE  /\ RingInv(r, s, h, n - 1, t, ev)
             /\ Listed(d) \ Listed(r) \subseteq Cancelled(d)
             /\ Filled(d, s) => Filled(r, s)
  <2>1. RingInv(r, s, h, n - 1, t, ev) /\ (Filled(d, s) => Filled(r, s))
    <3>1. ASSUME Filled(d, s)
          PROVE  Filled(r, s)
      <4>1. Filled(a, s)
        BY <1>2, <1>4, <3>1, InvalidatedFills
      <4> QED
        BY <1>3, <4>1, FilledKeeps DEF PartsBut
    <3> QED
      BY <1>1, <1>2, <1>4, <3>1, PoppedRing
  <2> QED
    BY <1>3, <1>4, <2>1, InvalidatedLoses
<1>5. CASE c.op = "setdeq"
  <2> DEFINE y == DequeueSet(d, h, "ok")
             e == [y EXCEPT !.cmds = Tail(y.cmds)]
             clearing == {u \in Cancelled(d) : d.td[u].cancel_status = "clearing"}
  <2>1. /\ y \in DriverStates /\ Set(d, h, y) /\ y.cmds = d.cmds
        /\ (\A u \in Cancelled(y) : y.td[u].cancel_status # "cleared") =>
              SameView(y, a) \/ InvalidatedBy(y, h, {}, a)
    BY <1>5, SetDeqFields DEF Handler
  <2> HIDE DEF y
  <2>2. e \in DriverStates /\ PartsBut(y, e) /\ e.cmds = Tail(y.cmds)
    <3>1. Tail(y.cmds) \in Seq(Commands)
      BY <1>1, <2>1
    <3> QED
      BY <2>1, <3>1, New_cmds DEF PartsBut, DriverStates
  <2> HIDE DEF e
  <2>3. Set(d, h, e) /\ e.cmds = Tail(d.cmds)
    BY <2>1, <2>2 DEF Set, PartsBut
  <2>4. /\ RingInv(e, s, h, n - 1, t, ev)
        /\ \A j \in DOMAIN ev : ev[j].kind # "transfer"
        /\ \A i \in DOMAIN e.cmds : e.cmds[i].op # "setdeq"
        /\ \A u \in Cancelled(e) : e.td[u].cancel_status # "cleared"
    BY <1>1, <1>5, <2>2, <2>3, SetRing
  <2>5. Cancelled(y) = Cancelled(e) /\ y.td = e.td /\ Listed(y) = Listed(e)
    BY <2>2 DEF PartsBut, Cancelled, Listed
  <2>6. /\ Listed(d) \ Listed(y) \subseteq Cancelled(d) /\ Cancelled(y) \subseteq Cancelled(d)
        /\ Listed(y) \subseteq Listed(d)
    <3> HIDE DEF clearing
    <3> QED
      BY <2>1, KeptIsPart, Parts, ListedAreUrbs DEF Listed, Cancelled, Set
  <2>7. ASSUME Filled(d, s)
        PROVE  Filled(e, s)
    BY <2>3, <2>5, <2>6, <2>7, FilledKeeps DEF Set
  <2>8. CASE SameView(y, a)
    <3>1. SameView(e, r)
      BY <2>2, <2>8 DEF SameView, PartsBut
    <3> QED
      BY <1>3, <2>4, <2>5, <2>6, <2>7, <2>8, <3>1, FilledKeeps, ViewKeeps DEF SameView, Listed,
        SameSpot
  <2>9. CASE InvalidatedBy(y, h, {}, a)
    <3> DEFINE F == {}
    <3>1. "SET_DEQ_PENDING" \notin F /\ InvalidatedBy(y, h, F, a)
      BY <2>9
    <3> HIDE DEF F
    <3>2. InvalidatedBy(e, h, F, r)
      BY <1>1, <1>2, <2>1, <2>2, <3>1, PopInvalidated
    <3>3. n - 1 \in Int /\ n - 1 <= Len(e.cmds)
      BY <1>1, <2>3
    <3> QED
      BY <1>3, <2>1, <2>2, <2>4, <2>6, <2>7, <3>1, <3>2, <3>3, InvalidatedFills,
         InvalidatedLoses, InvalidateRing
  <2> QED
    BY <2>1, <2>4, <2>5, <2>8, <2>9
<1>6. CASE c.op = "reset"
  <2> DEFINE F == {"EP_HALTED"}
  <2> HIDE DEF F
  <2> QED
    BY <1>4, <1>6, ResetFields DEF Handler, RingInv, Cancels
<1>7. CASE c.op = "stop"
  <2> DEFINE S == "EP_STOP_CMD_PENDING"
             done == [d EXCEPT !.ep_state = @ \ {S}]
             q == queue_command(d, Stop)
  <2>1. \/ a = Settled(d, h, TRUE) /\ (code = "ok" \/ h.state # "running")
        \/ a = done
        \/ a = q
    <3> HIDE DEF done, q
    <3> QED
      BY <1>7 DEF xhci_handle_cmd_stop_ep, done, q, Handler
  <2>2. CASE a = Settled(d, h, TRUE) /\ (code = "ok" \/ h.state # "running")
    <3> DEFINE F == {S}
    <3> HIDE DEF F
    <3> QED
      BY <1>4, <2>2, SettledFields DEF RingInv, Cancels
  <2>3. ASSUME SamePlaces(d, r), r.cancelled_td_list = d.cancelled_td_list, r.td = d.td,
               r.ep_state \in {d.ep_state, d.ep_state \ {S}},
               \A i \in DOMAIN r.cmds : \/ r.cmds[i].op = "stop"
                                        \/ i + 1 \in DOMAIN d.cmds /\ r.cmds[i] = d.cmds[i + 1]
        PROVE  /\ RingInv(r, s, h, n - 1, t, ev)
               /\ Listed(d) \ Listed(r) \subseteq Cancelled(d)
               /\ Filled(d, s) => Filled(r, s)
    <3> DEFINE k == 1
    <3> HIDE DEF k
    <3> QED
      BY <2>3, FilledKeeps, CmdsRing DEF k, SamePlaces, Listed
  <2>4. CASE a = done
    <3>1. /\ SamePlaces(d, r) /\ r.cancelled_td_list = d.cancelled_td_list /\ r.td = d.td
          /\ r.ep_state = d.ep_state \ {S} /\ r.cmds = Tail(d.cmds)
      <4>1. /\ done.enqueue = d.enqueue /\ done.dequeue = d.dequeue
            /\ done.cycle_state = d.cycle_state /\ done.trb = d.trb /\ done.td = d.td
            /\ done.td_list = d.td_list /\ done.cancelled_td_list = d.cancelled_td_list
            /\ done.queued_deq_ptr = d.queued_deq_ptr /\ done.cmds = d.cmds
            /\ done.ep_state = d.ep_state \ {S}
        BY DEF DriverStates
      <4> HIDE DEF done
      <4> QED
        BY <2>4, <4>1 DEF SamePlaces, PartsBut
    <3>2. \A i \in DOMAIN r.cmds : i + 1 \in DOMAIN d.cmds /\ r.cmds[i] = d.cmds[i + 1]
      <4>1. \A i \in DOMAIN Tail(d.cmds) :
              i + 1 \in DOMAIN d.cmds /\ Tail(d.cmds)[i] = d.cmds[i + 1]
        BY <1>1
      <4> QED
        BY <3>1, <4>1
    <3> QED
      BY <2>3, <3>1, <3>2
  <2>5. CASE a = q
    <3>1. /\ q.enqueue = d.enqueue /\ q.dequeue = d.dequeue
          /\ q.cycle_state = d.cycle_state /\ q.trb = d.trb /\ q.td = d.td
          /\ q.td_list = d.td_list /\ q.cancelled_td_list = d.cancelled_td_list
          /\ q.queued_deq_ptr = d.queued_deq_ptr /\ q.cmds = Append(d.cmds, Stop)
          /\ q.ep_state = d.ep_state
      BY DEF queue_command, DriverStates
    <3> HIDE DEF q
    <3>2. /\ SamePlaces(d, r) /\ r.cancelled_td_list = d.cancelled_td_list /\ r.td = d.td
          /\ r.ep_state = d.ep_state /\ r.cmds = Tail(Append(d.cmds, Stop))
      BY <2>5, <3>1 DEF SamePlaces, PartsBut
    <3>3. \A i \in DOMAIN r.cmds : \/ r.cmds[i].op = "stop"
                                   \/ i + 1 \in DOMAIN d.cmds /\ r.cmds[i] = d.cmds[i + 1]
      <4> DEFINE old == Tail(d.cmds)
      <4>1. /\ old \in Seq(Commands) /\ Len(old) \in Nat
            /\ \A i \in DOMAIN old : i + 1 \in DOMAIN d.cmds /\ old[i] = d.cmds[i + 1]
        BY <1>1
      <4> HIDE DEF old
      <4>2. /\ DOMAIN r.cmds = 1 .. Len(old) + 1 /\ r.cmds[Len(old) + 1] = Stop
            /\ \A i \in DOMAIN old : r.cmds[i] = old[i]
            /\ DOMAIN old = 1 .. Len(old)
        <5> DEFINE m == Append(old, Stop)
        <5>1. /\ DOMAIN m = 1 .. Len(old) + 1 /\ m[Len(old) + 1] = Stop
              /\ \A i \in DOMAIN old : m[i] = old[i]
              /\ DOMAIN old = 1 .. Len(old)
          <6> DEFINE one == Stop
          <6> HIDE DEF one
          <6> QED
            BY <4>1, StopIsFresh
        <5> QED
          BY <1>1, <3>2, <5>1, StopIsFresh, TailOfAppend DEF old
      <4>3. ASSUME NEW i \in DOMAIN r.cmds
            PROVE  i \in DOMAIN old \/ i = Len(old) + 1
        <5>1. i \in 1 .. Len(old) + 1 /\ Len(old) \in Nat /\ DOMAIN old = 1 .. Len(old)
          BY <4>1, <4>2, <4>3
        <5> QED
          BY <5>1
      <4> QED
        BY <4>1, <4>2, <4>3, StopIsFresh
    <3> QED
      BY <2>3, <3>2, <3>3
  <2> QED
    BY <2>1, <2>2, <2>4, <2>5
<1> QED
  BY <1>1, <1>5, <1>6, <1>7 DEF Ops, Paired

\* After a command has completed, an endpoint with transfers and nothing
\* pending has been told to run.  A reset that was not a retry finds the
\* halted transfer still cancelled, and sets the pointer past it.
LEMMA HandlerBells ==
  ASSUME NEW d \in DriverStates, NEW s, s.urb = NoUrb, NEW h \in ControllerStates,
         NEW n \in Int, NEW t, NEW ev \in Seq(Events),
         RingInv(d, s, h, n, t, ev), Paired(d.cmds, d.ep_state),
         NEW code \in {"ok", "ctx"}, Answered(d, h, n, ev, code),
         NEW a, HandledBy(d, h, code, a)
  PROVE  Belling(a)
<1> DEFINE c == d.cmds[1]
<1>1. d.cmds \in Seq(Commands) /\ 1 \in DOMAIN d.cmds
  BY Parts DEF Answered
<1>2. c.op \in Ops /\ c \in Commands /\ FlagOf(c.op) \in d.ep_state
  BY <1>1 DEF Paired
<1> PICK elapsed \in BOOLEAN : a = Handler(d, h, d.cmds[1], code, elapsed, TRUE)
  BY DEF HandledBy
<1>3. CASE c.op = "setdeq"
  BY <1>3, SetDeqBells DEF Handler
<1>4. CASE c.op = "reset" /\ c.soft
  BY <1>2, <1>4, SoftResetBells DEF Handler, Commands
<1>5. CASE c.op = "reset" /\ ~c.soft
  <2> DEFINE F == {"EP_HALTED"}
  <2>1. InvalidatedBy(d, h, F, a) /\ "SET_DEQ_PENDING" \notin F
    BY <1>5, ResetFields DEF Handler, RingInv, Cancels
  <2> HIDE DEF F
  <2> QED
    BY <1>1, <1>5, <2>1, OnHandIs DEF Belling, InvalidatedBy, RingInv, Resetting, MovedPast
<1>6. CASE c.op = "stop"
  <2> DEFINE S == "EP_STOP_CMD_PENDING"
             done == [d EXCEPT !.ep_state = @ \ {S}]
             q == queue_command(d, Stop)
  <2>1. \/ a = Settled(d, h, TRUE)
        \/ a = done /\ "EP_HALTED" \in d.ep_state
        \/ a = q
    <3> HIDE DEF done, q
    <3> QED
      BY <1>6 DEF xhci_handle_cmd_stop_ep, done, q, Answered, Handler
  <2>2. CASE a = Settled(d, h, TRUE)
    BY <2>2, SettledBells
  <2>3. CASE a = done /\ "EP_HALTED" \in d.ep_state
    <3>1. done.ep_state = d.ep_state \ {S}
      BY DEF DriverStates
    <3> HIDE DEF done
    <3>2. "EP_HALTED" \in d.ep_state \ {S}
      BY <2>3
    <3> QED
      BY <2>3, <3>1, <3>2 DEF Belling
  <2>4. CASE a = q
    <3>1. q.ep_state = d.ep_state
      BY DEF queue_command, DriverStates
    <3> HIDE DEF q
    <3> QED
      BY <1>2, <2>4, <3>1 DEF Belling
  <2> QED
    BY <2>1, <2>2, <2>3, <2>4
<1> QED
  BY <1>2, <1>3, <1>4, <1>5, <1>6 DEF Ops

\* The event of a completion is handled.
LEMMA CompletionRing ==
  ASSUME NEW d \in DriverStates, NEW s, s.urb = NoUrb, NEW h \in ControllerStates,
         NEW n \in Int, NEW t, NEW ev \in Seq(Events),
         RingInv(d, s, h, n, t, ev), Filled(d, s), Paired(d.cmds, d.ep_state),
         ev # <<>>, ev[1].kind = "command",
         NEW code \in {"ok", "ctx"}, NEW elapsed \in BOOLEAN,
         Answered(d, h, n, ev, code),
         NEW r, r = handle_cmd_completion(d, h, code, elapsed, TRUE)
  PROVE  Completes(d, s, h, n, t, ev, r)
<1> DEFINE c == d.cmds[1]
           off == [d EXCEPT !.timer = FALSE]
           a == Handler(off, h, c, code, elapsed, TRUE)
           more == Cardinality(Live(a)) > 1
           q == [[a EXCEPT !.current = more] EXCEPT !.timer = more]
           z == [q EXCEPT !.cmds = Tail(a.cmds)]
<1>1. d.cmds \in Seq(Commands) /\ Len(d.cmds) \in Nat \ {0} /\ 1 \in DOMAIN d.cmds
      /\ c = Head(d.cmds) /\ d.cmds # <<>>
  BY Parts DEF Answered
<1>2. c.live
  BY <1>1 DEF Paired, Fresh
<1>3. off \in DriverStates /\ SameView(d, off) /\ off.cmds = d.cmds /\ off.ep_state = d.ep_state
  BY New_timer DEF SameView, DriverStates
<1>4. a \in DriverStates
  <2> HIDE DEF off
  <2> QED
    BY <1>3, HandlerType
<1>5. r = z
  <2> HIDE DEF more
  <2>1. q.cmds = a.cmds
    <3> HIDE DEF a
    <3> QED
      BY <1>4 DEF DriverStates
  <2> HIDE DEF off, a
  <2> HIDE DEF c
  <2> QED
    BY <1>1, <1>2, <2>1 DEF handle_cmd_completion, a, more, off
<1> HIDE DEF off, c
<1>6. z \in DriverStates /\ PartsBut(a, z) /\ z.cmds = Tail(a.cmds)
  <2>1. more \in BOOLEAN
    OBVIOUS
  <2> HIDE DEF a, more
  <2>2. q \in DriverStates /\ PartsBut(a, q) /\ q.cmds = a.cmds
    <3> DEFINE p == [a EXCEPT !.current = more]
    <3>1. p \in DriverStates /\ PartsBut(a, p) /\ p.cmds = a.cmds
      BY <1>4, <2>1, New_current DEF PartsBut, DriverStates
    <3> HIDE DEF p
    <3>2. q = [p EXCEPT !.timer = more]
      BY DEF p
    <3> HIDE DEF q
    <3> QED
      BY <2>1, <3>1, <3>2, New_timer DEF PartsBut, DriverStates
  <2> HIDE DEF q
  <2>3. Tail(a.cmds) \in Seq(Commands)
    <3>1. a.cmds # <<>>
      <4>1. AddsOne(off, a)
        BY <1>3, HandlerCommands DEF a
      <4> QED
        BY <1>1, <1>3, <4>1 DEF Fresh, AddsOne
    <3> QED
      BY <1>4, <3>1, Parts
  <2> QED
    BY <2>2, <2>3, New_cmds DEF PartsBut, DriverStates
<1>7. z.td_list = a.td_list /\ z.ep_state = a.ep_state /\ z.bell = a.bell
  <2> HIDE DEF a, more
  <2> QED
    BY <1>4 DEF DriverStates
<1> HIDE DEF z, a
<1>8. RingInv(off, s, h, n, t, ev)
  BY <1>3, ViewKeeps DEF SameSpot
<1>9. Listed(off) = Listed(d) /\ Cancelled(off) = Cancelled(d)
  BY <1>3 DEF SameView, Listed, Cancelled
<1>10. /\ RingInv(z, s, h, n - 1, t, ev)
       /\ Listed(d) \ Listed(z) \subseteq Cancelled(d)
       /\ Filled(z, s) /\ Belling(z)
  <2>1. HandledBy(off, h, code, a)
    BY <1>3 DEF a, c, HandledBy
  <2> QED
    BY <1>3, <1>6, <1>7, <1>8, <1>9, <2>1, HandlerBells, FilledKeeps, HandlerRing DEF Belling,
      SameView, Answered
<1>11. n - 1 \in Int /\ n - 1 <= n - 1
  OBVIOUS
<1> QED
  BY <1>5, <1>6, <1>10, <1>11, TailRing DEF Leaves, Completes

-----------------------------------------------------------------------------
(* The controller runs                                                     *)

\* Where the controller is after n more slots.
LEMMA AdvanceIs ==
  ASSUME drv \in DriverStates, hw \in ControllerStates, hw.cycle = Lap(drv, hw.deq),
         NEW n \in Nat, n <= Back(drv, hw.deq),
         NEW a, a = Advance(n)
  PROVE  /\ a \in ControllerStates /\ a.state = hw.state /\ a.db = hw.db
         /\ a.cached = NoUrb /\ a.cycle = Lap(drv, a.deq)
         /\ Back(drv, a.deq) = Back(drv, hw.deq) - n
         /\ n = 0 => a.deq = hw.deq
<1>1. /\ RingSize \in Nat \ {0} /\ drv.enqueue \in Slots /\ hw.deq \in Slots
      /\ drv.cycle_state \in {0, 1}
  BY LowIs, Parts DEF ControllerStates
<1>2. drv.enqueue \in 0 .. RingSize - 1 /\ hw.deq \in 0 .. RingSize - 1
  BY <1>1 DEF Slots
<1>3. Back(drv, hw.deq) = IF hw.deq <= drv.enqueue THEN drv.enqueue - hw.deq
                          ELSE drv.enqueue - hw.deq + RingSize
  BY <1>1, BackIs
<1> DEFINE m == IF hw.deq + n >= RingSize THEN hw.deq + n - RingSize ELSE hw.deq + n
<1>4. m \in 0 .. RingSize - 1
  BY <1>1, <1>2, <1>3
<1>5. (hw.deq + n) % RingSize = m
  <2>1. hw.deq + n \in Nat
    BY <1>2
  <2>2. hw.deq + n = RingSize * 0 + m \/ hw.deq + n = RingSize * 1 + m
    BY <1>1, <1>2
  <2> HIDE DEF m
  <2> QED
    BY <1>1, <1>4, <2>1, <2>2, DivisionIs
<1>6. Back(drv, m) = Back(drv, hw.deq) - n
  BY <1>1, <1>2, <1>3, <1>4, BackIs DEF Slots
<1>7. (IF hw.deq + n >= RingSize THEN 1 - hw.cycle ELSE hw.cycle) = Lap(drv, m)
  BY <1>1, <1>2, <1>3 DEF Lap
<1>8. n = 0 => m = hw.deq
  BY <1>1, <1>2
<1> QED
  BY <1>5, <1>6, <1>7, <1>8, AdvanceFields DEF Advance, ControllerStates, Seen

\* What it owns is ahead of it.
LEMMA ReadyIs ==
  ASSUME drv \in DriverStates, hw \in ControllerStates, submit \in Submits,
         Cycled(drv, submit), Placed_hw(drv, submit, hw), OwnedAt(0)
  PROVE  Back(drv, hw.deq) > Edge(drv, submit)
BY LowIs, BackIs, DivisionIs, LapIs, BackDiffers DEF ControllerStates, Submits, Slots, Seen,
  OwnedAt, Placed_hw, Cycled, Edge

\* What it runs is a transfer of the list that has been handed over.
LEMMA RunningIs ==
  ASSUME drv \in DriverStates, hw \in ControllerStates, submit \in Submits,
         NEW n, NEW t, NEW ev, RingInv(drv, submit, hw, n, t, ev), OwnedAt(0),
         "SET_DEQ_PENDING" \notin drv.ep_state, Running # NoUrb
  PROVE  /\ Running \in Listed(drv) /\ Running \in Urbs /\ Running # submit.urb
         /\ InTd(drv, Running, hw.deq) /\ Final(drv, Running) > Edge(drv, submit)
<1> DEFINE u == Running
<1>1. hw.deq \in Slots /\ hw.cached \in Urbs \cup {NoUrb} /\ Back(drv, hw.deq) \in Nat
  BY BackIs DEF ControllerStates
<1>2. u \in Listed(drv) /\ InTd(drv, u, hw.deq)
  <2>1. CASE OnCached
    BY <1>1, <2>1, InTdIs DEF Running, OnCached, RingInv, Held, Cancels, Placed
  <2>2. CASE ~OnCached
    <3> HIDE DEF u
    <3> QED
      BY <1>1, <2>2, BackIs, ReadyIs DEF RingInv, Slotted, u, Running, Submits, Edge
  <2> QED
    BY <2>1, <2>2
<1> HIDE DEF u
<1> QED
  BY <1>1, <1>2, UrbAssumption, ListedAreUrbs, BackIs, ReadyIs DEF u, RingInv, Placed, Roomy,
    First, Edge, InTd, Submits

\* The controller runs on without passing what it should report.
LEMMA RunsRing ==
  ASSUME NEW d \in DriverStates, NEW s \in Submits, NEW h \in ControllerStates,
         NEW k \in ControllerStates, NEW n, NEW m, NEW t,
         NEW ev \in Seq(Events), NEW new \in Seq(Events),
         RingInv(d, s, h, n, t, ev), Free(d, ev),
         Edge(d, s) <= Back(d, k.deq), Back(d, k.deq) <= Back(d, h.deq),
         k.cycle = Lap(d, k.deq), Held(d, k), RanTo(d, s, h, k, t, ev, new)
  PROVE  RingInv(d, s, k, m, t, new)
<1>1. /\ Back(d, k.deq) \in Nat /\ Back(d, h.deq) \in Nat /\ Edge(d, s) \in Nat /\ Low(d) \in Nat
      /\ \A p \in Slots : Back(d, p) \in Nat
  BY BackIs, LowIs DEF ControllerStates, Submits, Edge
<1>2. /\ \A i \in DOMAIN new : i \in Nat /\ (i \in DOMAIN ev \/ i \in DOMAIN new \ DOMAIN ev)
      /\ \A i \in DOMAIN ev : i \in DOMAIN new /\ i \in Nat /\ new[i] = ev[i]
      /\ \A i \in DOMAIN new \ DOMAIN ev : \A j \in DOMAIN ev : j < i
  BY DEF RanTo
<1>3. Placed_hw(d, s, k)
  BY <1>1 DEF RingInv, Placed_hw
<1>4. Cancels(d, k)
  BY DEF RingInv, Cancels, Free
<1>5. \A i \in DOMAIN ev : ev[i].kind = "transfer" /\ LiveEvent(d, s, h, t, ev[i]) =>
        /\ LiveEvent(d, s, k, t, ev[i]) /\ Back(d, ev[i].pos) > Back(d, h.deq)
        /\ t = "bulk" => Final(d, ev[i].urb) > Back(d, h.deq)
  BY <1>1, <1>2, TransferParts, TdIs DEF Free, Halts, LiveEvent
<1>6. \A i \in DOMAIN new : new[i].kind = "transfer" =>
        LiveEvent(d, s, k, t, new[i]) \/ (i = 1 /\ Stale(d, new[i]))
  BY <1>2, <1>5 DEF RingInv, Reported, RanTo
<1>7. \A i, j \in DOMAIN new :
        i < j /\ new[i].kind = "transfer" /\ new[j].kind = "transfer" =>
          \/ i = 1 /\ Stale(d, new[i])
          \/ /\ Back(d, new[i].pos) > Back(d, new[j].pos)
             /\ t = "bulk" /\ new[i].urb = new[j].urb =>
                  j = i + 1 /\ new[j].code = "ok" /\ new[j].pos = d.td[new[j].urb].last
  <2> SUFFICES ASSUME NEW i \in DOMAIN new, NEW j \in DOMAIN new, i < j,
                      new[i].kind = "transfer", new[j].kind = "transfer",
                      ~ (i = 1 /\ Stale(d, new[i]))
               PROVE  /\ Back(d, new[i].pos) > Back(d, new[j].pos)
                      /\ t = "bulk" /\ new[i].urb = new[j].urb =>
                           j = i + 1 /\ new[j].code = "ok" /\ new[j].pos = d.td[new[j].urb].last
    OBVIOUS
  <2>1. CASE i \in DOMAIN ev /\ j \in DOMAIN ev
    BY <1>2, <2>1 DEF RingInv, Reported
  <2>2. CASE i \in DOMAIN ev /\ j \notin DOMAIN ev
    BY <1>1, <1>2, <1>5, <2>2, TransferParts, TdIs DEF RingInv, Reported, RanTo
  <2>3. CASE i \notin DOMAIN ev /\ j \notin DOMAIN ev
    BY <2>3 DEF RanTo
  <2>4. CASE i \notin DOMAIN ev /\ j \in DOMAIN ev
    BY <1>2, <2>4
  <2> QED
    BY <2>1, <2>2, <2>3, <2>4
<1> QED
  BY <1>1, <1>2, <1>3, <1>4, <1>6, <1>7, ListedAreUrbs, TdIs DEF RingInv, Reported, Awaited,
    RanTo, Resetting, Free, Setting, Slotted

\* An event more at the end.
LEMMA TypedAppend ==
  ASSUME NEW ev \in Seq(Events), NEW x \in Events
  PROVE  LET new == Append(ev, x) IN
         /\ new \in Seq(Events) /\ Len(new) = Len(ev) + 1 /\ Len(ev) \in Nat
         /\ DOMAIN new = 1 .. Len(ev) + 1 /\ DOMAIN ev = 1 .. Len(ev)
         /\ new[Len(ev) + 1] = x
         /\ \A i \in DOMAIN ev : i \in DOMAIN new /\ new[i] = ev[i]
         /\ \A i \in DOMAIN new : i \in DOMAIN ev \/ i = Len(ev) + 1
         /\ x.kind # "transfer" =>
              \A i \in DOMAIN new : new[i].kind = "transfer" => i \in DOMAIN ev /\ new[i] = ev[i]
<1> DEFINE new == Append(ev, x)
<1> HIDE DEF new
<1> QED
  BY DEF new

\* A command is answered that leaves the controller where it is.
LEMMA AnswerRing ==
  ASSUME NEW d \in DriverStates, NEW s, NEW h, NEW k,
         NEW n \in Nat, NEW t, NEW ev \in Seq(Events), NEW x \in Events, x.kind = "command",
         RingInv(d, s, h, n, t, ev), SameSpot(h, k),
         n + 1 \in DOMAIN d.cmds => d.cmds[n + 1].op # "setdeq"
  PROVE  RingInv(d, s, k, n + 1, t, Append(ev, x))
<1> DEFINE new == Append(ev, x)
<1>1. /\ \A i \in DOMAIN ev : i \in DOMAIN new /\ new[i] = ev[i]
      /\ \A i \in DOMAIN new : new[i].kind = "transfer" => i \in DOMAIN ev /\ new[i] = ev[i]
  BY TypedAppend
<1> HIDE DEF new
<1>2. Placed_hw(d, s, k) /\ Slotted(d, k) /\ Held(d, k) /\ Cancels(d, k) /\ Resetting(d, k)
  BY DEF RingInv, Placed_hw, Slotted, Held, Cancels, Resetting, SameSpot
<1>3. Setting(d, s, k, n + 1, new)
  BY <1>1, Parts DEF Setting, RingInv, SameSpot
<1> QED
  BY <1>1, <1>2, <1>3 DEF RingInv, new, Awaited, SameSpot, Reported, LiveEvent

\* The dequeue pointer is set.
LEMMA JumpRing ==
  ASSUME NEW d \in DriverStates, NEW s, NEW h \in ControllerStates, NEW k \in ControllerStates,
         NEW n \in Nat, NEW t, NEW ev \in Seq(Events), NEW x \in Events, x.kind = "command",
         RingInv(d, s, h, n, t, ev), "SET_DEQ_PENDING" \in d.ep_state,
         n + 1 \in DOMAIN d.cmds, d.cmds[n + 1].op = "setdeq",
         k.deq = d.cmds[n + 1].ptr, k.cycle = d.cmds[n + 1].cycle, k.cached = NoUrb
  PROVE  RingInv(d, s, k, n + 1, t, Append(ev, x))
<1> DEFINE new == Append(ev, x)
           ptr == d.cmds[n + 1].ptr
<1> HIDE DEF new
<1>1. /\ ptr = d.queued_deq_ptr /\ d.cmds[n + 1].cycle = Lap(d, ptr)
      /\ Edge(d, s) <= Back(d, ptr) /\ Back(d, ptr) <= Back(d, h.deq)
      /\ Back(d, ptr) < Low(d)
      /\ \A u \in Listed(d) : First(d, u) <= Back(d, ptr)
      /\ \A j \in DOMAIN ev : ev[j].kind # "transfer"
  BY DEF RingInv, Setting
<1> HIDE DEF ptr
<1>2. k.deq = ptr /\ k.cycle = Lap(d, ptr)
  BY <1>1 DEF ptr
<1>3. /\ Back(d, k.deq) \in Nat /\ Back(d, h.deq) \in Nat /\ Low(d) \in Nat
      /\ \A p \in Slots : Back(d, p) \in Nat
  BY BackIs, LowIs DEF ControllerStates
<1>4. Placed_hw(d, s, k)
  BY <1>1, <1>2, <1>3 DEF Placed_hw
<1> QED
  BY <1>1, <1>2, <1>3, <1>4, ListedAreUrbs, TdIs, TypedAppend DEF RingInv, new, Awaited,
    Placed, Reported, Cancels, Held, Resetting, Setting, Slotted

-----------------------------------------------------------------------------
(* The controller's steps keep the ring in order                           *)

\* The variables, by the names used here.
LEMMA StepParts ==
  ASSUME TypeInv
  PROVE  /\ drv \in DriverStates /\ submit \in Submits /\ hw \in ControllerStates
         /\ events \in Seq(Events) /\ type \in Types /\ cmdhw.done \in Nat
         /\ Len(events) \in Nat /\ drv.cmds \in Seq(Commands) /\ Len(drv.cmds) \in Nat
         /\ cmdhw.done <= Len(drv.cmds)
BY Parts DEF TypeInv, TypeOK, Submits

\* While the endpoint runs, or may, nothing holds it back.
LEMMA RunningFree ==
  ASSUME TypeInv, StopInv, Paired(drv.cmds, drv.ep_state), hw.state # "halted", ~Parked
  PROVE  Free(drv, events)
BY StepParts DEF StopInv, ResetsHalted, ResetsParked, SetsParked, HaltLasts, Ops, FlagOf,
  Paired, Free

\* Between the slots of a transfer there is no other.
LEMMA SameTd ==
  ASSUME NEW d \in DriverStates, NEW s, Placed(d, s), NEW u \in Listed(d), NEW v \in Listed(d),
         NEW p \in Slots, InTd(d, u, p), Final(d, u) <= Final(d, v), Final(d, v) <= Back(d, p)
  PROVE  u = v
BY ListedAreUrbs, TdIs, BackIs, Disjoint DEF Final, Placed, InTd

\* No transfer ends on a slot that is passed without an event.
LEMMA SkippedEndsNone ==
  ASSUME drv \in DriverStates, submit \in Submits, hw \in ControllerStates,
         Placed(drv, submit), Roomy(drv, submit), Filled(drv, submit),
         Back(drv, hw.deq) > Edge(drv, submit), Running = NoUrb,
         NEW u \in Listed(drv)
  PROVE  Final(drv, u) # Back(drv, hw.deq)
BY ListedAreUrbs, UrbAssumption, TdIs, BackIs, BackDiffers DEF ControllerStates, Final, Roomy,
  First, Edge, Placed, Filled, Running, OnCached

\* The event of a transfer's success, and what it says.
LEMMA ReportIs ==
  ASSUME NEW d \in DriverStates, NEW s, NEW h \in ControllerStates, NEW k \in ControllerStates,
         NEW t, NEW u \in Listed(d), u # s.urb, InTd(d, u, h.deq),
         NEW x, x.urb = u, x.code = "ok", x.pos = h.deq \/ x.pos = d.td[u].last,
         Back(d, k.deq) < Back(d, x.pos), t = "bulk" => Final(d, u) > Back(d, k.deq)
  PROVE  LiveEvent(d, s, k, t, x) /\ Back(d, x.pos) <= Back(d, h.deq)
         /\ Final(d, x.urb) <= Back(d, h.deq)
BY ListedAreUrbs, TdIs, BackIs DEF ControllerStates, InTd, Final, LiveEvent

\* One slot more, or the rest of a transfer: what has been run to its end
\* has been reported.
LEMMA TransferRan ==
  ASSUME NEW d \in DriverStates, NEW s \in Submits, NEW h \in ControllerStates,
         NEW k \in ControllerStates, NEW t \in Types, NEW ev \in Seq(Events), NEW new,
         Placed(d, s), NEW u \in Listed(d), u # s.urb, InTd(d, u, h.deq),
         NEW x \in Events, x.kind = "transfer", x.code = "ok", x.urb = u, x.pos = h.deq,
         NEW y \in Events, y = [x EXCEPT !.pos = d.td[u].last],
         Back(d, k.deq) < Back(d, h.deq),
         Back(d, k.deq) = Back(d, h.deq) - 1 \/ (t = "bulk" /\ Back(d, k.deq) = Final(d, u) - 1),
         \/ new = ev /\ Final(d, u) # Back(d, h.deq) /\ Back(d, k.deq) = Back(d, h.deq) - 1
         \/ new = Append(ev, x) /\ (t = "bulk" => Back(d, k.deq) < Final(d, u))
         \/ new = ev \o <<x, y>> /\ t = "bulk" /\ Back(d, k.deq) < Final(d, u)
            /\ Final(d, u) # Back(d, h.deq)
  PROVE  RanTo(d, s, h, k, t, ev, new)
<1>1. /\ Final(d, u) \in Nat /\ First(d, u) \in Nat /\ d.td[u].last \in Slots
      /\ Back(d, h.deq) \in Nat /\ Back(d, k.deq) \in Nat /\ h.deq \in Slots
      /\ Final(d, u) <= Back(d, h.deq) /\ Back(d, d.td[u].last) = Final(d, u)
  BY ListedAreUrbs, TdIs, BackIs DEF ControllerStates, InTd, Final
<1>2. ASSUME NEW v \in Listed(d), Final(d, v) > Back(d, k.deq), Final(d, v) <= Back(d, h.deq)
      PROVE  v = u /\ (t = "control" => h.deq = d.td[u].last)
             /\ (Back(d, k.deq) = Back(d, h.deq) - 1 => Final(d, u) = Back(d, h.deq))
  BY <1>1, <1>2, ListedAreUrbs, TdIs, SameTd, BackDiffers
<1>3. /\ Back(d, x.pos) <= Back(d, h.deq) /\ Final(d, x.urb) <= Back(d, h.deq)
      /\ (t = "bulk" => Final(d, u) > Back(d, k.deq)) => LiveEvent(d, s, k, t, x)
  BY <1>1, ReportIs
<1>4. CASE /\ new = ev /\ Final(d, u) # Back(d, h.deq)
           /\ Back(d, k.deq) = Back(d, h.deq) - 1
  BY <1>2, <1>4 DEF RanTo
<1>5. CASE new = Append(ev, x) /\ (t = "bulk" => Back(d, k.deq) < Final(d, u))
  BY <1>1, <1>2, <1>3, <1>5, TypedAppend DEF RanTo
<1>6. CASE /\ new = ev \o <<x, y>> /\ t = "bulk" /\ Back(d, k.deq) < Final(d, u)
           /\ Final(d, u) # Back(d, h.deq)
  <2>1. /\ Len(new) = Len(ev) + 2 /\ Len(ev) \in Nat
        /\ DOMAIN new = 1 .. Len(ev) + 2 /\ DOMAIN ev = 1 .. Len(ev)
        /\ new[Len(ev) + 1] = x /\ new[Len(ev) + 2] = y /\ \A i \in DOMAIN ev : new[i] = ev[i]
    BY <1>6
  <2>2. /\ Len(ev) <= Len(new)
        /\ \A i \in DOMAIN new \ DOMAIN ev : i = Len(ev) + 1 \/ i = Len(ev) + 2
        /\ Len(ev) + 1 \in DOMAIN new
        /\ \A i, j \in DOMAIN new \ DOMAIN ev : i < j => i = Len(ev) + 1 /\ j = Len(ev) + 2
        /\ Len(ev) + 2 = (Len(ev) + 1) + 1
    BY <2>1
  <2>3. y.kind = "transfer" /\ y.code = "ok" /\ y.urb = u /\ y.pos = d.td[u].last
    BY DEF Events
  <2>4. LiveEvent(d, s, k, t, y) /\ Back(d, y.pos) <= Back(d, h.deq)
        /\ Final(d, y.urb) <= Back(d, h.deq)
    BY <1>1, <1>6, <2>3, ReportIs
  <2>5. Back(d, x.pos) > Back(d, y.pos)
    BY <1>1, <1>6, <2>3
  <2>6. ASSUME NEW i \in DOMAIN new \ DOMAIN ev, NEW j \in DOMAIN new \ DOMAIN ev, i < j
        PROVE  /\ Back(d, new[i].pos) > Back(d, new[j].pos)
               /\ j = i + 1 /\ new[j].code = "ok" /\ new[j].pos = d.td[new[j].urb].last
    <3>1. i = Len(ev) + 1 /\ j = Len(ev) + 2 /\ j = i + 1
      BY <2>2, <2>6
    <3>2. new[i] = x /\ new[j] = y
      BY <2>1, <3>1
    <3>3. new[j].code = "ok" /\ new[j].pos = d.td[new[j].urb].last
      BY <2>3, <3>2
    <3> QED
      BY <2>5, <3>1, <3>2, <3>3
  <2>7. \A v \in Listed(d) : Final(d, v) > Back(d, k.deq) /\ Final(d, v) <= Back(d, h.deq) =>
          \E i \in DOMAIN new :
            /\ new[i].kind = "transfer" /\ new[i].code = "ok" /\ new[i].urb = v
            /\ InTd(d, v, new[i].pos) /\ (t = "control" => new[i].pos = d.td[v].last)
    BY <1>1, <1>2, <2>1, <2>2
  <2>8. LiveEvent(d, s, k, t, x)
    BY <1>1, <1>3, <1>6
  <2>9. \A i \in DOMAIN new \ DOMAIN ev :
          /\ LiveEvent(d, s, k, t, new[i])
          /\ Back(d, new[i].pos) <= Back(d, h.deq) /\ Final(d, new[i].urb) <= Back(d, h.deq)
    BY <1>3, <2>1, <2>2, <2>4, <2>8
  <2> QED
    BY <2>1, <2>2, <2>6, <2>7, <2>9 DEF RanTo
<1> QED
  BY <1>4, <1>5, <1>6

\* What the steps of the controller find: the ring in order, and what its
\* state and its commands say of each other.
Ordered ==
  /\ TypeInv /\ StopInv /\ Paired(drv.cmds, drv.ep_state)
  /\ RingInv(drv, submit, hw, cmdhw.done, type, events) /\ Filled(drv, submit)

\* The endpoint runs: where it is, and what it has to run.
LEMMA ReadyParts ==
  ASSUME Ordered, HwReady
  PROVE  /\ Free(drv, events) /\ hw.state = "running" /\ OwnedAt(0) /\ hw.cycle = Lap(drv, hw.deq)
         /\ Back(drv, hw.deq) > Edge(drv, submit)
         /\ Edge(drv, submit) \in Nat /\ Back(drv, hw.deq) \in Nat /\ Back(drv, hw.deq) >= 1
         /\ Running # NoUrb =>
              /\ Running \in Listed(drv) /\ Running \in Urbs /\ Running # submit.urb
              /\ InTd(drv, Running, hw.deq) /\ Final(drv, Running) > Edge(drv, submit)
              /\ Final(drv, Running) \in Nat /\ Final(drv, Running) <= Back(drv, hw.deq)
              /\ drv.td[Running].last \in Slots
              /\ Ahead(drv.td[Running].last, hw.deq) = Back(drv, hw.deq) - Final(drv, Running)
<1>1. ASSUME Running # NoUrb
      PROVE  /\ Running \in Listed(drv) /\ Running \in Urbs /\ Running # submit.urb
             /\ InTd(drv, Running, hw.deq) /\ Final(drv, Running) > Edge(drv, submit)
             /\ Final(drv, Running) \in Nat /\ Final(drv, Running) <= Back(drv, hw.deq)
             /\ drv.td[Running].last \in Slots
             /\ Ahead(drv.td[Running].last, hw.deq) = Back(drv, hw.deq) - Final(drv, Running)
  BY <1>1, RunningIs, TdIs, AheadByBack, RunningFree, StepParts DEF Free, Ordered, InTd, Final,
    HwReady, Parked, ControllerStates, Submits
<1> QED
  BY <1>1, BackIs, ReadyIs, RunningFree, StepParts DEF Edge, Ordered, RingInv, Placed_hw,
    HwReady, Parked, ControllerStates, Submits

\* The ring after a step of the running endpoint to k.
LEMMA RunRing ==
  ASSUME Ordered, Free(drv, events), NEW k \in ControllerStates, NEW m, NEW new \in Seq(Events),
         Edge(drv, submit) <= Back(drv, k.deq), Back(drv, k.deq) <= Back(drv, hw.deq),
         k.cycle = Lap(drv, k.deq), Held(drv, k),
         RanTo(drv, submit, hw, k, type, events, new)
  PROVE  RingInv(drv, submit, k, m, type, new)
BY StepParts, RunsRing DEF Ordered

\* The controller skips a link or a no-op.
LEMMA SkipRing ==
  ASSUME Ordered, HwSkip
  PROVE  RingInv(drv, submit, hw', cmdhw.done, type, events)
<1>1. HwReady /\ Running = NoUrb /\ hw' = Advance(1)
  BY DEF HwSkip
<1>2. /\ drv \in DriverStates /\ submit \in Submits /\ hw \in ControllerStates
      /\ events \in Seq(Events)
  BY StepParts DEF Ordered
<1>3. /\ Free(drv, events) /\ hw.cycle = Lap(drv, hw.deq)
      /\ Back(drv, hw.deq) > Edge(drv, submit)
      /\ Edge(drv, submit) \in Nat /\ Back(drv, hw.deq) \in Nat /\ Back(drv, hw.deq) >= 1
  BY <1>1, ReadyParts
<1> DEFINE k == Advance(1)
<1>4. /\ k \in ControllerStates /\ k.cached = NoUrb /\ k.cycle = Lap(drv, k.deq)
      /\ Back(drv, k.deq) = Back(drv, hw.deq) - 1
  BY <1>2, <1>3, AdvanceIs
<1> HIDE DEF k
<1>5. ASSUME NEW u \in Listed(drv)
      PROVE  ~(Final(drv, u) > Back(drv, k.deq) /\ Final(drv, u) <= Back(drv, hw.deq))
  BY <1>1, <1>2, <1>3, <1>4, SkippedEndsNone, ListedAreUrbs, TdIs DEF Ordered, RingInv
<1> QED
  BY <1>1, <1>2, <1>3, <1>4, <1>5, RunRing DEF k, Held, RanTo

\* The controller executes a slot of a transfer.
LEMMA TransferRuns ==
  ASSUME Ordered, TypeInv', HwTransfer
  PROVE  RingInv(drv, submit, hw', cmdhw.done, type, events')
<1> DEFINE u == Running
           rest == Ahead(drv.td[u].last, hw.deq)
           x == Transfer("ok")
           y == [Transfer("ok") EXCEPT !.pos = drv.td[u].last]
           B == Back(drv, hw.deq)
           F == Final(drv, u)
<1>1. /\ drv \in DriverStates /\ submit \in Submits /\ hw \in ControllerStates
      /\ events \in Seq(Events) /\ events' \in Seq(Events) /\ type \in Types
  BY StepParts DEF Ordered, TypeInv, TypeOK
<1>2. /\ Free(drv, events) /\ hw.cycle = Lap(drv, hw.deq)
      /\ B > Edge(drv, submit) /\ Edge(drv, submit) \in Nat /\ B \in Nat /\ B >= 1
      /\ u \in Listed(drv) /\ u # submit.urb /\ InTd(drv, u, hw.deq)
      /\ F > Edge(drv, submit) /\ F \in Nat /\ F <= B /\ rest = B - F
  BY ReadyParts DEF HwTransfer
<1>3. /\ x \in Events /\ x.kind = "transfer" /\ x.code = "ok" /\ x.urb = u /\ x.pos = hw.deq
      /\ y \in Events /\ y = [x EXCEPT !.pos = drv.td[u].last]
  BY TransferEvents DEF Ordered, Codes, Transfer, HwTransfer
<1>4. PICK m \in {1, rest + 1} :
        /\ hw' = Advance(m) /\ (m = 1 \/ type = "bulk")
        /\ \/ events' = events /\ rest # 0 /\ m = 1
           \/ events' = Append(events, x) /\ (m = 1 => rest = 0 \/ type # "bulk")
           \/ events' = events \o <<x, y>> /\ type = "bulk" /\ rest > 0 /\ m = rest + 1
  <2>1. \/ /\ hw' = Advance(1)
           /\ events' = IF rest = 0 THEN Append(events, x) ELSE events
        \/ /\ rest > 0
           /\ hw' = Advance(IF type = "bulk" THEN rest + 1 ELSE 1)
           /\ \/ events' = Append(events, x)
              \/ type = "bulk" /\ events' = events \o <<x, y>>
    BY DEF HwTransfer
  <2> HIDE DEF x, y, rest
  <2>2. CASE hw' = Advance(1) /\ events' = IF rest = 0 THEN Append(events, x) ELSE events
    BY <2>2
  <2>3. CASE /\ rest > 0 /\ type = "bulk" /\ hw' = Advance(rest + 1)
             /\ events' = Append(events, x) \/ events' = events \o <<x, y>>
    <3>1. rest + 1 # 1
      BY <1>2, <2>3
    <3> QED
      BY <2>3, <3>1
  <2>4. CASE /\ rest > 0 /\ type # "bulk" /\ hw' = Advance(1)
             /\ events' = Append(events, x)
    BY <2>4
  <2> QED
    BY <2>1, <2>2, <2>3, <2>4
<1> HIDE DEF x, y, rest
<1> DEFINE k == Advance(m)
<1>5. /\ k \in ControllerStates /\ k.cached = NoUrb /\ k.cycle = Lap(drv, k.deq)
      /\ Back(drv, k.deq) = B - m
  BY <1>1, <1>2, <1>4, AdvanceIs
<1> HIDE DEF k
<1>6. /\ Edge(drv, submit) <= Back(drv, k.deq) /\ Back(drv, k.deq) < B
      /\ Back(drv, k.deq) <= B
      /\ Back(drv, k.deq) = B - 1 \/ (type = "bulk" /\ Back(drv, k.deq) = F - 1)
  BY <1>2, <1>4, <1>5
<1>7. \/ events' = events /\ F # B /\ Back(drv, k.deq) = B - 1
      \/ events' = Append(events, x) /\ (type = "bulk" => Back(drv, k.deq) < F)
      \/ events' = events \o <<x, y>> /\ type = "bulk" /\ Back(drv, k.deq) < F /\ F # B
  <2>1. rest # 0 => F # B
    BY <1>2
  <2>2. m = rest + 1 => Back(drv, k.deq) < F
    BY <1>2, <1>5
  <2>3. m = 1 /\ rest = 0 => Back(drv, k.deq) < F
    BY <1>2, <1>5
  <2>4. rest > 0 => rest # 0
    BY <1>2
  <2> QED
    BY <1>4, <1>5, <2>1, <2>2, <2>3, <2>4
<1>8. RanTo(drv, submit, hw, k, type, events, events')
  <2> HIDE DEF u
  <2> QED
    BY <1>1, <1>2, <1>3, <1>5, <1>6, <1>7, TransferRan DEF Ordered, RingInv
<1> QED
  BY <1>1, <1>2, <1>4, <1>5, <1>6, <1>8, RunRing DEF k, Held

\* The endpoint halts, its dequeue pointer where it was.
LEMMA HaltRuns ==
  ASSUME Ordered, TypeInv', HwHalt, StallPasts \subseteq {FALSE}
  PROVE  RingInv(drv, submit, hw', cmdhw.done, type, events')
<1> DEFINE u == Running
           B == Back(drv, hw.deq)
<1>1. /\ drv \in DriverStates /\ submit \in Submits /\ hw \in ControllerStates
      /\ hw' \in ControllerStates
      /\ events \in Seq(Events) /\ events' \in Seq(Events) /\ type \in Types
  BY StepParts DEF Ordered, TypeInv, TypeOK
<1>2. /\ Free(drv, events) /\ hw.cycle = Lap(drv, hw.deq)
      /\ B > Edge(drv, submit) /\ Edge(drv, submit) \in Nat /\ B \in Nat
      /\ u \in Listed(drv) /\ u \in Urbs /\ u # submit.urb /\ InTd(drv, u, hw.deq)
      /\ Final(drv, u) <= B
  BY ReadyParts DEF HwHalt
<1>3. PICK code \in {"error", "stall"} : events' = Append(events, Transfer(code))
  BY DEF HwHalt
<1>4. hw'.deq = hw.deq /\ hw'.cycle = hw.cycle /\ hw'.cached = u
  <2> DEFINE a == Advance(0)
  <2>1. \/ hw' = [hw EXCEPT !.state = "halted", !.cached = u]
        \/ hw' = [a EXCEPT !.state = "halted", !.cached = u]
    BY DEF HwHalt
  <2>2. a \in ControllerStates /\ a.deq = hw.deq /\ a.cycle = hw.cycle
    <3>1. a \in ControllerStates /\ a.deq = hw.deq /\ a.cycle = Lap(drv, a.deq)
      BY <1>1, <1>2, AdvanceIs
    <3> HIDE DEF a
    <3> QED
      BY <1>2, <3>1
  <2> HIDE DEF a, u
  <2>3. CASE hw' = [hw EXCEPT !.state = "halted", !.cached = u]
    BY <1>1, <2>3 DEF ControllerStates
  <2>4. CASE hw' = [a EXCEPT !.state = "halted", !.cached = u]
    BY <2>2, <2>4 DEF ControllerStates
  <2> QED
    BY <2>1, <2>3, <2>4
<1> DEFINE x == Transfer(code)
<1>5. /\ x \in Events /\ x.kind = "transfer" /\ x.code = code /\ x.urb = u /\ x.pos = hw.deq
      /\ code # "ok"
  BY TransferEvents DEF Ordered, Codes, Transfer, HwHalt
<1>6. events' = Append(events, x)
  BY <1>3
<1> HIDE DEF x, u
<1>7. /\ Len(events') = Len(events) + 1 /\ Len(events) \in Nat
      /\ DOMAIN events' = 1 .. Len(events) + 1 /\ DOMAIN events = 1 .. Len(events)
      /\ events'[Len(events) + 1] = x /\ \A i \in DOMAIN events : events'[i] = events[i]
  BY <1>1, <1>5, <1>6, TypedAppend
<1> QED
  BY <1>1, <1>2, <1>4, <1>5, <1>7, RunRing, ListedAreUrbs, TdIs DEF Held, RanTo, LiveEvent

\* A command is obeyed, or is answered that it cannot be.
LEMMA CommandRuns ==
  ASSUME Ordered, TypeInv', HwCommand
  PROVE  RingInv(drv, submit, hw', cmdhw.done + 1, type, events')
<1> DEFINE n == cmdhw.done
           c == drv.cmds[n + 1]
           x == [kind |-> "command", code |-> Obeyed(c).code]
<1>1. /\ drv \in DriverStates /\ submit \in Submits /\ hw \in ControllerStates
      /\ hw' \in ControllerStates /\ events \in Seq(Events) /\ n \in Nat
      /\ drv.cmds \in Seq(Commands) /\ Len(drv.cmds) \in Nat
  BY StepParts DEF Ordered, TypeInv, TypeOK
<1>2. n < Len(drv.cmds) /\ hw' = Obeyed(c).to /\ events' = Append(events, x)
  BY DEF HwCommand
<1>3. n + 1 \in DOMAIN drv.cmds /\ c \in Commands
  BY <1>1, <1>2
<1>4. x \in Events /\ x.kind = "command"
  BY <1>1, <1>3, ObeyedType
<1> HIDE DEF x
<1>5. ASSUME SameSpot(hw, hw'), c.op # "setdeq"
      PROVE  RingInv(drv, submit, hw', n + 1, type, events')
  BY <1>1, <1>2, <1>4, <1>5, AnswerRing DEF Ordered
<1>6. CASE c.op = "stop" /\ hw.state = "running"
  <2> HIDE DEF c
  <2>1. hw'.deq = hw.deq /\ hw'.cycle = hw.cycle /\ hw'.cached = Fetched
    <3> HIDE DEF Fetched
    <3> QED
      BY <1>1, <1>2, <1>6 DEF ControllerStates, Obeyed
  <2>2. Free(drv, events)
    BY <1>6, RunningFree DEF Ordered, Parked
  <2>3. Held(drv, hw')
    <3>1. CASE OwnedAt(0) /\ Running # NoUrb
      <4> HIDE DEF Running
      <4> QED
        BY <1>1, <2>1, <2>2, <3>1, RunningIs DEF Held, Fetched, Ordered, Free
    <3>2. CASE ~(OwnedAt(0) /\ Running # NoUrb)
      BY <2>1, <3>2 DEF Fetched, Held
    <3> QED
      BY <3>1, <3>2
  <2>4. RanTo(drv, submit, hw, hw', type, events, events')
    BY <1>1, <1>2, <1>4, <2>1, TypedAppend, ListedAreUrbs, TdIs, BackIs DEF ControllerStates,
      RanTo
  <2>5. /\ Edge(drv, submit) <= Back(drv, hw'.deq) /\ Back(drv, hw'.deq) <= Back(drv, hw.deq)
        /\ hw'.cycle = Lap(drv, hw'.deq)
    BY <1>1, <2>1, BackIs DEF ControllerStates, Ordered, RingInv, Placed_hw
  <2> QED
    BY <1>1, <2>2, <2>3, <2>4, <2>5, RunRing DEF TypeInv, TypeOK
<1>7. CASE c.op = "setdeq"
  <2> DEFINE p == c.ptr
             y == c.cycle
  <2> HIDE DEF p, y
  <2> QED
    BY <1>1, <1>2, <1>3, <1>4, <1>7, JumpRing DEF Ordered, p, y, ControllerStates, FlagOf,
      Obeyed, Parked, StopInv, SetsParked, Paired
<1>8. CASE c.op = "reset"
  BY <1>1, <1>2, <1>5, <1>8 DEF Obeyed, SameSpot, ControllerStates
<1>9. CASE c.op = "stop" /\ hw.state # "running"
  BY <1>2, <1>5, <1>9 DEF Obeyed, SameSpot
<1> QED
  BY <1>3, <1>6, <1>7, <1>8, <1>9 DEF Ops, Ordered, Paired

\* Whatever the controller does, the ring stays in order.
LEMMA ControllerRing ==
  ASSUME Ordered, TypeInv', Controller, StallPasts \subseteq {FALSE}
  PROVE  RingInv(drv, submit, hw', cmdhw.done', type, events')
<1>1. CASE HwStart
  <2>1. SameSpot(hw, hw')
    BY <1>1, StepParts DEF Ordered, SameSpot, ControllerStates, HwStart
  <2> QED
    BY <1>1, <2>1, ViewKeeps DEF Ordered, SameView, HwStart
<1>2. CASE HwSkip
  BY <1>2, SkipRing DEF HwSkip
<1>3. CASE HwTransfer
  BY <1>3, TransferRuns DEF HwTransfer
<1>4. CASE HwHalt
  BY <1>4, HaltRuns DEF HwHalt
<1>5. CASE HwCommand
  BY <1>5, CommandRuns DEF Ordered, TypeInv, TypeOK, HwCommand
<1> QED
  BY <1>1, <1>2, <1>3, <1>4, <1>5 DEF Controller

-----------------------------------------------------------------------------
(* The driver's steps keep the ring in order                               *)

\* A transfer is listed where the enqueue pointer is.
LEMMA PrepareFills ==
  ASSUME NEW d \in DriverStates, NEW s, s.urb = NoUrb, Filled(d, s),
         NEW u \in Urbs, u \notin Listed(d), NEW size,
         NEW p, p = prepare_ring(d), NEW e, e = ListedOn(p, u), NEW z, z = Begun(p, u, size)
  PROVE  Filled(e, z)
<1>1. d.td_list \in Seq(Urbs) /\ Listed(d) \subseteq Urbs /\ d.trb \in Rings /\ d.enqueue \in Slots
      /\ d.td \in Tds
  BY Parts, ListedAreUrbs
<1>2. p \in DriverStates /\ p.td_list = d.td_list /\ p.td = d.td
      /\ \A q \in Slots : p.trb[q].urb = d.trb[q].urb
  <2>1. GiveLink(d).td_list = d.td_list /\ GiveLink(d).td = d.td
        /\ GiveLink(d).trb = [d.trb EXCEPT ![d.enqueue].cycle = 1 - @]
    BY DEF GiveLink, DriverStates
  <2> QED
    BY <1>1, <2>1, GiveLinkType DEF Rings, prepare_ring
<1> HIDE DEF prepare_ring
<1>3. /\ e.td_list = Append(d.td_list, u) /\ e.enqueue = p.enqueue /\ e.trb = p.trb
      /\ \A v \in Urbs \ {u} : e.td[v] = d.td[v]
  <2> DEFINE r == [first |-> p.enqueue, last |-> p.enqueue, cancel_status |-> "dirty"]
  <2>1. e.td_list = Append(p.td_list, u) /\ e.enqueue = p.enqueue /\ e.trb = p.trb
        /\ e.td = [p.td EXCEPT ![u] = r]
    <3> HIDE DEF r
    <3> QED
      BY <1>2 DEF ListedOn, DriverStates, r
  <2> HIDE DEF r
  <2> QED
    BY <1>2, <2>1, Parts DEF Tds
<1>4. ASSUME NEW v \in Listed(d)
      PROVE  e.trb[e.td[v].last].urb = v
  <2>1. e.td[v].last = d.td[v].last /\ d.td[v].last \in Slots
    BY <1>1, <1>3, TdIs, UrbAssumption
  <2> QED
    BY <1>1, <1>2, <1>3, <2>1, UrbAssumption DEF Filled
<1> QED
  BY <1>1, <1>3, <1>4, ToSetAppend DEF Filled, Begun, Listed

\* One of its TRBs is written.
LEMMA QueueFills ==
  ASSUME NEW d \in DriverStates, NEW s \in Submits, s.urb # NoUrb,
         Placed(d, s), Filled(d, s),
         NEW c \in {0, 1},
         NEW k, k = [d EXCEPT !.trb[d.enqueue] = [cycle |-> c, urb |-> s.urb],
                              !.td[s.urb].last = d.enqueue],
         NEW more, NEW e, e = inc_enq(k, more),
         NEW z, z.urb = s.urb
  PROVE  Filled(e, z)
<1>1. Listed(d) \subseteq Urbs /\ d.trb \in Rings /\ d.enqueue \in Slots /\ d.td \in Tds
      /\ s.urb \in Urbs
  BY Parts, ListedAreUrbs DEF Submits
<1> DEFINE w == [cycle |-> c, urb |-> s.urb]
<1>2. /\ k.trb = [d.trb EXCEPT ![d.enqueue] = w]
      /\ k.td = [d.td EXCEPT ![s.urb].last = d.enqueue]
      /\ k.td_list = d.td_list /\ k.enqueue = d.enqueue
  BY DEF DriverStates
<1>3. k \in DriverStates
  <2>1. k.td \in Tds
    BY <1>1, <1>2 DEF Tds
  <2> QED
    BY <1>1, <1>2, <2>1, New_trb, New_td DEF DriverStates, Rings
<1>4. /\ k.trb[d.enqueue].urb = s.urb /\ k.td[s.urb].last = d.enqueue
      /\ \A q \in Slots \ {d.enqueue} : k.trb[q] = d.trb[q]
      /\ \A v \in Urbs \ {s.urb} : k.td[v].last = d.td[v].last
  BY <1>1, <1>2 DEF Rings, Tds
<1> HIDE DEF w
<1>5. e.td_list = k.td_list /\ e.td = k.td /\ \A q \in Slots : e.trb[q].urb = k.trb[q].urb
  <2> DEFINE m == [k EXCEPT !.enqueue = next_trb(@)]
  <2>1. m \in DriverStates /\ m.td_list = k.td_list /\ m.td = k.td /\ m.trb = k.trb
    BY <1>1, <1>2, <1>3, New_enqueue, NextIsSlot DEF DriverStates
  <2>2. e = IF trb_is_link(m.enqueue) /\ more THEN GiveLink(m) ELSE m
    BY DEF inc_enq
  <2> HIDE DEF m
  <2>3. m.trb \in Rings /\ m.enqueue \in Slots
    BY <2>1, Parts
  <2>4. GiveLink(m).td_list = m.td_list /\ GiveLink(m).td = m.td
        /\ GiveLink(m).trb = [m.trb EXCEPT ![m.enqueue].cycle = 1 - @]
    BY <2>1 DEF GiveLink, DriverStates
  <2> QED
    BY <2>1, <2>2, <2>3, <2>4 DEF Rings
<1>6. ASSUME NEW v \in Listed(d)
      PROVE  e.trb[e.td[v].last].urb = v
  <2>1. CASE v = s.urb
    BY <1>1, <1>4, <1>5, <2>1
  <2>2. CASE v # s.urb
    <3>1. d.td[v].last # d.enqueue
      BY <1>1, <2>2, TdIs, BackIs DEF Placed, Submits, Edge, Final
    <3>2. d.trb[d.td[v].last].urb = v
      BY <2>2 DEF Filled
    <3> DEFINE q == d.td[v].last
    <3>3. e.td[v].last = q /\ q \in Slots \ {d.enqueue}
      BY <1>1, <1>4, <1>5, <2>2, <3>1, TdIs
    <3> HIDE DEF q
    <3> QED
      BY <1>4, <1>5, <3>2, <3>3 DEF q
  <2> QED
    BY <2>1, <2>2
<1> QED
  BY <1>2, <1>5, <1>6 DEF Filled, Listed

\* The first is handed over: the last has been written by then.
LEMMA HandOverFills ==
  ASSUME NEW d \in DriverStates, NEW s \in Submits, s.urb # NoUrb, s.left = 0,
         Roomy(d, s), Filled(d, s),
         NEW z, NEW e, e.trb = [d.trb EXCEPT ![s.start].cycle = s.cycle],
         e.enqueue = d.enqueue, e.td = d.td, e.td_list = d.td_list
  PROVE  Filled(e, z)
BY Parts, ListedAreUrbs, TdIs DEF Submits, Listed, Rings, Roomy, Filled

\* What a handler's commit keeps of its driver state, and of the endpoint.
LEMMA CommitIs ==
  ASSUME hw \in ControllerStates, NEW d \in DriverStates, NEW passed, Commit(d, passed)
  PROVE  /\ SameView(d, drv') /\ drv.log' = d.log /\ drv.dying' = d.dying
         /\ SameSpot(hw, hw') /\ hw.state' = hw.state
         /\ hw.db' <=> hw.db \/ (d.bell /\ hw.state = "stopped")
         /\ cmdhw.done' = cmdhw.done - passed
<1> DEFINE e == [d EXCEPT !.bell = FALSE]
           f == [e EXCEPT !.cmd_db = FALSE]
           db == hw.db \/ (d.bell /\ hw.state = "stopped")
<1>1. e \in DriverStates /\ SameView(d, e) /\ e.log = d.log /\ e.dying = d.dying
  BY New_bell DEF SameView, DriverStates
<1>2. drv' = f /\ hw' = [hw EXCEPT !.db = db] /\ cmdhw.done' = cmdhw.done - passed
  BY DEF Commit
<1> HIDE DEF e
<1>3. SameView(e, f) /\ f.log = e.log /\ f.dying = e.dying
  BY <1>1 DEF SameView, DriverStates
<1> HIDE DEF f
<1>4. /\ SameSpot(hw, hw') /\ hw.state' = hw.state /\ hw.db' = db
  <2> HIDE DEF db
  <2> QED
    BY <1>2 DEF SameSpot, ControllerStates
<1> QED
  BY <1>1, <1>2, <1>3, <1>4 DEF SameView

\* A submission begins,
LEMMA PrepareLaid ==
  ASSUME TypeInv, Laid, NEW u \in Urbs, NEW n \in Sizes, prepare_transfer(u, n)
  PROVE  Laid'
<1> DEFINE p == prepare_ring(drv)
<1>1. /\ submit.urb = NoUrb /\ u \notin Listed(drv) /\ u \notin Cancelled(drv)
      /\ ~xhci_ring_expansion_needed(drv, n)
      /\ drv' = ListedOn(p, u) /\ submit' = Begun(p, u, n)
      /\ UNCHANGED <<hw, cmdhw, events, type>>
  BY DEF prepare_transfer, Unlocked, Holding, ListedOn, Begun, Listed, Cancelled
<1> HIDE DEF p
<1> QED
  BY <1>1, PrepareFills, PrepareRing, RingAssumption, StepParts DEF Laid, Filled, Listed, p

\* and goes on.
LEMMA QueueLaid ==
  ASSUME TypeInv, Laid, queue_trb
  PROVE  Laid'
<1>1. /\ drv \in DriverStates /\ submit \in Submits /\ hw \in ControllerStates
      /\ events \in Seq(Events) /\ cmdhw.done \in Nat
  BY StepParts
<1> DEFINE c == IF drv.enqueue = submit.start THEN 1 - submit.cycle ELSE drv.cycle_state
           k == [drv EXCEPT !.trb[drv.enqueue] = [cycle |-> c, urb |-> submit.urb],
                            !.td[submit.urb].last = drv.enqueue]
           more == submit.left > 1
           z == [submit EXCEPT !.left = @ - 1]
<1>2. /\ submit.urb # NoUrb /\ submit.left > 0
      /\ drv' = inc_enq(k, more) /\ submit' = z
      /\ UNCHANGED <<hw, cmdhw, events, type>>
  BY DEF queue_trb, Holding
<1>3. c \in {0, 1} /\ z.urb = submit.urb
  BY <1>1, Parts DEF Submits
<1>4. RingInv(inc_enq(k, more), z, hw, cmdhw.done, type, events)
  BY <1>1, <1>2, QueueRing DEF Laid
<1> HIDE DEF c
<1>5. k = [drv EXCEPT !.trb[drv.enqueue] = [cycle |-> c, urb |-> submit.urb],
                      !.td[submit.urb].last = drv.enqueue]
  OBVIOUS
<1> HIDE DEF k, z, more
<1>6. Filled(inc_enq(k, more), z)
  BY <1>1, <1>2, <1>3, <1>5, QueueFills DEF Laid, RingInv
<1> QED
  BY <1>2, <1>4, <1>6 DEF Laid, Filled, Listed

\* The first TRB is handed over, and the doorbell rung if it may be.
LEMMA HandOverLaid ==
  ASSUME TypeInv, Laid, giveback_first_trb
  PROVE  Laid' /\ (Rung(drv, submit, hw))'
<1>1. /\ drv \in DriverStates /\ submit \in Submits /\ hw \in ControllerStates
      /\ events \in Seq(Events) /\ cmdhw.done \in Nat
  BY StepParts
<1> DEFINE r == [drv.trb EXCEPT ![submit.start].cycle = submit.cycle]
           e == [drv EXCEPT !.trb = r]
           q == xhci_ring_ep_doorbell(e)
           b == e.ep_state \cap {"EP_STOP_CMD_PENDING", "SET_DEQ_PENDING", "EP_HALTED"} = {}
<1>2. /\ submit.urb # NoUrb /\ submit.left = 0 /\ Commit(q, 0)
      /\ submit' = NotSubmitting /\ UNCHANGED <<events, type>>
  <2>1. e = [drv EXCEPT !.trb[submit.start].cycle = submit.cycle]
    BY <1>1 DEF DriverStates
  <2> HIDE DEF e
  <2> QED
    BY <2>1 DEF giveback_first_trb, Holding
<1>3. r \in Rings
  <2>1. drv.trb \in Rings /\ submit.cycle \in {0, 1} /\ submit.start \in Slots
    BY <1>1, Parts DEF Submits
  <2> QED
    BY <2>1 DEF Rings
<1>4. /\ e \in DriverStates /\ e.trb = r
      /\ e.enqueue = drv.enqueue /\ e.dequeue = drv.dequeue /\ e.cycle_state = drv.cycle_state
      /\ e.td = drv.td /\ e.td_list = drv.td_list
      /\ e.cancelled_td_list = drv.cancelled_td_list /\ e.queued_deq_ptr = drv.queued_deq_ptr
      /\ e.cmds = drv.cmds /\ e.ep_state = drv.ep_state
  <2> HIDE DEF r
  <2> QED
    BY <1>1, <1>3, New_trb DEF DriverStates
<1> HIDE DEF e
<1>5. RingInv(e, NotSubmitting, hw, cmdhw.done, type, events)
  BY <1>1, <1>2, <1>4, HandOverRing DEF Laid, NotSubmitting
<1>6. Filled(e, NotSubmitting)
  BY <1>1, <1>2, <1>4, HandOverFills DEF Laid, RingInv
<1> HIDE DEF r
<1>7. q \in DriverStates /\ SameView(e, q) /\ q.bell = b
  <2>1. q \in DriverStates
    BY <1>4, DoorbellType
  <2>2. q = [e EXCEPT !.bell = b]
    BY DEF xhci_ring_ep_doorbell
  <2> HIDE DEF q, b
  <2> QED
    BY <1>4, <2>1, <2>2 DEF SameView, DriverStates
<1> HIDE DEF q
<1>8. SameView(e, drv') /\ cmdhw.done' = cmdhw.done
  BY <1>1, <1>2, <1>7, CommitIs DEF SameView
<1> QED
  BY <1>1, <1>2, <1>5, <1>6, <1>7, <1>8, FilledKeeps, ViewKeeps, CommitIs DEF Laid, Filled,
    Listed, Rung, SameView

\* A transfer is cancelled.  One the endpoint halted on already would still
\* have its reset under way, so it is marked now.
LEMMA UnlinkLaid ==
  ASSUME TypeInv, Laid, NEW u \in Urbs, xhci_urb_dequeue(u)
  PROVE  Laid' /\ (Rung(drv, submit, hw))'
<1> DEFINE l == Append(drv.cancelled_td_list, u)
           t == [drv.td EXCEPT ![u].cancel_status = "dirty"]
           e == [drv EXCEPT !.cancelled_td_list = l]
           d == [e EXCEPT !.td = t]
           q == queue_command(d, Stop)
           r == [q EXCEPT !.ep_state = q.ep_state \cup {"EP_STOP_CMD_PENDING"}]
           z == IF drv.ep_state # {} THEN d ELSE r
<1>1. /\ drv \in DriverStates /\ submit \in Submits /\ hw \in ControllerStates
      /\ events \in Seq(Events) /\ cmdhw.done \in Nat
  BY StepParts
<1>2. u \in Listed(drv) /\ u \notin Cancelled(drv)
  BY DEF xhci_urb_dequeue, Listed, Cancelled, Laid, RingInv, Cancels
<1>3. Commit(z, 0) /\ UNCHANGED <<submit, events, type>>
  BY <1>1, <1>2 DEF xhci_urb_dequeue, Cancelled, DriverStates
<1>4. l \in Seq(Urbs) /\ t \in Tds
      /\ t[u].cancel_status = "dirty"
      /\ \A v \in Urbs : t[v].first = drv.td[v].first /\ t[v].last = drv.td[v].last
      /\ \A w \in Urbs \ {u} : t[w].cancel_status = drv.td[w].cancel_status
  <2>1. drv.cancelled_td_list \in Seq(Urbs) /\ drv.td \in Tds
    BY <1>1, Parts
  <2> QED
    BY <2>1 DEF Tds
<1> HIDE DEF l, t
<1>5. /\ d \in DriverStates /\ d.cancelled_td_list = l /\ d.td = t
      /\ d.enqueue = drv.enqueue /\ d.dequeue = drv.dequeue /\ d.cycle_state = drv.cycle_state
      /\ d.trb = drv.trb /\ d.td_list = drv.td_list /\ d.queued_deq_ptr = drv.queued_deq_ptr
      /\ d.cmds = drv.cmds /\ d.ep_state = drv.ep_state
  <2>1. /\ e \in DriverStates /\ e.cancelled_td_list = l
        /\ e.enqueue = drv.enqueue /\ e.dequeue = drv.dequeue /\ e.cycle_state = drv.cycle_state
        /\ e.trb = drv.trb /\ e.td_list = drv.td_list /\ e.queued_deq_ptr = drv.queued_deq_ptr
        /\ e.cmds = drv.cmds /\ e.ep_state = drv.ep_state
    BY <1>1, <1>4, New_cancelled_td_list DEF DriverStates
  <2> HIDE DEF e
  <2> QED
    BY <1>4, <2>1, New_td DEF DriverStates
<1> HIDE DEF d
<1>6. /\ r \in DriverStates /\ SamePlaces(d, r)
      /\ r.cancelled_td_list = d.cancelled_td_list /\ r.td = d.td
      /\ r.cmds = Append(d.cmds, Stop)
      /\ r.ep_state = d.ep_state \cup {"EP_STOP_CMD_PENDING"}
  <2>1. /\ q \in DriverStates /\ q.cmds = Append(d.cmds, Stop) /\ q.ep_state = d.ep_state
        /\ q.enqueue = d.enqueue /\ q.dequeue = d.dequeue /\ q.cycle_state = d.cycle_state
        /\ q.trb = d.trb /\ q.td_list = d.td_list /\ q.queued_deq_ptr = d.queued_deq_ptr
        /\ q.cancelled_td_list = d.cancelled_td_list /\ q.td = d.td
    <3>1. q \in DriverStates
      BY <1>5, StopIsFresh, QueueCommandType
    <3> QED
      BY <1>5, <3>1, QueueCommandFields
  <2> HIDE DEF q
  <2> QED
    BY <2>1, Parts, New_ep_state DEF DriverStates, SamePlaces, Flags
<1> HIDE DEF r
<1>7. z \in DriverStates /\ SamePlaces(drv, z) /\ z.cancelled_td_list = l /\ z.td = t
      /\ \/ z.cmds = drv.cmds /\ z.ep_state = drv.ep_state
         \/ z.cmds = Append(drv.cmds, Stop) /\ drv.ep_state \subseteq z.ep_state
            /\ "SET_DEQ_PENDING" \notin z.ep_state
      /\ z.ep_state # {}
  BY <1>4, <1>5, <1>6 DEF SamePlaces
<1> HIDE DEF z
<1>8. RingInv(z, submit, hw, cmdhw.done, type, events)
  BY <1>1, <1>2, <1>4, <1>7, UnlinkRing DEF Laid, l
<1> QED
  BY <1>1, <1>3, <1>7, <1>8, FilledKeeps, ViewKeeps, CommitIs, ListedAreUrbs DEF Laid, Filled,
    Listed, Rung, SameView, SamePlaces

\* The command timer expires, or is found to have raced.
LEMMA TimerLaid ==
  ASSUME TypeInv, Laid, Rung(drv, submit, hw), TimerExpires \/ TimeoutRaced
  PROVE  Laid' /\ (Rung(drv, submit, hw))'
<1>1. SameView(drv, drv') /\ UNCHANGED <<submit, hw, cmdhw, events, type>>
  BY StepParts DEF TimerExpires, SameView, DriverStates, TimeoutRaced
<1> QED
  BY <1>1, FilledKeeps, ViewKeeps DEF Laid, Filled, Listed, Rung, SameView, SameSpot

-----------------------------------------------------------------------------
(* The events the controller has left                                      *)

\* What events are added behind does not change what a count up to one finds.
LEMMA CountPrefix ==
  ASSUME NEW T, NEW s \in Seq(T), NEW r \in Seq(T), Len(s) <= Len(r),
         \A i \in 1 .. Len(s) : r[i] = s[i], NEW i \in 0 .. Len(s)
  PROVE  CommandsIn(r, i) = CommandsIn(s, i)
<1>1. \A j \in 1 .. i : r[j] = s[j]
  OBVIOUS
<1> QED
  BY <1>1 DEF CommandsIn

\* Events of transfers are not counted.
LEMMA CountQuiet ==
  ASSUME NEW T, NEW s \in Seq(T), NEW r \in Seq(T), Len(s) <= Len(r),
         \A i \in 1 .. Len(s) : r[i] = s[i],
         \A i \in Len(s) + 1 .. Len(r) : r[i].kind = "transfer"
  PROVE  CommandsIn(r, Len(r)) = CommandsIn(s, Len(s))
<1>1. {j \in 1 .. Len(r) : r[j].kind = "command"} = {j \in 1 .. Len(s) : s[j].kind = "command"}
  OBVIOUS
<1> QED
  BY <1>1 DEF CommandsIn

\* What Signalled says of the driver is about its commands and its flags, and
\* what it says of the controller is about its state.
LEMMA SignalledSame ==
  ASSUME NEW d, NEW h, NEW n, NEW ev, Signalled(d, h, n, ev),
         NEW e, e.cmds = d.cmds, e.ep_state = d.ep_state, NEW k, k.state = h.state
  PROVE  Signalled(e, k, n, ev)
BY DEF Signalled, HaltTold, StopsFail, RunsBehind

\* A stop is queued.
LEMMA SignalledUnlink ==
  ASSUME NEW d, d.cmds \in Seq(Commands), NEW h, NEW n, NEW ev, Signalled(d, h, n, ev),
         d.ep_state = {},
         NEW e, e.cmds = Append(d.cmds, Stop), e.ep_state = {"EP_STOP_CMD_PENDING"},
         NEW k, k.state = h.state
  PROVE  Signalled(e, k, n, ev)
BY DEF Signalled, HaltTold, RunsBehind, StopsFail

\* An event that is not of a command is handled.  A halt is noted, and there
\* was only one.
LEMMA SignalledTransfer ==
  ASSUME NEW d, d.cmds \in Seq(Commands), NEW h, NEW n, NEW ev \in Seq(Events), ev # <<>>,
         Signalled(d, h, n, ev), ev[1].kind # "command",
         NEW e, NEW k, k.state = h.state,
         IF Halts(ev[1])
         THEN /\ e.ep_state = d.ep_state \cup {"EP_HALTED"}
              /\ \E soft \in BOOLEAN : e.cmds = Append(d.cmds, Command("reset", 0, 0, soft))
         ELSE e.ep_state = d.ep_state /\ e.cmds = d.cmds
  PROVE  Signalled(e, k, n, Tail(ev))
<1>1. /\ Tail(ev) \in Seq(Events) /\ Len(ev) \in Nat \ {0} /\ Len(Tail(ev)) = Len(ev) - 1
      /\ Head(ev) = ev[1] /\ 1 \in DOMAIN ev
  OBVIOUS
<1>2. \A i \in DOMAIN Tail(ev) :
        /\ i \in Nat /\ i + 1 \in DOMAIN ev /\ Tail(ev)[i] = ev[i + 1]
        /\ CommandsIn(Tail(ev), i) = CommandsIn(ev, i + 1)
        /\ 1 < i + 1
  BY <1>1, TailIndex
<1>3. Counted(n, Tail(ev))
  <2>1. CommandsIn(ev, (Len(ev) - 1) + 1) = CommandsIn(Tail(ev), Len(ev) - 1) + 0
    BY <1>1, CountTail
  <2> QED
    BY <1>1, <2>1, CountStep DEF Signalled, Counted
<1>4. HaltTold(e, k, Tail(ev))
  <2>1. CASE Halts(ev[1])
    BY <1>1, <1>2, <2>1 DEF Signalled, RunsBehind, Halts, HaltTold
  <2>2. CASE ~Halts(ev[1])
    <3>1. ASSUME NEW i \in DOMAIN ev, Halts(ev[i])
          PROVE  i - 1 \in DOMAIN Tail(ev) /\ Halts(Tail(ev)[i - 1])
      BY <1>1, <1>2, <2>2, <3>1
    <3> QED
      BY <1>2, <2>2, <3>1 DEF Signalled, HaltTold
  <2> QED
    BY <2>1, <2>2
<1>5. \A i \in DOMAIN d.cmds : i \in DOMAIN e.cmds /\ e.cmds[i] = d.cmds[i]
  <2>1. CASE Halts(ev[1])
    <3>1. PICK soft \in BOOLEAN : e.cmds = Append(d.cmds, Command("reset", 0, 0, soft))
      BY <2>1
    <3> QED
      BY <3>1
  <2>2. CASE ~Halts(ev[1])
    BY <2>2
  <2> QED
    BY <2>1, <2>2
<1>6. RunsBehind(k, Tail(ev))
  BY <1>2 DEF Signalled, RunsBehind
<1> QED
  BY <1>2, <1>3, <1>4, <1>5, <1>6 DEF Signalled, StopsFail

\* An event of a command is handled: no halt waits behind it, so one that the
\* flags do not tell of cannot be.
LEMMA SignalledCompletion ==
  ASSUME NEW d, d.cmds \in Seq(Commands), d.cmds # <<>>,
         NEW h, NEW n \in Nat, NEW ev \in Seq(Events), ev # <<>>,
         Signalled(d, h, n, ev), ev[1].kind = "command",
         NEW e, NEW k, k.state = h.state,
         e.cmds = Tail(d.cmds) \/ \E c : e.cmds = Append(Tail(d.cmds), c),
         h.state = "halted" /\ "EP_HALTED" \in d.ep_state => "EP_HALTED" \in e.ep_state
  PROVE  Signalled(e, k, n - 1, Tail(ev))
<1>1. /\ Tail(ev) \in Seq(Events) /\ Len(ev) \in Nat \ {0} /\ Len(Tail(ev)) = Len(ev) - 1
      /\ Head(ev) = ev[1] /\ 1 \in DOMAIN ev
  OBVIOUS
<1>2. \A i \in DOMAIN Tail(ev) :
        /\ i \in Nat /\ i + 1 \in DOMAIN ev /\ Tail(ev)[i] = ev[i + 1]
        /\ CommandsIn(ev, i + 1) = CommandsIn(Tail(ev), i) + 1
        /\ CommandsIn(Tail(ev), i) \in Nat
        /\ 1 < i + 1
  BY <1>1, TailIndex
<1>3. Counted(n - 1, Tail(ev))
  <2>1. CommandsIn(ev, (Len(ev) - 1) + 1) = CommandsIn(Tail(ev), Len(ev) - 1) + 1
    BY <1>1, CountTail
  <2> QED
    BY <1>1, <2>1, CountStep DEF Counted, Signalled
<1>4. \A i \in Nat : i >= 1 /\ i + 1 \in DOMAIN d.cmds =>
        i \in DOMAIN e.cmds /\ e.cmds[i] = d.cmds[i + 1]
  <2>1. \A i \in Nat : i >= 1 /\ i + 1 \in DOMAIN d.cmds =>
          i \in DOMAIN Tail(d.cmds) /\ Tail(d.cmds)[i] = d.cmds[i + 1]
    OBVIOUS
  <2>2. CASE \E c : e.cmds = Append(Tail(d.cmds), c)
    <3>1. PICK c : e.cmds = Append(Tail(d.cmds), c)
      BY <2>2
    <3> DEFINE t == Tail(d.cmds)
    <3> HIDE DEF t
    <3> QED
      BY <2>1, <3>1 DEF t
  <2> QED
    BY <2>1, <2>2
<1>5. StopsFail(e, Tail(ev))
  <2> SUFFICES ASSUME NEW i \in DOMAIN Tail(ev),
                      Tail(ev)[i].kind = "command", Tail(ev)[i].code = "ctx"
               PROVE  /\ CommandsIn(Tail(ev), i) \in DOMAIN e.cmds
                      /\ e.cmds[CommandsIn(Tail(ev), i)].op = "stop"
    BY DEF StopsFail
  <2>1. CommandsIn(Tail(ev), i) >= 1
    <3>1. CommandsIn(Tail(ev), i - 1) < CommandsIn(Tail(ev), i)
      <4>1. i - 1 \in Nat /\ i \in Nat /\ i - 1 <= i /\ (i - 1) + 1 = i /\ i - 1 < i
        BY <1>1
      <4> QED
        BY <4>1, CountGrows
    <3> QED
      BY <1>1, <1>2, <3>1, CountStep
  <2> QED
    BY <1>2, <1>4, <2>1 DEF Signalled, StopsFail
<1>6. RunsBehind(k, Tail(ev))
  <2>1. \A i, j \in DOMAIN Tail(ev) : i < j => i + 1 < j + 1
    BY <1>2
  <2> QED
    BY <1>2, <2>1 DEF Signalled, RunsBehind
<1> QED
  BY <1>1, <1>2, <1>3, <1>5, <1>6 DEF Signalled, HaltTold, RunsBehind, Halts

\* While the endpoint runs, what waits for the driver is of transfers that
\* ended well, or of stops that came too early.
LEMMA WaitingWhileRunning ==
  ASSUME TypeInv, PairInv, Intact, StopInv, Signalled(drv, hw, cmdhw.done, events),
         hw.state = "running"
  PROVE  /\ "EP_HALTED" \notin drv.ep_state
         /\ \A i \in DOMAIN events :
              /\ ~Halts(events[i])
              /\ events[i].kind = "command" => events[i].code = "ctx"
<1>1. events \in Seq(Events) /\ drv.cmds \in Seq(Commands) /\ cmdhw.done \in 0 .. Len(drv.cmds)
  BY Parts DEF TypeInv, TypeOK
<1>2. ASSUME NEW i \in DOMAIN events
      PROVE  /\ ~Halts(events[i])
             /\ events[i].kind = "command" => events[i].code = "ctx"
  BY <1>1, RunningMeans DEF StopInv, HaltLasts, Events, OkParked, PairInv, Ops, FlagOf, Paired,
    Parked
<1> QED
  BY <1>1, <1>2, RunningMeans DEF Ops, FlagOf, PairInv, Paired, Parked

\* A running endpoint reports transfers, and may halt if no stop has failed.
LEMMA SignalledRun ==
  ASSUME TypeInv, PairInv, Intact, StopInv, Signalled(drv, hw, cmdhw.done, events),
         hw.state = "running",
         NEW ev \in Seq(Events), Len(events) <= Len(ev),
         \A i \in 1 .. Len(events) : ev[i] = events[i],
         \A i \in Len(events) + 1 .. Len(ev) : ev[i].kind = "transfer",
         NEW k,
         \/ /\ k.state = "running"
            /\ \A i \in Len(events) + 1 .. Len(ev) : ~Halts(ev[i])
         \/ /\ Len(ev) = Len(events) + 1 /\ Halts(ev[Len(events) + 1])
            /\ ~FailedStopWaits
  PROVE  Signalled(drv, k, cmdhw.done, ev)
<1>1. events \in Seq(Events) /\ Len(events) \in Nat /\ Len(ev) \in Nat
  BY DEF TypeInv, TypeOK
<1>2. \A i \in DOMAIN ev : i \in 1 .. Len(events) \/ i \in Len(events) + 1 .. Len(ev)
  BY <1>1
<1>3. DOMAIN events = 1 .. Len(events) /\ DOMAIN ev = 1 .. Len(ev)
  BY <1>1
<1>4. CASE /\ k.state = "running"
           /\ \A i \in Len(events) + 1 .. Len(ev) : ~Halts(ev[i])
  <2>1. \A i \in DOMAIN ev : ~Halts(ev[i]) /\ (ev[i].kind = "command" => ev[i].code = "ctx")
    BY <1>2, <1>3, <1>4, WaitingWhileRunning
  <2> QED
    BY <1>1, <1>2, <1>4, <2>1, CountQuiet, CountPrefix DEF Signalled, RunsBehind, HaltTold,
      Counted, StopsFail
<1>5. CASE /\ Len(ev) = Len(events) + 1 /\ Halts(ev[Len(events) + 1])
           /\ ~FailedStopWaits
  BY <1>1, <1>2, <1>3, <1>5, CountQuiet, CountPrefix, WaitingWhileRunning DEF HaltTold,
    FailedStopWaits, RunsBehind, Signalled, Counted, StopsFail
<1> QED
  BY <1>4, <1>5

\* A command is obeyed.  It is a stop if it fails, and the only one, so none
\* of those waiting has failed.
LEMMA SignalledCommand ==
  ASSUME TypeInv, PairInv, Intact, StopInv, Signalled(drv, hw, cmdhw.done, events), HwCommand
  PROVE  Signalled(drv, hw', cmdhw.done + 1, events')
<1> DEFINE n == cmdhw.done + 1
           c == drv.cmds[n]
           e == [kind |-> "command", code |-> Obeyed(c).code]
<1>1. /\ events \in Seq(Events) /\ Len(events) \in Nat
      /\ drv.cmds \in Seq(Commands) /\ Len(drv.cmds) \in Nat /\ hw \in ControllerStates
      /\ cmdhw.done \in 0 .. Len(drv.cmds) /\ drv \in DriverStates
  BY Parts DEF TypeInv, TypeOK
<1>2. /\ cmdhw.done < Len(drv.cmds) /\ hw' = Obeyed(c).to /\ events' = Append(events, e)
  BY DEF HwCommand
<1>3. n \in DOMAIN drv.cmds /\ n \in Nat /\ n > cmdhw.done
  BY <1>1, <1>2
<1>4. c \in Fresh /\ c.op \in Ops
  BY <1>3 DEF PairInv, Paired
<1>5. e.kind = "command" /\ e \in Events /\ hw' \in ControllerStates
  BY <1>1, <1>2, <1>4, ObeyedType DEF Fresh
<1>6. e.code = "ctx" => c.op = "stop" /\ hw' = hw
  <2>1. CASE c.op = "setdeq"
    BY <1>3, <2>1 DEF StopInv, SetsParked, Parked, Obeyed
  <2>2. CASE c.op = "reset"
    BY <1>3, <2>2 DEF StopInv, ResetsHalted, Obeyed
  <2>3. CASE c.op = "stop"
    BY <1>2, <2>3 DEF Obeyed
  <2> QED
    BY <1>4, <2>1, <2>2, <2>3 DEF Ops
<1>7. hw'.state = "halted" => hw.state = "halted"
  <2>1. CASE c.op = "stop" /\ hw.state = "running"
    BY <1>1, <1>2, <2>1 DEF Obeyed, ControllerStates
  <2>2. CASE c.op = "setdeq" /\ hw.state = "stopped"
    <3> DEFINE p == c.ptr
               y == c.cycle
    <3> HIDE DEF p, y
    <3> QED
      BY <1>1, <1>2, <2>2 DEF ControllerStates, Obeyed
  <2>3. CASE c.op = "reset" /\ hw.state = "halted"
    BY <2>3
  <2>4. CASE /\ ~(c.op = "stop" /\ hw.state = "running")
             /\ ~(c.op = "setdeq" /\ hw.state = "stopped")
             /\ ~(c.op = "reset" /\ hw.state = "halted")
    BY <1>2, <1>4, <2>4 DEF Obeyed, Ops
  <2> QED
    BY <2>1, <2>2, <2>3, <2>4
<1>8. hw.state = "running" /\ c.op # "stop" => hw'.state = "running"
  BY <1>3, <1>4 DEF StopInv, SetsParked, Parked, ResetsHalted, Ops
<1>9. \A i \in DOMAIN drv.cmds : i # n => drv.cmds[i].op # c.op
  BY <1>3 DEF PairInv, Paired
<1> HIDE DEF e, c
<1>10. /\ Len(events') = Len(events) + 1 /\ events'[Len(events) + 1] = e
       /\ \A j \in 1 .. Len(events) : events'[j] = events[j]
       /\ DOMAIN events' = 1 .. Len(events) + 1 /\ DOMAIN events = 1 .. Len(events)
       /\ \A j \in DOMAIN events' : j \in DOMAIN events \/ j = Len(events) + 1
  BY <1>1, <1>2
<1>11. ASSUME NEW i \in DOMAIN events, events[i].kind = "command", events[i].code = "ctx"
       PROVE  c.op # "stop"
  BY <1>1, <1>9, <1>11, CountGrows DEF Signalled, StopsFail, Counted
<1> HIDE DEF n
<1> QED
  BY <1>1, <1>2, <1>3, <1>5, <1>6, <1>7, <1>8, <1>10, <1>11, EventsGrow, CountAppend
  DEF Signalled, n, Counted, RunsBehind, HaltTold, Halts, StopsFail, c

\* A step of the controller reports what the driver is then told.
LEMMA ControllerSignals ==
  ASSUME TypeInv, TypeInv', PairInv, Intact, StopInv,
         Signalled(drv, hw, cmdhw.done, events), Controller, HaltRaces \subseteq {FALSE}
  PROVE  (Signalled(drv, hw, cmdhw.done, events))'
<1>1. /\ events \in Seq(Events) /\ events' \in Seq(Events) /\ hw \in ControllerStates
      /\ Len(events) \in Nat /\ cmdhw \in [run : BOOLEAN, done : 0 .. Len(drv.cmds)]
  BY DEF TypeInv, TypeOK
<1>2. drv' = drv
  BY ControllerKeeps
<1>3. CASE HwStart
  BY <1>1, <1>2, <1>3 DEF HwStart, ControllerStates, Signalled, HaltTold, RunsBehind,
    StopsFail, Counted
<1>4. ASSUME hw'.state = hw.state, events' = events, cmdhw' = cmdhw
      PROVE  (Signalled(drv, hw, cmdhw.done, events))'
  BY <1>2, <1>4, SignalledSame
<1>5. CASE HwSkip
  BY <1>1, <1>4, <1>5, AdvanceFields DEF HwSkip
<1>6. CASE HwTransfer
  <2> DEFINE t == Transfer("ok")
             l == [Transfer("ok") EXCEPT !.pos = drv.td[Running].last]
  <2>1. t.kind = "transfer" /\ l.kind = "transfer" /\ ~Halts(t) /\ ~Halts(l)
    BY DEF Transfer, Halts
  <2>2. \/ events' = events
        \/ events' = Append(events, t)
        \/ events' = events \o <<t, l>>
    BY <1>6 DEF HwTransfer
  <2>3. \E n \in Nat : hw' = Advance(n)
    <3> DEFINE rest == Ahead(drv.td[Running].last, hw.deq)
    <3> HIDE DEF rest
    <3> QED
      BY <1>6, TransferEvents DEF rest, HwTransfer, Codes
  <2> HIDE DEF t, l
  <2>4. /\ Len(events) <= Len(events') /\ \A i \in 1 .. Len(events) : events'[i] = events[i]
        /\ \A i \in Len(events) + 1 .. Len(events') :
             events'[i].kind = "transfer" /\ ~Halts(events'[i])
    <3>1. CASE events' = events
      BY <1>1, <3>1
    <3>2. CASE events' = Append(events, t)
      BY <1>1, <2>1, <3>2
    <3>3. CASE events' = events \o <<t, l>>
      BY <1>1, <2>1, <3>3
    <3> QED
      BY <2>2, <3>1, <3>2, <3>3
  <2> QED
    BY <1>1, <1>2, <1>6, <2>3, <2>4, SignalledRun, AdvanceFields DEF HwTransfer, HwReady
<1>7. CASE HwHalt
  <2>1. PICK code \in {"error", "stall"} : events' = Append(events, Transfer(code))
    BY <1>7 DEF HwHalt
  <2> DEFINE a == Transfer(code)
  <2>2. a.kind = "transfer" /\ Halts(a)
    BY DEF Transfer, Halts
  <2>3. hw.state = "running" /\ cmdhw' = cmdhw /\ ~FailedStopWaits
    BY <1>7 DEF HwHalt, HwReady
  <2> HIDE DEF a
  <2>4. /\ Len(events') = Len(events) + 1 /\ events'[Len(events) + 1] = a
        /\ \A i \in 1 .. Len(events) : events'[i] = events[i]
    BY <1>1, <2>1 DEF a
  <2>5. Len(events) <= Len(events')
    BY <1>1, <2>4
  <2> QED
    BY <1>1, <1>2, <2>2, <2>3, <2>4, <2>5, SignalledRun
<1>8. CASE HwCommand
  BY <1>1, <1>2, <1>8, SignalledCommand DEF HwCommand
<1> QED
  BY <1>3, <1>5, <1>6, <1>7, <1>8 DEF Controller

\* The controller stops only for a command, whose flag holds the doorbell back.
LEMMA ControllerRung ==
  ASSUME TypeInv, PairInv, Intact, Rung(drv, submit, hw), Controller
  PROVE  (Rung(drv, submit, hw))'
<1>1. hw \in ControllerStates /\ cmdhw.done \in 0 .. Len(drv.cmds) /\ drv.cmds \in Seq(Commands)
  BY Parts DEF TypeInv, TypeOK
<1>2. CASE HwStart
  BY <1>1, <1>2 DEF HwStart, Rung, ControllerStates
<1>3. CASE HwSkip
  BY <1>1, <1>3, AdvanceFields DEF HwSkip, HwReady, Rung
<1>4. CASE HwTransfer
  <2> DEFINE rest == Ahead(drv.td[Running].last, hw.deq)
  <2> HIDE DEF rest
  <2> QED
    BY <1>1, <1>4, AdvanceFields, TransferEvents DEF Rung, HwTransfer, Codes, HwReady
<1>5. CASE HwHalt
  BY <1>1, <1>5, HaltedMeans DEF Rung
<1>6. CASE HwCommand
  BY <1>1, <1>6, ControllerKeeps DEF HwCommand, PairInv, Paired, Rung
<1> QED
  BY <1>2, <1>3, <1>4, <1>5, <1>6 DEF Controller

-----------------------------------------------------------------------------
(* The handlers keep the ring and the events in order                      *)

\* If nothing is lost, an event is handled with every command allocated.
LEMMA EventCommits ==
  ASSUME TypeInv, drv.log' = {}, NEW elapsed \in BOOLEAN, xhci_handle_event_trb(elapsed)
  PROVE  /\ events # <<>> /\ events' = Tail(events) /\ submit.urb = NoUrb
         /\ UNCHANGED <<submit, type>>
         /\ Handled(events[1], elapsed, TRUE) \in DriverStates
         /\ Commit(Handled(events[1], elapsed, TRUE), Passed)
<1> DEFINE e == Head(events)
           r == Handled(e, elapsed, TRUE)
           bad == Handled(e, elapsed, FALSE)
           noted == [bad EXCEPT !.log = @ \cup {"alloc"}]
<1>1. /\ events # <<>> /\ events' = Tail(events) /\ submit.urb = NoUrb
      /\ UNCHANGED <<submit, type>>
      /\ Commit(r, Passed) \/ Commit(noted, Passed)
  BY DEF xhci_handle_event_trb, Unlocked, Holding
<1>2. ~Commit(noted, Passed)
  <2> SUFFICES ASSUME Commit(noted, Passed)
               PROVE  FALSE
    OBVIOUS
  <2> HIDE DEF bad
  <2>1. noted.log = bad.log \cup {"alloc"}
    BY HandledType DEF DriverStates, xhci_handle_event_trb
  <2> HIDE DEF noted
  <2> QED
    BY <2>1 DEF Commit
<1>3. e = events[1]
  BY <1>1 DEF TypeInv, TypeOK
<1> HIDE DEF r, noted
<1> QED
  BY <1>1, <1>2, <1>3, HandledType DEF r, xhci_handle_event_trb

\* What a completion says fits the command at the head of the list: it was a
\* stop if it failed, and nothing that ran since is still to be handled.
LEMMA CompletionAnswers ==
  ASSUME TypeInv, PairInv, Intact, Signalled(drv, hw, cmdhw.done, events),
         events # <<>>, events[1].kind = "command"
  PROVE  /\ events[1].code \in {"ok", "ctx"}
         /\ Answered(drv, hw, cmdhw.done, events, events[1].code)
<1>1. /\ events \in Seq(Events) /\ drv.cmds \in Seq(Commands) /\ Len(drv.cmds) \in Nat
      /\ cmdhw.done \in 0 .. Len(drv.cmds) /\ Len(events) \in Nat \ {0}
  BY Parts DEF TypeInv, TypeOK
<1>2. 1 \in DOMAIN events /\ events[1] \in Events
  BY <1>1
<1>3. events[1].code = "ctx" => drv.cmds[1].op = "stop"
  BY <1>2, CountStep DEF Signalled, StopsFail
<1>4. ASSUME NEW j \in DOMAIN events, events[j].kind = "transfer"
      PROVE  events[1].code = "ctx" /\ hw.state = "running" /\ ~Halts(events[j])
  BY <1>1, <1>2, <1>4 DEF Signalled, RunsBehind
<1> QED
  BY <1>1, <1>2, <1>3, <1>4, EventHasCommand DEF Answered, Signalled, HaltTold, Halts, Events,
    PairInv

\* The event of a transfer is handled.
LEMMA TransferGood ==
  ASSUME TypeInv, PairInv, Clean, StopInv, Good, drv.log' = {},
         NEW elapsed \in BOOLEAN, xhci_handle_event_trb(elapsed), events[1].kind = "transfer"
  PROVE  Good' /\ OwnOutcome
<1> DEFINE r == Handled(events[1], elapsed, TRUE)
<1>1. /\ drv \in DriverStates /\ hw \in ControllerStates /\ type \in Types
      /\ events \in Seq(Events) /\ cmdhw.done \in Nat /\ cmdhw.done \in Int /\ drv.bell = FALSE
  <2>1. /\ drv \in DriverStates /\ hw \in ControllerStates /\ type \in Types
        /\ events \in Seq(Events) /\ cmdhw.done \in Nat /\ cmdhw.done \in Int
    BY StepParts
  <2> QED
    BY <2>1 DEF TypeInv, StepInv
<1>2. /\ events # <<>> /\ events' = Tail(events) /\ submit.urb = NoUrb
      /\ UNCHANGED <<submit, type>> /\ r \in DriverStates /\ Commit(r, Passed)
  BY EventCommits
<1>3. 1 \in DOMAIN events /\ Head(events) = events[1]
  BY <1>1, <1>2
<1>4. r = handle_tx_event(drv, hw, type, events[1], TRUE)
  BY DEF Handled
<1> HIDE DEF r
<1>5. /\ RingInv(r, submit, hw, cmdhw.done, type, Tail(events)) /\ TransferDone(drv, events[1], r)
      /\ Leaves(drv, r, {events[1].urb})
  BY <1>1, <1>2, <1>3, <1>4, TransferRing DEF Good, Laid, Signalled, HaltTold, StopInv,
    HaltLasts, PairInv, Clean, Intact
<1>6. /\ SameView(r, drv') /\ SameSpot(hw, hw') /\ hw.state' = hw.state
      /\ hw.db' <=> hw.db \/ (r.bell /\ hw.state = "stopped")
      /\ cmdhw.done' = cmdhw.done - 0
  BY <1>1, <1>2, <1>3, CommitIs DEF Passed
<1>7. cmdhw.done' = cmdhw.done
  BY <1>1, <1>6
<1>8. Signalled(drv', hw', cmdhw.done, Tail(events))
  <2>1. drv.cmds \in Seq(Commands)
    BY <1>1, Parts
  <2> QED
    BY <1>1, <1>2, <1>5, <1>6, <2>1, SignalledTransfer DEF Good, TransferDone, SameView
<1>9. (Rung(drv, submit, hw))'
  <2> SUFFICES ASSUME hw'.state = "stopped", ~hw'.db, drv'.ep_state = {}, drv'.td_list # <<>>,
                      submit'.urb = NoUrb
               PROVE  FALSE
    BY DEF Rung
  <2>1. r.td_list[1] \in Listed(r)
    BY <1>2, <1>6, Parts DEF Listed, ToSet, SameView
  <2>2. Listed(drv) # {}
    BY <1>5, <2>1 DEF TransferDone
  <2> QED
    BY <1>2, <1>5, <1>6, <2>2 DEF Good, Rung, Listed, ToSet, TransferDone, SameView
<1> QED
  BY <1>2, <1>3, <1>5, <1>6, <1>7, <1>8, <1>9, FilledKeeps, ViewKeeps, ListedAreUrbs DEF Good,
    OwnOutcome, Leaves, Listed, SameView, Laid, Filled, TransferDone

\* The completion of a command is handled.
LEMMA CompletionGood ==
  ASSUME TypeInv, PairInv, Clean, StopInv, Good, drv.log' = {},
         NEW elapsed \in BOOLEAN, xhci_handle_event_trb(elapsed), events[1].kind = "command"
  PROVE  Good' /\ OwnOutcome
<1> DEFINE r == Handled(events[1], elapsed, TRUE)
<1>1. /\ drv \in DriverStates /\ hw \in ControllerStates /\ type \in Types
      /\ events \in Seq(Events) /\ cmdhw.done \in Nat /\ cmdhw.done \in Int
      /\ drv.cmds \in Seq(Commands)
  BY StepParts
<1>2. /\ events # <<>> /\ events' = Tail(events) /\ submit.urb = NoUrb
      /\ UNCHANGED <<submit, type>> /\ r \in DriverStates /\ Commit(r, Passed)
  BY EventCommits
<1>3. 1 \in DOMAIN events /\ Head(events) = events[1]
  BY <1>1, <1>2
<1>4. Paired(drv.cmds, drv.ep_state) /\ Intact
  BY DEF PairInv, Clean, Intact
<1>5. drv.cmds # <<>> /\ cmdhw.done >= 1
  BY <1>3, EventHasCommand
<1>6. Passed = 1
  BY <1>1, <1>3, <1>4, <1>5 DEF Paired, Fresh, Passed
<1>7. r = handle_cmd_completion(drv, hw, events[1].code, elapsed, TRUE)
  BY DEF Handled
<1> HIDE DEF r
<1>8. events[1].code \in {"ok", "ctx"} /\ Answered(drv, hw, cmdhw.done, events, events[1].code)
  BY <1>2, <1>4, CompletionAnswers DEF Good
<1>9. /\ RingInv(r, submit, hw, cmdhw.done - 1, type, Tail(events))
      /\ Leaves(drv, r, Cancelled(drv))
      /\ Filled(r, submit) /\ Belling(r)
  <2>1. RingInv(drv, submit, hw, cmdhw.done, type, events) /\ Filled(drv, submit)
    BY DEF Good, Laid
  <2>2. events[1].kind = "command"
    OBVIOUS
  <2>3. /\ submit.urb = NoUrb /\ events # <<>> /\ Paired(drv.cmds, drv.ep_state)
        /\ drv \in DriverStates /\ hw \in ControllerStates /\ events \in Seq(Events)
        /\ cmdhw.done \in Int /\ elapsed \in BOOLEAN
    BY <1>1, <1>2, <1>4
  <2>4. Completes(drv, submit, hw, cmdhw.done, type, events, r)
    BY <1>7, <1>8, <2>1, <2>2, <2>3, CompletionRing
  <2> QED
    BY <2>4 DEF Completes
<1>10. Signalled(drv', hw', cmdhw.done - 1, Tail(events))
  <2>1. /\ Moved(drv, drv', hw, Head(drv.cmds), Head(events).code, elapsed, drv.log' # {})
        /\ "EP_HALTED" \in drv.ep_state /\ Head(drv.cmds).op # "reset"
             => "EP_HALTED" \in drv.ep_state'
    BY <1>3, <1>4, EventEffect
  <2>2. hw.state = "halted" => Head(drv.cmds).op # "reset"
    BY <1>1, <1>5 DEF StopInv, ResetsParked, Parked
  <2> QED
    BY <1>1, <1>2, <1>5, <1>6, <2>1, <2>2, SignalledCompletion, CommitIs DEF Good, Moved
<1> QED
  BY <1>1, <1>2, <1>6, <1>9, <1>10, FilledKeeps, ViewKeeps, CommitIs DEF Good, OwnOutcome,
    Leaves, Listed, Cancelled, SameView, Rung, Belling, Laid, Filled

\* The command ring says that it has stopped.
LEMMA RingStoppedGood ==
  ASSUME TypeInv, PairInv, Clean, StopInv, Good, drv.log' = {},
         NEW elapsed \in BOOLEAN, xhci_handle_event_trb(elapsed),
         events[1].kind \notin {"transfer", "command"}
  PROVE  Good' /\ OwnOutcome
<1>1. /\ drv \in DriverStates /\ hw \in ControllerStates
      /\ events \in Seq(Events) /\ cmdhw.done \in Nat /\ drv.bell = FALSE
  BY StepParts DEF TypeInv, StepInv
<1>2. /\ events # <<>> /\ events' = Tail(events) /\ submit.urb = NoUrb
      /\ UNCHANGED <<submit, type>> /\ Commit(drv, Passed)
  BY EventCommits DEF Handled
<1>3. /\ SameView(drv, drv') /\ SameSpot(hw, hw') /\ hw.state' = hw.state
      /\ hw.db' <=> hw.db
      /\ cmdhw.done' = cmdhw.done
  BY <1>1, <1>2, CommitIs DEF Passed
<1>4. RingInv(drv, submit, hw, cmdhw.done, type, Tail(events))
  BY <1>1, <1>2, TailRing DEF Good, Laid
<1> QED
  BY <1>1, <1>2, <1>3, <1>4, Parts, SignalledTransfer, FilledKeeps, ViewKeeps DEF Good,
    OwnOutcome, SameView, Rung, Halts, Laid, Filled, Listed

-----------------------------------------------------------------------------
(* The invariant of the ring, step by step                                 *)

\* The empty ring is laid out as it should be.
LEMMA OrderInit ==
  ASSUME Init
  PROVE  OrderInv
<1>1. /\ drv.enqueue = 0 /\ drv.dequeue = 0 /\ drv.cycle_state = 1
      /\ drv.td_list = <<>> /\ drv.cancelled_td_list = <<>> /\ drv.cmds = <<>>
      /\ drv.ep_state = {}
      /\ drv.trb = [p \in Slots |-> [cycle |-> 0, urb |-> NoUrb]]
      /\ submit.urb = NoUrb /\ hw.deq = 0 /\ hw.cycle = 1 /\ hw.cached = NoUrb
      /\ hw.state = "stopped" /\ cmdhw.done = 0 /\ events = <<>>
  BY DEF Init, NotSubmitting
<1>2. /\ Listed(drv) = {} /\ Cancelled(drv) = {}
      /\ DOMAIN drv.td_list = {} /\ DOMAIN drv.cmds = {} /\ DOMAIN events = {}
  BY <1>1 DEF Listed, Cancelled, ToSet
<1>3. \A p \in Slots :
        /\ p \in Nat /\ drv.trb[p].cycle = 0 /\ drv.trb[p].urb = NoUrb
        /\ Lap(drv, p) = IF p = 0 THEN 1 ELSE 0
  BY <1>1, SlotsAreNumbers DEF Lap
<1>4. Cycled(drv, submit)
  BY <1>1, <1>3 DEF Cycled
<1>5. Roomy(drv, submit) /\ Apart(drv)
  BY <1>1 DEF Roomy, Apart
<1>6. Placed(drv, submit)
  BY <1>2 DEF Placed
<1>7. Placed_hw(drv, submit, hw)
  BY <1>1, <1>3, BackIs, LowIs, TypeInit DEF DriverStates, Edge, Placed_hw, TypeInv, TypeOK
<1>8. Slotted(drv, hw) /\ Held(drv, hw)
  BY <1>1, <1>3 DEF Slotted, Held
<1>9. /\ Setting(drv, submit, hw, cmdhw.done, events) /\ Cancels(drv, hw)
      /\ Resetting(drv, hw)
  BY <1>2 DEF Setting, Cancels, Resetting
<1>10. Reported(drv, submit, hw, type, events) /\ Awaited(drv, hw, type, events)
  BY <1>2 DEF Reported, Awaited
<1>11. Filled(drv, submit)
  BY <1>2 DEF Filled
<1> QED
  BY <1>1, <1>2, <1>4, <1>5, <1>6, <1>7, <1>8, <1>9, <1>10, <1>11, CountStep DEF OrderInv,
    Good, Laid, RingInv, Rung, Counted, HaltTold, StopsFail, RunsBehind, Signalled

\* A step of the driver's that leaves the commands, the flags and the events
\* alone keeps what it is told, and what it lost.
LEMMA AsideSignals ==
  ASSUME Aside, Signalled(drv, hw, cmdhw.done, events)
  PROVE  (Signalled(drv, hw, cmdhw.done, events))' /\ (Clean' => Clean)
BY SignalledSame DEF Aside, Belled, Clean, Signalled, Counted, HaltTold, StopsFail, RunsBehind

\* Writing a transfer takes no transfer off the list.
LEMMA SubmissionKeepsList ==
  ASSUME TypeInv,
         \/ \E u \in Urbs, n \in Sizes : prepare_transfer(u, n)
         \/ queue_trb \/ giveback_first_trb \/ TimerExpires \/ TimeoutRaced
  PROVE  Listed(drv) \subseteq Listed(drv')
<1>1. drv \in DriverStates
  BY DEF TypeInv, TypeOK
<1>2. ASSUME NEW d
      PROVE  GiveLink(d).td_list = d.td_list
  BY DEF GiveLink
<1>3. CASE \E u \in Urbs, n \in Sizes : prepare_transfer(u, n)
  <2>1. PICK u \in Urbs, n \in Sizes : prepare_transfer(u, n)
    BY <1>3
  <2> DEFINE d == prepare_ring(drv)
  <2>2. d \in DriverStates /\ d.td_list = drv.td_list
    BY <1>1, <1>2, GiveLinkType DEF prepare_ring
  <2>3. drv' = [d EXCEPT !.td_list = Append(@, u), !.td[u] =
                 [first |-> d.enqueue, last |-> d.enqueue, cancel_status |-> "dirty"]]
    BY <2>1 DEF prepare_transfer
  <2> HIDE DEF d
  <2> QED
    BY <2>2, <2>3, ToSetAppend DEF Listed, DriverStates
<1>4. CASE queue_trb
  <2> DEFINE cycle == IF drv.enqueue = submit.start THEN 1 - submit.cycle ELSE drv.cycle_state
             d == [drv EXCEPT !.trb[drv.enqueue] = [cycle |-> cycle, urb |-> submit.urb],
                              !.td[submit.urb].last = drv.enqueue]
             k == [d EXCEPT !.enqueue = next_trb(@)]
  <2>1. drv' = inc_enq(d, submit.left > 1)
    BY <1>4 DEF queue_trb
  <2>2. k.td_list = drv.td_list
    BY <1>1 DEF DriverStates
  <2> HIDE DEF d
  <2>3. drv' = GiveLink(k) \/ drv' = k
    BY <2>1 DEF inc_enq
  <2> HIDE DEF k
  <2> QED
    BY <1>2, <2>2, <2>3 DEF Listed
<1>5. CASE giveback_first_trb
  <2> DEFINE d == [drv EXCEPT !.trb[submit.start].cycle = submit.cycle]
             e == xhci_ring_ep_doorbell(d)
  <2>1. Commit(e, 0)
    BY <1>5 DEF giveback_first_trb
  <2>2. e.td_list = drv.td_list
    BY <1>1 DEF xhci_ring_ep_doorbell, DriverStates
  <2> HIDE DEF e
  <2> QED
    BY <2>1, <2>2 DEF Listed, Commit
<1>6. CASE TimerExpires \/ TimeoutRaced
  BY <1>1, <1>6 DEF TimerExpires, TimeoutRaced, DriverStates, Listed
<1> QED
  BY <1>3, <1>4, <1>5, <1>6

\* Nor does an unlink, which only marks it.
LEMMA UnlinkKeepsList ==
  ASSUME TypeInv, NEW u \in Urbs, xhci_urb_dequeue(u)
  PROVE  Listed(drv) \subseteq Listed(drv')
<1> DEFINE d == IF u \in ToSet(drv.cancelled_td_list) THEN drv
                ELSE [drv EXCEPT !.cancelled_td_list = Append(@, u),
                                 !.td[u].cancel_status = "dirty"]
           r == [queue_command(d, Stop) EXCEPT !.ep_state = @ \cup {"EP_STOP_CMD_PENDING"}]
           z == IF drv.ep_state # {} THEN d ELSE r
<1>1. d.td_list = drv.td_list
  BY DEF DriverStates, TypeInv, TypeOK
<1>2. Commit(z, 0)
  BY DEF xhci_urb_dequeue
<1> HIDE DEF d
<1>3. r.td_list = d.td_list
  BY DEF queue_command
<1> HIDE DEF r
<1>4. z.td_list = drv.td_list
  BY <1>1, <1>3
<1> HIDE DEF z
<1> QED
  BY <1>2, <1>4 DEF Listed, Commit

\* The steps that write a transfer, and the timers.
LEMMA SubmissionOrder ==
  ASSUME TypeInv, OrderInv, Clean',
         \/ \E u \in Urbs, n \in Sizes : prepare_transfer(u, n)
         \/ queue_trb \/ giveback_first_trb \/ TimerExpires \/ TimeoutRaced
  PROVE  Good' /\ OwnOutcome
<1>1. Aside
  BY SubmissionAside, TimerAside
<1>2. Clean
  BY <1>1 DEF Aside, Clean
<1>3. Good
  BY <1>2 DEF OrderInv
<1>4. Laid' /\ (Rung(drv, submit, hw))'
  <2>1. CASE \E u \in Urbs, n \in Sizes : prepare_transfer(u, n)
    <3>1. PICK u \in Urbs, n \in Sizes : prepare_transfer(u, n)
      BY <2>1
    <3> QED
      BY <1>3, <3>1, UrbAssumption, PrepareLaid DEF Rung, prepare_transfer, Good
  <2>2. CASE queue_trb
    BY <1>3, <2>2, QueueLaid, StepParts DEF Good, queue_trb, Holding, Submits, Rung
  <2>3. CASE giveback_first_trb
    BY <1>3, <2>3, HandOverLaid DEF Good
  <2>4. CASE TimerExpires \/ TimeoutRaced
    BY <1>3, <2>4, TimerLaid DEF Good
  <2> QED
    BY <2>1, <2>2, <2>3, <2>4
<1> QED
  BY <1>1, <1>3, <1>4, SubmissionKeepsList, AsideSignals DEF Good, OwnOutcome, Listed

\* An unlink.
LEMMA UnlinkOrder ==
  ASSUME TypeInv, OrderInv, Clean', NEW u \in Urbs, xhci_urb_dequeue(u)
  PROVE  Good' /\ OwnOutcome
<1>1. /\ events' = events /\ drv.log' = drv.log /\ drv.dying' = drv.dying
      /\ cmdhw.done' = cmdhw.done /\ Belled
      /\ \/ drv.cmds' = drv.cmds /\ drv.ep_state' = drv.ep_state
         \/ /\ drv.cmds' = Append(drv.cmds, Stop) /\ drv.ep_state = {}
            /\ drv.ep_state' = {"EP_STOP_CMD_PENDING"}
  BY UnlinkQueues
<1>2. Good
  BY <1>1 DEF OrderInv, Clean
<1>3. Signalled(drv', hw', cmdhw.done, events)
  BY <1>1, <1>2, SignalledSame, SignalledUnlink, StepParts DEF Belled, Good
<1> QED
  BY <1>1, <1>2, <1>3, UnlinkKeepsList, UnlinkLaid DEF Good, OwnOutcome, Listed, Signalled,
    Counted, HaltTold, StopsFail, RunsBehind

\* An event, of a transfer, of a command or of the command ring.
LEMMA EventOrder ==
  ASSUME TypeInv, PairInv, DeqInv, OrderInv, drv.log' = {},
         NEW elapsed \in BOOLEAN, xhci_handle_event_trb(elapsed)
  PROVE  Good' /\ OwnOutcome
<1>1. Clean
  BY LogGrows DEF Clean, xhci_handle_event_trb, Unlocked
<1>2. Good /\ StopInv
  BY <1>1 DEF OrderInv, DeqInv
<1>3. CASE events[1].kind = "transfer"
  BY <1>1, <1>2, <1>3, TransferGood
<1>4. CASE events[1].kind = "command"
  BY <1>1, <1>2, <1>4, CompletionGood
<1>5. CASE events[1].kind \notin {"transfer", "command"}
  BY <1>1, <1>2, <1>5, RingStoppedGood
<1> QED
  BY <1>3, <1>4, <1>5

\* What the controller does while nothing has been lost.
LEMMA ControllerOrder ==
  ASSUME TypeInv, TypeInv', PairInv, DeqInv, OrderInv, Clean', Controller,
         StallPasts \subseteq {FALSE}, HaltRaces \subseteq {FALSE}
  PROVE  Good' /\ OwnOutcome
<1>1. drv' = drv
  BY ControllerKeeps
<1>2. Clean /\ Intact
  BY <1>1 DEF Clean, Intact
<1>3. Good /\ StopInv /\ Paired(drv.cmds, drv.ep_state)
  BY <1>2 DEF OrderInv, DeqInv, PairInv
<1> QED
  BY <1>1, <1>2, <1>3, ControllerRung, ControllerSignals, ControllerRing DEF Good, OwnOutcome,
    Laid, Ordered, Controller, HwStart, HwSkip, HwTransfer, HwHalt, HwCommand

\* Every step keeps the ring in order as long as nothing is lost, and takes
\* a transfer nobody cancelled off the list by an event of its own.
LEMMA OrderStep ==
  ASSUME TypeInv, PairInv, DeqInv, OrderInv, [Next]_vars,
         StallPasts \subseteq {FALSE}, HaltRaces \subseteq {FALSE}
  PROVE  OrderInv' /\ (drv.log' = {} => OwnOutcome)
<1>1. TypeInv'
  BY TypeStep
<1>2. CASE \/ \E u \in Urbs, n \in Sizes : prepare_transfer(u, n)
           \/ queue_trb \/ giveback_first_trb \/ TimerExpires \/ TimeoutRaced
  BY <1>2, SubmissionAside, TimerAside, SubmissionKeepsList, SubmissionOrder DEF Aside,
    OwnOutcome, Listed, OrderInv
<1>3. CASE \E u \in Urbs : xhci_urb_dequeue(u)
  BY <1>3, UnlinkKeepsList, UnlinkOrder DEF OwnOutcome, Listed, OrderInv
<1>4. CASE \E elapsed \in BOOLEAN : xhci_handle_event_trb(elapsed)
  BY <1>4, EventOrder DEF OrderInv, Clean
<1>5. CASE \/ TimeoutOfStop \/ xhci_abort_cmd_ring \/ AbortFails
           \/ TimeoutOnStoppedRing \/ AbortDone
  <2>1. ~drv.dying
    BY <1>5 DEF TimeoutOfStop, xhci_abort_cmd_ring, AbortFails, TimeoutOnStoppedRing,
      AbortDone, Unlocked
  <2> QED
    BY <1>5, <2>1, WorkerLoses DEF OrderInv, Clean, OwnOutcome, PairInv, Intact
<1>6. CASE Controller
  BY <1>1, <1>6, ControllerKeeps, ControllerOrder DEF OwnOutcome, OrderInv
<1>7. CASE UNCHANGED vars
  <2>1. OwnOutcome
    BY <1>7 DEF vars, OwnOutcome
  <2> QED
    BY <1>7, <2>1 DEF vars, OrderInv, Clean, Good, Laid, Signalled, Counted, HaltTold,
      StopsFail, RunsBehind
<1> QED
  BY <1>2, <1>3, <1>4, <1>5, <1>6, <1>7 DEF Next, Driver, xhci_handle_command_timeout

-----------------------------------------------------------------------------
(* What the controller owns                                                *)

\* The k-th slot the controller comes to, while it has not reached the
\* enqueue pointer: how far back it is, and the cycle it is expected to have.
LEMMA SeenIs ==
  ASSUME TypeInv, hw.cycle = Lap(drv, hw.deq), NEW k \in 0 .. Back(drv, hw.deq)
  PROVE  /\ Seen(k).pos \in Slots
         /\ Back(drv, Seen(k).pos) = Back(drv, hw.deq) - k
         /\ Seen(k).cycle = Lap(drv, Seen(k).pos)
<1> DEFINE a == Advance(k)
<1>1. a.deq = Seen(k).pos /\ a.cycle = Seen(k).cycle
  BY StepParts, BackIs DEF Advance, ControllerStates
<1> HIDE DEF a
<1> QED
  BY <1>1, AdvanceIs, StepParts, BackIs DEF ControllerStates, a

\* Where the controller's slots end: at the enqueue pointer, or at the start
\* of the transfer being written.
Frontier == IF Holding THEN submit.start ELSE drv.enqueue

\* It owns the slots from where it is to there, and no other.
LEMMA OwnedIs ==
  ASSUME TypeInv, RingInv(drv, submit, hw, cmdhw.done, type, events)
  PROVE  /\ Ahead(Frontier, hw.deq) \in Nat
         /\ Owned = {Seen(k).pos : k \in 0 .. Ahead(Frontier, hw.deq) - 1}
         /\ \A k \in 0 .. Ahead(Frontier, hw.deq) - 1 :
              /\ Seen(k).pos \in Slots
              /\ Back(drv, Seen(k).pos) = Back(drv, hw.deq) - k
              /\ 0 < Back(drv, Seen(k).pos) /\ Back(drv, Seen(k).pos) <= Back(drv, hw.deq)
<1> DEFINE N == Ahead(Frontier, hw.deq)
           b == Back(drv, hw.deq)
           g == Edge(drv, submit)
<1>1. /\ drv \in DriverStates /\ submit \in Submits /\ hw.deq \in Slots
      /\ drv.enqueue \in Slots /\ RingSize \in Nat \ {0}
  BY StepParts, LowIs DEF ControllerStates
<1>2. /\ Cycled(drv, submit) /\ g <= b /\ hw.cycle = Lap(drv, hw.deq)
  BY DEF RingInv, Placed_hw
<1>3. Frontier \in Slots /\ Back(drv, Frontier) = g
  BY <1>1, BackIs DEF Submits, Frontier, Holding, Edge
<1>4. g \in 0 .. RingSize - 1 /\ b \in 0 .. RingSize - 1
  BY <1>1, <1>3, BackIs
<1>5. N = b - g
  BY <1>1, <1>2, <1>3, AheadByBack
<1>6. \A k \in 0 .. b :
        /\ Seen(k).pos \in Slots /\ Back(drv, Seen(k).pos) = b - k
        /\ Seen(k).cycle = Lap(drv, Seen(k).pos)
  BY <1>2, SeenIs
<1> HIDE DEF N, b, g
<1>7. N \in Nat /\ N <= b /\ N <= RingSize - 1
  BY <1>1, <1>2, <1>4, <1>5
<1>8. ASSUME NEW k \in 0 .. N - 1
      PROVE  OwnedAt(k) /\ 0 < b - k
  <2> DEFINE p == Seen(k).pos
  <2> HIDE DEF p
  <2> QED
    BY <1>1, <1>2, <1>3, <1>4, <1>5, <1>6, <1>7, BackIs DEF OwnedAt, p, Cycled, Frontier,
      Holding
<1>9. ~OwnedAt(N)
  <2> DEFINE p == Seen(N).pos
  <2> HIDE DEF p
  <2> QED
    BY <1>1, <1>2, <1>3, <1>4, <1>5, <1>6, <1>7, LapIs, BackDiffers DEF OwnedAt, p, Cycled,
      Frontier, Holding
<1> DEFINE K == {n \in 0 .. RingSize - 1 : \A m \in 0 .. n : OwnedAt(m)}
<1> HIDE DEF K
<1>10. ASSUME NEW k \in 0 .. N - 1
       PROVE  /\ Seen(k).pos \in Slots /\ Back(drv, Seen(k).pos) = b - k
              /\ 0 < b - k /\ b - k <= b
  BY <1>4, <1>6, <1>7, <1>8
<1> QED
  BY <1>1, <1>7, <1>8, <1>9, <1>10 DEF N, b, Owned

\* There are as many as the way is long: none is counted twice.
LEMMA OwnedCount ==
  ASSUME TypeInv, RingInv(drv, submit, hw, cmdhw.done, type, events)
  PROVE  Cardinality(Owned) = Ahead(Frontier, hw.deq)
<1> DEFINE N == Ahead(Frontier, hw.deq)
           f == [k \in 0 .. N - 1 |-> Seen(k).pos]
<1>1. /\ N \in Nat /\ Owned = {Seen(k).pos : k \in 0 .. N - 1}
      /\ \A k \in 0 .. N - 1 : /\ Seen(k).pos \in Slots
                               /\ Back(drv, Seen(k).pos) = Back(drv, hw.deq) - k
  BY OwnedIs
<1> HIDE DEF N
<1>2. f \in [0 .. N - 1 -> Owned]
  BY <1>1
<1>3. \A j, k \in 0 .. N - 1 : f[j] = f[k] => j = k
  BY <1>1, StepParts, BackIs DEF ControllerStates
<1>4. \A p \in Owned : \E k \in 0 .. N - 1 : f[k] = p
  BY <1>1
<1> HIDE DEF f
<1>5. f \in Bijection(0 .. N - 1, Owned)
  BY <1>2, <1>3, <1>4 DEF Bijection, Injection, Surjection, IsInjective
<1>6. IsFiniteSet(0 .. N - 1) /\ Cardinality(0 .. N - 1) = N
  BY <1>1, FS_Interval
<1> QED
  BY <1>5, <1>6, FS_Bijection DEF N, ExistsBijection

\* The invariant in every state, for the two things the controller does in
\* this model only where a run leaves them out.
LEMMA OrderHolds ==
  ASSUME StallPasts \subseteq {FALSE}, HaltRaces \subseteq {FALSE}
  PROVE  Spec => []OrderedInv /\ [][drv.log' = {} => OwnOutcome]_vars
<1> QED
  BY PTL, TypeStep, PairStep, DeqStep, OrderStep, TypeInit, PairInit, DeqInit, OrderInit
  DEF Spec, OrderedInv

\* As long as nothing was lost, the ring as the driver and as the controller
\* see it agree: whatever is written, cancelled, skipped or handed over, the
\* controller owns exactly the slots from where it is to the enqueue pointer,
\* or to the transfer still being written.
THEOREM RingInStep ==
  ASSUME StallPasts \subseteq {FALSE}, HaltRaces \subseteq {FALSE}
  PROVE  Spec => [](drv.log = {} => RingAgrees)
<1> QED
  BY OrderHolds, PTL, OwnedCount DEF RingAgrees, OrderedInv, OrderInv, Clean, Good, Laid,
    Frontier

\* As long as nothing was lost, the controller has no hold on a transfer
\* given back to its driver: neither in the slots it owns nor in the one it
\* had fetched when it stopped.
THEOREM GivenBackIsUnused ==
  ASSUME StallPasts \subseteq {FALSE}, HaltRaces \subseteq {FALSE}
  PROVE  Spec => [](drv.log = {} => GivenBackUnused)
<1>1. OrderedInv => (drv.log = {} => GivenBackUnused)
  <2> SUFFICES ASSUME OrderedInv, drv.log = {}, ~drv.dying, NEW u \in Urbs \ InFlight
               PROVE  /\ ~ (OnCached /\ hw.cached = u)
                      /\ \A p \in Owned : drv.trb[p].urb # u
    BY DEF GivenBackUnused, Trusted
  <2>1. TypeInv /\ RingInv(drv, submit, hw, cmdhw.done, type, events)
    BY DEF OrderedInv, OrderInv, Clean, Good, Laid
  <2>2. ASSUME NEW p \in Owned
        PROVE  drv.trb[p].urb # u
    BY <2>1, OwnedIs, UrbAssumption DEF RingInv, Slotted, InFlight, Listed, Cancelled
  <2> QED
    BY <2>1, <2>2, UrbAssumption DEF OnCached, RingInv, Held, InFlight, Listed, Cancelled
<1> QED
  BY <1>1, OrderHolds, PTL

\* As long as nothing was lost, no doorbell is missed and no cancellation
\* forgotten: an endpoint never waits for what will not come.
THEOREM NothingForgotten ==
  ASSUME StallPasts \subseteq {FALSE}, HaltRaces \subseteq {FALSE}
  PROVE  Spec => [](drv.log = {} => Covered)
<1>1. OrderedInv => (drv.log = {} => DoorbellRung)
  BY DEF DoorbellRung, Quiet, Trusted, Holding, Clean, OrderedInv, OrderInv, Good, Rung
<1> QED
  BY <1>1, OrderHolds, FlagsHaveCommands, CancelledNotForgotten, PTL DEF Covered

\* A step that loses nothing takes a transfer nobody cancelled off the
\* driver's list only for an event of that transfer.
THEOREM OutcomeIsOwn ==
  ASSUME StallPasts \subseteq {FALSE}, HaltRaces \subseteq {FALSE}
  PROVE  Spec => [][drv.log' = {} => OwnOutcome]_vars
BY OrderHolds, PTL

\* So it does in a behaviour that loses nothing.
COROLLARY OutcomesWhenClean ==
  ASSUME StallPasts \subseteq {FALSE}, HaltRaces \subseteq {FALSE}
  PROVE  Spec /\ [](drv.log = {}) => OutcomesAreOwn
<1>1. (drv.log = {})' /\ [drv.log' = {} => OwnOutcome]_vars => [OwnOutcome]_vars
  OBVIOUS
<1> QED
  BY <1>1, OutcomeIsOwn, PTL DEF OutcomesAreOwn
=============================================================================
