------------------------------- MODULE Usbnet -------------------------------
(***************************************************************************)
(* The USB network core (usbnet.c) the modem's data interface runs on.     *)
(* Six contexts share one device without a common lock:                    *)
(*   irq      the completion handlers rx_complete and tx_complete, which   *)
(*            the host controller calls one at a time,                     *)
(*   tasklet, timer   usbnet_bh, run by the tasklet dev->bh and by the     *)
(*            throttle timer dev->delay, possibly at the same moment,      *)
(*   kevent   usbnet_deferred_kevent, on a work queue,                     *)
(*   net      the calls the network core makes under rtnl (open, stop,     *)
(*            change_mtu) and the disconnection of the driver,             *)
(*   pm       runtime suspend and resume.                                  *)
(* pc[p] says where context p is.  A step is what runs without a point at  *)
(* which another context can interfere; what is done under a queue's lock  *)
(* is one step.  URBs and buffers are counted, not named.                  *)
(***************************************************************************)
EXTENDS Integers

CONSTANTS
  RX_QLEN,    \* URBs the receive queue is kept at
  TX_QLEN,    \* URBs at which the transmit queue is stopped
  Batch,      \* reads submitted by one run of usbnet_bh, 10 in the code
  MaxDone,    \* bound: buffers completed, or deferred, at which traffic pauses
  Leftovers,  \* what the state field of a deferred write may hold by chance
  OpenRaces,  \* whether an open may fail while the tasklet is still to run
  Budgets     \* bounds: how often what may happen at any time does happen

ASSUME QlenAssumption ==
  /\ RX_QLEN \in Nat \ {0} /\ TX_QLEN \in Nat \ {0} /\ Batch \in Nat \ {0}
  /\ MaxDone \in Nat \ {0}

ASSUME LeftoversAssumption == Leftovers \in SUBSET {"start", "stale"} \ {{}}
ASSUME OpenAssumption == OpenRaces \subseteq BOOLEAN

(* fault: a failed allocation, submission or completion; rescue: a failure *)
(* of the work that repairs one; the others: calls of these operations.    *)
Kinds == {"fault", "rescue", "open", "sleep", "link", "mtu"}
ASSUME BudgetAssumption == Budgets \subseteq [Kinds -> Nat]

Procs == {"irq", "tasklet", "timer", "kevent", "net", "pm"}
Bh == {"tasklet", "timer"}
Submitters == {"irq", "tasklet", "timer", "kevent", "pm"}

Events == {"TX_HALT", "RX_HALT", "RX_MEMORY", "RX_KILL", "DEV_ASLEEP",
           "RX_PAUSED", "DEV_OPEN", "NO_RUNTIME_PM", "LINK_CHANGE", "LINK_RESET",
           "LINK_CARRIER_ON", "UNPLUG"}

VARIABLES
  flags,        \* dev->flags, the set of events
  running,      \* netif_running
  present,      \* netif_device_present
  carrier,      \* netif_carrier_ok
  stopped,      \* netif_queue_stopped
  rxq,          \* reads in flight, by state
  txq,          \* writes in flight, by state
  done,         \* buffers completed and not yet looked at
  deferred,     \* writes taken while the device slept
  bh,           \* the tasklet is scheduled
  delay,        \* the throttle timer is pending
  work,         \* the kevent work is pending
  pc,           \* where each context is
  room,         \* reads a submitter may still submit in this run
  usage,        \* runtime PM usage count of the interface
  owed,         \* references usbnet_stop gives back at its end
  leaving,      \* usbnet_disconnect has begun
  left          \* what is left of the bounds

netif == <<running, present, carrier, stopped>>
queues == <<rxq, txq, done, deferred>>
pending == <<bh, delay, work>>
vars == <<flags, running, present, carrier, stopped, rxq, txq, done,
          deferred, bh, delay, work, pc, room, usage, owed, leaving, left>>

(* A URB in flight: submitted, or unlinked.  A write may also be "stale",  *)
(* submitted with a buffer whose state field happens to read "unlinked",   *)
(* and "put", completed but still in the queue.                            *)
UrbStates == {"start", "unlink"}
TxStates == UrbStates \cup {"stale", "put"}

Terminating == {"unlink_tx", "unlink_rx", "wait_rx", "wait_tx", "wait_done"}
Filling == {"alloc", "lock"}
Labels == [
  irq     |-> {"idle", "resubmit", "lock", "tx_done"},
  tasklet |-> {"idle", "decide", "refilled", "wake"} \cup Filling,
  timer   |-> {"idle", "decide", "refilled", "wake"} \cup Filling,
  kevent  |-> {"idle", "tx_halt", "tx_clear", "rx_halt", "rx_clear", "memory",
               "get", "alloc", "lock", "resched", "put", "link"},
  net     |-> {"idle", "opening", "get", "kill_timer", "kill_bh", "cancel",
               "kill_bh_again", "kill_timer_again", "cancel_again", "put",
               "clear", "mtu_flush", "mtu_resume", "mtu_softirq", "unregister", "free", "gone"} \cup Terminating,
  pm      |-> {"awake", "suspending", "detach", "attach", "asleep", "resuming",
               "wake"} \cup Terminating \cup Filling]

TypeOK ==
  /\ flags \subseteq Events
  /\ {running, present, carrier, stopped, bh, delay, work, leaving} \subseteq BOOLEAN
  /\ rxq \in [UrbStates -> Nat]
  /\ txq \in [TxStates -> Nat]
  /\ done \in Nat /\ deferred \in Nat /\ usage \in Nat
  /\ pc \in [Procs -> UNION {Labels[p] : p \in Procs}]
  /\ \A p \in Procs : pc[p] \in Labels[p]
  /\ room \in [Bh \cup {"pm"} -> 0..Batch]
  /\ owed \in 0..2
  /\ left \in [Kinds -> Nat]

(* qlen of the two queues.                                                 *)
RxLen == rxq["start"] + rxq["unlink"]
TxFlying == txq["start"] + txq["unlink"] + txq["stale"]
TxLen == TxFlying + txq["put"]

Idle == [p \in Procs |-> IF p = "pm" THEN "awake" ELSE "idle"]

(* After usbnet_probe: registered, not opened.                             *)
Init ==
  /\ flags = {}
  /\ running = FALSE /\ present = TRUE /\ carrier = TRUE /\ stopped = FALSE
  /\ rxq = [s \in UrbStates |-> 0]
  /\ txq = [s \in TxStates |-> 0]
  /\ done = 0 /\ deferred = 0
  /\ bh = FALSE /\ delay = FALSE /\ work = FALSE
  /\ pc = Idle
  /\ room = [p \in Bh \cup {"pm"} |-> 0]
  /\ usage = 0 /\ owed = 0
  /\ leaving = FALSE
  /\ left \in Budgets

-----------------------------------------------------------------------------
(* Helpers                                                                 *)

Goto(p, label) == pc' = [pc EXCEPT ![p] = label]
Spend(kind) == left[kind] > 0 /\ left' = [left EXCEPT ![kind] = @ - 1]

usbnet_going_away == "UNPLUG" \in flags

(* Someone is in usbnet_terminate_urbs, and dev->wait is active.           *)
waitqueue_active == \E p \in {"net", "pm"} : pc[p] \in Terminating

(* The work may be pending already: what matters is that it has not begun. *)
usbnet_defer_kevent(event) ==
  /\ flags' = flags \cup {event}
  /\ work' = (work \/ ~usbnet_going_away)

(* unlink_urbs goes through a queue until nothing in it is left to unlink; *)
(* the completion handlers empty it.                                       *)
unlink_urbs(q) == [q EXCEPT !["start"] = 0, !["unlink"] = @ + q["start"]]
UnlinkRx == rxq' = unlink_urbs(rxq)

(* defer_bh: the buffer moves to dev->done; the first one there schedules  *)
(* the tasklet.                                                            *)
defer_bh == done' = done + 1 /\ bh' = (bh \/ done = 0)

-----------------------------------------------------------------------------
(* rx_submit, shared by everyone who posts reads                           *)

(* What follows in p when rx_submit returns 0, -ENOLINK or another error.  *)
AfterSubmit(p, result) ==
  CASE p = "irq" -> "idle"
    [] p = "kevent" -> IF result = "ENOLINK" THEN "put" ELSE "resched"
    [] p \in Bh -> IF result = "0" THEN "alloc"
                   ELSE IF result = "ENOLINK" THEN "idle" ELSE "refilled"
    [] p = "pm" -> IF result = "0" THEN "alloc" ELSE "wake"

(* A buffer of the size dev->rx_urb_size has now, unless the error rate is *)
(* high or there is no memory.                                             *)
PrepareRead(p) ==
  /\ \/ /\ "RX_KILL" \in flags
        /\ Goto(p, AfterSubmit(p, "ENOLINK"))
        /\ UNCHANGED <<flags, work, left>>
     \/ /\ "RX_KILL" \notin flags
        /\ Spend("fault")
        /\ usbnet_defer_kevent("RX_MEMORY")
        /\ Goto(p, AfterSubmit(p, "ENOMEM"))
     \/ /\ "RX_KILL" \notin flags
        /\ Goto(p, "lock")
        /\ UNCHANGED <<flags, work, left>>

\* Mutant: whether the device sleeps is not looked at under the lock.
MayReadAsleep ==
  /\ running
  /\ "DEV_OPEN" \in flags
  /\ "RX_HALT" \notin flags
  /\ ~usbnet_going_away

(* What rx_submit looks at under rxq.lock, before it submits.              *)
MayRead ==
  /\ running /\ present
  /\ "DEV_OPEN" \in flags
  /\ {"RX_HALT", "DEV_ASLEEP"} \cap flags = {}
  /\ ~usbnet_going_away

SubmitRead(p) ==
  /\ ~MayRead
  /\ Goto(p, AfterSubmit(p, "ENOLINK"))
  /\ UNCHANGED <<flags, present, stopped, rxq, bh, work, left>>

ReadSubmitted(p) ==
  /\ MayRead
  /\ rxq' = [rxq EXCEPT !["start"] = @ + 1]
  /\ Goto(p, AfterSubmit(p, "0"))
  /\ UNCHANGED <<flags, present, stopped, bh, work, left>>

(* usb_submit_urb fails: the pipe is stalled, there is no memory, the      *)
(* device is gone, or anything else.  -EHOSTUNREACH is a suspended         *)
(* device's, which DEV_ASLEEP has ruled out.                               *)
ReadRefused(p) ==
  /\ MayRead
  /\ Spend("fault")
  /\ \/ /\ \/ usbnet_defer_kevent("RX_HALT")
           \/ usbnet_defer_kevent("RX_MEMORY")
        /\ Goto(p, AfterSubmit(p, "error"))
        /\ UNCHANGED <<present, stopped, bh>>
     \/ /\ present' = FALSE /\ stopped' = TRUE     \* netif_device_detach
        /\ Goto(p, AfterSubmit(p, "error"))
        /\ UNCHANGED <<flags, work, bh>>
     \/ /\ bh' = TRUE
        /\ Goto(p, AfterSubmit(p, "error"))
        /\ UNCHANGED <<flags, present, stopped, work>>
  /\ UNCHANGED rxq

rx_submit(p) ==
  /\ pc[p] = "lock"
  /\ SubmitRead(p) \/ ReadSubmitted(p) \/ ReadRefused(p)
  /\ room' = IF p \notin DOMAIN room THEN room
             ELSE [room EXCEPT ![p] = IF pc'[p] = "alloc" THEN @ - 1 ELSE 0]
  /\ UNCHANGED <<running, carrier, txq, done, deferred, delay, usage, owed, leaving>>

(* rx_alloc_submit: one read after another, not all at once; the length of *)
(* the queue is read without its lock.                                     *)
rx_alloc_submit(p) ==
  /\ p \in Bh \cup {"pm"}
  /\ pc[p] = "alloc"
  /\ \/ /\ room[p] = 0 \/ RxLen >= RX_QLEN
        /\ Goto(p, IF p = "pm" THEN "wake" ELSE "refilled")
        /\ UNCHANGED <<flags, work, left>>
     \/ /\ room[p] > 0 /\ RxLen < RX_QLEN
        /\ PrepareRead(p)
     \/ /\ room[p] > 0 /\ RxLen < RX_QLEN
        /\ Spend("fault")                           \* no URB: -ENOMEM
        /\ Goto(p, AfterSubmit(p, "ENOMEM"))
        /\ UNCHANGED <<flags, work>>
  /\ room' = [room EXCEPT ![p] = IF pc'[p] = "lock" THEN @ ELSE 0]
  /\ UNCHANGED <<running, present, carrier, stopped, rxq, txq, done, deferred,
                 bh, delay, usage, owed, leaving>>

-----------------------------------------------------------------------------
(* Completions                                                             *)

Arm == delay' = TRUE     \* mod_timer, unless the timer is pending already

(* A read completes.  An unlinked one, or one the device refuses for good, *)
(* keeps its URB and is cleaned up; a transfer error also arms the         *)
(* throttle timer; one that went well, or failed otherwise, is resubmitted *)
(* by the handler itself.  A bad run of packets sets RX_KILL.              *)
RxCounted(events) == flags' \in {events, events \cup {"RX_KILL"}}

rx_complete ==
  /\ pc["irq"] = "idle" /\ done < MaxDone
  /\ \E state \in UrbStates :
       /\ rxq[state] > 0
       /\ rxq' = [rxq EXCEPT ![state] = @ - 1]
       /\ \/ /\ state = "start"                        \* success
             /\ RxCounted(flags)
             /\ Goto("irq", IF running /\ "RX_HALT" \notin flags
                            THEN "resubmit" ELSE "idle")
             /\ UNCHANGED <<work, delay, left>>
          \/ /\ state = "start"                        \* any other status
             /\ Spend("fault")
             /\ RxCounted(flags)
             /\ Goto("irq", IF running /\ "RX_HALT" \notin flags
                            THEN "resubmit" ELSE "idle")
             /\ UNCHANGED <<work, delay>>
          \/ /\ Spend("fault")                         \* -EPIPE
             /\ RxCounted(flags \cup {"RX_HALT"})
             /\ work' = (work \/ ~usbnet_going_away)
             /\ Goto("irq", "idle")
             /\ UNCHANGED delay
          \/ /\ state = "unlink"                       \* -ECONNRESET
             /\ RxCounted(flags)
             /\ Goto("irq", "idle")
             /\ UNCHANGED <<work, delay, left>>
          \/ /\ Spend("fault")                         \* -EPROTO
             /\ RxCounted(flags)
             /\ Arm
             /\ Goto("irq", "idle")
             /\ UNCHANGED work
  /\ defer_bh
  /\ UNCHANGED <<running, present, carrier, stopped, txq, deferred, room,
                 usage, owed, leaving>>

(* The handler posts the URB again: rx_submit.                             *)
Resubmit ==
  /\ pc["irq"] = "resubmit"
  /\ PrepareRead("irq")
  /\ UNCHANGED <<running, present, carrier, stopped, rxq, txq, done, deferred,
                 bh, delay, room, usage, owed, leaving>>

(* A write completes: the reference of the device goes first, the buffer   *)
(* leaves the queue after (defer_bh).                                      *)
tx_complete ==
  /\ pc["irq"] = "idle" /\ done < MaxDone
  /\ \E state \in TxStates \ {"put"} :
       /\ txq[state] > 0
       /\ txq' = [txq EXCEPT ![state] = @ - 1, !["put"] = @ + 1]
  /\ usage' = usage - 1
  /\ Goto("irq", "tx_done")
  /\ \/ UNCHANGED <<flags, work, delay, stopped, left>>
     \/ /\ Spend("fault")                         \* -EPIPE
        /\ usbnet_defer_kevent("TX_HALT")
        /\ UNCHANGED <<delay, stopped>>
     \/ /\ Spend("fault")                         \* -EPROTO
        /\ Arm
        /\ stopped' = TRUE
        /\ UNCHANGED <<flags, work>>
  /\ UNCHANGED <<running, present, carrier, rxq, done, deferred, bh,
                 room, owed, leaving>>

tx_deferred ==
  /\ pc["irq"] = "tx_done"
  /\ txq' = [txq EXCEPT !["put"] = @ - 1]
  /\ defer_bh
  /\ Goto("irq", "idle")
  /\ UNCHANGED <<flags, running, present, carrier, stopped, rxq, deferred, delay,
                 work, room, usage, owed, leaving, left>>

-----------------------------------------------------------------------------
(* usbnet_bh: dispose of what completed, then see to the queues            *)

(* What completes while it disposes of the rest is disposed of too.        *)
TaskletRuns ==
  /\ bh /\ pc["tasklet"] = "idle"
  /\ bh' = FALSE
  /\ done' = 0
  /\ Goto("tasklet", "decide")
  /\ UNCHANGED <<flags, netif, rxq, txq, deferred, delay, work, room,
                 usage, owed, leaving, left>>

TimerFires ==
  /\ delay /\ pc["timer"] = "idle"
  /\ delay' = FALSE
  /\ done' = 0
  /\ Goto("timer", "decide")
  /\ UNCHANGED <<flags, netif, rxq, txq, deferred, bh, work, room,
                 usage, owed, leaving, left>>

(* With somebody waiting for the queues to empty nothing new is submitted; *)
(* otherwise the reads are topped up and the writers let go on.            *)
Decide(p) ==
  /\ pc[p] = "decide"
  /\ flags' = flags \ {"RX_KILL"}
  /\ LET ready == /\ ~waitqueue_active
                  /\ running /\ present /\ carrier
                  /\ ~usbnet_going_away /\ ~delay
                  /\ {"RX_HALT", "RX_PAUSED"} \cap flags = {}
     IN Goto(p, IF ~ready THEN "idle"
                ELSE IF RxLen < RX_QLEN THEN "alloc" ELSE "wake")
  /\ room' = [room EXCEPT ![p] = IF pc'[p] = "alloc" THEN Batch ELSE 0]
  /\ UNCHANGED <<netif, queues, pending, usage, owed, leaving, left>>

\* Mutant: the rest of the reads is left to somebody else.
NoReschedule(p) ==
  /\ pc[p] \in {"refilled", "wake"}
  /\ bh' = bh
  /\ stopped' = (stopped /\ TxLen >= TX_QLEN)
  /\ Goto(p, "idle")
  /\ UNCHANGED <<flags, running, present, carrier, queues, delay, work, room, usage, owed, leaving, left>>

Finish(p) ==
  /\ pc[p] \in {"refilled", "wake"}
  /\ bh' = (bh \/ (pc[p] = "refilled" /\ RxLen < RX_QLEN))
  /\ stopped' = (stopped /\ TxLen >= TX_QLEN)
  /\ Goto(p, "idle")
  /\ UNCHANGED <<flags, running, present, carrier, queues, delay, work, room, usage, owed, leaving, left>>

-----------------------------------------------------------------------------
(* usbnet_deferred_kevent                                                  *)

KeventRuns ==
  /\ work /\ pc["kevent"] = "idle"
  /\ work' = FALSE
  /\ Goto("kevent", "tx_halt")
  /\ UNCHANGED <<flags, netif, queues, bh, delay, room, usage,
                 owed, leaving, left>>

(* A halted pipe: its URBs are unlinked, the device is woken up, the halt  *)
(* cleared; when that fails the event stays set.                           *)
TxHalt ==
  /\ pc["kevent"] = "tx_halt"
  /\ IF "TX_HALT" \in flags
     THEN /\ txq' = unlink_urbs(txq)
          /\ usage' = usage + 1
          /\ Goto("kevent", "tx_clear")
     ELSE Goto("kevent", "rx_halt") /\ UNCHANGED <<txq, usage>>
  /\ UNCHANGED <<flags, netif, rxq, done, deferred, pending, room,
                 owed, leaving, left>>

ClearTxHalt ==
  /\ pc["kevent"] = "tx_clear"
  /\ usage' = usage - 1
  /\ \/ /\ pc["pm"] = "awake" /\ ~leaving
        /\ flags' = flags \ {"TX_HALT"}
        /\ stopped' = FALSE
        /\ UNCHANGED left
     \/ /\ leaving                      \* -ESHUTDOWN, or no resumption
        /\ flags' \in {flags, flags \ {"TX_HALT"}}
        /\ UNCHANGED <<stopped, left>>
     \/ /\ Spend("rescue")
        /\ UNCHANGED <<flags, stopped>>
  /\ Goto("kevent", "rx_halt")
  /\ UNCHANGED <<running, present, carrier, queues, pending, room,
                 owed, leaving>>

RxHalt ==
  /\ pc["kevent"] = "rx_halt"
  /\ IF "RX_HALT" \in flags
     THEN /\ UnlinkRx
          /\ usage' = usage + 1
          /\ Goto("kevent", "rx_clear")
     ELSE Goto("kevent", "memory") /\ UNCHANGED <<rxq, usage>>
  /\ UNCHANGED <<flags, netif, txq, done, deferred, pending, room, owed, leaving,
                 left>>

ClearRxHalt ==
  /\ pc["kevent"] = "rx_clear"
  /\ usage' = usage - 1
  /\ \/ /\ pc["pm"] = "awake" \/ leaving
        /\ flags' = flags \ {"RX_HALT"}
        /\ bh' = (bh \/ ~usbnet_going_away)
        /\ UNCHANGED left
     \/ /\ leaving \/ left["rescue"] > 0
        /\ left' = IF leaving THEN left ELSE [left EXCEPT !["rescue"] = @ - 1]
        /\ UNCHANGED <<flags, bh>>
  /\ Goto("kevent", "memory")
  /\ UNCHANGED <<netif, queues, delay, work, room, owed, leaving>>

(* Memory was short: one read is posted from here, where waiting for       *)
(* memory is allowed, and the tasklet sees to the rest.                    *)
Memory ==
  /\ pc["kevent"] = "memory"
  /\ \/ /\ "RX_MEMORY" \notin flags
        /\ Goto("kevent", "link")
        /\ UNCHANGED <<flags, usage, left>>
     \/ /\ "RX_MEMORY" \in flags /\ ~running
        /\ flags' = flags \ {"RX_MEMORY"}
        /\ Goto("kevent", "link")
        /\ UNCHANGED <<usage, left>>
     \/ /\ "RX_MEMORY" \in flags /\ running
        /\ flags' = flags \ {"RX_MEMORY"}
        /\ usage' = usage + 1
        /\ Goto("kevent", "get")
        /\ UNCHANGED left
     \/ /\ "RX_MEMORY" \in flags /\ running         \* no URB
        /\ Spend("rescue")
        /\ Goto("kevent", "link")
        /\ UNCHANGED <<flags, usage>>
  /\ UNCHANGED <<netif, queues, pending, room, owed, leaving>>

MemoryAwake ==
  /\ pc["kevent"] = "get"
  /\ \/ /\ pc["pm"] = "awake"
        /\ Goto("kevent", "alloc")
        /\ UNCHANGED left
     \/ /\ leaving \/ left["rescue"] > 0             \* no resumption
        /\ left' = IF leaving THEN left ELSE [left EXCEPT !["rescue"] = @ - 1]
        /\ Goto("kevent", "resched")
  /\ UNCHANGED <<flags, netif, queues, pending, room, usage, owed, leaving>>

MemoryRead ==
  /\ pc["kevent"] = "alloc"
  /\ PrepareRead("kevent")
  /\ UNCHANGED <<netif, queues, bh, delay, room, usage, owed, leaving>>

(* usb_autopm_put_interface, then the tasklet unless reads are refused.    *)
MemoryPut ==
  /\ pc["kevent"] \in {"put", "resched"}
  /\ usage' = usage - 1
  /\ bh' = (bh \/ (pc["kevent"] = "resched" /\ ~usbnet_going_away))
  /\ Goto("kevent", "link")
  /\ UNCHANGED <<flags, netif, queues, delay, work, room, owed, leaving, left>>

(* __handle_link_change, which LINK_RESET ends with as well.  Nothing is   *)
(* done about a link that changes while the interface is closed.           *)
HandleLink ==
  /\ pc["kevent"] = "link"
  /\ IF {"LINK_CHANGE", "LINK_RESET"} \cap flags # {} /\ "DEV_OPEN" \in flags
     THEN /\ carrier' = (carrier \/ "LINK_CARRIER_ON" \in flags)
          /\ IF carrier'
             THEN bh' = TRUE /\ UNCHANGED rxq
             ELSE UnlinkRx /\ UNCHANGED bh
          /\ flags' = flags \ {"LINK_CARRIER_ON", "LINK_CHANGE", "LINK_RESET"}
     ELSE /\ flags' = flags \ {"LINK_RESET"}
          /\ UNCHANGED <<carrier, rxq, bh>>
  /\ Goto("kevent", "idle")
  /\ UNCHANGED <<running, present, stopped, txq, done, deferred, delay, work, room, usage, owed, leaving, left>>

(* The minidriver reports the link (a status interrupt).                   *)
usbnet_link_change(link, need_reset) ==
  /\ ~leaving
  /\ Spend("link")
  /\ LET event == IF need_reset /\ link THEN "LINK_RESET" ELSE "LINK_CHANGE"
     IN IF link /\ ~need_reset
        THEN flags' = flags \cup {"LINK_CARRIER_ON", event} /\ carrier' = carrier
        ELSE flags' = (flags \ {"LINK_CARRIER_ON"}) \cup {event} /\ carrier' = FALSE
  /\ work' = (work \/ ~usbnet_going_away)
  /\ UNCHANGED <<running, present, stopped, queues, bh, delay, pc,
                 room, usage, owed, leaving>>

-----------------------------------------------------------------------------
(* Transmission                                                            *)

Defer == deferred' = deferred + 1 /\ usage' = usage + 1

(* The network core calls while the interface is up and the queue is not   *)
(* stopped.  What fails without a trace (no URB, a refused reference, an   *)
(* error of the submission) drops the packet and changes nothing here.     *)
usbnet_start_xmit ==
  /\ running /\ ~stopped /\ pc["net"] # "opening"
  /\ \/ /\ "DEV_ASLEEP" \in flags            \* sent on resumption
        /\ deferred < MaxDone
        /\ Defer
        /\ stopped' = TRUE
        /\ UNCHANGED <<flags, work, txq, left>>
     \/ /\ "DEV_ASLEEP" \notin flags
        /\ txq' = [txq EXCEPT !["start"] = @ + 1]
        /\ usage' = usage + 1
        /\ stopped' = (TxLen + 1 >= TX_QLEN)
        /\ UNCHANGED <<flags, work, deferred, left>>
     \/ /\ "DEV_ASLEEP" \notin flags          \* -EPIPE
        /\ Spend("fault")
        /\ usbnet_defer_kevent("TX_HALT")
        /\ stopped' = TRUE
        /\ UNCHANGED <<txq, deferred, usage>>
  /\ UNCHANGED <<running, present, carrier, rxq, done, bh, delay, pc,
                 room, owed, leaving>>

(* The watchdog of a queue that has been stopped for too long.             *)
usbnet_tx_timeout ==
  /\ running /\ stopped /\ present /\ carrier /\ pc["net"] # "opening"
  /\ txq' = unlink_urbs(txq)
  /\ bh' = TRUE
  /\ UNCHANGED <<flags, netif, rxq, done, deferred, delay, work, pc,
                 room, usage, owed, leaving, left>>

-----------------------------------------------------------------------------
(* usbnet_terminate_urbs, called by usbnet_stop and usbnet_suspend         *)

UnlinkTx(p) ==
  /\ pc[p] = "unlink_tx"
  /\ txq' = unlink_urbs(txq)
  /\ Goto(p, "unlink_rx")
  /\ UNCHANGED <<flags, netif, rxq, done, deferred, pending, room,
                 usage, owed, leaving, left>>

\* Mutant: the reads are left to complete by themselves.
SpareReads(p) ==
  /\ pc[p] = "unlink_rx"
  /\ Goto(p, "wait_rx")
  /\ UNCHANGED <<flags, netif, queues, pending, room, usage, owed,
                 leaving, left>>

UnlinkReads(p) ==
  /\ pc[p] = "unlink_rx"
  /\ UnlinkRx
  /\ Goto(p, "wait_rx")
  /\ UNCHANGED <<flags, netif, txq, done, deferred, pending, room, usage,
                 owed, leaving, left>>

(* Each queue is waited for in turn (wait_skb_queue_empty).                *)
WaitQueue(p) ==
  /\ \/ pc[p] = "wait_rx" /\ RxLen = 0 /\ Goto(p, "wait_tx")
     \/ pc[p] = "wait_tx" /\ TxLen = 0 /\ Goto(p, "wait_done")
     \/ /\ pc[p] = "wait_done" /\ done = 0
        /\ Goto(p, IF p = "net" THEN "clear" ELSE "attach")
  /\ UNCHANGED <<flags, netif, queues, pending, room, usage, owed,
                 leaving, left>>

-----------------------------------------------------------------------------
(* usbnet_open                                                             *)

Open ==
  /\ pc["net"] = "idle" /\ ~running /\ present /\ ~leaving
  /\ Spend("open")
  /\ running' = TRUE
  /\ usage' = usage + 1
  /\ Goto("net", "opening")
  /\ UNCHANGED <<flags, present, carrier, stopped, queues, pending,
                 room, owed, leaving>>

(* The error state of earlier reads is forgotten; the reads are left to    *)
(* the tasklet.  Without remote wakeup the device is kept awake.           *)
Opened ==
  /\ pc["net"] = "opening" /\ pc["pm"] = "awake"
  /\ \/ /\ flags' = (flags \ {"RX_KILL"}) \cup {"DEV_OPEN"}
        /\ usage' = usage - 1
        /\ UNCHANGED left
     \/ /\ Spend("fault")
        /\ flags' = (flags \ {"RX_KILL"}) \cup {"DEV_OPEN", "NO_RUNTIME_PM"}
        /\ UNCHANGED usage
  /\ stopped' = FALSE
  /\ bh' = TRUE
  /\ Goto("net", "idle")
  /\ UNCHANGED <<running, present, carrier, queues, delay, work,
                 room, owed, leaving>>

(* Where the work holds no reference, and finds nothing to do for an        *)
(* interface that has been closed.                                         *)
KeventHarmless == pc["kevent"] \in {"idle", "tx_halt", "rx_halt", "memory", "link"}

(* Nothing is killed: what the work still does for reads an earlier stop   *)
(* gave up, now that the interface counts as running, may schedule the     *)
(* tasklet of an interface that is closed again.  Without a race the open  *)
(* fails when both are done.                                               *)
OpenFails ==
  /\ pc["net"] = "opening"
  /\ \E race \in OpenRaces :
       race \/ (~bh /\ pc["tasklet"] = "idle" /\ KeventHarmless)
  /\ Spend("fault")
  /\ running' = FALSE
  /\ usage' = usage - 1
  /\ Goto("net", "idle")
  /\ UNCHANGED <<flags, present, carrier, stopped, queues, pending,
                 room, owed, leaving>>

-----------------------------------------------------------------------------
(* usbnet_stop                                                             *)

Stop ==
  /\ \/ pc["net"] = "idle" /\ running /\ ~leaving
     \/ pc["net"] = "unregister" /\ running
  /\ running' = FALSE
  /\ flags' = flags \ {"DEV_OPEN"}
  /\ stopped' = TRUE
  /\ usage' = usage + 1
  /\ Goto("net", "get")
  /\ UNCHANGED <<present, carrier, queues, pending, room, owed,
                 leaving, left>>

(* The device is woken so that this does not race with a resumption; that  *)
(* fails when the device is gone.                                          *)
StopAwake ==
  /\ pc["net"] = "get"
  /\ \/ pc["pm"] = "awake" /\ owed' = 1 /\ usage' = usage
     \/ leaving /\ owed' = 0 /\ usage' = usage - 1
  /\ Goto("net", "unlink_tx")
  /\ UNCHANGED <<flags, netif, queues, pending, room, leaving, left>>

\* Mutant: the flags are gone before they are looked at.
ForgetReference ==
  /\ pc["net"] = "clear"
  /\ flags' = {}
  /\ Goto("net", "kill_timer")
  /\ UNCHANGED <<netif, queues, pending, room, usage, owed, leaving, left>>

ClearFlags ==
  /\ pc["net"] = "clear"
  /\ owed' = IF "NO_RUNTIME_PM" \in flags THEN owed + 1 ELSE owed
  /\ flags' = {}
  /\ Goto("net", "kill_timer")
  /\ UNCHANGED <<netif, queues, pending, room, usage, leaving, left>>

(* del_timer_sync, tasklet_kill and cancel_work_sync wait for what runs;   *)
(* each of the three can start another, so they are gone through twice.    *)
KillTimer ==
  /\ pc["net"] \in {"kill_timer", "kill_timer_again"}
  /\ pc["timer"] = "idle"
  /\ delay' = FALSE
  /\ Goto("net", IF pc["net"] = "kill_timer" THEN "kill_bh" ELSE "cancel_again")
  /\ UNCHANGED <<flags, netif, queues, bh, work, room, usage, owed,
                 leaving, left>>

\* Mutant: what runs is not waited for.
KillPending ==
  /\ pc["net"] \in {"kill_bh", "kill_bh_again"}
  /\ bh' = FALSE
  /\ Goto("net", IF pc["net"] = "kill_bh" THEN "cancel" ELSE "kill_timer_again")
  /\ UNCHANGED <<flags, netif, queues, delay, work, room, usage, owed,
                 leaving, left>>

KillTasklet ==
  /\ pc["net"] \in {"kill_bh", "kill_bh_again"}
  /\ ~bh /\ pc["tasklet"] = "idle"
  /\ Goto("net", IF pc["net"] = "kill_bh" THEN "cancel" ELSE "kill_timer_again")
  /\ UNCHANGED <<flags, netif, queues, pending, room, usage, owed,
                 leaving, left>>

CancelWork ==
  /\ pc["net"] \in {"cancel", "cancel_again"}
  /\ pc["kevent"] = "idle"
  /\ work' = FALSE
  /\ Goto("net", IF pc["net"] = "cancel" THEN "kill_bh_again" ELSE "put")
  /\ UNCHANGED <<flags, netif, queues, bh, delay, room, usage, owed,
                 leaving, left>>

\* Mutant: one reference too many is given back.
PutTwice ==
  /\ pc["net"] = "put"
  /\ usage' = usage - owed - 1
  /\ owed' = 0
  /\ Goto("net", IF leaving THEN "unregister" ELSE "idle")
  /\ UNCHANGED <<flags, netif, queues, pending, room, leaving, left>>

Stopped ==
  /\ pc["net"] = "put"
  /\ usage' = usage - owed
  /\ owed' = 0
  /\ Goto("net", IF leaving THEN "unregister" ELSE "idle")
  /\ UNCHANGED <<flags, netif, queues, pending, room, leaving, left>>

-----------------------------------------------------------------------------
(* usbnet_disconnect: the interface is closed and unregistered, which      *)
(* waits for the handlers that run, and the device structure is freed.     *)

Disconnect ==
  /\ pc["net"] = "idle" /\ ~leaving
  /\ pc["pm"] \in {"awake", "asleep"}
  /\ leaving' = TRUE
  /\ flags' = flags \cup {"UNPLUG"}
  /\ Goto("net", "unregister")
  /\ UNCHANGED <<netif, queues, pending, room, usage, owed, left>>

Unregistered ==
  /\ pc["net"] = "unregister" /\ ~running
  /\ pc["irq"] = "idle" /\ pc["tasklet"] = "idle" /\ pc["timer"] = "idle"
  /\ Goto("net", "free")
  /\ UNCHANGED <<flags, netif, queues, pending, room, usage, owed,
                 leaving, left>>

\* Mutant: the work is not waited for.
FreeAtOnce ==
  /\ pc["net"] = "free"
  /\ deferred' = 0
  /\ Goto("net", "gone")
  /\ UNCHANGED <<flags, netif, rxq, txq, done, pending, room, usage,
                 owed, leaving, left>>

FreeDevice ==
  /\ pc["net"] = "free"
  /\ pc["kevent"] = "idle"
  /\ work' = FALSE
  /\ deferred' = 0
  /\ Goto("net", "gone")
  /\ UNCHANGED <<flags, netif, rxq, txq, done, bh, delay, room,
                 usage, owed, leaving, left>>

-----------------------------------------------------------------------------
(* usbnet_change_mtu, to a larger MTU: reads with buffers of the old size  *)
(* are unlinked while what is received is held back.                       *)

GrowMtu ==
  /\ pc["net"] = "idle" /\ ~leaving
  /\ Spend("mtu")
  /\ flags' = flags \cup {"RX_PAUSED"}
  /\ Goto("net", "mtu_flush")
  /\ UNCHANGED <<netif, queues, pending, room, usage, owed, leaving>>

usbnet_unlink_rx_urbs ==
  /\ pc["net"] = "mtu_flush"
  /\ IF running
     THEN UnlinkRx /\ bh' = TRUE
     ELSE UNCHANGED <<rxq, bh>>
  /\ Goto("net", "mtu_resume")
  /\ UNCHANGED <<flags, netif, txq, done, deferred, delay, work, room, usage,
                 owed, leaving, left>>

usbnet_resume_rx ==
  /\ pc["net"] = "mtu_resume"
  /\ flags' = flags \ {"RX_PAUSED"}
  /\ bh' = TRUE
  /\ Goto("net", "mtu_softirq")
  /\ UNCHANGED <<netif, queues, delay, work, room, usage, owed,
                 leaving, left>>

(* local_bh_enable runs the tasklet before it returns.                     *)
MtuChanged ==
  /\ pc["net"] = "mtu_softirq"
  /\ ~bh /\ pc["tasklet"] = "idle"
  /\ Goto("net", "idle")
  /\ UNCHANGED <<flags, netif, queues, pending, room, usage, owed,
                 leaving, left>>

-----------------------------------------------------------------------------
(* usbnet_suspend and usbnet_resume, called by the PM core of an idle      *)
(* device; a packet sent after it looked keeps the device awake, or waits  *)
(* for the resumption its reference asks for.                              *)

BeginSuspend ==
  /\ pc["pm"] = "awake" /\ usage = 0 /\ ~leaving
  /\ Spend("sleep")
  /\ Goto("pm", "suspending")
  /\ UNCHANGED <<flags, netif, queues, pending, room, usage, owed,
                 leaving>>

usbnet_suspend ==
  /\ pc["pm"] = "suspending"
  /\ IF TxLen > 0
     THEN Goto("pm", "awake") /\ UNCHANGED flags
     ELSE Goto("pm", "detach") /\ flags' = flags \cup {"DEV_ASLEEP"}
  /\ UNCHANGED <<netif, queues, pending, room, usage, owed, leaving, left>>

netif_device_detach ==
  /\ pc["pm"] = "detach"
  /\ present' = FALSE
  /\ stopped' = (stopped \/ (present /\ running))
  /\ Goto("pm", "unlink_tx")
  /\ UNCHANGED <<flags, running, carrier, queues, pending, room, usage,
                 owed, leaving, left>>

netif_device_attach ==
  /\ pc["pm"] = "attach"
  /\ present' = TRUE
  /\ stopped' = (stopped /\ ~running)
  /\ Goto("pm", "asleep")
  /\ UNCHANGED <<flags, running, carrier, queues, pending, room, usage,
                 owed, leaving, left>>

(* The writes taken meanwhile are submitted, but for those that fail; they *)
(* go to txq with whatever state their buffers hold.                       *)
usbnet_resume ==
  /\ pc["pm"] = "asleep" /\ ~leaving
  /\ \E state \in Leftovers, sent \in {deferred, 0} :
       /\ sent < deferred => left["fault"] > 0
       /\ left' = IF sent < deferred THEN [left EXCEPT !["fault"] = @ - 1] ELSE left
       /\ txq' = [txq EXCEPT ![state] = @ + sent]
       /\ usage' = usage - (deferred - sent)
  /\ deferred' = 0
  /\ flags' = flags \ {"DEV_ASLEEP"}
  /\ Goto("pm", "resuming")
  /\ UNCHANGED <<netif, rxq, done, pending, room, owed, leaving>>

ResumeReads ==
  /\ pc["pm"] = "resuming"
  /\ Goto("pm", IF "DEV_OPEN" \notin flags THEN "awake"
                ELSE IF present /\ ~delay /\ "RX_HALT" \notin flags THEN "alloc"
                ELSE "wake")
  /\ room' = [room EXCEPT !["pm"] = IF pc'["pm"] = "alloc" THEN Batch ELSE 0]
  /\ UNCHANGED <<flags, netif, queues, pending, usage, owed, leaving,
                 left>>

Resumed ==
  /\ pc["pm"] = "wake"
  /\ stopped' = (stopped /\ TxLen >= TX_QLEN)
  /\ bh' = TRUE
  /\ Goto("pm", "awake")
  /\ UNCHANGED <<flags, running, present, carrier, queues, delay, work,
                 room, usage, owed, leaving, left>>

-----------------------------------------------------------------------------
RunBh(p) == Decide(p) \/ Finish(p)
Submission(p) == rx_alloc_submit(p) \/ rx_submit(p)
Terminate(p) == UnlinkTx(p) \/ UnlinkReads(p) \/ WaitQueue(p)

Completion == rx_complete \/ Resubmit \/ tx_complete \/ tx_deferred

usbnet_deferred_kevent ==
  \/ KeventRuns \/ TxHalt \/ ClearTxHalt \/ RxHalt \/ ClearRxHalt \/ Memory
  \/ MemoryAwake \/ MemoryRead \/ MemoryPut \/ HandleLink

usbnet_stop ==
  \/ Stop \/ StopAwake \/ ClearFlags \/ KillTimer \/ KillTasklet \/ CancelWork
  \/ Stopped

Suspension == usbnet_suspend \/ netif_device_detach \/ netif_device_attach

Next ==
  \/ Completion
  \/ TaskletRuns \/ TimerFires
  \/ \E p \in Bh : RunBh(p)
  \/ \E p \in Submitters : Submission(p)
  \/ usbnet_deferred_kevent
  \/ \E link, need_reset \in BOOLEAN : usbnet_link_change(link, need_reset)
  \/ usbnet_start_xmit \/ usbnet_tx_timeout
  \/ \E p \in {"net", "pm"} : Terminate(p)
  \/ Open \/ Opened \/ OpenFails
  \/ usbnet_stop
  \/ Disconnect \/ Unregistered \/ FreeDevice
  \/ GrowMtu \/ usbnet_unlink_rx_urbs \/ usbnet_resume_rx \/ MtuChanged
  \/ BeginSuspend \/ Suspension \/ usbnet_resume \/ ResumeReads \/ Resumed

(* The tasklet, the timer and the work queue run what is scheduled, a      *)
(* handler and a call that has begun go on, an unlinked URB completes, and *)
(* a device somebody needs is resumed.  Nothing says that traffic comes.   *)
RxUnlinked == rx_complete /\ rxq["unlink"] > 0 /\ rxq'["unlink"] < rxq["unlink"]
TxUnlinked == tx_complete /\ txq["unlink"] > 0 /\ txq'["unlink"] < txq["unlink"]

Fairness ==
  /\ WF_vars(TaskletRuns) /\ WF_vars(TimerFires)
  /\ \A p \in Bh : WF_vars(RunBh(p))
  /\ \A p \in Submitters : WF_vars(Submission(p))
  /\ SF_vars(RxUnlinked) /\ SF_vars(TxUnlinked)
  /\ WF_vars(Resubmit \/ tx_deferred) /\ WF_vars(usbnet_deferred_kevent)
  /\ \A p \in {"net", "pm"} : WF_vars(Terminate(p))
  /\ WF_vars(Suspension) /\ WF_vars(usbnet_resume /\ usage > 0)
  /\ WF_vars(ResumeReads \/ Resumed)
  /\ WF_vars(leaving /\ Stop) /\ WF_vars(Unregistered \/ FreeDevice)
  /\ WF_vars(StopAwake \/ ClearFlags \/ KillTimer \/ KillTasklet \/ CancelWork
             \/ Stopped)

Spec == Init /\ [][Next]_vars
FairSpec == Spec /\ Fairness

-----------------------------------------------------------------------------
(* Once suspended, the device has no read and no write in flight, whoever  *)
(* was about to submit one when the suspension began (usbnet.c:529-535,    *)
(* 1470-1484, 1913-1923).                                                  *)
AsleepQuiet == pc["pm"] = "asleep" => RxLen = 0 /\ TxLen = 0

(* After usbnet_stop nothing of the interface is left in flight or         *)
(* scheduled, although the tasklet, the timer and the work start each      *)
(* other (usbnet.c:863-876).                                               *)
QuietAfterStop ==
  ~running /\ pc["net"] = "idle"
  => RxLen = 0 /\ TxLen = 0 /\ done = 0 /\ ~delay /\ ~bh

(* When the device structure is freed no context can still reach it        *)
(* (usbnet.c:1650-1670).                                                   *)
FreedUnused ==
  pc["net"] = "gone"
  => /\ RxLen = 0 /\ TxLen = 0 /\ done = 0 /\ deferred = 0
     /\ ~delay /\ ~bh /\ ~work
     /\ \A p \in Procs \ {"net", "pm"} : pc[p] = "idle"

(* Every reference that keeps the device awake has a holder: a packet, a   *)
(* work item or a call under way, or an interface without remote wakeup.   *)
(* None is lost on an error path, none given back twice.                   *)
One(b) == IF b THEN 1 ELSE 0
PmBalanced ==
  pc["net"] # "gone" =>
  usage = TxFlying + deferred + owed
          + One(~KeventHarmless)
          + One(pc["net"] \in {"opening", "get"})
          + One("NO_RUNTIME_PM" \in flags)

(* Reads are wanted: the interface is open and nothing forbids them.       *)
Ready ==
  /\ running /\ present /\ carrier
  /\ "DEV_OPEN" \in flags
  /\ {"RX_HALT", "RX_PAUSED", "DEV_ASLEEP", "UNPLUG"} \cap flags = {}
  /\ pc["net"] = "idle" /\ pc["pm"] = "awake"

(* Somebody will go through usbnet_bh's decision, or is before it.         *)
BhComes ==
  \/ bh \/ delay \/ work
  \/ \E p \in Bh : pc[p] \notin {"idle", "wake"}
  \/ pc["irq"] # "idle" \/ pc["kevent"] # "idle"

(* The receive queue of an interface in use is never left short with       *)
(* nobody to fill it, nor the transmit queue stopped with nobody to wake   *)
(* it: no wakeup is lost between the contexts.  (A transmit halt that      *)
(* could not be cleared is left to the watchdog.)                          *)
RxCovered == RxLen < RX_QLEN => BhComes
TxCovered ==
  stopped /\ "TX_HALT" \notin flags
  => BhComes \/ TxLen > 0 \/ \E p \in Bh : pc[p] = "wake"
TrafficCovered == Ready => RxCovered /\ TxCovered

(* Closing the interface ends, and so does the wait for what it unlinked   *)
(* (usbnet.c:790-824).                                                     *)
StopReturns == (pc["net"] = "get") ~> (pc["net"] \in {"idle", "gone"})
=============================================================================
