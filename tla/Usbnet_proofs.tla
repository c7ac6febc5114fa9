---------------------------- MODULE Usbnet_proofs ----------------------------
(***************************************************************************)
(* TypeOK, PmBalanced, AsleepQuiet and TrafficCovered whenever an open may  *)
(* fail; QuietAfterStop and FreedUnused where none fails while the tasklet  *)
(* is still to run (OpenRaces = {FALSE}).                                   *)
(*                                                                          *)
(* The argument: what a context may still do depends on where usbnet_stop   *)
(* and usbnet_suspend are.  The interface (NetInv), the references a stop   *)
(* owes (OwedInv), the wakefulness these give (AwakeInv) and DEV_ASLEEP     *)
(* (SleepInv) follow those two; under the flags they set nothing is         *)
(* submitted any more, so that each queue, once empty, stays so (DrainInv), *)
(* and each kill is final for what the kills before it have silenced        *)
(* (KilledInv).  The count of references needs all of these, for a put must *)
(* not go below zero (UsageStep).  That traffic goes on is a property of    *)
(* the handoffs: a buffer is deferred, or the queue left short, only with   *)
(* another run of usbnet_bh to come (KickInv, TrafficInv).                  *)
(*                                                                          *)
(* The contexts that run in the work or in the tasklet touch none of what   *)
(* the first four invariants are about: WorkFrame says so once.             *)
(***************************************************************************)
EXTENDS Usbnet, TLAPS

(* The two who unlink what is in flight and wait for it. *)
Ends == {"net", "pm"}

(* Where usbnet_stop is: it waits for the queues, it has cleared the flags *)
(* and kills what is scheduled.                                            *)
Stopping == {"get", "clear"} \cup Terminating
Kills == {"kill_timer", "kill_bh", "cancel", "kill_bh_again", "kill_timer_again",
          "cancel_again", "put"}
Mtu == {"mtu_flush", "mtu_resume", "mtu_softirq"}
Gone == {"unregister", "free", "gone"}

\* The interface has been stopped, or not opened, and is not yet open again.
Drained ==
  \/ pc["net"] \in Kills \cup {"free", "gone", "opening"}
  \/ ~running /\ pc["net"] \in {"idle", "unregister"} \cup Mtu

\* Suspended, or on the way there.
Down == {"detach", "attach", "asleep"} \cup Terminating

\* What the interface is known to be where the network core is.
NetInv ==
  /\ pc["net"] = "opening" => running
  /\ pc["net"] \in Stopping \cup Kills \cup {"free", "gone"} => ~running
  /\ pc["net"] \in {"idle", "opening"} \cup Mtu => ~leaving
  /\ pc["net"] \in Gone => leaving
  /\ "DEV_OPEN" \in flags => running /\ pc["net"] # "opening"

\* The references of usbnet_stop, and of an interface without remote wakeup.
OwedInv ==
  /\ "NO_RUNTIME_PM" \in flags =>
       \/ running /\ pc["net"] # "opening"
       \/ pc["net"] \in Stopping
  /\ pc["net"] \in {"clear"} \cup Terminating => owed <= 1
  /\ pc["net"] \in {"clear"} \cup Terminating \cup Kills => leaving \/ owed > 0
  /\ pc["net"] \in {"idle", "opening", "get"} \cup Mtu \cup Gone => owed = 0

\* While usbnet_stop runs the device is awake, unless it is gone; and the
\* device of a driver that leaves is neither suspended nor resumed.
AwakeInv ==
  /\ pc["net"] \in {"clear"} \cup Terminating \cup Kills => leaving \/ pc["pm"] = "awake"
  /\ leaving => pc["pm"] \in {"awake", "asleep"}
  /\ pc["pm"] \in {"alloc", "lock", "wake"} => "DEV_OPEN" \in flags \/ pc["net"] = "get"

\* From the flag on, nothing new is submitted to a device that suspends.
SleepInv ==
  /\ "DEV_ASLEEP" \in flags => pc["pm"] \in Down
  /\ pc["pm"] \in Down => "DEV_ASLEEP" \in flags \/ (leaving /\ ~running)
  /\ pc["pm"] \in Down => TxLen = 0
  /\ pc["pm"] \in {"wait_tx", "wait_done", "attach", "asleep"} => RxLen = 0
  /\ deferred > 0 => pc["pm"] \in Down
  /\ Drained \/ pc["net"] \in {"clear"} \cup Terminating => leaving \/ deferred = 0

\* A write that has completed is still in the queue while its handler runs.
PutInv == txq["put"] = One(pc["irq"] = "tx_done")

\* The queues are emptied one after the other, and stay empty.
DrainInv ==
  /\ Drained \/ pc["net"] \in {"wait_tx", "wait_done", "clear"} => RxLen = 0
  /\ Drained \/ pc["net"] \in {"wait_done", "clear"} => TxLen = 0
  /\ Drained \/ pc["net"] = "clear" => done = 0
  /\ Drained => {"TX_HALT", "RX_HALT"} \cap flags = {}
  /\ Drained /\ pc["net"] # "kill_timer" => ~delay /\ pc["timer"] = "idle"

\* Nothing of a device that is freed can still run.
FreedInv ==
  /\ pc["net"] \in {"free", "gone"} => /\ pc["irq"] = "idle"
                                     /\ pc["tasklet"] \in {"idle", "decide"}
  /\ pc["net"] = "gone" => ~work /\ pc["kevent"] = "idle" /\ deferred = 0

\* Once cancelled the work no longer schedules the tasklet, and the tasklet
\* killed after that stays so.
KilledInv ==
  /\ Drained /\ pc["net"] \notin {"kill_timer", "kill_bh", "cancel", "opening"}
     => KeventHarmless
  /\ Drained /\ pc["net"] \notin {"kill_timer", "kill_bh", "cancel", "kill_bh_again",
                                  "opening"} \cup Mtu
     => ~bh /\ pc["tasklet"] = "idle"

\* A buffer to be looked at, or a count of errors to be forgotten, has the
\* tasklet scheduled for it.
KickInv ==
  /\ done > 0 => bh
  /\ "RX_KILL" \in flags => bh \/ \E p \in Bh : pc[p] = "decide"

\* The interface is in use: open, and nothing has begun that forbids traffic.
InUse ==
  /\ running /\ present /\ carrier
  /\ "DEV_OPEN" \in flags
  /\ {"RX_HALT", "RX_PAUSED", "DEV_ASLEEP", "UNPLUG"} \cap flags = {}
  /\ pc["net"] \in {"idle", "mtu_softirq"} /\ pc["pm"] \in {"awake", "suspending"}

\* A run of usbnet_bh is to come, or has not yet refilled the queue.
Refilling == bh \/ delay \/ \E p \in Bh : pc[p] \in {"decide", "refilled"} \cup Filling

\* Who is short of reads, or has stopped the queue, has such a run to come; the
\* writes in flight, when they complete, are as good for the stopped queue.
TrafficInv ==
  InUse =>
    /\ RxLen < RX_QLEN => Refilling
    /\ stopped /\ "TX_HALT" \notin flags
       => Refilling \/ TxLen > 0 \/ \E p \in Bh : pc[p] = "wake"

\* A submitter that holds the lock was given room for a read.
RoomInv == \A p \in Bh \cup {"pm"} : pc[p] = "lock" => room[p] > 0

USE DEF Procs, Bh, Submitters, Kinds, UrbStates, TxStates, Terminating, Filling,
        One, Kills, Stopping, Mtu, Gone, Ends, Down

\* The labels of each context, written out.
LEMMA LabelsOf ==
  /\ Labels["irq"] = {"idle", "resubmit", "lock", "tx_done"}
  /\ Labels["tasklet"] = {"idle", "decide", "refilled", "wake", "alloc", "lock"}
  /\ Labels["timer"] = {"idle", "decide", "refilled", "wake", "alloc", "lock"}
  /\ Labels["kevent"] = {"idle", "tx_halt", "tx_clear", "rx_halt", "rx_clear", "memory",
                         "get", "alloc", "lock", "resched", "put", "link"}
  /\ Labels["net"] = {"idle", "opening"} \cup Stopping \cup Kills \cup Mtu \cup Gone
  /\ Labels["pm"] = {"awake", "suspending", "resuming", "wake", "alloc", "lock"} \cup Down
BY DEF Labels

\* TypeOK in parts: where the contexts are, flags and booleans, queues,
\* references, bounds.
PcType ==
  /\ pc \in [Procs -> UNION {Labels[p] : p \in Procs}]
  /\ \A p \in Procs : pc[p] \in Labels[p]

CtlType ==
  /\ flags \subseteq Events
  /\ {running, present, carrier, stopped, bh, delay, work, leaving} \subseteq BOOLEAN
  /\ owed \in 0..2

QueueType ==
  /\ rxq \in [UrbStates -> Nat]
  /\ txq \in [TxStates -> Nat]
  /\ done \in Nat /\ deferred \in Nat

UsageType == usage \in Nat

BoundType ==
  /\ room \in [Bh \cup {"pm"} -> 0..Batch]
  /\ left \in [Kinds -> Nat]

\* A step moves its own context only.
LEMMA GotoEffect ==
  ASSUME PcType, NEW p \in Procs, NEW label \in Labels[p], Goto(p, label)
  PROVE  PcType' /\ pc'[p] = label /\ \A q \in Procs \ {p} : pc'[q] = pc[q]
<1>1. label \in UNION {Labels[q] : q \in Procs}
  OBVIOUS
<1> QED BY <1>1 DEF PcType, Goto

\* Unlinking moves no read out of its queue: the completions do.
LEMMA RxUnlinkEffect ==
  ASSUME rxq \in [UrbStates -> Nat], UnlinkRx
  PROVE  rxq' \in [UrbStates -> Nat] /\ RxLen' = RxLen
BY DEF UnlinkRx, unlink_urbs, RxLen

\* Nor a write.
LEMMA TxUnlinkEffect ==
  ASSUME txq \in [TxStates -> Nat], txq' = unlink_urbs(txq)
  PROVE  /\ txq' \in [TxStates -> Nat] /\ txq'["put"] = txq["put"]
         /\ TxLen' = TxLen /\ TxFlying' = TxFlying
BY DEF unlink_urbs, TxLen, TxFlying

\* The lengths are natural numbers, and zero where no buffer is in any state.
LEMMA Lengths ==
  ASSUME QueueType
  PROVE  /\ RxLen \in Nat /\ TxFlying \in Nat /\ TxLen \in Nat
         /\ RxLen = 0 <=> rxq["start"] = 0 /\ rxq["unlink"] = 0
         /\ TxLen = 0 <=> \A s \in TxStates : txq[s] = 0
BY DEF QueueType, RxLen, TxFlying, TxLen

\* A holder of a reference that gives it back finds one to give.
LEMMA UsageHeld ==
  ASSUME CtlType, QueueType, PmBalanced, pc["net"] # "gone"
  PROVE  /\ usage >= TxFlying /\ usage >= deferred /\ usage >= owed
         /\ ~KeventHarmless => usage > 0
BY DEF CtlType, QueueType, PmBalanced, TxFlying

\* The first buffer that is deferred schedules the tasklet; the others find it
\* scheduled.
LEMMA DeferKicks ==
  ASSUME QueueType, KickInv, defer_bh
  PROVE  bh'
<1>1. bh \/ done = 0
  BY DEF QueueType, KickInv
<1> QED BY <1>1 DEF defer_bh

USE QlenAssumption, LeftoversAssumption, BudgetAssumption

-----------------------------------------------------------------------------
(* What a step of a context does to the others                             *)


\* What runs in an interrupt, a tasklet, the timer or the work, and what the
\* network core does without a lock.
Work ==
  \/ rx_complete \/ Resubmit \/ tx_complete \/ tx_deferred
  \/ TaskletRuns \/ TimerFires
  \/ \E p \in Bh : Decide(p) \/ Finish(p)
  \/ KeventRuns \/ TxHalt \/ ClearTxHalt \/ RxHalt \/ ClearRxHalt \/ Memory
  \/ MemoryAwake \/ MemoryRead \/ MemoryPut \/ HandleLink
  \/ \E link, need_reset \in BOOLEAN : usbnet_link_change(link, need_reset)
  \/ usbnet_start_xmit \/ usbnet_tx_timeout

WorkKeeps ==
  /\ UNCHANGED <<running, leaving, owed>>
  /\ pc'["net"] = pc["net"] /\ pc'["pm"] = pc["pm"]
  /\ \A e \in {"DEV_OPEN", "NO_RUNTIME_PM", "DEV_ASLEEP"} : e \in flags' <=> e \in flags
\* No step of the work leaves the state of the interface behind.
LEMMA WorkFrame ==
  ASSUME PcType, CtlType, Work
  PROVE  WorkKeeps /\ Drained' = Drained
<1> SUFFICES WorkKeeps
  BY DEF WorkKeeps, Drained
<1>1. CASE rx_complete
  BY <1>1 DEF WorkKeeps, PcType, rx_complete, RxCounted, Goto
<1>2. CASE Resubmit
  BY <1>2 DEF WorkKeeps, PcType, Resubmit, PrepareRead, Goto, usbnet_defer_kevent
<1>3. CASE tx_complete
  BY <1>3 DEF WorkKeeps, tx_complete, Goto, usbnet_defer_kevent
<1>4. CASE tx_deferred
  BY <1>4 DEF WorkKeeps, tx_deferred, Goto
<1>5. CASE TaskletRuns
  BY <1>5 DEF WorkKeeps, TaskletRuns, Goto, netif
<1>6. CASE TimerFires
  BY <1>6 DEF WorkKeeps, TimerFires, Goto, netif
<1>7. CASE \E p \in Bh : Decide(p)
  BY <1>7 DEF WorkKeeps, Decide, Goto, netif
<1>8. CASE \E p \in Bh : Finish(p)
  BY <1>8 DEF WorkKeeps, Finish, Goto
<1>9. CASE KeventRuns
  BY <1>9 DEF WorkKeeps, KeventRuns, Goto, netif
<1>10. CASE TxHalt
  BY <1>10 DEF WorkKeeps, PcType, TxHalt, Goto, netif
<1>11. CASE ClearTxHalt
  BY <1>11 DEF WorkKeeps, ClearTxHalt, Goto
<1>12. CASE RxHalt
  BY <1>12 DEF WorkKeeps, PcType, RxHalt, Goto, netif
<1>13. CASE ClearRxHalt
  BY <1>13 DEF WorkKeeps, ClearRxHalt, Goto, netif
<1>14. CASE Memory
  BY <1>14 DEF WorkKeeps, PcType, Memory, Goto, netif
<1>15. CASE MemoryAwake
  BY <1>15 DEF WorkKeeps, PcType, MemoryAwake, Goto, netif
<1>16. CASE MemoryRead
  BY <1>16
  DEF WorkKeeps, PcType, MemoryRead, PrepareRead, Goto, usbnet_defer_kevent, netif
<1>17. CASE MemoryPut
  BY <1>17 DEF WorkKeeps, MemoryPut, Goto, netif
<1>18. CASE HandleLink
  BY <1>18 DEF WorkKeeps, HandleLink, Goto
<1>19. CASE \E link, need_reset \in BOOLEAN : usbnet_link_change(link, need_reset)
  BY <1>19 DEF WorkKeeps, usbnet_link_change
<1>20. CASE usbnet_start_xmit
  BY <1>20 DEF WorkKeeps, usbnet_start_xmit, usbnet_defer_kevent
<1>21. CASE usbnet_tx_timeout
  BY <1>21 DEF WorkKeeps, usbnet_tx_timeout, netif
<1> QED
  BY <1>1, <1>2, <1>3, <1>4, <1>5, <1>6, <1>7, <1>8, <1>9, <1>10, <1>11, <1>12,
     <1>13, <1>14, <1>15, <1>16, <1>17, <1>18, <1>19, <1>20, <1>21
  DEF Work


-----------------------------------------------------------------------------
(* Types                                                                   *)

\* Every context is where its code can be.
LEMMA PcStep ==
  ASSUME PcType, QueueType, Next
  PROVE  PcType'
<1>1. CASE rx_complete
  BY <1>1, LabelsOf, GotoEffect DEF rx_complete
<1>2. CASE Resubmit
  BY <1>2, LabelsOf, GotoEffect DEF Resubmit, PrepareRead, AfterSubmit
<1>3. CASE tx_complete
  BY <1>3, LabelsOf, GotoEffect DEF tx_complete
<1>4. CASE tx_deferred
  BY <1>4, LabelsOf, GotoEffect DEF tx_deferred
<1>5. CASE TaskletRuns
  BY <1>5, LabelsOf, GotoEffect DEF TaskletRuns
<1>6. CASE TimerFires
  BY <1>6, LabelsOf, GotoEffect DEF TimerFires
<1>7. CASE \E p \in Bh : Decide(p)
  <2>1. PICK p \in Bh : Decide(p)
    BY <1>7
  <2> QED
    BY <2>1, LabelsOf, GotoEffect DEF Decide
<1>8. CASE \E p \in Bh : Finish(p)
  <2>1. PICK p \in Bh : Finish(p)
    BY <1>8
  <2> QED
    BY <2>1, LabelsOf, GotoEffect DEF Finish
<1>9. CASE \E p \in Submitters : rx_alloc_submit(p)
  <2>1. PICK p \in Submitters : rx_alloc_submit(p)
    BY <1>9
  <2> QED
    BY <2>1, LabelsOf, GotoEffect DEF rx_alloc_submit, PrepareRead, AfterSubmit
<1>10. CASE \E p \in Submitters : rx_submit(p)
  <2>1. PICK p \in Submitters : rx_submit(p)
    BY <1>10
  <2> QED
    BY <2>1, LabelsOf, GotoEffect
    DEF rx_submit, SubmitRead, AfterSubmit, ReadSubmitted, ReadRefused
<1>11. CASE KeventRuns
  BY <1>11, LabelsOf, GotoEffect DEF KeventRuns
<1>12. CASE TxHalt
  BY <1>12, LabelsOf, GotoEffect DEF TxHalt
<1>13. CASE ClearTxHalt
  BY <1>13, LabelsOf, GotoEffect DEF ClearTxHalt
<1>14. CASE RxHalt
  BY <1>14, LabelsOf, GotoEffect DEF RxHalt
<1>15. CASE ClearRxHalt
  BY <1>15, LabelsOf, GotoEffect DEF ClearRxHalt
<1>16. CASE Memory
  BY <1>16, LabelsOf, GotoEffect DEF Memory
<1>17. CASE MemoryAwake
  BY <1>17, LabelsOf, GotoEffect DEF MemoryAwake
<1>18. CASE MemoryRead
  BY <1>18, LabelsOf, GotoEffect DEF MemoryRead, PrepareRead, AfterSubmit
<1>19. CASE MemoryPut
  BY <1>19, LabelsOf, GotoEffect DEF MemoryPut
<1>20. CASE HandleLink
  BY <1>20, LabelsOf, GotoEffect DEF HandleLink
<1>21. CASE \E link, need_reset \in BOOLEAN : usbnet_link_change(link, need_reset)
  BY <1>21 DEF PcType, usbnet_link_change
<1>22. CASE usbnet_start_xmit
  BY <1>22 DEF PcType, usbnet_start_xmit
<1>23. CASE usbnet_tx_timeout
  BY <1>23 DEF PcType, usbnet_tx_timeout
<1>24. CASE \E p \in Ends : UnlinkTx(p)
  <2>1. PICK p \in Ends : UnlinkTx(p)
    BY <1>24
  <2> QED
    BY <2>1, LabelsOf, GotoEffect DEF UnlinkTx
<1>25. CASE \E p \in Ends : UnlinkReads(p)
  <2>1. PICK p \in Ends : UnlinkReads(p)
    BY <1>25
  <2> QED
    BY <2>1, LabelsOf, GotoEffect DEF UnlinkReads
<1>26. CASE \E p \in Ends : WaitQueue(p)
  <2>1. PICK p \in Ends : WaitQueue(p)
    BY <1>26
  <2> QED
    BY <2>1, LabelsOf, GotoEffect DEF WaitQueue
<1>27. CASE Open
  BY <1>27, LabelsOf, GotoEffect DEF Open
<1>28. CASE Opened
  BY <1>28, LabelsOf, GotoEffect DEF Opened
<1>29. CASE OpenFails
  BY <1>29, LabelsOf, GotoEffect DEF OpenFails
<1>30. CASE Stop
  BY <1>30, LabelsOf, GotoEffect DEF Stop
<1>31. CASE StopAwake
  BY <1>31, LabelsOf, GotoEffect DEF StopAwake
<1>32. CASE ClearFlags
  BY <1>32, LabelsOf, GotoEffect DEF ClearFlags
<1>33. CASE KillTimer
  BY <1>33, LabelsOf, GotoEffect DEF KillTimer
<1>34. CASE KillTasklet
  BY <1>34, LabelsOf, GotoEffect DEF KillTasklet
<1>35. CASE CancelWork
  BY <1>35, LabelsOf, GotoEffect DEF CancelWork
<1>36. CASE Stopped
  BY <1>36, LabelsOf, GotoEffect DEF Stopped
<1>37. CASE Disconnect
  BY <1>37, LabelsOf, GotoEffect DEF Disconnect
<1>38. CASE Unregistered
  BY <1>38, LabelsOf, GotoEffect DEF Unregistered
<1>39. CASE FreeDevice
  BY <1>39, LabelsOf, GotoEffect DEF FreeDevice
<1>40. CASE GrowMtu
  BY <1>40, LabelsOf, GotoEffect DEF GrowMtu
<1>41. CASE usbnet_unlink_rx_urbs
  BY <1>41, LabelsOf, GotoEffect DEF usbnet_unlink_rx_urbs
<1>42. CASE usbnet_resume_rx
  BY <1>42, LabelsOf, GotoEffect DEF usbnet_resume_rx
<1>43. CASE MtuChanged
  BY <1>43, LabelsOf, GotoEffect DEF MtuChanged
<1>44. CASE BeginSuspend
  BY <1>44, LabelsOf, GotoEffect DEF BeginSuspend
<1>45. CASE usbnet_suspend
  BY <1>45, LabelsOf, GotoEffect DEF usbnet_suspend
<1>46. CASE netif_device_detach
  BY <1>46, LabelsOf, GotoEffect DEF netif_device_detach
<1>47. CASE netif_device_attach
  BY <1>47, LabelsOf, GotoEffect DEF netif_device_attach
<1>48. CASE usbnet_resume
  BY <1>48, LabelsOf, GotoEffect DEF usbnet_resume
<1>49. CASE ResumeReads
  BY <1>49, LabelsOf, GotoEffect DEF ResumeReads
<1>50. CASE Resumed
  BY <1>50, LabelsOf, GotoEffect DEF Resumed
<1> QED
  BY <1>1, <1>2, <1>3, <1>4, <1>5, <1>6, <1>7, <1>8, <1>9, <1>10, <1>11, <1>12,
     <1>13, <1>14, <1>15, <1>16, <1>17, <1>18, <1>19, <1>20, <1>21, <1>22, <1>23,
     <1>24, <1>25, <1>26, <1>27, <1>28, <1>29, <1>30, <1>31, <1>32, <1>33, <1>34,
     <1>35, <1>36, <1>37, <1>38, <1>39, <1>40, <1>41, <1>42, <1>43, <1>44, <1>45,
     <1>46, <1>47, <1>48, <1>49, <1>50
  DEF Next, Completion, RunBh, Submission, usbnet_deferred_kevent, Terminate,
      usbnet_stop, Suspension

\* Flags are events, and usbnet_stop owes two references at most.
LEMMA CtlStep ==
  ASSUME PcType, CtlType, QueueType, OwedInv, Next
  PROVE  CtlType'
<1>1. CASE rx_complete
  BY <1>1
  DEF PcType, CtlType, OwedInv, Events, rx_complete, RxCounted, Goto, Spend,
      usbnet_going_away, Arm, defer_bh
<1>2. CASE Resubmit
  BY <1>2
  DEF PcType, CtlType, OwedInv, Events, Resubmit, PrepareRead, Goto, AfterSubmit,
      Spend, usbnet_defer_kevent, usbnet_going_away
<1>3. CASE tx_complete
  BY <1>3
  DEF PcType, CtlType, OwedInv, Events, tx_complete, Goto, Spend,
      usbnet_defer_kevent, usbnet_going_away, Arm
<1>4. CASE tx_deferred
  BY <1>4 DEF CtlType, tx_deferred, defer_bh
<1>5. CASE TaskletRuns
  BY <1>5 DEF PcType, CtlType, OwedInv, Events, TaskletRuns, Goto, netif
<1>6. CASE TimerFires
  BY <1>6 DEF PcType, CtlType, OwedInv, Events, TimerFires, Goto, netif
<1>7. CASE \E p \in Bh : Decide(p)
  <2>1. PICK p \in Bh : Decide(p)
    BY <1>7
  <2> QED
    BY <2>1 DEF CtlType, Decide, netif, pending
<1>8. CASE \E p \in Bh : Finish(p)
  <2>1. PICK p \in Bh : Finish(p)
    BY <1>8
  <2> QED
    BY <2>1 DEF CtlType, Finish
<1>9. CASE \E p \in Submitters : rx_alloc_submit(p)
  <2>1. PICK p \in Submitters : rx_alloc_submit(p)
    BY <1>9
  <2> QED
    BY <2>1
    DEF PcType, CtlType, OwedInv, Events, rx_alloc_submit, RxLen, Goto, PrepareRead,
        AfterSubmit, Spend, usbnet_defer_kevent, usbnet_going_away
<1>10. CASE \E p \in Submitters : rx_submit(p)
  <2>1. PICK p \in Submitters : rx_submit(p)
    BY <1>10
  <2> QED
    BY <2>1
    DEF PcType, CtlType, OwedInv, Events, rx_submit, SubmitRead, MayRead,
        usbnet_going_away, Goto, AfterSubmit, ReadSubmitted, ReadRefused, Spend,
        usbnet_defer_kevent
<1>11. CASE KeventRuns
  BY <1>11 DEF PcType, CtlType, OwedInv, Events, KeventRuns, Goto, netif, queues
<1>12. CASE TxHalt
  BY <1>12 DEF CtlType, TxHalt, netif, pending
<1>13. CASE ClearTxHalt
  BY <1>13
  DEF PcType, CtlType, OwedInv, Events, ClearTxHalt, Spend, Goto, queues, pending
<1>14. CASE RxHalt
  BY <1>14 DEF CtlType, RxHalt, netif, pending
<1>15. CASE ClearRxHalt
  BY <1>15
  DEF PcType, CtlType, OwedInv, Events, ClearRxHalt, usbnet_going_away, Goto, netif,
      queues
<1>16. CASE Memory
  BY <1>16 DEF PcType, CtlType, OwedInv, Memory, netif, pending
<1>17. CASE MemoryAwake
  BY <1>17 DEF CtlType, MemoryAwake, netif, pending
<1>18. CASE MemoryRead
  BY <1>18
  DEF PcType, CtlType, OwedInv, Events, MemoryRead, PrepareRead, Goto, AfterSubmit,
      Spend, usbnet_defer_kevent, usbnet_going_away, netif, queues
<1>19. CASE MemoryPut
  BY <1>19 DEF CtlType, MemoryPut, netif
<1>20. CASE HandleLink
  <2>1. flags' \subseteq Events
    BY <1>20 DEF CtlType, HandleLink
  <2>2. carrier' \in BOOLEAN /\ bh' \in BOOLEAN
    BY <1>20 DEF CtlType, HandleLink
  <2>3. UNCHANGED <<running, present, stopped, delay, work, leaving, owed>>
    BY <1>20 DEF HandleLink
  <2> QED
    BY <2>1, <2>2, <2>3 DEF CtlType
<1>21. CASE \E link, need_reset \in BOOLEAN : usbnet_link_change(link, need_reset)
  <2>1. PICK link, need_reset \in BOOLEAN : usbnet_link_change(link, need_reset)
    BY <1>21
  <2>2. flags' \subseteq Events
    BY <2>1 DEF CtlType, Events, usbnet_link_change
  <2> QED
    BY <2>1, <2>2
    DEF PcType, CtlType, OwedInv, usbnet_link_change, Spend,
        usbnet_going_away, queues
<1>22. CASE usbnet_start_xmit
  <2>0. stopped' = TRUE \/ stopped' = (TxLen + 1 >= TX_QLEN)
    BY <1>22 DEF usbnet_start_xmit
  <2>1. stopped' \in BOOLEAN
    <3>1. TxLen + 1 \in Int /\ TX_QLEN \in Int
      BY Lengths
    <3>2. CASE stopped' = TRUE
      BY <3>2
    <3>3. CASE stopped' = (TxLen + 1 >= TX_QLEN)
      BY <3>1, <3>3
    <3> QED BY <2>0, <3>2, <3>3
  <2>2. flags' \subseteq Events /\ work' \in BOOLEAN
    BY <1>22 DEF CtlType, Events, usbnet_start_xmit, usbnet_defer_kevent, usbnet_going_away
  <2> QED BY <1>22, <2>1, <2>2 DEF CtlType, usbnet_start_xmit
<1>23. CASE usbnet_tx_timeout
  BY <1>23 DEF CtlType, usbnet_tx_timeout, netif
<1>24. CASE \E p \in Ends : UnlinkTx(p)
  <2>1. PICK p \in Ends : UnlinkTx(p)
    BY <1>24
  <2> QED
    BY <2>1 DEF CtlType, UnlinkTx, netif, pending
<1>25. CASE \E p \in Ends : UnlinkReads(p)
  <2>1. PICK p \in Ends : UnlinkReads(p)
    BY <1>25
  <2> QED
    BY <2>1 DEF CtlType, UnlinkReads, netif, pending
<1>26. CASE \E p \in Ends : WaitQueue(p)
  <2>1. PICK p \in Ends : WaitQueue(p)
    BY <1>26
  <2> QED
    BY <2>1 DEF CtlType, WaitQueue, netif, pending
<1>27. CASE Open
  BY <1>27 DEF CtlType, Open, pending
<1>28. CASE Opened
  BY <1>28 DEF PcType, CtlType, OwedInv, Events, Opened, Spend, Goto, queues
<1>29. CASE OpenFails
  BY <1>29
  DEF PcType, CtlType, OwedInv, Events, OpenFails, KeventHarmless, Spend, Goto,
      queues, pending
<1>30. CASE Stop
  BY <1>30 DEF PcType, CtlType, OwedInv, Events, Stop, Goto, queues, pending
<1>31. CASE StopAwake
  BY <1>31 DEF CtlType, StopAwake, netif, pending
<1>32. CASE ClearFlags
  BY <1>32 DEF CtlType, OwedInv, ClearFlags, netif, pending
<1>33. CASE KillTimer
  BY <1>33 DEF PcType, CtlType, OwedInv, Events, KillTimer, Goto, netif, queues
<1>34. CASE KillTasklet
  BY <1>34 DEF CtlType, KillTasklet, netif, pending
<1>35. CASE CancelWork
  BY <1>35 DEF PcType, CtlType, OwedInv, Events, CancelWork, Goto, netif, queues
<1>36. CASE Stopped
  BY <1>36 DEF CtlType, Stopped, netif, pending
<1>37. CASE Disconnect
  BY <1>37 DEF CtlType, Events, Disconnect, netif, pending
<1>38. CASE Unregistered
  BY <1>38 DEF CtlType, Unregistered, netif, pending
<1>39. CASE FreeDevice
  BY <1>39 DEF PcType, CtlType, OwedInv, Events, FreeDevice, Goto, netif
<1>40. CASE GrowMtu
  BY <1>40 DEF CtlType, Events, GrowMtu, netif, pending
<1>41. CASE usbnet_unlink_rx_urbs
  BY <1>41 DEF PcType, CtlType, OwedInv, Events, usbnet_unlink_rx_urbs, Goto, netif
<1>42. CASE usbnet_resume_rx
  BY <1>42 DEF CtlType, usbnet_resume_rx, netif
<1>43. CASE MtuChanged
  BY <1>43 DEF CtlType, MtuChanged, netif, pending
<1>44. CASE BeginSuspend
  BY <1>44 DEF CtlType, BeginSuspend, netif, pending
<1>45. CASE usbnet_suspend
  BY <1>45
  DEF PcType, CtlType, OwedInv, Events, usbnet_suspend, TxLen, TxFlying, Goto,
      netif, pending
<1>46. CASE netif_device_detach
  BY <1>46
  DEF PcType, CtlType, OwedInv, Events, netif_device_detach, Goto, queues, pending
<1>47. CASE netif_device_attach
  BY <1>47 DEF CtlType, netif_device_attach, pending
<1>48. CASE usbnet_resume
  BY <1>48 DEF CtlType, usbnet_resume, netif, pending
<1>49. CASE ResumeReads
  BY <1>49 DEF CtlType, ResumeReads, netif, pending
<1>50. CASE Resumed
  BY <1>50 DEF CtlType, Resumed
<1> QED
  BY <1>1, <1>2, <1>3, <1>4, <1>5, <1>6, <1>7, <1>8, <1>9, <1>10, <1>11, <1>12,
     <1>13, <1>14, <1>15, <1>16, <1>17, <1>18, <1>19, <1>20, <1>21, <1>22, <1>23,
     <1>24, <1>25, <1>26, <1>27, <1>28, <1>29, <1>30, <1>31, <1>32, <1>33, <1>34,
     <1>35, <1>36, <1>37, <1>38, <1>39, <1>40, <1>41, <1>42, <1>43, <1>44, <1>45,
     <1>46, <1>47, <1>48, <1>49, <1>50
  DEF Next, Completion, RunBh, Submission, usbnet_deferred_kevent, Terminate,
      usbnet_stop, Suspension

\* No queue counts below zero: a write that is put has its handler.
LEMMA QueueStep ==
  ASSUME PcType, QueueType, BoundType, PutInv, Next
  PROVE  QueueType'
<1>1. CASE rx_complete
  BY <1>1 DEF QueueType, rx_complete, defer_bh
<1>2. CASE Resubmit
  BY <1>2 DEF QueueType, Resubmit
<1>3. CASE tx_complete
  BY <1>3 DEF QueueType, tx_complete
<1>4. CASE tx_deferred
  BY <1>4 DEF QueueType, PutInv, tx_deferred, defer_bh
<1>5. CASE TaskletRuns
  BY <1>5 DEF QueueType, TaskletRuns
<1>6. CASE TimerFires
  BY <1>6 DEF QueueType, TimerFires
<1>7. CASE \E p \in Bh : Decide(p)
  <2>1. PICK p \in Bh : Decide(p)
    BY <1>7
  <2> QED
    BY <2>1 DEF QueueType, Decide, queues
<1>8. CASE \E p \in Bh : Finish(p)
  <2>1. PICK p \in Bh : Finish(p)
    BY <1>8
  <2> QED
    BY <2>1 DEF QueueType, Finish, queues
<1>9. CASE \E p \in Submitters : rx_alloc_submit(p)
  <2>1. PICK p \in Submitters : rx_alloc_submit(p)
    BY <1>9
  <2> QED
    BY <2>1 DEF QueueType, rx_alloc_submit
<1>10. CASE \E p \in Submitters : rx_submit(p)
  <2>1. PICK p \in Submitters : rx_submit(p)
    BY <1>10
  <2> QED
    BY <2>1 DEF QueueType, rx_submit, SubmitRead, ReadSubmitted, ReadRefused
<1>11. CASE KeventRuns
  BY <1>11 DEF QueueType, KeventRuns, queues
<1>12. CASE TxHalt
  BY <1>12 DEF QueueType, TxHalt, unlink_urbs
<1>13. CASE ClearTxHalt
  BY <1>13 DEF QueueType, ClearTxHalt, queues
<1>14. CASE RxHalt
  BY <1>14 DEF QueueType, RxHalt, UnlinkRx, unlink_urbs
<1>15. CASE ClearRxHalt
  BY <1>15 DEF QueueType, ClearRxHalt, queues
<1>16. CASE Memory
  BY <1>16 DEF QueueType, Memory, queues
<1>17. CASE MemoryAwake
  BY <1>17 DEF QueueType, MemoryAwake, queues
<1>18. CASE MemoryRead
  BY <1>18 DEF QueueType, MemoryRead, queues
<1>19. CASE MemoryPut
  BY <1>19 DEF QueueType, MemoryPut, queues
<1>20. CASE HandleLink
  BY <1>20 DEF QueueType, HandleLink, UnlinkRx, unlink_urbs
<1>21. CASE \E link, need_reset \in BOOLEAN : usbnet_link_change(link, need_reset)
  <2>1. PICK link, need_reset \in BOOLEAN : usbnet_link_change(link, need_reset)
    BY <1>21
  <2> QED
    BY <2>1 DEF QueueType, usbnet_link_change, queues
<1>22. CASE usbnet_start_xmit
  BY <1>22 DEF QueueType, usbnet_start_xmit, Defer
<1>23. CASE usbnet_tx_timeout
  BY <1>23 DEF QueueType, usbnet_tx_timeout, unlink_urbs
<1>24. CASE \E p \in Ends : UnlinkTx(p)
  <2>1. PICK p \in Ends : UnlinkTx(p)
    BY <1>24
  <2> QED
    BY <2>1 DEF QueueType, UnlinkTx, unlink_urbs
<1>25. CASE \E p \in Ends : UnlinkReads(p)
  <2>1. PICK p \in Ends : UnlinkReads(p)
    BY <1>25
  <2> QED
    BY <2>1 DEF QueueType, UnlinkReads, UnlinkRx, unlink_urbs
<1>26. CASE \E p \in Ends : WaitQueue(p)
  <2>1. PICK p \in Ends : WaitQueue(p)
    BY <1>26
  <2> QED
    BY <2>1 DEF QueueType, WaitQueue, queues
<1>27. CASE Open
  BY <1>27 DEF QueueType, Open, queues
<1>28. CASE Opened
  BY <1>28 DEF QueueType, Opened, queues
<1>29. CASE OpenFails
  BY <1>29 DEF QueueType, OpenFails, queues
<1>30. CASE Stop
  BY <1>30 DEF QueueType, Stop, queues
<1>31. CASE StopAwake
  BY <1>31 DEF QueueType, StopAwake, queues
<1>32. CASE ClearFlags
  BY <1>32 DEF QueueType, ClearFlags, queues
<1>33. CASE KillTimer
  BY <1>33 DEF QueueType, KillTimer, queues
<1>34. CASE KillTasklet
  BY <1>34 DEF QueueType, KillTasklet, queues
<1>35. CASE CancelWork
  BY <1>35 DEF QueueType, CancelWork, queues
<1>36. CASE Stopped
  BY <1>36 DEF QueueType, Stopped, queues
<1>37. CASE Disconnect
  BY <1>37 DEF QueueType, Disconnect, queues
<1>38. CASE Unregistered
  BY <1>38 DEF QueueType, Unregistered, queues
<1>39. CASE FreeDevice
  BY <1>39 DEF QueueType, FreeDevice
<1>40. CASE GrowMtu
  BY <1>40 DEF QueueType, GrowMtu, queues
<1>41. CASE usbnet_unlink_rx_urbs
  BY <1>41 DEF QueueType, usbnet_unlink_rx_urbs, UnlinkRx, unlink_urbs
<1>42. CASE usbnet_resume_rx
  BY <1>42 DEF QueueType, usbnet_resume_rx, queues
<1>43. CASE MtuChanged
  BY <1>43 DEF QueueType, MtuChanged, queues
<1>44. CASE BeginSuspend
  BY <1>44 DEF QueueType, BeginSuspend, queues
<1>45. CASE usbnet_suspend
  BY <1>45 DEF QueueType, usbnet_suspend, queues
<1>46. CASE netif_device_detach
  BY <1>46 DEF QueueType, netif_device_detach, queues
<1>47. CASE netif_device_attach
  BY <1>47 DEF QueueType, netif_device_attach, queues
<1>48. CASE usbnet_resume
  BY <1>48 DEF QueueType, usbnet_resume
<1>49. CASE ResumeReads
  BY <1>49 DEF QueueType, ResumeReads, queues
<1>50. CASE Resumed
  BY <1>50 DEF QueueType, Resumed, queues
<1> QED
  BY <1>1, <1>2, <1>3, <1>4, <1>5, <1>6, <1>7, <1>8, <1>9, <1>10, <1>11, <1>12,
     <1>13, <1>14, <1>15, <1>16, <1>17, <1>18, <1>19, <1>20, <1>21, <1>22, <1>23,
     <1>24, <1>25, <1>26, <1>27, <1>28, <1>29, <1>30, <1>31, <1>32, <1>33, <1>34,
     <1>35, <1>36, <1>37, <1>38, <1>39, <1>40, <1>41, <1>42, <1>43, <1>44, <1>45,
     <1>46, <1>47, <1>48, <1>49, <1>50
  DEF Next, Completion, RunBh, Submission, usbnet_deferred_kevent, Terminate,
      usbnet_stop, Suspension

\* What is given back was held: each reference put is one of those counted.
LEMMA UsageStep ==
  ASSUME PcType, CtlType, QueueType, UsageType, BoundType, NetInv, PutInv, OwedInv,
         PmBalanced, DrainInv, FreedInv, Next
  PROVE  UsageType'
<1>1. CASE rx_complete
  BY <1>1 DEF UsageType, rx_complete
<1>2. CASE Resubmit
  BY <1>2 DEF UsageType, Resubmit
<1>3. CASE tx_complete
  <2>1. TxFlying > 0 /\ pc["net"] # "gone"
    BY <1>3 DEF TxFlying, QueueType, DrainInv, Drained, TxLen, tx_complete
  <2>2. usage' = usage - 1
    BY <1>3 DEF tx_complete
  <2> QED BY <2>1, <2>2, UsageHeld DEF UsageType, TxFlying, QueueType
<1>4. CASE tx_deferred
  BY <1>4 DEF UsageType, tx_deferred
<1>5. CASE TaskletRuns
  BY <1>5 DEF UsageType, TaskletRuns
<1>6. CASE TimerFires
  BY <1>6 DEF UsageType, TimerFires
<1>7. CASE \E p \in Bh : Decide(p)
  <2>1. PICK p \in Bh : Decide(p)
    BY <1>7
  <2> QED
    BY <2>1 DEF UsageType, Decide
<1>8. CASE \E p \in Bh : Finish(p)
  <2>1. PICK p \in Bh : Finish(p)
    BY <1>8
  <2> QED
    BY <2>1 DEF UsageType, Finish
<1>9. CASE \E p \in Submitters : rx_alloc_submit(p)
  <2>1. PICK p \in Submitters : rx_alloc_submit(p)
    BY <1>9
  <2> QED
    BY <2>1 DEF UsageType, rx_alloc_submit
<1>10. CASE \E p \in Submitters : rx_submit(p)
  <2>1. PICK p \in Submitters : rx_submit(p)
    BY <1>10
  <2> QED
    BY <2>1 DEF UsageType, rx_submit
<1>11. CASE KeventRuns
  BY <1>11 DEF UsageType, KeventRuns
<1>12. CASE TxHalt
  BY <1>12 DEF UsageType, TxHalt
<1>13. CASE ClearTxHalt
  <2>1. ~KeventHarmless /\ pc["net"] # "gone"
    BY <1>13 DEF KeventHarmless, FreedInv, ClearTxHalt
  <2>2. usage' = usage - 1
    BY <1>13 DEF ClearTxHalt
  <2> QED BY <2>1, <2>2, UsageHeld DEF UsageType, TxFlying, QueueType
<1>14. CASE RxHalt
  BY <1>14 DEF UsageType, RxHalt
<1>15. CASE ClearRxHalt
  <2>1. ~KeventHarmless /\ pc["net"] # "gone"
    BY <1>15 DEF KeventHarmless, FreedInv, ClearRxHalt
  <2>2. usage' = usage - 1
    BY <1>15 DEF ClearRxHalt
  <2> QED BY <2>1, <2>2, UsageHeld DEF UsageType, TxFlying, QueueType
<1>16. CASE Memory
  BY <1>16 DEF UsageType, Memory
<1>17. CASE MemoryAwake
  BY <1>17 DEF UsageType, MemoryAwake
<1>18. CASE MemoryRead
  BY <1>18 DEF UsageType, MemoryRead
<1>19. CASE MemoryPut
  <2>1. ~KeventHarmless /\ pc["net"] # "gone"
    BY <1>19 DEF KeventHarmless, FreedInv, MemoryPut
  <2>2. usage' = usage - 1
    BY <1>19 DEF MemoryPut
  <2> QED BY <2>1, <2>2, UsageHeld DEF UsageType, TxFlying, QueueType
<1>20. CASE HandleLink
  BY <1>20 DEF UsageType, HandleLink
<1>21. CASE \E link, need_reset \in BOOLEAN : usbnet_link_change(link, need_reset)
  <2>1. PICK link, need_reset \in BOOLEAN : usbnet_link_change(link, need_reset)
    BY <1>21
  <2> QED
    BY <2>1 DEF UsageType, usbnet_link_change
<1>22. CASE usbnet_start_xmit
  BY <1>22 DEF UsageType, usbnet_start_xmit, Defer
<1>23. CASE usbnet_tx_timeout
  BY <1>23 DEF UsageType, usbnet_tx_timeout
<1>24. CASE \E p \in Ends : UnlinkTx(p)
  <2>1. PICK p \in Ends : UnlinkTx(p)
    BY <1>24
  <2> QED
    BY <2>1 DEF UsageType, UnlinkTx
<1>25. CASE \E p \in Ends : UnlinkReads(p)
  <2>1. PICK p \in Ends : UnlinkReads(p)
    BY <1>25
  <2> QED
    BY <2>1 DEF UsageType, UnlinkReads
<1>26. CASE \E p \in Ends : WaitQueue(p)
  <2>1. PICK p \in Ends : WaitQueue(p)
    BY <1>26
  <2> QED
    BY <2>1 DEF UsageType, WaitQueue
<1>27. CASE Open
  BY <1>27 DEF UsageType, Open
<1>28. CASE Opened
  BY <1>28 DEF QueueType, UsageType, OwedInv, PmBalanced, TxFlying, Opened
<1>29. CASE OpenFails
  BY <1>29 DEF QueueType, UsageType, OwedInv, PmBalanced, TxFlying, OpenFails
<1>30. CASE Stop
  BY <1>30 DEF UsageType, Stop
<1>31. CASE StopAwake
  BY <1>31 DEF QueueType, UsageType, OwedInv, PmBalanced, TxFlying, StopAwake
<1>32. CASE ClearFlags
  BY <1>32 DEF UsageType, ClearFlags
<1>33. CASE KillTimer
  BY <1>33 DEF UsageType, KillTimer
<1>34. CASE KillTasklet
  BY <1>34 DEF UsageType, KillTasklet
<1>35. CASE CancelWork
  BY <1>35 DEF UsageType, CancelWork
<1>36. CASE Stopped
  <2>1. pc["net"] # "gone" /\ usage' = usage - owed
    BY <1>36 DEF Stopped
  <2> QED BY <2>1, UsageHeld DEF UsageType, CtlType
<1>37. CASE Disconnect
  BY <1>37 DEF UsageType, Disconnect
<1>38. CASE Unregistered
  BY <1>38 DEF UsageType, Unregistered
<1>39. CASE FreeDevice
  BY <1>39 DEF UsageType, FreeDevice
<1>40. CASE GrowMtu
  BY <1>40 DEF UsageType, GrowMtu
<1>41. CASE usbnet_unlink_rx_urbs
  BY <1>41 DEF UsageType, usbnet_unlink_rx_urbs
<1>42. CASE usbnet_resume_rx
  BY <1>42 DEF UsageType, usbnet_resume_rx
<1>43. CASE MtuChanged
  BY <1>43 DEF UsageType, MtuChanged
<1>44. CASE BeginSuspend
  BY <1>44 DEF UsageType, BeginSuspend
<1>45. CASE usbnet_suspend
  BY <1>45 DEF UsageType, usbnet_suspend
<1>46. CASE netif_device_detach
  BY <1>46 DEF UsageType, netif_device_detach
<1>47. CASE netif_device_attach
  BY <1>47 DEF UsageType, netif_device_attach
<1>48. CASE usbnet_resume
  <2>1. PICK sent \in {deferred, 0} : usage' = usage - (deferred - sent)
    BY <1>48 DEF usbnet_resume
  <2>2. pc["net"] # "gone"
    BY <1>48 DEF usbnet_resume, NetInv
  <2> QED BY <2>1, <2>2, UsageHeld DEF UsageType, QueueType
<1>49. CASE ResumeReads
  BY <1>49 DEF UsageType, ResumeReads
<1>50. CASE Resumed
  BY <1>50 DEF UsageType, Resumed
<1> QED
  BY <1>1, <1>2, <1>3, <1>4, <1>5, <1>6, <1>7, <1>8, <1>9, <1>10, <1>11, <1>12,
     <1>13, <1>14, <1>15, <1>16, <1>17, <1>18, <1>19, <1>20, <1>21, <1>22, <1>23,
     <1>24, <1>25, <1>26, <1>27, <1>28, <1>29, <1>30, <1>31, <1>32, <1>33, <1>34,
     <1>35, <1>36, <1>37, <1>38, <1>39, <1>40, <1>41, <1>42, <1>43, <1>44, <1>45,
     <1>46, <1>47, <1>48, <1>49, <1>50
  DEF Next, Completion, RunBh, Submission, usbnet_deferred_kevent, Terminate,
      usbnet_stop, Suspension

\* A submitter with the lock has room for the read it submits.
LEMMA BoundStep ==
  ASSUME PcType, QueueType, BoundType, RoomInv, Next
  PROVE  BoundType'
<1>1. CASE rx_complete
  BY <1>1 DEF BoundType, rx_complete, Spend
<1>2. CASE Resubmit
  BY <1>2 DEF BoundType, Resubmit, PrepareRead, Spend
<1>3. CASE tx_complete
  BY <1>3 DEF BoundType, tx_complete, Spend
<1>4. CASE tx_deferred
  BY <1>4 DEF BoundType, tx_deferred
<1>5. CASE TaskletRuns
  BY <1>5 DEF BoundType, TaskletRuns
<1>6. CASE TimerFires
  BY <1>6 DEF BoundType, TimerFires
<1>7. CASE \E p \in Bh : Decide(p)
  <2>1. PICK p \in Bh : Decide(p)
    BY <1>7
  <2> QED
    BY <2>1 DEF BoundType, Decide
<1>8. CASE \E p \in Bh : Finish(p)
  <2>1. PICK p \in Bh : Finish(p)
    BY <1>8
  <2> QED
    BY <2>1 DEF BoundType, Finish
<1>9. CASE \E p \in Submitters : rx_alloc_submit(p)
  <2>1. PICK p \in Submitters : rx_alloc_submit(p)
    BY <1>9
  <2> QED
    BY <2>1 DEF BoundType, rx_alloc_submit, PrepareRead, Spend
<1>10. CASE \E p \in Submitters : rx_submit(p)
  <2>1. PICK p \in Submitters : rx_submit(p)
    BY <1>10
  <2> QED
    BY <2>1
    DEF BoundType, RoomInv, rx_submit, SubmitRead, ReadSubmitted, ReadRefused, Spend
<1>11. CASE KeventRuns
  BY <1>11 DEF BoundType, KeventRuns
<1>12. CASE TxHalt
  BY <1>12 DEF BoundType, TxHalt
<1>13. CASE ClearTxHalt
  BY <1>13 DEF BoundType, ClearTxHalt, Spend
<1>14. CASE RxHalt
  BY <1>14 DEF BoundType, RxHalt
<1>15. CASE ClearRxHalt
  BY <1>15 DEF BoundType, ClearRxHalt
<1>16. CASE Memory
  BY <1>16 DEF BoundType, Memory, Spend
<1>17. CASE MemoryAwake
  BY <1>17 DEF BoundType, MemoryAwake
<1>18. CASE MemoryRead
  BY <1>18 DEF BoundType, MemoryRead, PrepareRead, Spend
<1>19. CASE MemoryPut
  BY <1>19 DEF BoundType, MemoryPut
<1>20. CASE HandleLink
  BY <1>20 DEF BoundType, HandleLink
<1>21. CASE \E link, need_reset \in BOOLEAN : usbnet_link_change(link, need_reset)
  <2>1. PICK link, need_reset \in BOOLEAN : usbnet_link_change(link, need_reset)
    BY <1>21
  <2> QED
    BY <2>1 DEF BoundType, usbnet_link_change, Spend
<1>22. CASE usbnet_start_xmit
  BY <1>22 DEF BoundType, usbnet_start_xmit, Spend
<1>23. CASE usbnet_tx_timeout
  BY <1>23 DEF BoundType, usbnet_tx_timeout
<1>24. CASE \E p \in Ends : UnlinkTx(p)
  <2>1. PICK p \in Ends : UnlinkTx(p)
    BY <1>24
  <2> QED
    BY <2>1 DEF BoundType, UnlinkTx
<1>25. CASE \E p \in Ends : UnlinkReads(p)
  <2>1. PICK p \in Ends : UnlinkReads(p)
    BY <1>25
  <2> QED
    BY <2>1 DEF BoundType, UnlinkReads
<1>26. CASE \E p \in Ends : WaitQueue(p)
  <2>1. PICK p \in Ends : WaitQueue(p)
    BY <1>26
  <2> QED
    BY <2>1 DEF BoundType, WaitQueue
<1>27. CASE Open
  BY <1>27 DEF BoundType, Open, Spend
<1>28. CASE Opened
  BY <1>28 DEF BoundType, Opened, Spend
<1>29. CASE OpenFails
  BY <1>29 DEF BoundType, OpenFails, Spend
<1>30. CASE Stop
  BY <1>30 DEF BoundType, Stop
<1>31. CASE StopAwake
  BY <1>31 DEF BoundType, StopAwake
<1>32. CASE ClearFlags
  BY <1>32 DEF BoundType, ClearFlags
<1>33. CASE KillTimer
  BY <1>33 DEF BoundType, KillTimer
<1>34. CASE KillTasklet
  BY <1>34 DEF BoundType, KillTasklet
<1>35. CASE CancelWork
  BY <1>35 DEF BoundType, CancelWork
<1>36. CASE Stopped
  BY <1>36 DEF BoundType, Stopped
<1>37. CASE Disconnect
  BY <1>37 DEF BoundType, Disconnect
<1>38. CASE Unregistered
  BY <1>38 DEF BoundType, Unregistered
<1>39. CASE FreeDevice
  BY <1>39 DEF BoundType, FreeDevice
<1>40. CASE GrowMtu
  BY <1>40 DEF BoundType, GrowMtu, Spend
<1>41. CASE usbnet_unlink_rx_urbs
  BY <1>41 DEF BoundType, usbnet_unlink_rx_urbs
<1>42. CASE usbnet_resume_rx
  BY <1>42 DEF BoundType, usbnet_resume_rx
<1>43. CASE MtuChanged
  BY <1>43 DEF BoundType, MtuChanged
<1>44. CASE BeginSuspend
  BY <1>44 DEF BoundType, BeginSuspend, Spend
<1>45. CASE usbnet_suspend
  BY <1>45 DEF BoundType, usbnet_suspend
<1>46. CASE netif_device_detach
  BY <1>46 DEF BoundType, netif_device_detach
<1>47. CASE netif_device_attach
  BY <1>47 DEF BoundType, netif_device_attach
<1>48. CASE usbnet_resume
  BY <1>48 DEF BoundType, usbnet_resume
<1>49. CASE ResumeReads
  BY <1>49 DEF BoundType, ResumeReads
<1>50. CASE Resumed
  BY <1>50 DEF BoundType, Resumed
<1> QED
  BY <1>1, <1>2, <1>3, <1>4, <1>5, <1>6, <1>7, <1>8, <1>9, <1>10, <1>11, <1>12,
     <1>13, <1>14, <1>15, <1>16, <1>17, <1>18, <1>19, <1>20, <1>21, <1>22, <1>23,
     <1>24, <1>25, <1>26, <1>27, <1>28, <1>29, <1>30, <1>31, <1>32, <1>33, <1>34,
     <1>35, <1>36, <1>37, <1>38, <1>39, <1>40, <1>41, <1>42, <1>43, <1>44, <1>45,
     <1>46, <1>47, <1>48, <1>49, <1>50
  DEF Next, Completion, RunBh, Submission, usbnet_deferred_kevent, Terminate,
      usbnet_stop, Suspension


-----------------------------------------------------------------------------
(* The interface, its references and its sleep                             *)

\* The interface is what the call under way has made of it.
LEMMA NetInvStep ==
  ASSUME PcType, CtlType, NetInv, Next
  PROVE  NetInv'
<1>1. CASE Work
  BY <1>1, WorkFrame DEF NetInv, WorkKeeps
<1>2. CASE \E p \in Submitters : rx_alloc_submit(p)
  <2>1. PICK p \in Submitters : rx_alloc_submit(p)
    BY <1>2
  <2> QED
    BY <2>1
    DEF PcType, NetInv, rx_alloc_submit, Goto, PrepareRead, usbnet_defer_kevent
<1>3. CASE \E p \in Submitters : rx_submit(p)
  <2>1. PICK p \in Submitters : rx_submit(p)
    BY <1>3
  <2> QED
    BY <2>1
    DEF PcType, NetInv, rx_submit, SubmitRead, Goto, ReadSubmitted, ReadRefused,
        usbnet_defer_kevent
<1>4. CASE \E p \in Ends : UnlinkTx(p)
  <2>1. PICK p \in Ends : UnlinkTx(p)
    BY <1>4
  <2> QED
    BY <2>1 DEF NetInv, UnlinkTx, Goto, netif
<1>5. CASE \E p \in Ends : UnlinkReads(p)
  <2>1. PICK p \in Ends : UnlinkReads(p)
    BY <1>5
  <2> QED
    BY <2>1 DEF NetInv, UnlinkReads, Goto, netif
<1>6. CASE \E p \in Ends : WaitQueue(p)
  <2>1. PICK p \in Ends : WaitQueue(p)
    BY <1>6
  <2> QED
    BY <2>1 DEF PcType, NetInv, WaitQueue, Goto, netif
<1>7. CASE Open
  BY <1>7 DEF NetInv, Open, Goto
<1>8. CASE Opened
  BY <1>8 DEF PcType, NetInv, Opened, Goto
<1>9. CASE OpenFails
  BY <1>9 DEF PcType, NetInv, OpenFails, Goto
<1>10. CASE Stop
  BY <1>10 DEF NetInv, Stop, Goto
<1>11. CASE StopAwake
  BY <1>11 DEF NetInv, StopAwake, Goto, netif
<1>12. CASE ClearFlags
  BY <1>12 DEF NetInv, ClearFlags, Goto, netif
<1>13. CASE KillTimer
  BY <1>13 DEF NetInv, KillTimer, Goto, netif
<1>14. CASE KillTasklet
  BY <1>14 DEF NetInv, KillTasklet, Goto, netif
<1>15. CASE CancelWork
  BY <1>15 DEF NetInv, CancelWork, Goto, netif
<1>16. CASE Stopped
  BY <1>16 DEF NetInv, Stopped, Goto, netif
<1>17. CASE Disconnect
  BY <1>17 DEF PcType, NetInv, Disconnect, Goto, netif
<1>18. CASE Unregistered
  BY <1>18 DEF NetInv, Unregistered, Goto, netif
<1>19. CASE FreeDevice
  BY <1>19 DEF NetInv, FreeDevice, Goto, netif
<1>20. CASE GrowMtu
  BY <1>20 DEF NetInv, GrowMtu, Goto, netif
<1>21. CASE usbnet_unlink_rx_urbs
  BY <1>21 DEF NetInv, usbnet_unlink_rx_urbs, Goto, netif
<1>22. CASE usbnet_resume_rx
  BY <1>22 DEF NetInv, usbnet_resume_rx, Goto, netif
<1>23. CASE MtuChanged
  BY <1>23 DEF NetInv, MtuChanged, Goto, netif
<1>24. CASE BeginSuspend
  BY <1>24 DEF NetInv, BeginSuspend, Goto, netif
<1>25. CASE usbnet_suspend
  BY <1>25 DEF PcType, NetInv, usbnet_suspend, Goto, netif
<1>26. CASE netif_device_detach
  BY <1>26 DEF NetInv, netif_device_detach, Goto
<1>27. CASE netif_device_attach
  BY <1>27 DEF NetInv, netif_device_attach, Goto
<1>28. CASE usbnet_resume
  BY <1>28 DEF NetInv, usbnet_resume, Goto, netif
<1>29. CASE ResumeReads
  BY <1>29 DEF NetInv, ResumeReads, Goto, netif
<1>30. CASE Resumed
  BY <1>30 DEF NetInv, Resumed, Goto
<1> QED
  BY <1>1, <1>2, <1>3, <1>4, <1>5, <1>6, <1>7, <1>8, <1>9, <1>10, <1>11, <1>12,
     <1>13, <1>14, <1>15, <1>16, <1>17, <1>18, <1>19, <1>20, <1>21, <1>22, <1>23,
     <1>24, <1>25, <1>26, <1>27, <1>28, <1>29, <1>30
  DEF Next, Work, Completion, RunBh, Submission, usbnet_deferred_kevent, Terminate,
      usbnet_stop, Suspension

\* usbnet_stop owes the reference it took, and that of the interface.
LEMMA OwedStep ==
  ASSUME PcType, CtlType, NetInv, OwedInv, Next
  PROVE  OwedInv'
<1>1. CASE Work
  BY <1>1, WorkFrame DEF OwedInv, WorkKeeps
<1>2. CASE \E p \in Submitters : rx_alloc_submit(p)
  <2>1. PICK p \in Submitters : rx_alloc_submit(p)
    BY <1>2
  <2> QED
    BY <2>1
    DEF PcType, OwedInv, rx_alloc_submit, Goto, PrepareRead, usbnet_defer_kevent
<1>3. CASE \E p \in Submitters : rx_submit(p)
  <2>1. PICK p \in Submitters : rx_submit(p)
    BY <1>3
  <2> QED
    BY <2>1
    DEF PcType, OwedInv, rx_submit, SubmitRead, Goto, ReadSubmitted, ReadRefused,
        usbnet_defer_kevent
<1>4. CASE \E p \in Ends : UnlinkTx(p)
  <2>1. PICK p \in Ends : UnlinkTx(p)
    BY <1>4
  <2> QED
    BY <2>1 DEF OwedInv, UnlinkTx, Goto, netif
<1>5. CASE \E p \in Ends : UnlinkReads(p)
  <2>1. PICK p \in Ends : UnlinkReads(p)
    BY <1>5
  <2> QED
    BY <2>1 DEF OwedInv, UnlinkReads, Goto, netif
<1>6. CASE \E p \in Ends : WaitQueue(p)
  <2>1. PICK p \in Ends : WaitQueue(p)
    BY <1>6
  <2> QED
    BY <2>1 DEF PcType, OwedInv, WaitQueue, Goto, netif
<1>7. CASE Open
  BY <1>7 DEF OwedInv, Open, Goto
<1>8. CASE Opened
  BY <1>8 DEF PcType, NetInv, OwedInv, Opened, Goto
<1>9. CASE OpenFails
  BY <1>9 DEF OwedInv, OpenFails, Goto
<1>10. CASE Stop
  BY <1>10 DEF PcType, OwedInv, Stop, Goto
<1>11. CASE StopAwake
  BY <1>11 DEF PcType, OwedInv, StopAwake, Goto
<1>12. CASE ClearFlags
  BY <1>12 DEF PcType, CtlType, OwedInv, ClearFlags, Goto
<1>13. CASE KillTimer
  BY <1>13 DEF OwedInv, KillTimer, Goto, netif
<1>14. CASE KillTasklet
  BY <1>14 DEF OwedInv, KillTasklet, Goto, netif
<1>15. CASE CancelWork
  BY <1>15 DEF OwedInv, CancelWork, Goto, netif
<1>16. CASE Stopped
  BY <1>16 DEF PcType, OwedInv, Stopped, Goto, netif
<1>17. CASE Disconnect
  BY <1>17 DEF OwedInv, Disconnect, Goto, netif
<1>18. CASE Unregistered
  BY <1>18 DEF OwedInv, Unregistered, Goto
<1>19. CASE FreeDevice
  BY <1>19 DEF OwedInv, FreeDevice, Goto, netif
<1>20. CASE GrowMtu
  BY <1>20 DEF OwedInv, GrowMtu, Goto, netif
<1>21. CASE usbnet_unlink_rx_urbs
  BY <1>21 DEF OwedInv, usbnet_unlink_rx_urbs, Goto, netif
<1>22. CASE usbnet_resume_rx
  BY <1>22 DEF OwedInv, usbnet_resume_rx, Goto, netif
<1>23. CASE MtuChanged
  BY <1>23 DEF OwedInv, MtuChanged, Goto, netif
<1>24. CASE BeginSuspend
  BY <1>24 DEF OwedInv, BeginSuspend, Goto, netif
<1>25. CASE usbnet_suspend
  BY <1>25 DEF PcType, OwedInv, usbnet_suspend, Goto, netif
<1>26. CASE netif_device_detach
  BY <1>26 DEF OwedInv, netif_device_detach, Goto
<1>27. CASE netif_device_attach
  BY <1>27 DEF OwedInv, netif_device_attach, Goto
<1>28. CASE usbnet_resume
  BY <1>28 DEF OwedInv, usbnet_resume, Goto, netif
<1>29. CASE ResumeReads
  BY <1>29 DEF OwedInv, ResumeReads, Goto, netif
<1>30. CASE Resumed
  BY <1>30 DEF OwedInv, Resumed, Goto
<1> QED
  BY <1>1, <1>2, <1>3, <1>4, <1>5, <1>6, <1>7, <1>8, <1>9, <1>10, <1>11, <1>12,
     <1>13, <1>14, <1>15, <1>16, <1>17, <1>18, <1>19, <1>20, <1>21, <1>22, <1>23,
     <1>24, <1>25, <1>26, <1>27, <1>28, <1>29, <1>30
  DEF Next, Work, Completion, RunBh, Submission, usbnet_deferred_kevent, Terminate,
      usbnet_stop, Suspension

\* The reference of usbnet_stop keeps the device awake.
LEMMA AwakeStep ==
  ASSUME PcType, CtlType, QueueType, UsageType, BoundType, NetInv, OwedInv,
         AwakeInv, PmBalanced, Next
  PROVE  AwakeInv'
<1>1. CASE Work
  BY <1>1, WorkFrame DEF AwakeInv, WorkKeeps
<1>2. CASE \E p \in Submitters : rx_alloc_submit(p)
  <2>1. PICK p \in Submitters : rx_alloc_submit(p)
    BY <1>2
  <2> QED
    BY <2>1
    DEF PcType, AwakeInv, rx_alloc_submit, Goto, PrepareRead, usbnet_defer_kevent
<1>3. CASE \E p \in Submitters : rx_submit(p)
  <2>1. PICK p \in Submitters : rx_submit(p)
    BY <1>3
  <2> QED
    BY <2>1
    DEF PcType, AwakeInv, rx_submit, SubmitRead, Goto, ReadSubmitted, ReadRefused,
        usbnet_defer_kevent
<1>4. CASE \E p \in Ends : UnlinkTx(p)
  <2>1. PICK p \in Ends : UnlinkTx(p)
    BY <1>4
  <2> QED
    BY <2>1 DEF AwakeInv, UnlinkTx, Goto
<1>5. CASE \E p \in Ends : UnlinkReads(p)
  <2>1. PICK p \in Ends : UnlinkReads(p)
    BY <1>5
  <2> QED
    BY <2>1 DEF AwakeInv, UnlinkReads, Goto
<1>6. CASE \E p \in Ends : WaitQueue(p)
  <2>1. PICK p \in Ends : WaitQueue(p)
    BY <1>6
  <2> QED
    BY <2>1 DEF PcType, AwakeInv, WaitQueue, Goto
<1>7. CASE Open
  BY <1>7 DEF AwakeInv, Open, Goto
<1>8. CASE Opened
  BY <1>8 DEF AwakeInv, Opened, Goto
<1>9. CASE OpenFails
  BY <1>9 DEF AwakeInv, OpenFails, Goto
<1>10. CASE Stop
  BY <1>10 DEF PcType, AwakeInv, Stop, Goto
<1>11. CASE StopAwake
  BY <1>11 DEF AwakeInv, StopAwake, Goto
<1>12. CASE ClearFlags
  BY <1>12 DEF AwakeInv, ClearFlags, Goto
<1>13. CASE KillTimer
  BY <1>13 DEF AwakeInv, KillTimer, Goto
<1>14. CASE KillTasklet
  BY <1>14 DEF AwakeInv, KillTasklet, Goto
<1>15. CASE CancelWork
  BY <1>15 DEF AwakeInv, CancelWork, Goto
<1>16. CASE Stopped
  BY <1>16 DEF AwakeInv, Stopped, Goto
<1>17. CASE Disconnect
  BY <1>17 DEF AwakeInv, Disconnect, Goto
<1>18. CASE Unregistered
  BY <1>18 DEF AwakeInv, Unregistered, Goto
<1>19. CASE FreeDevice
  BY <1>19 DEF AwakeInv, FreeDevice, Goto
<1>20. CASE GrowMtu
  BY <1>20 DEF AwakeInv, GrowMtu, Goto
<1>21. CASE usbnet_unlink_rx_urbs
  BY <1>21 DEF AwakeInv, usbnet_unlink_rx_urbs, Goto
<1>22. CASE usbnet_resume_rx
  BY <1>22 DEF AwakeInv, usbnet_resume_rx, Goto
<1>23. CASE MtuChanged
  BY <1>23 DEF AwakeInv, MtuChanged, Goto
<1>24. CASE BeginSuspend
  BY <1>24
  DEF CtlType, QueueType, OwedInv, AwakeInv, PmBalanced, TxFlying, BeginSuspend,
      Goto
<1>25. CASE usbnet_suspend
  BY <1>25 DEF PcType, AwakeInv, usbnet_suspend, Goto
<1>26. CASE netif_device_detach
  BY <1>26 DEF AwakeInv, netif_device_detach, Goto
<1>27. CASE netif_device_attach
  BY <1>27 DEF AwakeInv, netif_device_attach, Goto
<1>28. CASE usbnet_resume
  BY <1>28 DEF AwakeInv, usbnet_resume, Goto
<1>29. CASE ResumeReads
  BY <1>29 DEF AwakeInv, ResumeReads, Goto
<1>30. CASE Resumed
  BY <1>30 DEF AwakeInv, Resumed, Goto
<1> QED
  BY <1>1, <1>2, <1>3, <1>4, <1>5, <1>6, <1>7, <1>8, <1>9, <1>10, <1>11, <1>12,
     <1>13, <1>14, <1>15, <1>16, <1>17, <1>18, <1>19, <1>20, <1>21, <1>22, <1>23,
     <1>24, <1>25, <1>26, <1>27, <1>28, <1>29, <1>30
  DEF Next, Work, Completion, RunBh, Submission, usbnet_deferred_kevent, Terminate,
      usbnet_stop, Suspension

\* From DEV_ASLEEP on the queues only shrink, and nothing is deferred awake.
LEMMA SleepStep ==
  ASSUME PcType, CtlType, QueueType, UsageType, BoundType, NetInv, AwakeInv,
         SleepInv, DrainInv, PutInv, Next
  PROVE  SleepInv'
<1>1. CASE rx_complete
  BY <1>1
  DEF PcType, QueueType, SleepInv, Drained, RxLen, TxLen, TxFlying, rx_complete,
      RxCounted, Goto
<1>2. CASE Resubmit
  BY <1>2
  DEF PcType, SleepInv, Drained, RxLen, TxLen, TxFlying, Resubmit, PrepareRead,
      Goto, usbnet_defer_kevent, usbnet_going_away
<1>3. CASE tx_complete
  <2>1. TxLen # 0 /\ deferred' = deferred
    BY <1>3 DEF TxLen, TxFlying, QueueType, tx_complete
  <2>2. RxLen' = RxLen /\ Drained' = Drained /\ WorkKeeps
    BY <1>3, WorkFrame DEF Work, RxLen, tx_complete
  <2> QED BY <2>1, <2>2 DEF SleepInv, WorkKeeps
<1>4. CASE tx_deferred
  BY <1>4 DEF QueueType, SleepInv, PutInv, TxLen, TxFlying, tx_deferred, Goto
<1>5. CASE TaskletRuns
  BY <1>5 DEF SleepInv, Drained, RxLen, TxLen, TxFlying, TaskletRuns, Goto, netif
<1>6. CASE TimerFires
  BY <1>6 DEF SleepInv, Drained, RxLen, TxLen, TxFlying, TimerFires, Goto, netif
<1>7. CASE \E p \in Bh : Decide(p)
  <2>1. PICK p \in Bh : Decide(p)
    BY <1>7
  <2> QED
    BY <2>1
    DEF SleepInv, Drained, RxLen, TxLen, TxFlying, Decide, Goto, netif, queues
<1>8. CASE \E p \in Bh : Finish(p)
  <2>1. PICK p \in Bh : Finish(p)
    BY <1>8
  <2> QED
    BY <2>1 DEF SleepInv, Drained, RxLen, TxLen, TxFlying, Finish, Goto, queues
<1>9. CASE \E p \in Submitters : rx_alloc_submit(p)
  <2>1. PICK p \in Submitters : rx_alloc_submit(p)
    BY <1>9
  <2> QED
    BY <2>1
    DEF PcType, SleepInv, Drained, RxLen, TxLen, TxFlying, rx_alloc_submit, Goto,
        PrepareRead, AfterSubmit, usbnet_defer_kevent, usbnet_going_away
<1>10. CASE \E p \in Submitters : rx_submit(p)
  <2>1. PICK p \in Submitters : rx_submit(p)
    BY <1>10
  <2> QED
    BY <2>1
    DEF PcType, CtlType, SleepInv, Drained, RxLen, TxLen, TxFlying, rx_submit,
        SubmitRead, MayRead, Goto, AfterSubmit, ReadSubmitted, ReadRefused, Spend,
        usbnet_defer_kevent
<1>11. CASE KeventRuns
  BY <1>11
  DEF SleepInv, Drained, RxLen, TxLen, TxFlying, KeventRuns, Goto, netif, queues
<1>12. CASE TxHalt
  BY <1>12
  DEF PcType, QueueType, UsageType, BoundType, NetInv, AwakeInv, SleepInv, DrainInv,
      PutInv, Drained, RxLen, TxLen, TxFlying, TxHalt, unlink_urbs, Goto, netif,
      pending
<1>13. CASE ClearTxHalt
  BY <1>13 DEF SleepInv, Drained, RxLen, TxLen, TxFlying, ClearTxHalt, Goto, queues
<1>14. CASE RxHalt
  BY <1>14
  DEF PcType, QueueType, AwakeInv, SleepInv, DrainInv, Drained, RxLen, TxLen,
      TxFlying, RxHalt, UnlinkRx, unlink_urbs, Goto, netif
<1>15. CASE ClearRxHalt
  BY <1>15
  DEF SleepInv, Drained, RxLen, TxLen, TxFlying, ClearRxHalt, Goto, netif, queues
<1>16. CASE Memory
  BY <1>16
  DEF PcType, SleepInv, Drained, RxLen, TxLen, TxFlying, Memory, Goto, netif, queues
<1>17. CASE MemoryAwake
  BY <1>17
  DEF PcType, SleepInv, Drained, RxLen, TxLen, TxFlying, MemoryAwake, Goto, netif,
      queues
<1>18. CASE MemoryRead
  BY <1>18
  DEF PcType, CtlType, SleepInv, Drained, RxLen, TxLen, TxFlying, MemoryRead,
      PrepareRead, Goto, usbnet_defer_kevent, usbnet_going_away, netif, queues
<1>19. CASE MemoryPut
  BY <1>19
  DEF SleepInv, Drained, RxLen, TxLen, TxFlying, MemoryPut, Goto, netif, queues
<1>20. CASE HandleLink
  <2>1. rxq' = rxq \/ UnlinkRx
    BY <1>20 DEF HandleLink
  <2>2. RxLen' = RxLen
    BY <2>1, RxUnlinkEffect DEF RxLen, QueueType
  <2>3. TxLen' = TxLen /\ deferred' = deferred
    BY <1>20 DEF HandleLink, TxLen, TxFlying
  <2>4. Drained' = Drained /\ WorkKeeps
    BY <1>20, WorkFrame DEF Work
  <2> QED BY <2>2, <2>3, <2>4 DEF SleepInv, WorkKeeps
<1>21. CASE \E link, need_reset \in BOOLEAN : usbnet_link_change(link, need_reset)
  <2>1. PICK link, need_reset \in BOOLEAN : usbnet_link_change(link, need_reset)
    BY <1>21
  <2> QED
    BY <2>1
    DEF SleepInv, Drained, RxLen, TxLen, TxFlying, usbnet_link_change, queues
<1>22. CASE usbnet_start_xmit
  BY <1>22
  DEF NetInv, SleepInv, Drained, RxLen, TxLen, TxFlying, usbnet_start_xmit,
      usbnet_defer_kevent
<1>23. CASE usbnet_tx_timeout
  <2>1. TxLen' = TxLen
    BY <1>23, TxUnlinkEffect DEF QueueType, usbnet_tx_timeout
  <2>2. RxLen' = RxLen /\ deferred' = deferred
    BY <1>23 DEF RxLen, usbnet_tx_timeout
  <2>3. Drained' = Drained /\ WorkKeeps
    BY <1>23, WorkFrame DEF Work
  <2> QED BY <2>1, <2>2, <2>3 DEF SleepInv, WorkKeeps
<1>24. CASE \E p \in Ends : UnlinkTx(p)
  <2>1. PICK p \in Ends : UnlinkTx(p)
    BY <1>24
  <2> QED
    BY <2>1
    DEF PcType, QueueType, AwakeInv, SleepInv, Drained, RxLen, TxLen, TxFlying,
        UnlinkTx, unlink_urbs, Goto, netif
<1>25. CASE \E p \in Ends : UnlinkReads(p)
  <2>1. PICK p \in Ends : UnlinkReads(p)
    BY <1>25
  <2> QED
    BY <2>1
    DEF PcType, CtlType, QueueType, SleepInv, DrainInv, Drained, RxLen, TxLen,
        TxFlying, UnlinkReads, UnlinkRx, unlink_urbs, Goto, netif
<1>26. CASE \E p \in Ends : WaitQueue(p)
  <2>1. PICK p \in Ends : WaitQueue(p)
    BY <1>26
  <2> QED
    BY <2>1
    DEF PcType, CtlType, SleepInv, Drained, RxLen, TxLen, TxFlying, WaitQueue, Goto,
        netif, queues
<1>27. CASE Open
  BY <1>27 DEF SleepInv, Drained, RxLen, TxLen, TxFlying, Open, Goto, queues
<1>28. CASE Opened
  BY <1>28 DEF SleepInv, Drained, Opened, Goto, queues
<1>29. CASE OpenFails
  BY <1>29 DEF SleepInv, Drained, RxLen, TxLen, TxFlying, OpenFails, Goto, queues
<1>30. CASE Stop
  BY <1>30 DEF PcType, SleepInv, Drained, RxLen, TxLen, TxFlying, Stop, Goto, queues
<1>31. CASE StopAwake
  BY <1>31
  DEF CtlType, QueueType, UsageType, SleepInv, RxLen, TxLen, TxFlying, StopAwake,
      Goto, netif, queues, pending
<1>32. CASE ClearFlags
  BY <1>32
  DEF NetInv, AwakeInv, SleepInv, RxLen, TxLen, TxFlying, ClearFlags, Goto, netif,
      queues
<1>33. CASE KillTimer
  BY <1>33
  DEF SleepInv, Drained, RxLen, TxLen, TxFlying, KillTimer, Goto, netif, queues
<1>34. CASE KillTasklet
  BY <1>34
  DEF SleepInv, Drained, RxLen, TxLen, TxFlying, KillTasklet, Goto, netif, queues
<1>35. CASE CancelWork
  BY <1>35
  DEF SleepInv, Drained, RxLen, TxLen, TxFlying, CancelWork, Goto, netif, queues
<1>36. CASE Stopped
  BY <1>36
  DEF SleepInv, Drained, RxLen, TxLen, TxFlying, Stopped, Goto, netif, queues
<1>37. CASE Disconnect
  BY <1>37 DEF SleepInv, RxLen, TxLen, TxFlying, Disconnect, Goto, queues
<1>38. CASE Unregistered
  BY <1>38
  DEF SleepInv, Drained, RxLen, TxLen, TxFlying, Unregistered, Goto, netif, queues
<1>39. CASE FreeDevice
  BY <1>39 DEF SleepInv, RxLen, TxLen, TxFlying, FreeDevice, Goto, netif
<1>40. CASE GrowMtu
  BY <1>40
  DEF SleepInv, Drained, RxLen, TxLen, TxFlying, GrowMtu, Goto, netif, queues
<1>41. CASE usbnet_unlink_rx_urbs
  BY <1>41
  DEF PcType, QueueType, SleepInv, Drained, RxLen, TxLen, TxFlying,
      usbnet_unlink_rx_urbs, UnlinkRx, unlink_urbs, Goto, netif
<1>42. CASE usbnet_resume_rx
  BY <1>42
  DEF SleepInv, Drained, RxLen, TxLen, TxFlying, usbnet_resume_rx, Goto, netif,
      queues
<1>43. CASE MtuChanged
  BY <1>43
  DEF SleepInv, Drained, RxLen, TxLen, TxFlying, MtuChanged, Goto, netif, queues
<1>44. CASE BeginSuspend
  BY <1>44 DEF SleepInv, Drained, BeginSuspend, Goto, netif, queues
<1>45. CASE usbnet_suspend
  BY <1>45
  DEF PcType, QueueType, AwakeInv, SleepInv, TxLen, TxFlying, usbnet_suspend, Goto,
      queues
<1>46. CASE netif_device_detach
  BY <1>46 DEF SleepInv, Drained, TxLen, TxFlying, netif_device_detach, Goto, queues
<1>47. CASE netif_device_attach
  BY <1>47
  DEF SleepInv, Drained, RxLen, TxLen, TxFlying, netif_device_attach, Goto, queues
<1>48. CASE usbnet_resume
  BY <1>48 DEF PcType, SleepInv, usbnet_resume, Goto
<1>49. CASE ResumeReads
  BY <1>49 DEF SleepInv, Drained, ResumeReads, Goto, netif, queues
<1>50. CASE Resumed
  BY <1>50 DEF SleepInv, Drained, Resumed, Goto, queues
<1> QED
  BY <1>1, <1>2, <1>3, <1>4, <1>5, <1>6, <1>7, <1>8, <1>9, <1>10, <1>11, <1>12,
     <1>13, <1>14, <1>15, <1>16, <1>17, <1>18, <1>19, <1>20, <1>21, <1>22, <1>23,
     <1>24, <1>25, <1>26, <1>27, <1>28, <1>29, <1>30, <1>31, <1>32, <1>33, <1>34,
     <1>35, <1>36, <1>37, <1>38, <1>39, <1>40, <1>41, <1>42, <1>43, <1>44, <1>45,
     <1>46, <1>47, <1>48, <1>49, <1>50
  DEF Next, Completion, RunBh, Submission, usbnet_deferred_kevent, Terminate,
      usbnet_stop, Suspension


-----------------------------------------------------------------------------
(* The queues and what is scheduled                                        *)

\* A completed write leaves the queue when its handler has moved the buffer.
LEMMA PutStep ==
  ASSUME PcType, QueueType, PutInv, Next
  PROVE  PutInv'
<1>1. CASE rx_complete
  BY <1>1 DEF PcType, PutInv, rx_complete, Goto
<1>2. CASE Resubmit
  BY <1>2 DEF PcType, PutInv, Resubmit, PrepareRead, Goto, AfterSubmit
<1>3. CASE tx_complete
  BY <1>3 DEF PcType, QueueType, PutInv, tx_complete, Goto
<1>4. CASE tx_deferred
  BY <1>4 DEF PcType, QueueType, PutInv, tx_deferred, Goto
<1>5. CASE TaskletRuns
  BY <1>5 DEF PutInv, TaskletRuns, Goto
<1>6. CASE TimerFires
  BY <1>6 DEF PutInv, TimerFires, Goto
<1>7. CASE \E p \in Bh : Decide(p)
  <2>1. PICK p \in Bh : Decide(p)
    BY <1>7
  <2> QED
    BY <2>1 DEF PutInv, Decide, Goto, queues
<1>8. CASE \E p \in Bh : Finish(p)
  <2>1. PICK p \in Bh : Finish(p)
    BY <1>8
  <2> QED
    BY <2>1 DEF PutInv, Finish, Goto, queues
<1>9. CASE \E p \in Submitters : rx_alloc_submit(p)
  <2>1. PICK p \in Submitters : rx_alloc_submit(p)
    BY <1>9
  <2> QED
    BY <2>1 DEF PcType, PutInv, rx_alloc_submit, Goto, PrepareRead
<1>10. CASE \E p \in Submitters : rx_submit(p)
  <2>1. PICK p \in Submitters : rx_submit(p)
    BY <1>10
  <2> QED
    BY <2>1
    DEF PcType, PutInv, rx_submit, SubmitRead, Goto, AfterSubmit, ReadSubmitted,
        ReadRefused
<1>11. CASE KeventRuns
  BY <1>11 DEF PutInv, KeventRuns, Goto, queues
<1>12. CASE TxHalt
  BY <1>12 DEF PcType, QueueType, PutInv, TxHalt, unlink_urbs, Goto
<1>13. CASE ClearTxHalt
  BY <1>13 DEF PutInv, ClearTxHalt, Goto, queues
<1>14. CASE RxHalt
  BY <1>14 DEF PcType, PutInv, RxHalt, Goto
<1>15. CASE ClearRxHalt
  BY <1>15 DEF PutInv, ClearRxHalt, Goto, queues
<1>16. CASE Memory
  BY <1>16 DEF PcType, PutInv, Memory, Goto, queues
<1>17. CASE MemoryAwake
  BY <1>17 DEF PcType, PutInv, MemoryAwake, Goto, queues
<1>18. CASE MemoryRead
  BY <1>18 DEF PcType, PutInv, MemoryRead, PrepareRead, Goto, queues
<1>19. CASE MemoryPut
  BY <1>19 DEF PutInv, MemoryPut, Goto, queues
<1>20. CASE HandleLink
  BY <1>20 DEF PutInv, HandleLink, Goto
<1>21. CASE \E link, need_reset \in BOOLEAN : usbnet_link_change(link, need_reset)
  <2>1. PICK link, need_reset \in BOOLEAN : usbnet_link_change(link, need_reset)
    BY <1>21
  <2> QED
    BY <2>1 DEF PutInv, usbnet_link_change, queues
<1>22. CASE usbnet_start_xmit
  BY <1>22 DEF QueueType, PutInv, usbnet_start_xmit
<1>23. CASE usbnet_tx_timeout
  BY <1>23 DEF QueueType, PutInv, usbnet_tx_timeout, unlink_urbs
<1>24. CASE \E p \in Ends : UnlinkTx(p)
  <2>1. PICK p \in Ends : UnlinkTx(p)
    BY <1>24
  <2> QED
    BY <2>1 DEF QueueType, PutInv, UnlinkTx, unlink_urbs, Goto
<1>25. CASE \E p \in Ends : UnlinkReads(p)
  <2>1. PICK p \in Ends : UnlinkReads(p)
    BY <1>25
  <2> QED
    BY <2>1 DEF PutInv, UnlinkReads, Goto
<1>26. CASE \E p \in Ends : WaitQueue(p)
  <2>1. PICK p \in Ends : WaitQueue(p)
    BY <1>26
  <2> QED
    BY <2>1 DEF PcType, PutInv, WaitQueue, Goto, queues
<1>27. CASE Open
  BY <1>27 DEF PutInv, Open, Goto, queues
<1>28. CASE Opened
  BY <1>28 DEF PutInv, Opened, Goto, queues
<1>29. CASE OpenFails
  BY <1>29 DEF PutInv, OpenFails, Goto, queues
<1>30. CASE Stop
  BY <1>30 DEF PutInv, Stop, Goto, queues
<1>31. CASE StopAwake
  BY <1>31 DEF PutInv, StopAwake, Goto, queues
<1>32. CASE ClearFlags
  BY <1>32 DEF PutInv, ClearFlags, Goto, queues
<1>33. CASE KillTimer
  BY <1>33 DEF PutInv, KillTimer, Goto, queues
<1>34. CASE KillTasklet
  BY <1>34 DEF PutInv, KillTasklet, Goto, queues
<1>35. CASE CancelWork
  BY <1>35 DEF PutInv, CancelWork, Goto, queues
<1>36. CASE Stopped
  BY <1>36 DEF PutInv, Stopped, Goto, queues
<1>37. CASE Disconnect
  BY <1>37 DEF PutInv, Disconnect, Goto, queues
<1>38. CASE Unregistered
  BY <1>38 DEF PutInv, Unregistered, Goto, queues
<1>39. CASE FreeDevice
  BY <1>39 DEF PutInv, FreeDevice, Goto
<1>40. CASE GrowMtu
  BY <1>40 DEF PutInv, GrowMtu, Goto, queues
<1>41. CASE usbnet_unlink_rx_urbs
  BY <1>41 DEF PutInv, usbnet_unlink_rx_urbs, Goto
<1>42. CASE usbnet_resume_rx
  BY <1>42 DEF PutInv, usbnet_resume_rx, Goto, queues
<1>43. CASE MtuChanged
  BY <1>43 DEF PutInv, MtuChanged, Goto, queues
<1>44. CASE BeginSuspend
  BY <1>44 DEF PutInv, BeginSuspend, Goto, queues
<1>45. CASE usbnet_suspend
  BY <1>45 DEF PcType, PutInv, usbnet_suspend, Goto, queues
<1>46. CASE netif_device_detach
  BY <1>46 DEF PutInv, netif_device_detach, Goto, queues
<1>47. CASE netif_device_attach
  BY <1>47 DEF PutInv, netif_device_attach, Goto, queues
<1>48. CASE usbnet_resume
  BY <1>48 DEF PutInv, usbnet_resume, Goto
<1>49. CASE ResumeReads
  BY <1>49 DEF PutInv, ResumeReads, Goto, queues
<1>50. CASE Resumed
  BY <1>50 DEF PutInv, Resumed, Goto, queues
<1> QED
  BY <1>1, <1>2, <1>3, <1>4, <1>5, <1>6, <1>7, <1>8, <1>9, <1>10, <1>11, <1>12,
     <1>13, <1>14, <1>15, <1>16, <1>17, <1>18, <1>19, <1>20, <1>21, <1>22, <1>23,
     <1>24, <1>25, <1>26, <1>27, <1>28, <1>29, <1>30, <1>31, <1>32, <1>33, <1>34,
     <1>35, <1>36, <1>37, <1>38, <1>39, <1>40, <1>41, <1>42, <1>43, <1>44, <1>45,
     <1>46, <1>47, <1>48, <1>49, <1>50
  DEF Next, Completion, RunBh, Submission, usbnet_deferred_kevent, Terminate,
      usbnet_stop, Suspension

\* Room is looked at before the lock is taken, and used up under it.
LEMMA RoomStep ==
  ASSUME PcType, BoundType, RoomInv, Next
  PROVE  RoomInv'
<1>1. CASE rx_complete
  BY <1>1 DEF PcType, RoomInv, rx_complete, Goto
<1>2. CASE Resubmit
  BY <1>2 DEF PcType, RoomInv, Resubmit, PrepareRead, Goto
<1>3. CASE tx_complete
  BY <1>3 DEF RoomInv, tx_complete, Goto
<1>4. CASE tx_deferred
  BY <1>4 DEF RoomInv, tx_deferred, Goto
<1>5. CASE TaskletRuns
  BY <1>5 DEF RoomInv, TaskletRuns, Goto
<1>6. CASE TimerFires
  BY <1>6 DEF RoomInv, TimerFires, Goto
<1>7. CASE \E p \in Bh : Decide(p)
  <2>1. PICK p \in Bh : Decide(p)
    BY <1>7
  <2> QED
    BY <2>1 DEF RoomInv, Decide, Goto
<1>8. CASE \E p \in Bh : Finish(p)
  <2>1. PICK p \in Bh : Finish(p)
    BY <1>8
  <2> QED
    BY <2>1 DEF RoomInv, Finish, Goto
<1>9. CASE \E p \in Submitters : rx_alloc_submit(p)
  <2>1. PICK p \in Submitters : rx_alloc_submit(p)
    BY <1>9
  <2> QED
    BY <2>1 DEF PcType, RoomInv, rx_alloc_submit, Goto, PrepareRead
<1>10. CASE \E p \in Submitters : rx_submit(p)
  <2>1. PICK p \in Submitters : rx_submit(p)
    BY <1>10
  <2> QED
    BY <2>1
    DEF PcType, RoomInv, rx_submit, SubmitRead, Goto, AfterSubmit, ReadSubmitted,
        ReadRefused
<1>11. CASE KeventRuns
  BY <1>11 DEF RoomInv, KeventRuns, Goto
<1>12. CASE TxHalt
  BY <1>12 DEF PcType, RoomInv, TxHalt, Goto
<1>13. CASE ClearTxHalt
  BY <1>13 DEF RoomInv, ClearTxHalt, Goto
<1>14. CASE RxHalt
  BY <1>14 DEF PcType, RoomInv, RxHalt, Goto
<1>15. CASE ClearRxHalt
  BY <1>15 DEF RoomInv, ClearRxHalt, Goto
<1>16. CASE Memory
  BY <1>16 DEF PcType, RoomInv, Memory, Goto
<1>17. CASE MemoryAwake
  BY <1>17 DEF PcType, RoomInv, MemoryAwake, Goto
<1>18. CASE MemoryRead
  BY <1>18 DEF PcType, RoomInv, MemoryRead, PrepareRead, Goto
<1>19. CASE MemoryPut
  BY <1>19 DEF RoomInv, MemoryPut, Goto
<1>20. CASE HandleLink
  BY <1>20 DEF RoomInv, HandleLink, Goto
<1>21. CASE \E link, need_reset \in BOOLEAN : usbnet_link_change(link, need_reset)
  <2>1. PICK link, need_reset \in BOOLEAN : usbnet_link_change(link, need_reset)
    BY <1>21
  <2> QED
    BY <2>1 DEF RoomInv, usbnet_link_change
<1>22. CASE usbnet_start_xmit
  BY <1>22 DEF RoomInv, usbnet_start_xmit
<1>23. CASE usbnet_tx_timeout
  BY <1>23 DEF RoomInv, usbnet_tx_timeout
<1>24. CASE \E p \in Ends : UnlinkTx(p)
  <2>1. PICK p \in Ends : UnlinkTx(p)
    BY <1>24
  <2> QED
    BY <2>1 DEF RoomInv, UnlinkTx, Goto
<1>25. CASE \E p \in Ends : UnlinkReads(p)
  <2>1. PICK p \in Ends : UnlinkReads(p)
    BY <1>25
  <2> QED
    BY <2>1 DEF RoomInv, UnlinkReads, Goto
<1>26. CASE \E p \in Ends : WaitQueue(p)
  <2>1. PICK p \in Ends : WaitQueue(p)
    BY <1>26
  <2> QED
    BY <2>1 DEF PcType, RoomInv, WaitQueue, Goto
<1>27. CASE Open
  BY <1>27 DEF RoomInv, Open, Goto
<1>28. CASE Opened
  BY <1>28 DEF RoomInv, Opened, Goto
<1>29. CASE OpenFails
  BY <1>29 DEF RoomInv, OpenFails, Goto
<1>30. CASE Stop
  BY <1>30 DEF RoomInv, Stop, Goto
<1>31. CASE StopAwake
  BY <1>31 DEF RoomInv, StopAwake, Goto
<1>32. CASE ClearFlags
  BY <1>32 DEF RoomInv, ClearFlags, Goto
<1>33. CASE KillTimer
  BY <1>33 DEF RoomInv, KillTimer, Goto
<1>34. CASE KillTasklet
  BY <1>34 DEF RoomInv, KillTasklet, Goto
<1>35. CASE CancelWork
  BY <1>35 DEF RoomInv, CancelWork, Goto
<1>36. CASE Stopped
  BY <1>36 DEF RoomInv, Stopped, Goto
<1>37. CASE Disconnect
  BY <1>37 DEF RoomInv, Disconnect, Goto
<1>38. CASE Unregistered
  BY <1>38 DEF RoomInv, Unregistered, Goto
<1>39. CASE FreeDevice
  BY <1>39 DEF RoomInv, FreeDevice, Goto
<1>40. CASE GrowMtu
  BY <1>40 DEF RoomInv, GrowMtu, Goto
<1>41. CASE usbnet_unlink_rx_urbs
  BY <1>41 DEF RoomInv, usbnet_unlink_rx_urbs, Goto
<1>42. CASE usbnet_resume_rx
  BY <1>42 DEF RoomInv, usbnet_resume_rx, Goto
<1>43. CASE MtuChanged
  BY <1>43 DEF RoomInv, MtuChanged, Goto
<1>44. CASE BeginSuspend
  BY <1>44 DEF RoomInv, BeginSuspend, Goto
<1>45. CASE usbnet_suspend
  BY <1>45 DEF PcType, RoomInv, usbnet_suspend, Goto
<1>46. CASE netif_device_detach
  BY <1>46 DEF RoomInv, netif_device_detach, Goto
<1>47. CASE netif_device_attach
  BY <1>47 DEF RoomInv, netif_device_attach, Goto
<1>48. CASE usbnet_resume
  BY <1>48 DEF RoomInv, usbnet_resume, Goto
<1>49. CASE ResumeReads
  BY <1>49 DEF RoomInv, ResumeReads, Goto
<1>50. CASE Resumed
  BY <1>50 DEF RoomInv, Resumed, Goto
<1> QED
  BY <1>1, <1>2, <1>3, <1>4, <1>5, <1>6, <1>7, <1>8, <1>9, <1>10, <1>11, <1>12,
     <1>13, <1>14, <1>15, <1>16, <1>17, <1>18, <1>19, <1>20, <1>21, <1>22, <1>23,
     <1>24, <1>25, <1>26, <1>27, <1>28, <1>29, <1>30, <1>31, <1>32, <1>33, <1>34,
     <1>35, <1>36, <1>37, <1>38, <1>39, <1>40, <1>41, <1>42, <1>43, <1>44, <1>45,
     <1>46, <1>47, <1>48, <1>49, <1>50
  DEF Next, Completion, RunBh, Submission, usbnet_deferred_kevent, Terminate,
      usbnet_stop, Suspension

\* What usbnet_stop has emptied stays empty until the interface is open again.
LEMMA DrainStep ==
  ASSUME PcType, CtlType, QueueType, UsageType, BoundType, NetInv, AwakeInv,
         SleepInv, PutInv, DrainInv, Next
  PROVE  DrainInv'
<1>1. CASE rx_complete
  BY <1>1 DEF PcType, QueueType, DrainInv, Drained, RxLen, rx_complete, Goto
<1>2. CASE Resubmit
  BY <1>2
  DEF PcType, CtlType, DrainInv, Drained, RxLen, TxLen, TxFlying, Resubmit,
      PrepareRead, Goto, usbnet_defer_kevent
<1>3. CASE tx_complete
  BY <1>3
  DEF PcType, CtlType, QueueType, DrainInv, Drained, RxLen, TxLen, TxFlying,
      tx_complete, Goto, Arm
<1>4. CASE tx_deferred
  BY <1>4
  DEF QueueType, PutInv, DrainInv, Drained, RxLen, TxLen, TxFlying, tx_deferred,
      Goto
<1>5. CASE TaskletRuns
  BY <1>5 DEF DrainInv, Drained, RxLen, TxLen, TxFlying, TaskletRuns, Goto, netif
<1>6. CASE TimerFires
  BY <1>6 DEF DrainInv, Drained, RxLen, TxLen, TxFlying, TimerFires, Goto, netif
<1>7. CASE \E p \in Bh : Decide(p)
  <2>1. PICK p \in Bh : Decide(p)
    BY <1>7
  <2> QED
    BY <2>1
    DEF DrainInv, Drained, RxLen, TxLen, TxFlying, Decide, Goto, netif, queues,
        pending
<1>8. CASE \E p \in Bh : Finish(p)
  <2>1. PICK p \in Bh : Finish(p)
    BY <1>8
  <2> QED
    BY <2>1 DEF DrainInv, Drained, RxLen, TxLen, TxFlying, Finish, Goto, queues
<1>9. CASE \E p \in Submitters : rx_alloc_submit(p)
  <2>1. PICK p \in Submitters : rx_alloc_submit(p)
    BY <1>9
  <2> QED
    BY <2>1
    DEF PcType, CtlType, DrainInv, Drained, RxLen, TxLen, TxFlying, rx_alloc_submit,
        Goto, PrepareRead, usbnet_defer_kevent
<1>10. CASE \E p \in Submitters : rx_submit(p)
  <2>1. PICK p \in Submitters : rx_submit(p)
    BY <1>10
  <2> QED
    BY <2>1
    DEF PcType, NetInv, DrainInv, Drained, RxLen, TxLen, TxFlying, rx_submit,
        SubmitRead, MayRead, Goto, ReadSubmitted, ReadRefused, Spend,
        usbnet_defer_kevent
<1>11. CASE KeventRuns
  BY <1>11
  DEF DrainInv, Drained, RxLen, TxLen, TxFlying, KeventRuns, Goto, netif, queues
<1>12. CASE TxHalt
  <2>1. TxLen' = TxLen
    BY <1>12, TxUnlinkEffect DEF QueueType, TxHalt, TxLen, TxFlying
  <2>2. UNCHANGED <<flags, rxq, done, delay>> /\ pc'["timer"] = pc["timer"]
    BY <1>12 DEF TxHalt, Goto, PcType, pending
  <2>3. RxLen' = RxLen
    BY <2>2 DEF RxLen
  <2>4. Drained' = Drained /\ WorkKeeps
    BY <1>12, WorkFrame DEF Work
  <2> QED BY <2>1, <2>2, <2>3, <2>4 DEF DrainInv, WorkKeeps
<1>13. CASE ClearTxHalt
  BY <1>13
  DEF DrainInv, Drained, RxLen, TxLen, TxFlying, ClearTxHalt, Goto, queues, pending
<1>14. CASE RxHalt
  <2>1. RxLen' = RxLen
    BY <1>14, RxUnlinkEffect DEF QueueType, RxHalt, RxLen
  <2>2. UNCHANGED <<flags, txq, done, delay>> /\ pc'["timer"] = pc["timer"]
    BY <1>14 DEF RxHalt, Goto, PcType, pending
  <2>3. TxLen' = TxLen
    BY <2>2 DEF TxLen, TxFlying
  <2>4. Drained' = Drained /\ WorkKeeps
    BY <1>14, WorkFrame DEF Work
  <2> QED BY <2>1, <2>2, <2>3, <2>4 DEF DrainInv, WorkKeeps
<1>15. CASE ClearRxHalt
  BY <1>15
  DEF DrainInv, Drained, RxLen, TxLen, TxFlying, ClearRxHalt, Goto, netif, queues
<1>16. CASE Memory
  BY <1>16
  DEF PcType, DrainInv, Drained, RxLen, TxLen, TxFlying, Memory, Goto, netif,
      queues, pending
<1>17. CASE MemoryAwake
  BY <1>17
  DEF PcType, CtlType, DrainInv, Drained, RxLen, TxLen, TxFlying, MemoryAwake, Goto,
      netif, queues, pending
<1>18. CASE MemoryRead
  BY <1>18
  DEF PcType, CtlType, DrainInv, Drained, RxLen, TxLen, TxFlying, MemoryRead,
      PrepareRead, Goto, usbnet_defer_kevent, netif, queues
<1>19. CASE MemoryPut
  BY <1>19
  DEF DrainInv, Drained, RxLen, TxLen, TxFlying, MemoryPut, Goto, netif, queues
<1>20. CASE HandleLink
  BY <1>20 DEF NetInv, DrainInv, Drained, RxLen, TxLen, TxFlying, HandleLink, Goto
<1>21. CASE \E link, need_reset \in BOOLEAN : usbnet_link_change(link, need_reset)
  <2>1. PICK link, need_reset \in BOOLEAN : usbnet_link_change(link, need_reset)
    BY <1>21
  <2> QED
    BY <2>1
    DEF DrainInv, Drained, RxLen, TxLen, TxFlying, usbnet_link_change, queues
<1>22. CASE usbnet_start_xmit
  BY <1>22 DEF NetInv, DrainInv, Drained, usbnet_start_xmit
<1>23. CASE usbnet_tx_timeout
  BY <1>23 DEF NetInv, DrainInv, Drained, usbnet_tx_timeout, netif
<1>24. CASE \E p \in Ends : UnlinkTx(p)
  <2>1. PICK p \in Ends : UnlinkTx(p)
    BY <1>24
  <2>2. TxLen' = TxLen
    BY <2>1, TxUnlinkEffect DEF QueueType, UnlinkTx
  <2>3. UNCHANGED <<flags, running, rxq, done, delay>> /\ pc'["timer"] = pc["timer"]
    BY <2>1 DEF UnlinkTx, Goto, PcType, netif, pending
  <2>4. \/ pc'["net"] = pc["net"]
        \/ pc["net"] = "unlink_tx" /\ pc'["net"] = "unlink_rx"
    BY <2>1 DEF UnlinkTx, Goto, PcType
  <2>5. RxLen' = RxLen
    BY <2>3 DEF RxLen
  <2> QED BY <2>2, <2>3, <2>4, <2>5 DEF DrainInv, Drained
<1>25. CASE \E p \in Ends : UnlinkReads(p)
  <2>1. PICK p \in Ends : UnlinkReads(p)
    BY <1>25
  <2>2. RxLen' = RxLen
    BY <2>1, RxUnlinkEffect DEF QueueType, UnlinkReads
  <2>3. UNCHANGED <<flags, running, txq, done, delay>> /\ pc'["timer"] = pc["timer"]
    BY <2>1 DEF UnlinkReads, Goto, PcType, netif, pending
  <2>4. \/ pc'["net"] = pc["net"]
        \/ pc["net"] = "unlink_rx" /\ pc'["net"] = "wait_rx"
    BY <2>1 DEF UnlinkReads, Goto, PcType
  <2>5. TxLen' = TxLen
    BY <2>3 DEF TxLen, TxFlying
  <2> QED BY <2>2, <2>3, <2>4, <2>5 DEF DrainInv, Drained
<1>26. CASE \E p \in Ends : WaitQueue(p)
  <2>1. PICK p \in Ends : WaitQueue(p)
    BY <1>26
  <2> QED
    BY <2>1
    DEF PcType, CtlType, DrainInv, Drained, RxLen, TxLen, TxFlying, WaitQueue, Goto,
        netif, queues, pending
<1>27. CASE Open
  BY <1>27
  DEF DrainInv, Drained, RxLen, TxLen, TxFlying, Open, Goto, queues, pending
<1>28. CASE Opened
  BY <1>28 DEF DrainInv, Drained, RxLen, TxLen, TxFlying, Opened, Goto, queues
<1>29. CASE OpenFails
  BY <1>29
  DEF DrainInv, Drained, RxLen, TxLen, TxFlying, OpenFails, Goto, queues, pending
<1>30. CASE Stop
  BY <1>30 DEF PcType, DrainInv, Drained, Stop, Goto
<1>31. CASE StopAwake
  BY <1>31 DEF DrainInv, Drained, StopAwake, Goto
<1>32. CASE ClearFlags
  BY <1>32 DEF DrainInv, Drained, RxLen, TxLen, TxFlying, ClearFlags, Goto, queues
<1>33. CASE KillTimer
  BY <1>33 DEF DrainInv, Drained, RxLen, TxLen, TxFlying, KillTimer, Goto, queues
<1>34. CASE KillTasklet
  BY <1>34
  DEF DrainInv, Drained, RxLen, TxLen, TxFlying, KillTasklet, Goto, queues, pending
<1>35. CASE CancelWork
  BY <1>35 DEF DrainInv, Drained, RxLen, TxLen, TxFlying, CancelWork, Goto, queues
<1>36. CASE Stopped
  BY <1>36
  DEF DrainInv, Drained, RxLen, TxLen, TxFlying, Stopped, Goto, queues, pending
<1>37. CASE Disconnect
  BY <1>37
  DEF DrainInv, Drained, RxLen, TxLen, TxFlying, Disconnect, Goto, netif, queues,
      pending
<1>38. CASE Unregistered
  BY <1>38
  DEF DrainInv, Drained, RxLen, TxLen, TxFlying, Unregistered, Goto, queues, pending
<1>39. CASE FreeDevice
  BY <1>39 DEF DrainInv, Drained, RxLen, TxLen, TxFlying, FreeDevice, Goto
<1>40. CASE GrowMtu
  BY <1>40
  DEF DrainInv, Drained, RxLen, TxLen, TxFlying, GrowMtu, Goto, netif, queues,
      pending
<1>41. CASE usbnet_unlink_rx_urbs
  BY <1>41
  DEF DrainInv, Drained, RxLen, TxLen, TxFlying, usbnet_unlink_rx_urbs, Goto, netif
<1>42. CASE usbnet_resume_rx
  BY <1>42
  DEF DrainInv, Drained, RxLen, TxLen, TxFlying, usbnet_resume_rx, Goto, netif,
      queues
<1>43. CASE MtuChanged
  BY <1>43
  DEF DrainInv, Drained, RxLen, TxLen, TxFlying, MtuChanged, Goto, netif, queues,
      pending
<1>44. CASE BeginSuspend
  BY <1>44
  DEF DrainInv, Drained, RxLen, TxLen, TxFlying, BeginSuspend, Goto, netif, queues,
      pending
<1>45. CASE usbnet_suspend
  BY <1>45
  DEF PcType, CtlType, DrainInv, Drained, RxLen, TxLen, TxFlying, usbnet_suspend,
      Goto, netif, queues, pending
<1>46. CASE netif_device_detach
  BY <1>46
  DEF DrainInv, Drained, RxLen, TxLen, TxFlying, netif_device_detach, Goto, queues,
      pending
<1>47. CASE netif_device_attach
  BY <1>47
  DEF DrainInv, Drained, RxLen, TxLen, TxFlying, netif_device_attach, Goto, queues,
      pending
<1>48. CASE usbnet_resume
  BY <1>48
  DEF CtlType, QueueType, AwakeInv, SleepInv, DrainInv, Drained, RxLen, TxLen,
      TxFlying, usbnet_resume, Goto, netif, pending
<1>49. CASE ResumeReads
  BY <1>49
  DEF DrainInv, Drained, RxLen, TxLen, TxFlying, ResumeReads, Goto, netif, queues,
      pending
<1>50. CASE Resumed
  BY <1>50 DEF DrainInv, Drained, RxLen, TxLen, TxFlying, Resumed, Goto, queues
<1> QED
  BY <1>1, <1>2, <1>3, <1>4, <1>5, <1>6, <1>7, <1>8, <1>9, <1>10, <1>11, <1>12,
     <1>13, <1>14, <1>15, <1>16, <1>17, <1>18, <1>19, <1>20, <1>21, <1>22, <1>23,
     <1>24, <1>25, <1>26, <1>27, <1>28, <1>29, <1>30, <1>31, <1>32, <1>33, <1>34,
     <1>35, <1>36, <1>37, <1>38, <1>39, <1>40, <1>41, <1>42, <1>43, <1>44, <1>45,
     <1>46, <1>47, <1>48, <1>49, <1>50
  DEF Next, Completion, RunBh, Submission, usbnet_deferred_kevent, Terminate,
      usbnet_stop, Suspension

\* Nothing begins on a device that is freed.
LEMMA FreedStep ==
  ASSUME PcType, CtlType, QueueType, UsageType, BoundType, NetInv, AwakeInv,
         SleepInv, PutInv, DrainInv, FreedInv, Next
  PROVE  FreedInv'
<1>1. CASE rx_complete
  <2>1. RxLen # 0
    BY <1>1 DEF RxLen, QueueType, rx_complete
  <2>2. Drained' = Drained /\ WorkKeeps
    BY <1>1, WorkFrame DEF Work
  <2> QED BY <2>1, <2>2 DEF DrainInv, FreedInv, Drained, WorkKeeps
<1>2. CASE Resubmit
  BY <1>2 DEF PcType, FreedInv, Resubmit, PrepareRead, Goto
<1>3. CASE tx_complete
  <2>1. TxLen # 0
    BY <1>3 DEF TxLen, TxFlying, QueueType, tx_complete
  <2>2. Drained' = Drained /\ WorkKeeps
    BY <1>3, WorkFrame DEF Work
  <2> QED BY <2>1, <2>2 DEF DrainInv, FreedInv, Drained, WorkKeeps
<1>4. CASE tx_deferred
  BY <1>4 DEF FreedInv, tx_deferred, Goto
<1>5. CASE TaskletRuns
  BY <1>5 DEF FreedInv, TaskletRuns, Goto
<1>6. CASE TimerFires
  BY <1>6 DEF FreedInv, TimerFires, Goto
<1>7. CASE \E p \in Bh : Decide(p)
  <2>1. PICK p \in Bh : Decide(p)
    BY <1>7
  <2> QED
    BY <2>1 DEF NetInv, FreedInv, Decide, Goto, queues, pending
<1>8. CASE \E p \in Bh : Finish(p)
  <2>1. PICK p \in Bh : Finish(p)
    BY <1>8
  <2> QED
    BY <2>1 DEF FreedInv, Finish, Goto, queues
<1>9. CASE \E p \in Submitters : rx_alloc_submit(p)
  <2>1. PICK p \in Submitters : rx_alloc_submit(p)
    BY <1>9
  <2>2. /\ p \in Bh \cup {"pm"} /\ pc[p] = "alloc"
        /\ pc' = [pc EXCEPT ![p] = pc'[p]] /\ deferred' = deferred
    BY <2>1 DEF rx_alloc_submit, PrepareRead, Goto, PcType
  <2>3. UNCHANGED <<pc["net"], pc["irq"], pc["kevent"]>>
    BY <2>2 DEF PcType
  <2>4. pc["net"] \notin {"free", "gone"}
    BY <2>2 DEF FreedInv, DrainInv, Drained, AwakeInv, NetInv
  <2> QED BY <2>2, <2>3, <2>4 DEF FreedInv
<1>10. CASE \E p \in Submitters : rx_submit(p)
  <2>1. PICK p \in Submitters : rx_submit(p)
    BY <1>10
  <2> QED
    BY <2>1
    DEF PcType, NetInv, FreedInv, rx_submit, SubmitRead, MayRead, Goto,
        ReadSubmitted, ReadRefused, Spend, usbnet_defer_kevent
<1>11. CASE KeventRuns
  BY <1>11 DEF FreedInv, KeventRuns, Goto
<1>12. CASE TxHalt
  <2>1. /\ UNCHANGED <<work, deferred>> /\ pc["kevent"] # "idle"
        /\ pc'["irq"] = pc["irq"] /\ pc'["tasklet"] = pc["tasklet"]
    BY <1>12 DEF TxHalt, Goto, PcType, pending
  <2>2. WorkKeeps
    BY <1>12, WorkFrame DEF Work
  <2> QED BY <2>1, <2>2 DEF FreedInv, WorkKeeps
<1>13. CASE ClearTxHalt
  BY <1>13 DEF FreedInv, ClearTxHalt, Goto
<1>14. CASE RxHalt
  <2>1. /\ UNCHANGED <<work, deferred>> /\ pc["kevent"] # "idle"
        /\ pc'["irq"] = pc["irq"] /\ pc'["tasklet"] = pc["tasklet"]
    BY <1>14 DEF RxHalt, Goto, PcType, pending
  <2>2. WorkKeeps
    BY <1>14, WorkFrame DEF Work
  <2> QED BY <2>1, <2>2 DEF FreedInv, WorkKeeps
<1>15. CASE ClearRxHalt
  BY <1>15 DEF FreedInv, ClearRxHalt, Goto
<1>16. CASE Memory
  BY <1>16 DEF PcType, CtlType, FreedInv, Memory, Goto
<1>17. CASE MemoryAwake
  BY <1>17 DEF PcType, CtlType, FreedInv, MemoryAwake, Goto
<1>18. CASE MemoryRead
  BY <1>18 DEF PcType, FreedInv, MemoryRead, PrepareRead, Goto
<1>19. CASE MemoryPut
  BY <1>19 DEF FreedInv, MemoryPut, Goto
<1>20. CASE HandleLink
  BY <1>20 DEF FreedInv, HandleLink, Goto
<1>21. CASE \E link, need_reset \in BOOLEAN : usbnet_link_change(link, need_reset)
  <2>1. PICK link, need_reset \in BOOLEAN : usbnet_link_change(link, need_reset)
    BY <1>21
  <2> QED
    BY <2>1 DEF NetInv, FreedInv, usbnet_link_change
<1>22. CASE usbnet_start_xmit
  BY <1>22 DEF NetInv, FreedInv, usbnet_start_xmit
<1>23. CASE usbnet_tx_timeout
  BY <1>23 DEF FreedInv, usbnet_tx_timeout
<1>24. CASE \E p \in Ends : UnlinkTx(p)
  <2>1. PICK p \in Ends : UnlinkTx(p)
    BY <1>24
  <2> QED
    BY <2>1 DEF FreedInv, UnlinkTx, Goto, pending
<1>25. CASE \E p \in Ends : UnlinkReads(p)
  <2>1. PICK p \in Ends : UnlinkReads(p)
    BY <1>25
  <2> QED
    BY <2>1 DEF FreedInv, UnlinkReads, Goto, pending
<1>26. CASE \E p \in Ends : WaitQueue(p)
  <2>1. PICK p \in Ends : WaitQueue(p)
    BY <1>26
  <2> QED
    BY <2>1 DEF PcType, CtlType, FreedInv, WaitQueue, Goto, queues, pending
<1>27. CASE Open
  BY <1>27 DEF FreedInv, Open, Goto
<1>28. CASE Opened
  BY <1>28 DEF FreedInv, Opened, Goto
<1>29. CASE OpenFails
  BY <1>29 DEF FreedInv, OpenFails, Goto
<1>30. CASE Stop
  BY <1>30 DEF FreedInv, Stop, Goto
<1>31. CASE StopAwake
  BY <1>31 DEF FreedInv, StopAwake, Goto
<1>32. CASE ClearFlags
  BY <1>32 DEF FreedInv, ClearFlags, Goto
<1>33. CASE KillTimer
  BY <1>33 DEF FreedInv, KillTimer, Goto
<1>34. CASE KillTasklet
  BY <1>34 DEF FreedInv, KillTasklet, Goto
<1>35. CASE CancelWork
  BY <1>35 DEF FreedInv, CancelWork, Goto
<1>36. CASE Stopped
  BY <1>36 DEF FreedInv, Stopped, Goto
<1>37. CASE Disconnect
  BY <1>37 DEF FreedInv, Disconnect, Goto
<1>38. CASE Unregistered
  BY <1>38 DEF FreedInv, Unregistered, Goto
<1>39. CASE FreeDevice
  BY <1>39 DEF FreedInv, FreeDevice, Goto
<1>40. CASE GrowMtu
  BY <1>40 DEF FreedInv, GrowMtu, Goto
<1>41. CASE usbnet_unlink_rx_urbs
  BY <1>41 DEF FreedInv, usbnet_unlink_rx_urbs, Goto
<1>42. CASE usbnet_resume_rx
  BY <1>42 DEF FreedInv, usbnet_resume_rx, Goto
<1>43. CASE MtuChanged
  BY <1>43 DEF FreedInv, MtuChanged, Goto
<1>44. CASE BeginSuspend
  BY <1>44 DEF FreedInv, BeginSuspend, Goto, queues, pending
<1>45. CASE usbnet_suspend
  BY <1>45 DEF PcType, FreedInv, usbnet_suspend, Goto, queues, pending
<1>46. CASE netif_device_detach
  BY <1>46 DEF FreedInv, netif_device_detach, Goto, queues, pending
<1>47. CASE netif_device_attach
  BY <1>47 DEF FreedInv, netif_device_attach, Goto, queues, pending
<1>48. CASE usbnet_resume
  BY <1>48 DEF FreedInv, usbnet_resume, Goto, pending
<1>49. CASE ResumeReads
  BY <1>49 DEF FreedInv, ResumeReads, Goto, queues, pending
<1>50. CASE Resumed
  BY <1>50 DEF FreedInv, Resumed, Goto, queues
<1> QED
  BY <1>1, <1>2, <1>3, <1>4, <1>5, <1>6, <1>7, <1>8, <1>9, <1>10, <1>11, <1>12,
     <1>13, <1>14, <1>15, <1>16, <1>17, <1>18, <1>19, <1>20, <1>21, <1>22, <1>23,
     <1>24, <1>25, <1>26, <1>27, <1>28, <1>29, <1>30, <1>31, <1>32, <1>33, <1>34,
     <1>35, <1>36, <1>37, <1>38, <1>39, <1>40, <1>41, <1>42, <1>43, <1>44, <1>45,
     <1>46, <1>47, <1>48, <1>49, <1>50
  DEF Next, Completion, RunBh, Submission, usbnet_deferred_kevent, Terminate,
      usbnet_stop, Suspension

\* Every reference taken has its holder, and every holder gives one back.
LEMMA PmStep ==
  ASSUME PcType, CtlType, QueueType, UsageType, BoundType, NetInv, OwedInv,
         AwakeInv, PmBalanced, FreedInv, Next
  PROVE  PmBalanced'
<1>1. CASE rx_complete
  BY <1>1
  DEF PcType, PmBalanced, TxFlying, KeventHarmless, rx_complete, RxCounted, Goto
<1>2. CASE Resubmit
  BY <1>2
  DEF PcType, PmBalanced, TxFlying, KeventHarmless, Resubmit, PrepareRead, Goto,
      usbnet_defer_kevent
<1>3. CASE tx_complete
  BY <1>3
  DEF CtlType, QueueType, PmBalanced, TxFlying, KeventHarmless, tx_complete, Goto,
      usbnet_defer_kevent
<1>4. CASE tx_deferred
  BY <1>4 DEF PmBalanced, TxFlying, KeventHarmless, tx_deferred, Goto
<1>5. CASE TaskletRuns
  BY <1>5 DEF PmBalanced, TxFlying, KeventHarmless, TaskletRuns, Goto
<1>6. CASE TimerFires
  BY <1>6 DEF PmBalanced, TxFlying, KeventHarmless, TimerFires, Goto
<1>7. CASE \E p \in Bh : Decide(p)
  <2>1. PICK p \in Bh : Decide(p)
    BY <1>7
  <2> QED
    BY <2>1 DEF PmBalanced, TxFlying, KeventHarmless, Decide, Goto, queues
<1>8. CASE \E p \in Bh : Finish(p)
  <2>1. PICK p \in Bh : Finish(p)
    BY <1>8
  <2> QED
    BY <2>1 DEF PmBalanced, TxFlying, KeventHarmless, Finish, Goto, queues
<1>9. CASE \E p \in Submitters : rx_alloc_submit(p)
  <2>1. PICK p \in Submitters : rx_alloc_submit(p)
    BY <1>9
  <2> QED
    BY <2>1
    DEF PcType, PmBalanced, TxFlying, KeventHarmless, rx_alloc_submit, Goto,
        PrepareRead, usbnet_defer_kevent
<1>10. CASE \E p \in Submitters : rx_submit(p)
  <2>1. PICK p \in Submitters : rx_submit(p)
    BY <1>10
  <2> QED
    BY <2>1
    DEF PcType, PmBalanced, TxFlying, KeventHarmless, rx_submit, SubmitRead, Goto,
        AfterSubmit, ReadSubmitted, ReadRefused, Spend, usbnet_defer_kevent
<1>11. CASE KeventRuns
  BY <1>11 DEF PmBalanced, TxFlying, KeventHarmless, KeventRuns, Goto, queues
<1>12. CASE TxHalt
  BY <1>12
  DEF PcType, CtlType, QueueType, PmBalanced, TxFlying, KeventHarmless, TxHalt,
      unlink_urbs, Goto
<1>13. CASE ClearTxHalt
  BY <1>13
  DEF PcType, CtlType, QueueType, PmBalanced, TxFlying, KeventHarmless, ClearTxHalt,
      Goto, queues
<1>14. CASE RxHalt
  BY <1>14
  DEF PcType, CtlType, QueueType, PmBalanced, TxFlying, KeventHarmless, RxHalt, Goto
<1>15. CASE ClearRxHalt
  BY <1>15
  DEF PcType, CtlType, QueueType, PmBalanced, TxFlying, KeventHarmless, ClearRxHalt,
      Goto, queues
<1>16. CASE Memory
  BY <1>16
  DEF PcType, CtlType, QueueType, PmBalanced, TxFlying, KeventHarmless, Memory,
      Goto, queues
<1>17. CASE MemoryAwake
  BY <1>17
  DEF PcType, PmBalanced, TxFlying, KeventHarmless, MemoryAwake, Goto, queues
<1>18. CASE MemoryRead
  BY <1>18
  DEF PcType, PmBalanced, TxFlying, KeventHarmless, MemoryRead, PrepareRead, Goto,
      AfterSubmit, usbnet_defer_kevent, queues
<1>19. CASE MemoryPut
  BY <1>19
  DEF PcType, CtlType, QueueType, PmBalanced, TxFlying, KeventHarmless, MemoryPut,
      Goto, queues
<1>20. CASE HandleLink
  BY <1>20 DEF PmBalanced, TxFlying, KeventHarmless, HandleLink, Goto
<1>21. CASE \E link, need_reset \in BOOLEAN : usbnet_link_change(link, need_reset)
  <2>1. PICK link, need_reset \in BOOLEAN : usbnet_link_change(link, need_reset)
    BY <1>21
  <2> QED
    BY <2>1 DEF PmBalanced, TxFlying, KeventHarmless, usbnet_link_change, queues
<1>22. CASE usbnet_start_xmit
  BY <1>22
  DEF CtlType, QueueType, PmBalanced, TxFlying, KeventHarmless, usbnet_start_xmit,
      Defer, usbnet_defer_kevent
<1>23. CASE usbnet_tx_timeout
  BY <1>23
  DEF QueueType, PmBalanced, TxFlying, KeventHarmless, usbnet_tx_timeout,
      unlink_urbs
<1>24. CASE \E p \in Ends : UnlinkTx(p)
  <2>1. PICK p \in Ends : UnlinkTx(p)
    BY <1>24
  <2> QED
    BY <2>1
    DEF QueueType, PmBalanced, TxFlying, KeventHarmless, UnlinkTx, unlink_urbs, Goto
<1>25. CASE \E p \in Ends : UnlinkReads(p)
  <2>1. PICK p \in Ends : UnlinkReads(p)
    BY <1>25
  <2> QED
    BY <2>1 DEF PmBalanced, TxFlying, KeventHarmless, UnlinkReads, Goto
<1>26. CASE \E p \in Ends : WaitQueue(p)
  <2>1. PICK p \in Ends : WaitQueue(p)
    BY <1>26
  <2> QED
    BY <2>1
    DEF PcType, PmBalanced, TxFlying, KeventHarmless, WaitQueue, Goto, queues
<1>27. CASE Open
  BY <1>27
  DEF PcType, QueueType, OwedInv, PmBalanced, TxFlying, KeventHarmless, Open, Goto,
      queues
<1>28. CASE Opened
  BY <1>28
  DEF PcType, QueueType, OwedInv, PmBalanced, TxFlying, KeventHarmless, Opened,
      Goto, queues
<1>29. CASE OpenFails
  BY <1>29
  DEF PcType, QueueType, OwedInv, PmBalanced, TxFlying, KeventHarmless, OpenFails,
      Goto, queues
<1>30. CASE Stop
  BY <1>30
  DEF PcType, QueueType, OwedInv, PmBalanced, TxFlying, KeventHarmless, Stop, Goto,
      queues
<1>31. CASE StopAwake
  BY <1>31
  DEF PcType, QueueType, OwedInv, PmBalanced, TxFlying, KeventHarmless, StopAwake,
      Goto, queues
<1>32. CASE ClearFlags
  BY <1>32
  DEF CtlType, QueueType, PmBalanced, TxFlying, KeventHarmless, ClearFlags, Goto,
      queues
<1>33. CASE KillTimer
  BY <1>33 DEF PmBalanced, TxFlying, KeventHarmless, KillTimer, Goto, queues
<1>34. CASE KillTasklet
  BY <1>34 DEF PmBalanced, TxFlying, KeventHarmless, KillTasklet, Goto, queues
<1>35. CASE CancelWork
  BY <1>35 DEF PmBalanced, TxFlying, KeventHarmless, CancelWork, Goto, queues
<1>36. CASE Stopped
  BY <1>36
  DEF CtlType, QueueType, PmBalanced, TxFlying, KeventHarmless, Stopped, Goto,
      queues
<1>37. CASE Disconnect
  BY <1>37 DEF PmBalanced, TxFlying, KeventHarmless, Disconnect, Goto, queues
<1>38. CASE Unregistered
  BY <1>38 DEF PmBalanced, TxFlying, KeventHarmless, Unregistered, Goto, queues
<1>39. CASE FreeDevice
  BY <1>39 DEF PcType, PmBalanced, FreeDevice, Goto
<1>40. CASE GrowMtu
  BY <1>40 DEF PmBalanced, TxFlying, KeventHarmless, GrowMtu, Goto, queues
<1>41. CASE usbnet_unlink_rx_urbs
  BY <1>41 DEF PmBalanced, TxFlying, KeventHarmless, usbnet_unlink_rx_urbs, Goto
<1>42. CASE usbnet_resume_rx
  BY <1>42 DEF PmBalanced, TxFlying, KeventHarmless, usbnet_resume_rx, Goto, queues
<1>43. CASE MtuChanged
  BY <1>43 DEF PmBalanced, TxFlying, KeventHarmless, MtuChanged, Goto, queues
<1>44. CASE BeginSuspend
  BY <1>44 DEF PmBalanced, TxFlying, KeventHarmless, BeginSuspend, Goto, queues
<1>45. CASE usbnet_suspend
  BY <1>45
  DEF PcType, PmBalanced, TxFlying, KeventHarmless, usbnet_suspend, Goto, queues
<1>46. CASE netif_device_detach
  BY <1>46
  DEF PmBalanced, TxFlying, KeventHarmless, netif_device_detach, Goto, queues
<1>47. CASE netif_device_attach
  BY <1>47
  DEF PmBalanced, TxFlying, KeventHarmless, netif_device_attach, Goto, queues
<1>48. CASE usbnet_resume
  BY <1>48
  DEF CtlType, QueueType, PmBalanced, TxFlying, KeventHarmless, usbnet_resume, Goto
<1>49. CASE ResumeReads
  BY <1>49 DEF PmBalanced, TxFlying, KeventHarmless, ResumeReads, Goto, queues
<1>50. CASE Resumed
  BY <1>50 DEF PmBalanced, TxFlying, KeventHarmless, Resumed, Goto, queues
<1> QED
  BY <1>1, <1>2, <1>3, <1>4, <1>5, <1>6, <1>7, <1>8, <1>9, <1>10, <1>11, <1>12,
     <1>13, <1>14, <1>15, <1>16, <1>17, <1>18, <1>19, <1>20, <1>21, <1>22, <1>23,
     <1>24, <1>25, <1>26, <1>27, <1>28, <1>29, <1>30, <1>31, <1>32, <1>33, <1>34,
     <1>35, <1>36, <1>37, <1>38, <1>39, <1>40, <1>41, <1>42, <1>43, <1>44, <1>45,
     <1>46, <1>47, <1>48, <1>49, <1>50
  DEF Next, Completion, RunBh, Submission, usbnet_deferred_kevent, Terminate,
      usbnet_stop, Suspension

\* Killed in this order, twice, timer, tasklet and work start each other no more.
LEMMA KilledStep ==
  ASSUME OpenRaces = {FALSE}, PcType, CtlType, QueueType, UsageType, BoundType,
         NetInv, AwakeInv, SleepInv, PutInv, DrainInv, FreedInv, KilledInv, Next
  PROVE  KilledInv'
<1>1. CASE rx_complete
  BY <1>1
  DEF PcType, QueueType, DrainInv, KilledInv, Drained, RxLen, rx_complete, Goto,
      usbnet_going_away, Arm, defer_bh
<1>2. CASE Resubmit
  BY <1>2
  DEF PcType, KilledInv, Drained, KeventHarmless, Resubmit, PrepareRead, Goto
<1>3. CASE tx_complete
  BY <1>3 DEF KilledInv, Drained, KeventHarmless, tx_complete, Goto
<1>4. CASE tx_deferred
  <2>0. txq["put"] = 1
    BY <1>4 DEF PutInv, tx_deferred
  <2>1. TxLen # 0
    BY <2>0 DEF TxLen, TxFlying, QueueType
  <2>2. Drained' = Drained /\ WorkKeeps
    BY <1>4, WorkFrame DEF Work
  <2>3. pc'["kevent"] = pc["kevent"]
    BY <1>4 DEF tx_deferred, Goto, PcType
  <2> QED BY <2>1, <2>2, <2>3 DEF DrainInv, KilledInv, KeventHarmless, WorkKeeps
<1>5. CASE TaskletRuns
  BY <1>5 DEF KilledInv, Drained, KeventHarmless, TaskletRuns, Goto, netif
<1>6. CASE TimerFires
  BY <1>6 DEF KilledInv, Drained, KeventHarmless, TimerFires, Goto, netif
<1>7. CASE \E p \in Bh : Decide(p)
  <2>1. PICK p \in Bh : Decide(p)
    BY <1>7
  <2> QED
    BY <2>1 DEF KilledInv, Drained, KeventHarmless, Decide, Goto, netif, pending
<1>8. CASE \E p \in Bh : Finish(p)
  <2>1. PICK p \in Bh : Finish(p)
    BY <1>8
  <2> QED
    BY <2>1 DEF DrainInv, KilledInv, Drained, KeventHarmless, Finish, Goto
<1>9. CASE \E p \in Submitters : rx_alloc_submit(p)
  <2>1. PICK p \in Submitters : rx_alloc_submit(p)
    BY <1>9
  <2> QED
    BY <2>1
    DEF PcType, KilledInv, Drained, KeventHarmless, rx_alloc_submit, Goto,
        PrepareRead
<1>10. CASE \E p \in Submitters : rx_submit(p)
  <2>1. PICK p \in Submitters : rx_submit(p)
    BY <1>10
  <2> QED
    BY <2>1
    DEF PcType, NetInv, KilledInv, Drained, KeventHarmless, rx_submit, SubmitRead,
        MayRead, Goto, AfterSubmit, ReadSubmitted, ReadRefused, Spend,
        usbnet_defer_kevent
<1>11. CASE KeventRuns
  BY <1>11 DEF KilledInv, Drained, KeventHarmless, KeventRuns, Goto, netif
<1>12. CASE TxHalt
  BY <1>12
  DEF PcType, DrainInv, KilledInv, Drained, KeventHarmless, TxHalt, Goto, netif,
      pending
<1>13. CASE ClearTxHalt
  BY <1>13 DEF KilledInv, Drained, KeventHarmless, ClearTxHalt, Goto
<1>14. CASE RxHalt
  BY <1>14
  DEF PcType, DrainInv, KilledInv, Drained, KeventHarmless, RxHalt, Goto, netif,
      pending
<1>15. CASE ClearRxHalt
  BY <1>15 DEF KilledInv, Drained, KeventHarmless, ClearRxHalt, Goto, netif
<1>16. CASE Memory
  BY <1>16
  DEF PcType, NetInv, KilledInv, Drained, KeventHarmless, Memory, Goto, netif,
      queues, pending
<1>17. CASE MemoryAwake
  BY <1>17 DEF PcType, KilledInv, Drained, KeventHarmless, MemoryAwake, Goto, netif
<1>18. CASE MemoryRead
  BY <1>18
  DEF PcType, KilledInv, Drained, KeventHarmless, MemoryRead, PrepareRead, Goto,
      usbnet_going_away, netif, queues
<1>19. CASE MemoryPut
  BY <1>19 DEF KilledInv, Drained, KeventHarmless, MemoryPut, Goto, netif
<1>20. CASE HandleLink
  BY <1>20 DEF NetInv, KilledInv, Drained, KeventHarmless, HandleLink, Goto
<1>21. CASE \E link, need_reset \in BOOLEAN : usbnet_link_change(link, need_reset)
  <2>1. PICK link, need_reset \in BOOLEAN : usbnet_link_change(link, need_reset)
    BY <1>21
  <2> QED
    BY <2>1 DEF KilledInv, Drained, KeventHarmless, usbnet_link_change
<1>22. CASE usbnet_start_xmit
  BY <1>22 DEF KilledInv, Drained, KeventHarmless, usbnet_start_xmit
<1>23. CASE usbnet_tx_timeout
  BY <1>23 DEF NetInv, KilledInv, Drained, usbnet_tx_timeout, netif
<1>24. CASE \E p \in Ends : UnlinkTx(p)
  <2>1. PICK p \in Ends : UnlinkTx(p)
    BY <1>24
  <2> QED
    BY <2>1 DEF KilledInv, Drained, KeventHarmless, UnlinkTx, Goto, netif, pending
<1>25. CASE \E p \in Ends : UnlinkReads(p)
  <2>1. PICK p \in Ends : UnlinkReads(p)
    BY <1>25
  <2> QED
    BY <2>1
    DEF KilledInv, Drained, KeventHarmless, UnlinkReads, Goto, netif, pending
<1>26. CASE \E p \in Ends : WaitQueue(p)
  <2>1. PICK p \in Ends : WaitQueue(p)
    BY <1>26
  <2> QED
    BY <2>1
    DEF PcType, KilledInv, Drained, KeventHarmless, WaitQueue, Goto, netif, pending
<1>27. CASE Open
  BY <1>27 DEF KilledInv, Drained, Open, Goto
<1>28. CASE Opened
  BY <1>28 DEF NetInv, KilledInv, Drained, Opened, Goto
<1>29. CASE OpenFails
  BY <1>29 DEF KilledInv, KeventHarmless, OpenFails, Goto, pending
<1>30. CASE Stop
  BY <1>30 DEF PcType, KilledInv, Drained, Stop, Goto
<1>31. CASE StopAwake
  BY <1>31 DEF KilledInv, Drained, StopAwake, Goto
<1>32. CASE ClearFlags
  BY <1>32 DEF KilledInv, Drained, ClearFlags, Goto
<1>33. CASE KillTimer
  BY <1>33 DEF KilledInv, Drained, KeventHarmless, KillTimer, Goto
<1>34. CASE KillTasklet
  BY <1>34 DEF KilledInv, Drained, KeventHarmless, KillTasklet, Goto, pending
<1>35. CASE CancelWork
  BY <1>35 DEF KilledInv, Drained, KeventHarmless, CancelWork, Goto
<1>36. CASE Stopped
  BY <1>36 DEF KilledInv, Drained, KeventHarmless, Stopped, Goto, pending
<1>37. CASE Disconnect
  BY <1>37 DEF KilledInv, Drained, KeventHarmless, Disconnect, Goto, netif, pending
<1>38. CASE Unregistered
  BY <1>38 DEF KilledInv, Drained, KeventHarmless, Unregistered, Goto, pending
<1>39. CASE FreeDevice
  BY <1>39 DEF KilledInv, Drained, KeventHarmless, FreeDevice, Goto
<1>40. CASE GrowMtu
  BY <1>40 DEF KilledInv, Drained, KeventHarmless, GrowMtu, Goto, netif, pending
<1>41. CASE usbnet_unlink_rx_urbs
  BY <1>41
  DEF KilledInv, Drained, KeventHarmless, usbnet_unlink_rx_urbs, Goto, netif
<1>42. CASE usbnet_resume_rx
  BY <1>42 DEF KilledInv, Drained, KeventHarmless, usbnet_resume_rx, Goto, netif
<1>43. CASE MtuChanged
  BY <1>43 DEF KilledInv, Drained, KeventHarmless, MtuChanged, Goto, netif, pending
<1>44. CASE BeginSuspend
  BY <1>44
  DEF KilledInv, Drained, KeventHarmless, BeginSuspend, Goto, netif, pending
<1>45. CASE usbnet_suspend
  BY <1>45
  DEF PcType, KilledInv, Drained, KeventHarmless, usbnet_suspend, Goto, netif,
      pending
<1>46. CASE netif_device_detach
  BY <1>46
  DEF KilledInv, Drained, KeventHarmless, netif_device_detach, Goto, pending
<1>47. CASE netif_device_attach
  BY <1>47
  DEF KilledInv, Drained, KeventHarmless, netif_device_attach, Goto, pending
<1>48. CASE usbnet_resume
  BY <1>48
  DEF KilledInv, Drained, KeventHarmless, usbnet_resume, Goto, netif, pending
<1>49. CASE ResumeReads
  BY <1>49 DEF KilledInv, Drained, KeventHarmless, ResumeReads, Goto, netif, pending
<1>50. CASE Resumed
  BY <1>50 DEF NetInv, AwakeInv, KilledInv, Drained, Resumed, Goto
<1> QED
  BY <1>1, <1>2, <1>3, <1>4, <1>5, <1>6, <1>7, <1>8, <1>9, <1>10, <1>11, <1>12,
     <1>13, <1>14, <1>15, <1>16, <1>17, <1>18, <1>19, <1>20, <1>21, <1>22, <1>23,
     <1>24, <1>25, <1>26, <1>27, <1>28, <1>29, <1>30, <1>31, <1>32, <1>33, <1>34,
     <1>35, <1>36, <1>37, <1>38, <1>39, <1>40, <1>41, <1>42, <1>43, <1>44, <1>45,
     <1>46, <1>47, <1>48, <1>49, <1>50
  DEF Next, Completion, RunBh, Submission, usbnet_deferred_kevent, Terminate,
      usbnet_stop, Suspension


-----------------------------------------------------------------------------
(* Nobody is forgotten                                                     *)

\* Only a run of usbnet_bh takes the buffers and the tasklet's turn.
LEMMA KickStep ==
  ASSUME PcType, CtlType, QueueType, KickInv, Next
  PROVE  KickInv'
<1>1. CASE rx_complete
  <2>1. bh'
    BY <1>1, DeferKicks DEF rx_complete
  <2> QED BY <2>1 DEF KickInv
<1>2. CASE Resubmit
  BY <1>2 DEF PcType, KickInv, Resubmit, PrepareRead, Goto, usbnet_defer_kevent
<1>3. CASE tx_complete
  BY <1>3 DEF KickInv, tx_complete, Goto, usbnet_defer_kevent
<1>4. CASE tx_deferred
  <2>1. bh'
    BY <1>4, DeferKicks DEF tx_deferred
  <2> QED BY <2>1 DEF KickInv
<1>5. CASE TaskletRuns
  BY <1>5 DEF PcType, KickInv, TaskletRuns, Goto
<1>6. CASE TimerFires
  BY <1>6 DEF KickInv, TimerFires, Goto
<1>7. CASE \E p \in Bh : Decide(p)
  <2>1. PICK p \in Bh : Decide(p)
    BY <1>7
  <2> QED
    BY <2>1 DEF KickInv, Decide, queues, pending
<1>8. CASE \E p \in Bh : Finish(p)
  <2>1. PICK p \in Bh : Finish(p)
    BY <1>8
  <2> QED
    BY <2>1 DEF CtlType, KickInv, Finish, Goto, queues
<1>9. CASE \E p \in Submitters : rx_alloc_submit(p)
  <2>1. PICK p \in Submitters : rx_alloc_submit(p)
    BY <1>9
  <2> QED
    BY <2>1
    DEF PcType, KickInv, rx_alloc_submit, Goto, PrepareRead, usbnet_defer_kevent
<1>10. CASE \E p \in Submitters : rx_submit(p)
  <2>1. PICK p \in Submitters : rx_submit(p)
    BY <1>10
  <2> QED
    BY <2>1
    DEF PcType, KickInv, rx_submit, SubmitRead, Goto, ReadSubmitted, ReadRefused,
        usbnet_defer_kevent
<1>11. CASE KeventRuns
  BY <1>11 DEF KickInv, KeventRuns, Goto, queues
<1>12. CASE TxHalt
  BY <1>12 DEF PcType, KickInv, TxHalt, Goto, pending
<1>13. CASE ClearTxHalt
  BY <1>13 DEF KickInv, ClearTxHalt, Goto, queues, pending
<1>14. CASE RxHalt
  BY <1>14 DEF PcType, KickInv, RxHalt, Goto, pending
<1>15. CASE ClearRxHalt
  BY <1>15 DEF CtlType, KickInv, ClearRxHalt, Goto, queues
<1>16. CASE Memory
  BY <1>16 DEF PcType, KickInv, Memory, Goto, queues, pending
<1>17. CASE MemoryAwake
  BY <1>17 DEF PcType, KickInv, MemoryAwake, Goto, queues, pending
<1>18. CASE MemoryRead
  BY <1>18
  DEF PcType, KickInv, MemoryRead, PrepareRead, Goto, usbnet_defer_kevent, queues
<1>19. CASE MemoryPut
  BY <1>19 DEF CtlType, KickInv, MemoryPut, Goto, queues
<1>20. CASE HandleLink
  BY <1>20 DEF KickInv, HandleLink, Goto
<1>21. CASE \E link, need_reset \in BOOLEAN : usbnet_link_change(link, need_reset)
  <2>1. PICK link, need_reset \in BOOLEAN : usbnet_link_change(link, need_reset)
    BY <1>21
  <2> QED
    BY <2>1 DEF KickInv, usbnet_link_change, queues
<1>22. CASE usbnet_start_xmit
  BY <1>22 DEF KickInv, usbnet_start_xmit, usbnet_defer_kevent
<1>23. CASE usbnet_tx_timeout
  BY <1>23 DEF KickInv, usbnet_tx_timeout
<1>24. CASE \E p \in Ends : UnlinkTx(p)
  <2>1. PICK p \in Ends : UnlinkTx(p)
    BY <1>24
  <2> QED
    BY <2>1 DEF KickInv, UnlinkTx, Goto, pending
<1>25. CASE \E p \in Ends : UnlinkReads(p)
  <2>1. PICK p \in Ends : UnlinkReads(p)
    BY <1>25
  <2> QED
    BY <2>1 DEF KickInv, UnlinkReads, Goto, pending
<1>26. CASE \E p \in Ends : WaitQueue(p)
  <2>1. PICK p \in Ends : WaitQueue(p)
    BY <1>26
  <2> QED
    BY <2>1 DEF PcType, KickInv, WaitQueue, Goto, queues, pending
<1>27. CASE Open
  BY <1>27 DEF KickInv, Open, Goto, queues, pending
<1>28. CASE Opened
  BY <1>28 DEF KickInv, Opened
<1>29. CASE OpenFails
  BY <1>29 DEF KickInv, OpenFails, Goto, queues, pending
<1>30. CASE Stop
  BY <1>30 DEF KickInv, Stop, Goto, queues, pending
<1>31. CASE StopAwake
  BY <1>31 DEF KickInv, StopAwake, Goto, queues, pending
<1>32. CASE ClearFlags
  BY <1>32 DEF KickInv, ClearFlags, queues, pending
<1>33. CASE KillTimer
  BY <1>33 DEF KickInv, KillTimer, Goto, queues
<1>34. CASE KillTasklet
  BY <1>34 DEF KickInv, KillTasklet, Goto, queues
<1>35. CASE CancelWork
  BY <1>35 DEF KickInv, CancelWork, Goto, queues
<1>36. CASE Stopped
  BY <1>36 DEF KickInv, Stopped, Goto, queues, pending
<1>37. CASE Disconnect
  BY <1>37 DEF KickInv, Disconnect, Goto, queues, pending
<1>38. CASE Unregistered
  BY <1>38 DEF KickInv, Unregistered, queues, pending
<1>39. CASE FreeDevice
  BY <1>39 DEF KickInv, FreeDevice, Goto
<1>40. CASE GrowMtu
  BY <1>40 DEF KickInv, GrowMtu, Goto, queues, pending
<1>41. CASE usbnet_unlink_rx_urbs
  BY <1>41 DEF KickInv, usbnet_unlink_rx_urbs, Goto
<1>42. CASE usbnet_resume_rx
  BY <1>42 DEF KickInv, usbnet_resume_rx
<1>43. CASE MtuChanged
  BY <1>43 DEF KickInv, MtuChanged, Goto, queues
<1>44. CASE BeginSuspend
  BY <1>44 DEF KickInv, BeginSuspend, Goto, queues, pending
<1>45. CASE usbnet_suspend
  BY <1>45 DEF PcType, KickInv, usbnet_suspend, Goto, queues, pending
<1>46. CASE netif_device_detach
  BY <1>46 DEF KickInv, netif_device_detach, Goto, queues, pending
<1>47. CASE netif_device_attach
  BY <1>47 DEF KickInv, netif_device_attach, Goto, queues, pending
<1>48. CASE usbnet_resume
  BY <1>48 DEF KickInv, usbnet_resume, Goto, pending
<1>49. CASE ResumeReads
  BY <1>49 DEF KickInv, ResumeReads, Goto, queues, pending
<1>50. CASE Resumed
  BY <1>50 DEF KickInv, Resumed
<1> QED
  BY <1>1, <1>2, <1>3, <1>4, <1>5, <1>6, <1>7, <1>8, <1>9, <1>10, <1>11, <1>12,
     <1>13, <1>14, <1>15, <1>16, <1>17, <1>18, <1>19, <1>20, <1>21, <1>22, <1>23,
     <1>24, <1>25, <1>26, <1>27, <1>28, <1>29, <1>30, <1>31, <1>32, <1>33, <1>34,
     <1>35, <1>36, <1>37, <1>38, <1>39, <1>40, <1>41, <1>42, <1>43, <1>44, <1>45,
     <1>46, <1>47, <1>48, <1>49, <1>50
  DEF Next, Completion, RunBh, Submission, usbnet_deferred_kevent, Terminate,
      usbnet_stop, Suspension

\* Who ends a run short of reads, takes a read, or lifts what forbids traffic,
\* schedules the next run.
LEMMA TrafficStep ==
  ASSUME PcType, CtlType, QueueType, UsageType, BoundType, NetInv, AwakeInv, PutInv,
         KickInv, TrafficInv, Next
  PROVE  TrafficInv'
<1>1. CASE rx_complete
  <2>1. bh'
    BY <1>1, DeferKicks DEF rx_complete
  <2> QED BY <2>1 DEF TrafficInv, Refilling
<1>2. CASE Resubmit
  BY <1>2
  DEF PcType, TrafficInv, InUse, Refilling, RxLen, TxLen, TxFlying, Resubmit,
      PrepareRead, Goto, usbnet_defer_kevent
<1>3. CASE tx_complete
  BY <1>3
  DEF QueueType, TrafficInv, InUse, Refilling, RxLen, TxLen, TxFlying, tx_complete,
      Goto, usbnet_defer_kevent, Arm
<1>4. CASE tx_deferred
  BY <1>4
  DEF CtlType, QueueType, KickInv, TrafficInv, InUse, Refilling, RxLen, tx_deferred,
      defer_bh, Goto
<1>5. CASE TaskletRuns
  BY <1>5 DEF PcType, TrafficInv, Refilling, TaskletRuns, Goto
<1>6. CASE TimerFires
  BY <1>6 DEF PcType, TrafficInv, Refilling, TimerFires, Goto
<1>7. CASE \E p \in Bh : Decide(p)
  <2>1. PICK p \in Bh : Decide(p)
    BY <1>7
  <2> QED
    BY <2>1
    DEF TrafficInv, InUse, Refilling, RxLen, Decide, waitqueue_active,
        usbnet_going_away, Goto, netif, queues, pending
<1>8. CASE \E p \in Bh : Finish(p)
  <2>1. PICK p \in Bh : Finish(p)
    BY <1>8
  <2>2. /\ \A q \in Procs \ {p} : pc'[q] = pc[q]
        /\ pc[p] \in {"refilled", "wake"} /\ pc'[p] = "idle"
        /\ bh' = (bh \/ (pc[p] = "refilled" /\ RxLen < RX_QLEN))
        /\ UNCHANGED <<flags, running, present, carrier, rxq, txq, delay>>
        /\ stopped' = (stopped /\ TxLen >= TX_QLEN)
    BY <2>1 DEF Finish, Goto, PcType, queues
  <2>3. RxLen' = RxLen /\ TxLen' = TxLen
    BY <2>2 DEF RxLen, TxLen, TxFlying
  <2>4. InUse' = InUse
    BY <2>2 DEF InUse
  <2>5. RxLen < RX_QLEN /\ Refilling => Refilling'
    BY <2>2 DEF Refilling
  <2>6. stopped' => TxLen > 0
    <3>1. stopped' => TxLen >= TX_QLEN
      BY <2>2
    <3> QED BY <3>1, Lengths
  <2> QED BY <2>3, <2>4, <2>5, <2>6 DEF TrafficInv
<1>9. CASE \E p \in Submitters : rx_alloc_submit(p)
  <2>1. PICK p \in Submitters : rx_alloc_submit(p)
    BY <1>9
  <2> QED
    BY <2>1
    DEF PcType, KickInv, TrafficInv, InUse, Refilling, rx_alloc_submit, Goto,
        PrepareRead, AfterSubmit
<1>10. CASE \E p \in Submitters : rx_submit(p)
  <2>1. PICK p \in Submitters : rx_submit(p)
    BY <1>10
  <2>2. /\ \A q \in Procs \ {p} : pc'[q] = pc[q]
        /\ pc[p] = "lock" /\ (bh => bh')
        /\ UNCHANGED <<running, carrier, txq, delay>>
    BY <2>1 DEF rx_submit, SubmitRead, ReadSubmitted, ReadRefused, Goto, PcType
  <2>3. RxLen <= RxLen' /\ RxLen' \in Nat /\ TxLen' = TxLen
    BY <2>1, <2>2 DEF rx_submit, SubmitRead, ReadSubmitted, ReadRefused, QueueType,
                      RxLen, TxLen, TxFlying
  <2>3a. InUse' => p # "pm"
    BY <2>1 DEF rx_submit, SubmitRead, ReadSubmitted, ReadRefused, InUse, Goto, PcType,
       AfterSubmit
  <2>3b. (present' /\ stopped' = stopped) \/ ~present'
    BY <2>1 DEF rx_submit, SubmitRead, ReadSubmitted, ReadRefused, CtlType
  <2>3c. \/ flags' = flags
         \/ flags' = flags \cup {"RX_HALT"}
         \/ flags' = flags \cup {"RX_MEMORY"}
    BY <2>1 DEF rx_submit, SubmitRead, ReadSubmitted, ReadRefused, usbnet_defer_kevent
  <2>3d. present' => present
    BY <2>1 DEF rx_submit, SubmitRead, ReadSubmitted, ReadRefused
  <2>3e. /\ "DEV_OPEN" \in flags' => "DEV_OPEN" \in flags
         /\ "TX_HALT" \in flags' <=> "TX_HALT" \in flags
         /\ flags \subseteq flags'
    BY <2>3c
  <2>3f. pc'["net"] = pc["net"] /\ (InUse' => pc'["pm"] = pc["pm"])
    BY <2>2, <2>3a
  <2>4. InUse' => InUse /\ stopped' = stopped
    <3> SUFFICES ASSUME InUse' PROVE InUse /\ stopped' = stopped
      OBVIOUS
    <3>1. {"RX_HALT", "RX_PAUSED", "DEV_ASLEEP", "UNPLUG"} \cap flags = {}
      BY <2>3e DEF InUse
    <3>2. running /\ carrier
      BY <2>2 DEF InUse
    <3> QED BY <2>3b, <2>3d, <2>3e, <2>3f, <3>1, <3>2 DEF InUse
  <2>5. InUse => MayRead
    BY DEF InUse, MayRead, usbnet_going_away
  <2>6. CASE p \in Bh
    <3>1. InUse => pc'[p] \in {"alloc", "refilled"}
      BY <2>1, <2>5, <2>6 DEF rx_submit, SubmitRead, ReadSubmitted, ReadRefused, Goto,
         PcType, AfterSubmit
    <3> QED BY <2>4, <2>6, <3>1 DEF TrafficInv, Refilling
  <2>7. CASE p \notin Bh
    <3>0. \A q \in Bh : pc'[q] = pc[q]
      BY <2>2, <2>7
    <3>1. Refilling => Refilling'
      <4>1. CASE bh \/ delay
        BY <2>2, <4>1 DEF Refilling
      <4>2. CASE \E q \in Bh : pc[q] \in {"decide", "refilled"} \cup Filling
        BY <3>0, <4>2 DEF Refilling
      <4> QED BY <4>1, <4>2 DEF Refilling
    <3>2. (\E q \in Bh : pc[q] = "wake") => \E q \in Bh : pc'[q] = "wake"
      BY <3>0
    <3>3. RxLen' < RX_QLEN => RxLen < RX_QLEN
      BY <2>3, Lengths, QlenAssumption DEF QueueType
    <3> QED BY <2>3, <2>3e, <2>4, <3>1, <3>2, <3>3 DEF TrafficInv
  <2> QED BY <2>6, <2>7
<1>11. CASE KeventRuns
  BY <1>11
  DEF TrafficInv, InUse, Refilling, RxLen, TxLen, TxFlying, KeventRuns, Goto, netif,
      queues
<1>12. CASE TxHalt
  BY <1>12
  DEF PcType, TrafficInv, InUse, Refilling, RxLen, TxLen, TxFlying, TxHalt, Goto,
      netif, pending
<1>13. CASE ClearTxHalt
  BY <1>13
  DEF NetInv, TrafficInv, InUse, Refilling, RxLen, TxLen, TxFlying, ClearTxHalt,
      Goto, queues, pending
<1>14. CASE RxHalt
  BY <1>14
  DEF PcType, TrafficInv, InUse, Refilling, RxLen, TxLen, TxFlying, RxHalt, Goto,
      netif, pending
<1>15. CASE ClearRxHalt
  BY <1>15
  DEF PcType, CtlType, QueueType, UsageType, BoundType, NetInv, PutInv, KickInv,
      TrafficInv, InUse, Refilling, RxLen, TxLen, TxFlying, ClearRxHalt,
      usbnet_going_away, Goto, netif, queues
<1>16. CASE Memory
  BY <1>16
  DEF PcType, TrafficInv, InUse, Refilling, RxLen, TxLen, TxFlying, Memory, Goto,
      netif, queues, pending
<1>17. CASE MemoryAwake
  BY <1>17
  DEF PcType, TrafficInv, InUse, Refilling, RxLen, TxLen, TxFlying, MemoryAwake,
      Goto, netif, queues, pending
<1>18. CASE MemoryRead
  BY <1>18
  DEF PcType, TrafficInv, InUse, Refilling, RxLen, TxLen, TxFlying, MemoryRead,
      PrepareRead, Goto, usbnet_defer_kevent, netif, queues
<1>19. CASE MemoryPut
  BY <1>19
  DEF CtlType, TrafficInv, InUse, Refilling, RxLen, TxLen, TxFlying, MemoryPut,
      Goto, netif, queues
<1>20. CASE HandleLink
  <2>1. CASE bh'
    BY <2>1 DEF TrafficInv, Refilling
  <2>2. CASE ~bh'
    <3>1. /\ flags' \subseteq flags
          /\ {"RX_HALT", "RX_PAUSED", "DEV_ASLEEP", "UNPLUG", "DEV_OPEN", "TX_HALT"}
             \cap flags \subseteq flags'
          /\ UNCHANGED <<running, present, stopped, txq, delay>>
          /\ \A q \in Procs \ {"kevent"} : pc'[q] = pc[q]
      BY <1>20 DEF HandleLink, Goto, PcType
    <3>2. carrier' => UNCHANGED <<carrier, rxq, bh>>
      BY <1>20, <2>2 DEF HandleLink
    <3> QED BY <3>1, <3>2 DEF TrafficInv, InUse, Refilling, RxLen, TxLen, TxFlying
  <2> QED BY <2>1, <2>2
<1>21. CASE \E link, need_reset \in BOOLEAN : usbnet_link_change(link, need_reset)
  <2>1. PICK link, need_reset \in BOOLEAN : usbnet_link_change(link, need_reset)
    BY <1>21
  <2>2. /\ carrier' => carrier
        /\ \A e \in Events \ {"LINK_CHANGE", "LINK_RESET", "LINK_CARRIER_ON"} :
             e \in flags' <=> e \in flags
    BY <2>1 DEF usbnet_link_change
  <2>3. UNCHANGED <<running, present, stopped, rxq, txq, bh, delay, pc>>
    BY <2>1 DEF usbnet_link_change, queues
  <2>4. UNCHANGED <<RxLen, TxLen, Refilling>>
    BY <2>3 DEF RxLen, TxLen, TxFlying, Refilling
  <2> QED BY <2>2, <2>3, <2>4 DEF TrafficInv, InUse, Events
<1>22. CASE usbnet_start_xmit
  BY <1>22
  DEF QueueType, TrafficInv, InUse, Refilling, RxLen, TxLen, TxFlying,
      usbnet_start_xmit, usbnet_defer_kevent
<1>23. CASE usbnet_tx_timeout
  BY <1>23 DEF TrafficInv, Refilling, usbnet_tx_timeout
<1>24. CASE \E p \in Ends : UnlinkTx(p)
  <2>1. PICK p \in Ends : UnlinkTx(p)
    BY <1>24
  <2> QED
    BY <2>1 DEF TrafficInv, InUse, UnlinkTx, Goto
<1>25. CASE \E p \in Ends : UnlinkReads(p)
  <2>1. PICK p \in Ends : UnlinkReads(p)
    BY <1>25
  <2> QED
    BY <2>1 DEF TrafficInv, InUse, UnlinkReads, Goto
<1>26. CASE \E p \in Ends : WaitQueue(p)
  <2>1. PICK p \in Ends : WaitQueue(p)
    BY <1>26
  <2> QED
    BY <2>1 DEF PcType, TrafficInv, InUse, WaitQueue, Goto
<1>27. CASE Open
  BY <1>27 DEF NetInv, TrafficInv, InUse, Open
<1>28. CASE Opened
  BY <1>28 DEF TrafficInv, Refilling, Opened
<1>29. CASE OpenFails
  BY <1>29 DEF TrafficInv, InUse, OpenFails
<1>30. CASE Stop
  BY <1>30 DEF TrafficInv, InUse, Stop
<1>31. CASE StopAwake
  BY <1>31 DEF TrafficInv, InUse, StopAwake, Goto
<1>32. CASE ClearFlags
  BY <1>32 DEF TrafficInv, InUse, ClearFlags
<1>33. CASE KillTimer
  BY <1>33 DEF TrafficInv, InUse, KillTimer, Goto
<1>34. CASE KillTasklet
  BY <1>34 DEF TrafficInv, InUse, KillTasklet, Goto
<1>35. CASE CancelWork
  BY <1>35 DEF TrafficInv, InUse, CancelWork, Goto
<1>36. CASE Stopped
  BY <1>36 DEF NetInv, TrafficInv, InUse, Stopped
<1>37. CASE Disconnect
  BY <1>37 DEF TrafficInv, InUse, Disconnect
<1>38. CASE Unregistered
  BY <1>38 DEF TrafficInv, InUse, Unregistered, netif
<1>39. CASE FreeDevice
  BY <1>39 DEF TrafficInv, InUse, FreeDevice, Goto
<1>40. CASE GrowMtu
  BY <1>40 DEF TrafficInv, InUse, GrowMtu
<1>41. CASE usbnet_unlink_rx_urbs
  BY <1>41 DEF TrafficInv, InUse, usbnet_unlink_rx_urbs, Goto
<1>42. CASE usbnet_resume_rx
  BY <1>42 DEF TrafficInv, Refilling, usbnet_resume_rx
<1>43. CASE MtuChanged
  BY <1>43
  DEF TrafficInv, InUse, Refilling, RxLen, TxLen, TxFlying, MtuChanged, Goto, netif,
      queues, pending
<1>44. CASE BeginSuspend
  BY <1>44
  DEF TrafficInv, InUse, Refilling, RxLen, TxLen, TxFlying, BeginSuspend, Goto,
      netif, queues, pending
<1>45. CASE usbnet_suspend
  BY <1>45
  DEF PcType, TrafficInv, InUse, Refilling, RxLen, TxLen, TxFlying, usbnet_suspend,
      Goto, netif, queues, pending
<1>46. CASE netif_device_detach
  BY <1>46 DEF TrafficInv, InUse, netif_device_detach
<1>47. CASE netif_device_attach
  BY <1>47 DEF TrafficInv, InUse, netif_device_attach, Goto
<1>48. CASE usbnet_resume
  BY <1>48 DEF TrafficInv, InUse, usbnet_resume, Goto
<1>49. CASE ResumeReads
  BY <1>49 DEF TrafficInv, InUse, ResumeReads, Goto
<1>50. CASE Resumed
  BY <1>50 DEF TrafficInv, Refilling, Resumed
<1> QED
  BY <1>1, <1>2, <1>3, <1>4, <1>5, <1>6, <1>7, <1>8, <1>9, <1>10, <1>11, <1>12,
     <1>13, <1>14, <1>15, <1>16, <1>17, <1>18, <1>19, <1>20, <1>21, <1>22, <1>23,
     <1>24, <1>25, <1>26, <1>27, <1>28, <1>29, <1>30, <1>31, <1>32, <1>33, <1>34,
     <1>35, <1>36, <1>37, <1>38, <1>39, <1>40, <1>41, <1>42, <1>43, <1>44, <1>45,
     <1>46, <1>47, <1>48, <1>49, <1>50
  DEF Next, Completion, RunBh, Submission, usbnet_deferred_kevent, Terminate,
      usbnet_stop, Suspension


-----------------------------------------------------------------------------
(* The theorems                                                            *)

\* What holds in every state, whenever an open may fail.
IInv ==
  /\ PcType /\ CtlType /\ QueueType /\ UsageType /\ BoundType
  /\ NetInv /\ OwedInv /\ AwakeInv /\ SleepInv /\ PutInv /\ RoomInv /\ DrainInv
  /\ FreedInv /\ PmBalanced /\ KickInv /\ TrafficInv

\* A device that has just been probed.
LEMMA InitInv == ASSUME Init PROVE IInv
<1>1. PcType
  BY LabelsOf DEF Init, Idle, PcType
<1>2. CtlType
  <2>1. flags \subseteq Events /\ owed \in 0..2
    BY DEF Init
  <2>2. {running, present, carrier, stopped, bh, delay, work, leaving} \subseteq BOOLEAN
    BY DEF Init
  <2> QED BY <2>1, <2>2 DEF CtlType
<1>7. QueueType /\ UsageType
  BY DEF Init, QueueType, UsageType
<1>8. BoundType
  BY DEF Init, BoundType
<1>3. NetInv /\ OwedInv /\ AwakeInv /\ PutInv /\ RoomInv /\ FreedInv
  BY DEF Init, Idle, NetInv, OwedInv, AwakeInv, PutInv, RoomInv, FreedInv
<1>4. RxLen = 0 /\ TxLen = 0 /\ TxFlying = 0
  BY DEF Init, RxLen, TxLen, TxFlying
<1>5. SleepInv /\ DrainInv
  BY <1>4 DEF Init, Idle, SleepInv, DrainInv
<1>6. PmBalanced
  BY <1>4 DEF Init, Idle, PmBalanced, KeventHarmless
<1>9. KickInv /\ TrafficInv
  BY DEF Init, Idle, KickInv, TrafficInv, InUse
<1> QED BY <1>1, <1>2, <1>3, <1>5, <1>6, <1>7, <1>8, <1>9 DEF IInv

\* Each part is preserved by its own lemma.
LEMMA StepInv == ASSUME IInv, [Next]_vars PROVE IInv'
<1>1. CASE Next
  <2> USE DEF IInv
  <2>1. PcType' /\ CtlType' /\ QueueType' /\ UsageType' /\ BoundType'
    BY <1>1, PcStep, CtlStep, QueueStep, UsageStep, BoundStep
  <2>2. NetInv' /\ OwedInv' /\ AwakeInv' /\ SleepInv'
    BY <1>1, NetInvStep, OwedStep, AwakeStep, SleepStep
  <2>3. PutInv' /\ RoomInv' /\ DrainInv' /\ FreedInv' /\ PmBalanced'
    BY <1>1, PutStep, RoomStep, DrainStep, FreedStep, PmStep
  <2>4. KickInv' /\ TrafficInv'
    BY <1>1, KickStep, TrafficStep
  <2> QED BY <2>1, <2>2, <2>3, <2>4
<1>2. CASE UNCHANGED vars
  <2>1. PcType' /\ CtlType' /\ QueueType' /\ UsageType' /\ BoundType'
    BY <1>2 DEF IInv, vars, PcType, CtlType, QueueType, UsageType, BoundType
  <2>2. UNCHANGED <<RxLen, TxLen, TxFlying, Drained, KeventHarmless>>
    BY <1>2 DEF vars, RxLen, TxLen, TxFlying, Drained, KeventHarmless
  <2>3. NetInv' /\ OwedInv' /\ AwakeInv' /\ PutInv' /\ RoomInv' /\ FreedInv'
    BY <1>2 DEF IInv, vars, NetInv, OwedInv, AwakeInv, PutInv, RoomInv, FreedInv
  <2>4. SleepInv' /\ DrainInv' /\ PmBalanced'
    BY <1>2, <2>2 DEF IInv, vars, SleepInv, DrainInv, PmBalanced
  <2>5. KickInv' /\ TrafficInv'
    BY <1>2, <2>2 DEF IInv, vars, KickInv, TrafficInv, InUse, Refilling
  <2> QED BY <2>1, <2>3, <2>4, <2>5 DEF IInv
<1> QED BY <1>1, <1>2

\* The invariant holds for any lengths of the queues and any budgets.
THEOREM Invariance == Spec => []IInv
<1>1. Init => IInv
  BY InitInv
<1>2. IInv /\ [Next]_vars => IInv'
  BY StepInv
<1> QED BY <1>1, <1>2, PTL DEF Spec

\* Every variable has its type: no count, of buffers or of references, falls
\* below zero, and every context is in code of its own.
THEOREM TypeCorrect == Spec => []TypeOK
<1>1. IInv => TypeOK
  BY DEF IInv, TypeOK, PcType, CtlType, QueueType, UsageType, BoundType
<1> QED BY <1>1, Invariance, PTL

\* Each reference that keeps the device awake is held by one packet, work item
\* or call, however these interleave and fail.
THEOREM ReferencesBalance == Spec => []PmBalanced
<1>1. IInv => PmBalanced
  BY DEF IInv
<1> QED BY <1>1, Invariance, PTL

\* A suspended device has nothing in flight, whoever was about to submit when
\* the suspension began.
THEOREM SleepsQuietly == Spec => []AsleepQuiet
<1>1. IInv => AsleepQuiet
  BY DEF IInv, SleepInv, AsleepQuiet
<1> QED BY <1>1, Invariance, PTL

\* What usbnet_stop waited for never comes back before the next open, even where
\* an open has failed: no read, no write, no buffer, no stalled pipe, no timer.
THEOREM DrainsForGood == Spec => []DrainInv
<1>1. IInv => DrainInv
  BY DEF IInv
<1> QED BY <1>1, Invariance, PTL

\* An interface in use that is short of reads, or whose queue is stopped, has
\* somebody coming to see to it: no wakeup is lost between the contexts.
THEOREM TrafficGoesOn == Spec => []TrafficCovered
<1>1. ASSUME IInv, Ready PROVE RxCovered /\ TxCovered
  <2>1. InUse
    BY <1>1 DEF Ready, InUse
  <2>2. Refilling => BhComes
    BY DEF Refilling, BhComes
  <2> QED BY <1>1, <2>1, <2>2 DEF IInv, TrafficInv, RxCovered, TxCovered
<1>2. IInv => TrafficCovered
  BY <1>1 DEF TrafficCovered
<1> QED BY <1>2, Invariance, PTL

-----------------------------------------------------------------------------
(* Where no open fails before the tasklet has run                          *)

\* Before the first open nothing has been scheduled.
LEMMA InitKilled == ASSUME Init PROVE KilledInv
BY DEF Init, Idle, KilledInv, KeventHarmless

\* The kills are final, as long as no open fails with the tasklet to run.
LEMMA StepKilled ==
  ASSUME OpenRaces = {FALSE}, IInv, KilledInv, [Next]_vars
  PROVE  KilledInv'
<1>1. CASE Next
  BY <1>1, KilledStep DEF IInv
<1>2. CASE UNCHANGED vars
  BY <1>2 DEF vars, KilledInv, Drained, KeventHarmless
<1> QED BY <1>1, <1>2

\* So they are in every state.
THEOREM KilledInvariance == ASSUME OpenRaces = {FALSE} PROVE Spec => []KilledInv
<1>1. Init => KilledInv
  BY InitKilled
<1>2. IInv /\ KilledInv /\ [Next]_vars => KilledInv'
  BY StepKilled
<1> QED BY <1>1, <1>2, Invariance, PTL DEF Spec

\* A closed interface has nothing in flight and nothing scheduled, although the
\* tasklet, the timer and the work start each other until the end.
THEOREM ClosesQuietly == ASSUME OpenRaces = {FALSE} PROVE Spec => []QuietAfterStop
<1>1. IInv /\ KilledInv => QuietAfterStop
  BY DEF IInv, DrainInv, KilledInv, Drained, QuietAfterStop
<1> QED BY <1>1, Invariance, KilledInvariance, PTL

\* When the device structure is freed, no context runs and none will: nothing
\* is scheduled or in flight that leads to it.
THEOREM FreesUnused == ASSUME OpenRaces = {FALSE} PROVE Spec => []FreedUnused
<1>1. ASSUME IInv, KilledInv PROVE FreedUnused
  <2>1. CASE pc["net"] = "gone"
    <3>1. Drained
      BY <2>1 DEF Drained
    <3>2. RxLen = 0 /\ TxLen = 0 /\ done = 0 /\ ~delay /\ pc["timer"] = "idle"
      BY <1>1, <2>1, <3>1 DEF IInv, DrainInv
    <3>3. ~bh /\ pc["tasklet"] = "idle"
      BY <1>1, <2>1, <3>1 DEF KilledInv
    <3>4. ~work /\ pc["kevent"] = "idle" /\ deferred = 0 /\ pc["irq"] = "idle"
      BY <1>1, <2>1 DEF IInv, FreedInv
    <3> QED BY <3>2, <3>3, <3>4 DEF FreedUnused
  <2> QED BY <2>1 DEF FreedUnused
<1> QED BY <1>1, Invariance, KilledInvariance, PTL
=============================================================================
