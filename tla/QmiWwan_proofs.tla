--------------------------- MODULE QmiWwan_proofs ---------------------------
(***************************************************************************)
(* TypeOK, SlaveAlive and SuspendedTogether for any writers and mux ids,    *)
(* and FixedUpInMode and FlagsTell where pass_through is written alone.     *)
(*                                                                          *)
(* The argument: the lock is held exactly by the writer that is past it     *)
(* (HolderInv), and pass_through, which asks for no lock, has the attributes*)
(* to itself (AloneInv); so the flags a writer has read are still those of  *)
(* the device when it writes them back (OldInv), and the mode, changed only *)
(* while the device does not run, holds under the tasklet (RxInv).          *)
(***************************************************************************)
EXTENDS QmiWwan, FiniteSetTheorems, TLAPS

\* Past the lock: rtnl is this writer's.
Locked(w) == writer[w].pc \in {"wait", "store"} /\ writer[w].attr # "pass_through"

HolderInv == \A w \in Writers : rtnl = w <=> Locked(w)

\* The count is the number of those counted, the DTR quirk included.
One(b) == IF b THEN 1 ELSE 0

PowerInv ==
  /\ running <=> "net" \in power.counted
  /\ power.count = One("net" \in power.counted) + One("wdm" \in power.counted)
                   + One(Usb3 /\ hub # "gone")
  /\ power.todo["net"] # "none" <=> rtnl = "net"

\* The disconnect holds the lock while it removes the slaves, and only then.
HubInv == hub = "slaves" <=> rtnl = "hub"

\* What is suspended is what the core has suspended and not resumed.
UsbInv ==
  /\ usb.count = Cardinality(usb.suspended)
  /\ usb.wdm <=> "control" \in usb.suspended
  /\ usb.core = "active" <=> usb.suspended = {}
  /\ usb.core = "asleep" => usb.suspended = Interfaces

\* A writer in an attribute has parsed a mux id; and waits only in del_mux.
IdInv ==
  \A w \in Writers : /\ writer[w].pc # "idle" => writer[w].id \in Ids
                     /\ writer[w].pc = "wait" => writer[w].attr = "del_mux"

Base == TypeOK /\ IdInv /\ HolderInv /\ PowerInv /\ HubInv /\ UsbInv /\ SlaveAlive

-----------------------------------------------------------------------------
(* Effects of the steps a writer's actions are made of                     *)

PCs == {"idle", "check", "lock", "wait", "store"}
WriterType == [pc : PCs, attr : Attributes, on : BOOLEAN,
               id : Ids \cup {NoId}, old : SUBSET Flags]

\* What one writer does, no other does.
Only(w) == \A v \in Writers : v # w => writer'[v] = writer[v]

LEMMA ReturnEffect ==
  ASSUME TypeOK, NEW w \in Writers, Return(w)
  PROVE  /\ writer' \in [Writers -> WriterType]
         /\ Only(w)
         /\ writer'[w] = Idle
<1>1. writer \in [Writers -> WriterType]
  BY DEF TypeOK, WriterType, PCs
<1>2. Idle \in WriterType
  BY DEF Idle, WriterType, PCs, Attributes
<1> QED BY <1>1, <1>2 DEF Return, Only

LEMMA GotoEffect ==
  ASSUME TypeOK, NEW w \in Writers, NEW pc \in PCs, NEW old \in SUBSET Flags,
         Goto(w, pc, old)
  PROVE  /\ writer' \in [Writers -> WriterType]
         /\ Only(w)
         /\ writer'[w].pc = pc /\ writer'[w].old = old
         /\ writer'[w].attr = writer[w].attr
         /\ writer'[w].on = writer[w].on /\ writer'[w].id = writer[w].id
<1>1. writer \in [Writers -> WriterType]
  BY DEF TypeOK, WriterType, PCs
<1>2. writer' = [writer EXCEPT ![w] = [writer[w] EXCEPT !.pc = pc, !.old = old]]
  BY <1>1 DEF Goto, WriterType
<1>3. [writer[w] EXCEPT !.pc = pc, !.old = old] \in WriterType
  BY <1>1 DEF WriterType
<1>4. writer' \in [Writers -> WriterType] /\ Only(w)
  BY <1>1, <1>2, <1>3 DEF Only
<1>5. writer'[w] = [writer[w] EXCEPT !.pc = pc, !.old = old]
  BY <1>1, <1>2
<1>6. writer[w] \in WriterType
  BY <1>1
<1>7. /\ writer'[w].pc = pc /\ writer'[w].old = old
      /\ writer'[w].attr = writer[w].attr
      /\ writer'[w].on = writer[w].on /\ writer'[w].id = writer[w].id
  BY <1>5, <1>6 DEF WriterType
<1> QED BY <1>4, <1>7

LEMMA WriteEffect ==
  ASSUME TypeOK, NEW w \in Writers, Write(w)
  PROVE  /\ writer' \in [Writers -> WriterType]
         /\ Only(w)
         /\ writer'[w].pc \in {"check", "lock"} /\ writer'[w].id \in Ids
         /\ Overlap \/ \A v \in Others(w) :
              "pass_through" \notin {writer'[w].attr, writer[v].attr}
<1>1. writer \in [Writers -> WriterType]
  BY DEF TypeOK, WriterType, PCs
<1>2. PICK attr \in Attributes, on \in BOOLEAN, id \in Ids :
       /\ Overlap \/ \A v \in Others(w) : "pass_through" \notin {attr, writer[v].attr}
       /\ writer' = [writer EXCEPT ![w] =
         [pc |-> IF attr \in {"raw_ip", "pass_through"} THEN "check" ELSE "lock",
          attr |-> attr, on |-> on, id |-> id, old |-> {}]]
  BY DEF Write
<1> DEFINE r == [pc |-> IF attr \in {"raw_ip", "pass_through"} THEN "check" ELSE "lock",
                 attr |-> attr, on |-> on, id |-> id, old |-> {}]
<1>3. r \in WriterType /\ r.pc \in {"check", "lock"} /\ r.attr = attr /\ r.id = id
  BY DEF WriterType, PCs
<1>4. writer'[w] = r
  BY <1>1, <1>2
<1> HIDE DEF r
<1>5. writer' \in [Writers -> WriterType] /\ Only(w)
  BY <1>1, <1>2, <1>3 DEF Only, r
<1> QED BY <1>2, <1>3, <1>4, <1>5

LEMMA AssignEffect ==
  ASSUME TypeOK, NEW w \in Writers, NEW bit \in Flags, NEW on \in BOOLEAN,
         Assign(w, bit, on)
  PROVE  /\ flags' \subseteq Flags
         /\ (bit \in flags') = on
         /\ \A f \in Flags \ {bit} :
              (f \in writer[w].old <=> f \in flags) => (f \in flags' <=> f \in flags)
<1>1. writer[w].old \subseteq Flags /\ flags \subseteq Flags
  BY DEF TypeOK
<1> QED BY <1>1 DEF Assign

\* Everything but the attributes stays as it is.
LEMMA WorkersFrame ==
  ASSUME TypeOK, UNCHANGED <<workers, rtnl>>
  PROVE  UNCHANGED <<running, rx, power, usb, hub, rtnl>>
BY DEF workers

-----------------------------------------------------------------------------
(* A write to an attribute, in what the invariants tell apart              *)

\* How a step of a writer moves it and the lock.
Outside(w)  == ~Locked(w) /\ ~Locked(w)' /\ rtnl' = rtnl
Acquires(w) == rtnl = "none" /\ Registered /\ Locked(w)' /\ rtnl' = w
Stays(w)    == Locked(w) /\ Locked(w)' /\ rtnl' = rtnl
Releases(w) == Locked(w) /\ ~Locked(w)' /\ rtnl' = "none"

LEMMA SysfsMoves ==
  ASSUME TypeOK, HolderInv, NEW w \in Writers, Sysfs(w)
  PROVE  /\ writer' \in [Writers -> WriterType]
         /\ Only(w)
         /\ Outside(w) \/ Acquires(w) \/ Stays(w) \/ Releases(w)
         /\ UNCHANGED workers
<1> DEFINE Goal == /\ writer' \in [Writers -> WriterType]
                   /\ Only(w)
                   /\ Outside(w) \/ Acquires(w) \/ Stays(w) \/ Releases(w)
                   /\ UNCHANGED workers
<1>a. ~Idle.pc \in {"wait", "store"}
  BY DEF Idle
<1>b. flags \in SUBSET Flags /\ {} \in SUBSET Flags
  BY DEF TypeOK
<1>1. CASE Write(w)
  BY <1>1, WriteEffect DEF Write, Outside, Locked
<1>2. CASE CheckRawIp(w)
  <2>1. Return(w) \/ Goto(w, "lock", {})
    BY <1>2 DEF CheckRawIp
  <2>2. CASE Return(w)
    BY <1>2, <1>a, <2>2, ReturnEffect DEF CheckRawIp, Is, Outside, Locked
  <2>3. CASE Goto(w, "lock", {})
    BY <1>2, <1>b, <2>3, GotoEffect DEF CheckRawIp, Is, Outside, Locked, PCs
  <2> QED BY <2>1, <2>2, <2>3
<1>3. CASE CheckPassThrough(w)
  <2>1. Return(w) \/ Goto(w, "store", flags)
    BY <1>3 DEF CheckPassThrough
  <2>2. CASE Return(w)
    BY <1>3, <1>a, <2>2, ReturnEffect DEF CheckPassThrough, Is, Outside, Locked
  <2>3. CASE Goto(w, "store", flags)
    BY <1>3, <1>b, <2>3, GotoEffect DEF CheckPassThrough, Is, Outside, Locked, PCs
  <2> QED BY <2>1, <2>2, <2>3
<1>4. CASE pass_through_store(w)
  BY <1>4, <1>a, ReturnEffect DEF pass_through_store, Is, Outside, Locked
<1>5. CASE Restart(w)
  BY <1>5, <1>a, ReturnEffect DEF Restart, Outside, Locked
<1>6. CASE LockRawIp(w)
  <2>1. CASE Return(w) /\ UNCHANGED rtnl
    BY <1>6, <1>a, <2>1, ReturnEffect DEF LockRawIp, Lock, Is, Outside, Locked
  <2>2. CASE Goto(w, "store", flags) /\ rtnl' = w
    BY <1>6, <1>b, <2>2, GotoEffect DEF LockRawIp, Lock, Is, Acquires, Locked, PCs
  <2> QED BY <1>6, <2>1, <2>2 DEF LockRawIp
<1>7. CASE qmimux_register_device(w)
  <2>1. CASE Return(w) /\ UNCHANGED rtnl
    BY <1>7, <1>a, <2>1, ReturnEffect DEF qmimux_register_device, Lock, Is, Outside, Locked
  <2>2. CASE Goto(w, "store", flags) /\ rtnl' = w
    BY <1>7, <1>b, <2>2, GotoEffect
    DEF qmimux_register_device, Lock, Is, Acquires, Locked, PCs
  <2> QED BY <1>7, <2>1, <2>2 DEF qmimux_register_device
<1>8. CASE qmimux_unregister_device(w)
  <2>1. CASE Return(w) /\ UNCHANGED rtnl
    BY <1>8, <1>a, <2>1, ReturnEffect DEF qmimux_unregister_device, Lock, Is, Outside, Locked
  <2>2. CASE Goto(w, "wait", {}) /\ rtnl' = w
    BY <1>8, <1>b, <2>2, GotoEffect
    DEF qmimux_unregister_device, Lock, Is, Acquires, Locked, PCs
  <2> QED BY <1>8, <2>1, <2>2 DEF qmimux_unregister_device
<1>9. CASE synchronize_net(w)
  <2>1. writer[w].pc = "wait" /\ Goto(w, "store", flags) /\ rtnl' = rtnl /\ UNCHANGED workers
    BY <1>9 DEF synchronize_net
  <2>2. /\ writer' \in [Writers -> WriterType] /\ Only(w)
        /\ writer'[w].pc = "store" /\ writer'[w].attr = writer[w].attr
    BY <1>b, <2>1, GotoEffect DEF PCs
  <2>3. Outside(w) \/ Stays(w)
    BY <2>1, <2>2 DEF Outside, Stays, Locked
  <2> QED BY <2>1, <2>2, <2>3
<1>10. CASE raw_ip_store(w) \/ add_mux_store(w) \/ del_mux_store(w)
  <2>1. Return(w) /\ rtnl' = "none" /\ UNCHANGED workers /\ Locked(w)
    BY <1>10 DEF raw_ip_store, add_mux_store, del_mux_store, Is, Locked
  <2> QED BY <1>a, <2>1, ReturnEffect DEF Releases, Locked
<1> QED
  BY <1>1, <1>2, <1>3, <1>4, <1>5, <1>6, <1>7, <1>8, <1>9, <1>10 DEF Sysfs

\* The lock, the count and the disconnect after a step of a writer.
LEMMA SysfsLock ==
  ASSUME Base, NEW w \in Writers, Sysfs(w)
  PROVE  /\ HolderInv' /\ PowerInv' /\ HubInv' /\ UsbInv'
         /\ rtnl' \in Writers \cup {"none", "net", "hub"}
         /\ \A v \in Writers : rtnl' = v => writer'[v].pc \in {"wait", "store"}
<1> USE DEF Base
<1>1. /\ Only(w) /\ UNCHANGED <<running, rx, power, usb, hub>>
      /\ Outside(w) \/ Acquires(w) \/ Stays(w) \/ Releases(w)
  BY SysfsMoves DEF workers
<1>2. \A v \in Writers : v # w => (Locked(v)' <=> Locked(v))
  BY <1>1 DEF Only, Locked
<1>3. rtnl = w <=> Locked(w)
  BY DEF HolderInv
<1>4. \A v \in Writers : v \notin {"none", "net", "hub"}
  BY WriterAssumption
<1>5. HolderInv'
  BY <1>1, <1>2, <1>3, <1>4 DEF HolderInv, Outside, Acquires, Stays, Releases
<1>6. rtnl' = "net" <=> rtnl = "net"
  BY <1>1, <1>3, <1>4 DEF Outside, Acquires, Stays, Releases
<1>7. rtnl' = "hub" <=> rtnl = "hub"
  BY <1>1, <1>3, <1>4 DEF Outside, Acquires, Stays, Releases
<1>8. PowerInv' /\ HubInv' /\ UsbInv'
  BY <1>1, <1>6, <1>7 DEF PowerInv, HubInv, UsbInv
<1>9. rtnl' \in Writers \cup {"none", "net", "hub"}
  BY <1>1 DEF TypeOK, Outside, Acquires, Stays, Releases
<1>10. \A v \in Writers : rtnl' = v => writer'[v].pc \in {"wait", "store"}
  BY <1>5 DEF HolderInv, Locked
<1> QED BY <1>5, <1>8, <1>9, <1>10

\* After Write, a writer goes on or returns.
LEMMA SysfsMotion ==
  ASSUME NEW w \in Writers, Sysfs(w), ~Write(w)
  PROVE  /\ writer[w].pc # "idle"
         /\ \/ Return(w)
            \/ Goto(w, "lock", {})
            \/ Goto(w, "store", flags)
            \/ Goto(w, "wait", {}) /\ writer[w].attr = "del_mux"
BY DEF Sysfs, CheckRawIp, CheckPassThrough, pass_through_store, Restart, LockRawIp,
       raw_ip_store, qmimux_register_device, add_mux_store, qmimux_unregister_device,
       synchronize_net, del_mux_store, Is, Lock

LEMMA SysfsIds ==
  ASSUME TypeOK, IdInv, NEW w \in Writers, Sysfs(w)
  PROVE  IdInv'
<1>1. CASE Write(w)
  BY <1>1, WriteEffect DEF IdInv, Only
<1>2. CASE ~Write(w)
  <2>1. writer[w].id \in Ids /\ flags \in SUBSET Flags
    BY <1>2, SysfsMotion DEF IdInv, TypeOK
  <2>2. CASE Return(w)
    BY <2>2, ReturnEffect DEF IdInv, Only, Idle
  <2>3. CASE Goto(w, "lock", {})
    BY <2>1, <2>3, GotoEffect DEF IdInv, Only, PCs
  <2>4. CASE Goto(w, "store", flags)
    BY <2>1, <2>4, GotoEffect DEF IdInv, Only, PCs
  <2>5. CASE Goto(w, "wait", {}) /\ writer[w].attr = "del_mux"
    BY <2>1, <2>5, GotoEffect DEF IdInv, Only, PCs
  <2> QED BY <1>2, <2>2, <2>3, <2>4, <2>5, SysfsMotion
<1> QED BY <1>1, <1>2

LEMMA SysfsData ==
  ASSUME Base, NEW w \in Writers, Sysfs(w)
  PROVE  /\ flags' \subseteq Flags /\ type' \in {"ether", "none"}
         /\ slaves' \subseteq Ids /\ dying' \subseteq Ids
         /\ SlaveAlive'
<1> USE DEF Base
<1>0. /\ flags \subseteq Flags /\ type \in {"ether", "none"}
      /\ slaves \subseteq Ids /\ dying \subseteq Ids
      /\ writer[w].on \in BOOLEAN
      /\ {"RAWIP", "MUX", "PASS_THROUGH"} = Flags
  BY DEF TypeOK, Flags
<1>1. UNCHANGED <<rx>>
  BY SysfsMoves DEF workers
<1>2. CASE UNCHANGED modes
  BY <1>0, <1>1, <1>2 DEF modes, SlaveAlive
<1>3. CASE pass_through_store(w) \/ raw_ip_store(w) \/ add_mux_store(w)
  <2>1. flags' \subseteq Flags
    BY <1>0, <1>3, AssignEffect DEF pass_through_store, raw_ip_store, add_mux_store
  <2>2. type' \in {"ether", "none"} /\ UNCHANGED <<slaves, dying>>
    BY <1>0, <1>3
    DEF pass_through_store, raw_ip_store, add_mux_store, qmi_wwan_netdev_setup
  <2> QED BY <1>0, <1>1, <2>1, <2>2 DEF SlaveAlive
<1>4. CASE del_mux_store(w)
  <2>1. flags' \subseteq Flags
    BY <1>0, <1>4, AssignEffect DEF del_mux_store
  <2> QED BY <1>0, <1>1, <1>4, <2>1 DEF del_mux_store, SlaveAlive
<1>5. CASE qmimux_register_device(w)
  <2>1. /\ slaves' \in {slaves, slaves \cup {writer[w].id}}
        /\ UNCHANGED <<flags, type, dying>> /\ writer[w].pc # "idle"
    BY <1>5 DEF qmimux_register_device, Lock, Is
  <2>2. writer[w].id \in Ids
    BY <2>1 DEF IdInv
  <2> QED BY <1>0, <1>1, <2>1, <2>2 DEF SlaveAlive
<1>6. CASE qmimux_unregister_device(w)
  <2>1. /\ slaves' \cup dying' = slaves \cup dying \/ UNCHANGED modes
        /\ slaves' \subseteq slaves /\ dying' \subseteq dying \cup slaves
        /\ UNCHANGED <<flags, type>>
    BY <1>6 DEF qmimux_unregister_device, modes
  <2> QED BY <1>0, <1>1, <2>1 DEF SlaveAlive, modes
<1>7. CASE synchronize_net(w)
  BY <1>0, <1>1, <1>7 DEF synchronize_net, SlaveAlive
<1> QED
  BY <1>2, <1>3, <1>4, <1>5, <1>6, <1>7
  DEF Sysfs, Write, CheckRawIp, CheckPassThrough, Restart, LockRawIp

LEMMA SysfsBase ==
  ASSUME Base, NEW w \in Writers, Sysfs(w)
  PROVE  Base'
<1>1. /\ writer' \in [Writers -> WriterType] /\ UNCHANGED <<running, rx, power, usb, hub>>
  BY SysfsMoves DEF Base, workers
<1>2. TypeOK'
  BY <1>1, SysfsLock, SysfsData DEF Base, TypeOK, WriterType, PCs
<1> QED BY <1>2, SysfsIds, SysfsLock, SysfsData DEF Base

-----------------------------------------------------------------------------
(* The other steps                                                         *)

\* A step that leaves the writers, the flags and the lock.
LEMMA LockFrame ==
  ASSUME Base, UNCHANGED <<writer, rtnl>>
  PROVE  IdInv' /\ HolderInv'
BY DEF Base, IdInv, HolderInv, Locked

LEMMA RxBase ==
  ASSUME Base, qmi_wwan_rx_fixup \/ qmimux_rx_fixup \/ RxDone
  PROVE  Base'
<1>1. UNCHANGED <<modes, rtnl, writer, running, power, usb, hub>>
  BY DEF qmi_wwan_rx_fixup, qmimux_rx_fixup, RxDone
<1>2. /\ rx' \in [pc : {"idle", "fixup", "slave"}, rawip : BOOLEAN, net : Ids \cup {NoId}]
      /\ rx'.net # NoId => rx'.net \in slaves
  <2>1. CASE qmi_wwan_rx_fixup
    BY <2>1 DEF qmi_wwan_rx_fixup
  <2>2. CASE RxDone
    BY <2>2 DEF RxDone
  <2>3. CASE qmimux_rx_fixup
    <3>1. PICK id \in slaves : rx' = [rx EXCEPT !.pc = "slave", !.net = id]
      BY <2>3 DEF qmimux_rx_fixup
    <3> QED BY <3>1 DEF Base, TypeOK
  <2> QED BY <2>1, <2>2, <2>3
<1>3. TypeOK' /\ SlaveAlive'
  BY <1>1, <1>2 DEF Base, TypeOK, modes, SlaveAlive
<1> QED BY <1>1, <1>3, LockFrame DEF Base, PowerInv, HubInv, UsbInv

PowerType == [count : Nat, wakeup : BOOLEAN, counted : SUBSET Users,
              todo : [Users -> {"none", "on", "off"}]]

LEMMA CountEffect ==
  ASSUME Base, NEW u \in Users, NEW on \in BOOLEAN, Count(u, on),
         ~on => u \in power.counted
  PROVE  /\ power' \in PowerType
         /\ power'.count = IF on THEN power.count + 1 ELSE power.count - 1
         /\ power'.counted = IF on THEN power.counted \cup {u} ELSE power.counted \ {u}
         /\ \A v \in Users : v # u => power'.todo[v] = power.todo[v]
<1> DEFINE edge == IF on THEN power.count = 0 ELSE power.count = 1
           c == IF on THEN power.count + 1 ELSE power.count - 1
           s == IF on THEN power.counted \cup {u} ELSE power.counted \ {u}
           t == IF ~edge THEN "none" ELSE IF on THEN "on" ELSE "off"
           f == [power.todo EXCEPT ![u] = t]
<1>1. power \in PowerType
  BY DEF Base, TypeOK, PowerType
<1>2. power' = [power EXCEPT !.count = c, !.counted = s, !.todo = f]
  BY <1>1 DEF Count, PowerType
<1>3. ~on => power.count >= 1
  BY <1>1 DEF Base, PowerInv, One, Users, PowerType
<1>4. c \in Nat
  BY <1>1, <1>3 DEF PowerType
<1>5. s \subseteq Users
  BY <1>1 DEF PowerType
<1>6. f \in [Users -> {"none", "on", "off"}]
  BY <1>1 DEF PowerType
<1>7. \A v \in Users : v # u => f[v] = power.todo[v]
  BY <1>1 DEF PowerType
<1> HIDE DEF c, s, f
<1>8. power' \in PowerType /\ power'.count = c /\ power'.counted = s /\ power'.todo = f
  BY <1>1, <1>2, <1>4, <1>5, <1>6 DEF PowerType
<1> QED BY <1>7, <1>8 DEF c, s

LEMMA ManageBase ==
  ASSUME Base, NEW u \in Users, qmi_wwan_manage_power(u)
  PROVE  Base'
<1> USE DEF Base
<1>1. /\ UNCHANGED <<modes, writer, running, rx, usb, hub>>
      /\ power.todo[u] # "none" /\ power \in PowerType
  BY DEF qmi_wwan_manage_power, TypeOK, PowerType
<1> DEFINE f == [power.todo EXCEPT ![u] = "none"]
<1>2. power' = [power EXCEPT !.wakeup = (power.todo[u] = "on"), !.todo = f]
  BY <1>1 DEF qmi_wwan_manage_power, PowerType
<1>3. /\ f \in [Users -> {"none", "on", "off"}] /\ f[u] = "none"
      /\ \A v \in Users : v # u => f[v] = power.todo[v]
  BY <1>1 DEF PowerType
<1>4. (power.todo[u] = "on") \in BOOLEAN
  OBVIOUS
<1> HIDE DEF f
<1>5. /\ power' \in PowerType /\ power'.todo = f
      /\ power'.count = power.count /\ power'.counted = power.counted
  BY <1>1, <1>2, <1>3, <1>4 DEF PowerType
<1>6. u = "net" => rtnl = "net" /\ rtnl' = "none"
  BY <1>1 DEF PowerInv, qmi_wwan_manage_power
<1>7. u # "net" => rtnl' = rtnl
  BY DEF qmi_wwan_manage_power
<1>8. \A w \in Writers : w \notin {"none", "net", "hub"}
  BY WriterAssumption
<1>9. IdInv' /\ HolderInv' /\ HubInv'
  BY <1>1, <1>6, <1>7, <1>8 DEF IdInv, HolderInv, Locked, HubInv
<1>10. PowerInv'
  BY <1>1, <1>3, <1>5, <1>6, <1>7 DEF PowerInv, Users
<1>11. TypeOK'
  BY <1>1, <1>5, <1>6, <1>7, <1>8 DEF TypeOK, modes, PowerType
<1> QED BY <1>1, <1>9, <1>10, <1>11 DEF UsbInv, SlaveAlive, modes

LEMMA OpenCloseBase ==
  ASSUME Base, Open \/ Close
  PROVE  Base'
<1> USE DEF Base
<1>1. /\ UNCHANGED <<modes, writer, rx, usb, hub>> /\ rtnl = "none"
      /\ running' = ~running
      /\ Count("net", running')
      /\ rtnl' = IF power'.todo["net"] = "none" THEN "none" ELSE "net"
  BY DEF Open, Close, TypeOK
<1>2. running \in BOOLEAN /\ running' \in BOOLEAN
  BY <1>1 DEF TypeOK
<1>3. (running <=> "net" \in power.counted) /\ "net" \in Users
  BY DEF PowerInv, Users
<1>4. /\ power' \in PowerType
      /\ power'.count = IF running' THEN power.count + 1 ELSE power.count - 1
      /\ power'.counted = IF running' THEN power.counted \cup {"net"}
                                      ELSE power.counted \ {"net"}
  BY <1>1, <1>2, <1>3, CountEffect
<1>5. \A w \in Writers : w \notin {"none", "net", "hub"}
  BY WriterAssumption
<1>6. IdInv' /\ HolderInv' /\ HubInv'
  BY <1>1, <1>5 DEF IdInv, HolderInv, Locked, HubInv
<1>7. PowerInv'
  <2>1. running' <=> "net" \in power'.counted
    BY <1>4, <1>2
  <2>2. "wdm" \in power'.counted <=> "wdm" \in power.counted
    BY <1>4
  <2>3. power'.count = One("net" \in power'.counted) + One("wdm" \in power'.counted)
                       + One(Usb3 /\ hub # "gone")
    <3>1. power.count = One("net" \in power.counted) + One("wdm" \in power.counted)
                        + One(Usb3 /\ hub # "gone")
      BY DEF PowerInv
    <3>2. power.count \in Nat
      BY DEF TypeOK
    <3>3. CASE running
      <4>1. ~running' /\ "net" \in power.counted /\ "net" \notin power'.counted
        BY <1>1, <1>3, <2>1, <3>3
      <4>2. power'.count = power.count - 1
        BY <1>4, <4>1
      <4> QED BY <1>1, <2>2, <3>1, <3>2, <4>1, <4>2 DEF One
    <3>4. CASE ~running
      <4>1. running' /\ "net" \notin power.counted /\ "net" \in power'.counted
        BY <1>1, <1>3, <2>1, <3>4
      <4>2. power'.count = power.count + 1
        BY <1>4, <4>1
      <4> QED BY <1>1, <2>2, <3>1, <3>2, <4>1, <4>2 DEF One
    <3> QED BY <3>3, <3>4
  <2> QED BY <1>1, <2>1, <2>3 DEF PowerInv
<1>8. TypeOK'
  BY <1>1, <1>2, <1>4, <1>5 DEF TypeOK, modes, PowerType
<1> QED BY <1>1, <1>6, <1>7, <1>8 DEF UsbInv, SlaveAlive, modes

LEMMA WdmBase ==
  ASSUME Base, qmi_wwan_cdc_wdm_manage_power
  PROVE  Base'
<1> USE DEF Base
<1>1. /\ UNCHANGED <<modes, rtnl, writer, running, rx, usb, hub>>
      /\ Count("wdm", "wdm" \notin power.counted)
  BY DEF qmi_wwan_cdc_wdm_manage_power
<1> DEFINE on == "wdm" \notin power.counted
<1>2. on \in BOOLEAN /\ "wdm" \in Users
  BY DEF Users
<1>3. /\ power' \in PowerType
      /\ power'.count = IF on THEN power.count + 1 ELSE power.count - 1
      /\ power'.counted = IF on THEN power.counted \cup {"wdm"}
                                ELSE power.counted \ {"wdm"}
      /\ power'.todo["net"] = power.todo["net"]
  BY <1>1, <1>2, CountEffect DEF Users
<1>4. PowerInv'
  <2>1. "net" \in power'.counted <=> "net" \in power.counted
    BY <1>3
  <2>2. "wdm" \in power'.counted <=> on
    BY <1>3
  <2>3. power.count = One("net" \in power.counted) + One("wdm" \in power.counted)
                      + One(Usb3 /\ hub # "gone")
    BY DEF PowerInv
  <2>4. power.count \in Nat
    BY DEF TypeOK
  <2>5. power'.count = One("net" \in power'.counted) + One("wdm" \in power'.counted)
                       + One(Usb3 /\ hub # "gone")
    BY <1>3, <2>1, <2>2, <2>3, <2>4 DEF One
  <2> QED BY <1>1, <1>3, <2>1, <2>5 DEF PowerInv
<1>5. TypeOK'
  BY <1>1, <1>3 DEF TypeOK, modes, PowerType
<1> QED BY <1>1, <1>4, <1>5, LockFrame DEF HubInv, UsbInv, SlaveAlive, modes

UsbType == [suspended : SUBSET Interfaces, count : Nat, wdm : BOOLEAN,
            core : {"active", "suspending", "asleep", "resuming"}]

LEMMA UsbBase ==
  ASSUME Base, NEW i \in Interfaces, qmi_wwan_suspend(i) \/ qmi_wwan_resume(i)
  PROVE  Base'
<1> USE DEF Base
<1>1. UNCHANGED <<modes, rtnl, writer, running, rx, power, hub>>
  BY DEF qmi_wwan_suspend, qmi_wwan_resume
<1>2. usb \in UsbType /\ UsbInv
  BY DEF TypeOK, UsbType
<1>3. IsFiniteSet(Interfaces) /\ IsFiniteSet(usb.suspended)
  <2>1. IsFiniteSet({"data", "control"}) /\ IsFiniteSet({"control"})
    <3>1. IsFiniteSet({"control"})
      BY FS_Singleton
    <3>2. {"data", "control"} = {"control"} \cup {"data"}
      OBVIOUS
    <3> QED BY <3>1, <3>2, FS_AddElement
  <2>2. IsFiniteSet(Interfaces)
    BY <2>1 DEF Interfaces
  <2> QED BY <1>2, <2>2, FS_Subset DEF UsbType
<1>4. usb' \in UsbType /\ UsbInv'
  <2>1. CASE qmi_wwan_suspend(i)
    <3>1. PICK refused \in BOOLEAN :
       usb' = IF refused
              THEN [usb EXCEPT !.core = IF usb.suspended = {} THEN "active" ELSE "resuming"]
              ELSE [suspended |-> usb.suspended \cup {i}, count |-> usb.count + 1,
                    wdm |-> usb.wdm \/ i = "control",
                    core |-> IF usb.suspended \cup {i} = Interfaces THEN "asleep"
                             ELSE "suspending"]
      BY <2>1 DEF qmi_wwan_suspend
    <3>2. CASE refused
      <4>1. /\ usb' \in UsbType /\ usb'.suspended = usb.suspended
            /\ usb'.count = usb.count /\ usb'.wdm = usb.wdm
            /\ usb'.core = IF usb.suspended = {} THEN "active" ELSE "resuming"
        BY <1>2, <3>1, <3>2 DEF UsbType
      <4> QED BY <1>2, <4>1 DEF UsbInv
    <3>3. CASE ~refused
      <4>1. i \notin usb.suspended
        BY <2>1 DEF qmi_wwan_suspend
      <4>2. Cardinality(usb.suspended \cup {i}) = Cardinality(usb.suspended) + 1
        BY <1>3, <4>1, FS_AddElement
      <4>3. /\ usb'.suspended = usb.suspended \cup {i} /\ usb'.count = usb.count + 1
            /\ usb'.wdm = (usb.wdm \/ i = "control")
            /\ usb'.core = IF usb.suspended \cup {i} = Interfaces THEN "asleep"
                           ELSE "suspending"
        BY <3>1, <3>3
      <4>4. usb' \in UsbType
        BY <1>2, <3>1, <3>3 DEF UsbType
      <4>5. usb'.wdm <=> "control" \in usb'.suspended
        BY <1>2, <4>3 DEF UsbInv
      <4>6. usb'.count = Cardinality(usb'.suspended)
        BY <1>2, <4>2, <4>3 DEF UsbInv
      <4> QED BY <4>3, <4>4, <4>5, <4>6 DEF UsbInv
    <3> QED BY <3>2, <3>3
  <2>2. CASE qmi_wwan_resume(i)
    <3>1. /\ i \in usb.suspended
          /\ usb' = [suspended |-> usb.suspended \ {i}, count |-> usb.count - 1,
                     wdm |-> usb.wdm /\ i # "control",
                     core |-> IF usb.suspended = {i} THEN "active" ELSE "resuming"]
      BY <2>2 DEF qmi_wwan_resume
    <3>2. Cardinality(usb.suspended \ {i}) = Cardinality(usb.suspended) - 1
      BY <1>3, <3>1, FS_RemoveElement
    <3>3. Cardinality(usb.suspended \ {i}) \in Nat
      BY <1>3, FS_Subset, FS_CardinalityType
    <3>4. usb.count - 1 \in Nat
      BY <1>2, <3>2, <3>3 DEF UsbInv
    <3>5. usb' \in UsbType
      BY <1>2, <3>1, <3>4 DEF UsbType
    <3>6. /\ usb'.count = Cardinality(usb'.suspended)
          /\ usb'.wdm <=> "control" \in usb'.suspended
      BY <1>2, <3>1, <3>2 DEF UsbInv
    <3>7. usb'.core = "active" <=> usb'.suspended = {}
      BY <3>1
    <3>8. usb'.core # "asleep"
      BY <3>1
    <3> QED BY <3>5, <3>6, <3>7, <3>8 DEF UsbInv
  <2> QED BY <2>1, <2>2
<1>5. TypeOK'
  BY <1>1, <1>4 DEF TypeOK, modes, UsbType
<1> QED BY <1>1, <1>4, <1>5, LockFrame DEF PowerInv, HubInv, SlaveAlive, modes

LEMMA HubBase ==
  ASSUME Base, qmi_wwan_disconnect \/ UnregisterSlaves \/ ClearMux
  PROVE  Base'
<1> USE DEF Base
<1>1. /\ UNCHANGED <<type, dying, writer, running, rx, power, usb>>
      /\ flags' \subseteq flags /\ slaves' \subseteq slaves
      /\ slaves' = slaves \/ rx.net = NoId
      /\ hub # "gone" /\ hub' \in {"slaves", "flag", "usbnet", "forgotten"}
      /\ rtnl' # rtnl => {rtnl, rtnl'} = {"none", "hub"}
      /\ rtnl' \in {rtnl, "none", "hub"}
      /\ hub' = "slaves" <=> rtnl' = "hub"
  BY DEF qmi_wwan_disconnect, UnregisterSlaves, ClearMux, modes, HubInv
<1>2. \A w \in Writers : w \notin {"none", "net", "hub"}
  BY WriterAssumption
<1>3. \A w \in Writers : rtnl' = w <=> rtnl = w
  BY <1>1, <1>2
<1>4. IdInv' /\ HolderInv' /\ HubInv'
  BY <1>1, <1>3 DEF IdInv, HolderInv, Locked, HubInv
<1>5. PowerInv'
  BY <1>1 DEF PowerInv
<1>6. TypeOK'
  BY <1>1, <1>3 DEF TypeOK
<1> QED BY <1>1, <1>4, <1>5, <1>6 DEF UsbInv, SlaveAlive

LEMMA UnbindBase ==
  ASSUME Base, usbnet_disconnect
  PROVE  Base'
<1> USE DEF Base
<1> DEFINE r == IF running THEN 1 ELSE 0
           q == IF Usb3 THEN 1 ELSE 0
           c == (power.count - r) - q
           s == power.counted \ {"net"}
           b == power.wakeup /\ power.count > r + q
<1>1. /\ UNCHANGED <<modes, rtnl, writer, rx, usb>> /\ hub = "usbnet" /\ hub' = "gone"
      /\ rtnl = "none" /\ running' = FALSE
      /\ power' = [power EXCEPT !.count = c, !.counted = s, !.wakeup = b]
  BY DEF usbnet_disconnect
<1>2. power \in PowerType /\ PowerInv
  BY DEF TypeOK, PowerType
<1>3. c = One("wdm" \in power.counted)
  BY <1>1, <1>2 DEF PowerInv, One, PowerType
<1>4. c \in Nat /\ s \in SUBSET Users /\ b \in BOOLEAN
  BY <1>2, <1>3 DEF PowerType, One
<1> HIDE DEF c, s, b
<1>5. /\ power' \in PowerType /\ power'.count = c /\ power'.counted = s
      /\ power'.todo = power.todo
  BY <1>1, <1>2, <1>4 DEF PowerType
<1>6. PowerInv'
  BY <1>1, <1>2, <1>3, <1>5 DEF PowerInv, One, s
<1>7. HubInv' /\ SlaveAlive'
  BY <1>1 DEF HubInv, SlaveAlive, modes
<1>8. TypeOK'
  BY <1>1, <1>5 DEF TypeOK, modes, PowerType
<1> QED BY <1>1, <1>6, <1>7, <1>8, LockFrame DEF UsbInv

LEMMA InitBase == Init => Base
<1> SUFFICES ASSUME Init PROVE Base
  OBVIOUS
<1>1. \A w \in Writers : writer[w] = Idle /\ w \notin {"none", "net", "hub"}
  BY WriterAssumption DEF Init
<1>2. writer \in [Writers -> WriterType]
  BY DEF Init, Idle, WriterType, PCs, Attributes
<1>3. power \in PowerType /\ usb \in UsbType
  <2>1. Usb3 \in BOOLEAN /\ (IF Usb3 THEN 1 ELSE 0) \in Nat
    BY CaseAssumption
  <2>2. [u \in Users |-> "none"] \in [Users -> {"none", "on", "off"}]
    OBVIOUS
  <2>3. power \in PowerType
    BY <2>1, <2>2 DEF Init, qmi_wwan_bind, PowerType
  <2>4. usb \in UsbType
    BY DEF Init, qmi_wwan_bind, UsbType
  <2> QED BY <2>3, <2>4
<1>4. TypeOK
  BY <1>1, <1>2, <1>3 DEF Init, TypeOK, WriterType, PCs, PowerType, UsbType
<1>5. IdInv /\ HolderInv /\ HubInv /\ SlaveAlive
  BY <1>1 DEF Init, IdInv, HolderInv, HubInv, SlaveAlive, Locked, Idle
<1>6. PowerInv
  BY DEF Init, qmi_wwan_bind, PowerInv, One, Users
<1>7. UsbInv
  BY FS_EmptySet DEF Init, qmi_wwan_bind, UsbInv
<1> QED BY <1>4, <1>5, <1>6, <1>7 DEF Base

LEMMA NextBase == Base /\ [Next]_vars => Base'
<1> SUFFICES ASSUME Base, [Next]_vars PROVE Base'
  OBVIOUS
<1>1. CASE \E w \in Writers : Sysfs(w)
  BY <1>1, SysfsBase
<1>2. CASE qmi_wwan_rx_fixup \/ qmimux_rx_fixup \/ RxDone
  BY <1>2, RxBase
<1>3. CASE \E u \in Users : qmi_wwan_manage_power(u)
  BY <1>3, ManageBase
<1>4. CASE Open \/ Close
  BY <1>4, OpenCloseBase
<1>5. CASE qmi_wwan_cdc_wdm_manage_power
  BY <1>5, WdmBase
<1>6. CASE \E i \in Interfaces : qmi_wwan_suspend(i) \/ qmi_wwan_resume(i)
  BY <1>6, UsbBase
<1>7. CASE qmi_wwan_disconnect \/ UnregisterSlaves \/ ClearMux
  BY <1>7, HubBase
<1>8. CASE usbnet_disconnect
  BY <1>8, UnbindBase
<1>9. CASE UNCHANGED vars
  <2>1. UNCHANGED <<flags, type, slaves, dying, running, rtnl, writer, rx, power, usb, hub>>
    BY <1>9 DEF vars
  <2>2. TypeOK'
    BY <2>1 DEF Base, TypeOK
  <2> QED BY <2>1, <2>2, LockFrame DEF Base, PowerInv, HubInv, UsbInv, SlaveAlive
<1> QED BY <1>1, <1>2, <1>3, <1>4, <1>5, <1>6, <1>7, <1>8, <1>9 DEF Next

LEMMA BaseAlways == Spec => []Base
<1> QED BY InitBase, NextBase, PTL DEF Spec

-----------------------------------------------------------------------------
(* Theorems that hold however the attributes are written                   *)

\* Every variable keeps its type, the count of wake-up users included, and the lock
\* is held by a writer past it.
THEOREM TypeCorrect == Spec => []TypeOK
<1>1. Base => TypeOK
  BY DEF Base
<1> QED BY <1>1, BaseAlways, PTL

\* A slave a packet was found to be for is not released under it, whoever deletes it
\* (qmi_wwan.c:164-200, 300-321).
THEOREM SlavesAlive == Spec => []SlaveAlive
<1>1. Base => SlaveAlive
  BY DEF Base
<1> QED BY <1>1, BaseAlways, PTL

\* Active means no part is suspended, asleep means every part is, whichever part
\* refuses (qmi_wwan.c:883-927).
THEOREM PartsTogether == Spec => []SuspendedTogether
<1>1. Base => SuspendedTogether
  <2>1. Cardinality({}) = 0 /\ "control" \in Interfaces
    BY FS_EmptySet DEF Interfaces
  <2> QED BY <2>1 DEF Base, UsbInv, SuspendedTogether
<1> QED BY <1>1, BaseAlways, PTL

-----------------------------------------------------------------------------
(* With pass_through written alone: the flags                              *)

\* pass_through has the attributes to itself.
AloneInv ==
  \A v, w \in Writers :
    v # w /\ writer[v].pc # "idle" /\ writer[v].attr = "pass_through"
      => writer[w].pc = "idle"

\* The flags a writer has read are those of the device, but for what the disconnect
\* clears.
OldInv ==
  \A w \in Writers : writer[w].pc = "store" =>
    /\ "RAWIP" \in writer[w].old <=> "RAWIP" \in flags
    /\ hub = "bound" /\ writer[w].attr # "del_mux"
         => ("MUX" \in writer[w].old <=> "MUX" \in flags)

\* The mode changes only while the device does not run.
StoppedInv == \A w \in Writers : Is(w, "store", {"raw_ip"}) => ~running

TypeTells == "RAWIP" \in flags <=> type = "none"

RxInv == rx.pc # "idle" => running /\ (rx.rawip <=> type = "none")

\* A writer is between the change of the slaves and that of the flag.
Between(w) == Locked(w) /\ writer[w].attr \in {"add_mux", "del_mux"}

MuxInv ==
  hub = "bound" =>
    /\ \A w \in Writers : Between(w) =>
         IF writer[w].attr = "add_mux" THEN slaves # {} ELSE "MUX" \in flags
    /\ (\A w \in Writers : ~Between(w)) => ("MUX" \in flags <=> slaves # {})

ModeInv == AloneInv /\ OldInv /\ StoppedInv /\ TypeTells /\ RxInv /\ MuxInv

\* Of the writers about to write the flags there is one.
LEMMA OneStores ==
  ASSUME Base, AloneInv, NEW v \in Writers, NEW w \in Writers,
         writer[v].pc = "store", writer[w].pc \in {"wait", "store"}
  PROVE  v = w
<1>1. CASE writer[v].attr = "pass_through" \/ writer[w].attr = "pass_through"
  BY <1>1 DEF AloneInv
<1>2. CASE Locked(v) /\ Locked(w)
  BY <1>2 DEF Base, HolderInv
<1> QED BY <1>1, <1>2 DEF Locked

LEMMA AloneStep ==
  ASSUME ~Overlap, Base, AloneInv, NEW w \in Writers, Sysfs(w)
  PROVE  AloneInv'
<1>1. CASE Write(w)
  <2>1. /\ Only(w)
        /\ \A v \in Others(w) : "pass_through" \notin {writer'[w].attr, writer[v].attr}
    BY <1>1, WriteEffect DEF Base
  <2>2. \A v \in Writers : v # w /\ writer[v].pc # "idle" => v \in Others(w)
    BY DEF Others
  <2> QED BY <2>1, <2>2 DEF AloneInv, Only
<1>2. CASE ~Write(w)
  <2>1. flags \in SUBSET Flags /\ writer[w].pc # "idle"
    BY <1>2, SysfsMotion DEF Base, TypeOK
  <2>2. CASE Return(w)
    BY <2>2, ReturnEffect DEF Base, AloneInv, Only, Idle
  <2>3. CASE ~Return(w)
    <3>1. PICK pc \in PCs, old \in SUBSET Flags : Goto(w, pc, old)
      BY <1>2, <2>1, <2>3, SysfsMotion DEF PCs
    <3>2. Only(w) /\ writer'[w].attr = writer[w].attr
      BY <3>1, GotoEffect DEF Base
    <3> QED BY <2>1, <3>2 DEF AloneInv, Only
  <2> QED BY <2>2, <2>3
<1> QED BY <1>1, <1>2

\* A step of a writer changes the flags only where it writes them back.
Stores(w) ==
  pass_through_store(w) \/ raw_ip_store(w) \/ add_mux_store(w) \/ del_mux_store(w)

LEMMA StoreEffect ==
  ASSUME Base, OldInv, NEW w \in Writers, Stores(w)
  PROVE  /\ writer[w].pc = "store" /\ Only(w) /\ writer'[w] = Idle
         /\ UNCHANGED <<slaves, running, rx, hub>>
         /\ IF writer[w].attr = "raw_ip" THEN TypeTells'
            ELSE type' = type /\ ("RAWIP" \in flags' <=> "RAWIP" \in flags)
         /\ hub = "bound" =>
              CASE writer[w].attr = "add_mux" -> "MUX" \in flags'
                [] writer[w].attr = "del_mux" -> IF slaves = {} THEN "MUX" \notin flags'
                                                 ELSE UNCHANGED flags
                [] OTHER -> "MUX" \in flags' <=> "MUX" \in flags
<1>1. /\ writer[w].pc = "store" /\ Return(w) /\ UNCHANGED <<slaves, running, rx, hub>>
  BY DEF Stores, pass_through_store, raw_ip_store, add_mux_store, del_mux_store, Is, workers
<1>2. Only(w) /\ writer'[w] = Idle
  BY <1>1, ReturnEffect DEF Base
<1>3. TypeOK /\ writer[w].on \in BOOLEAN /\ Flags = {"RAWIP", "MUX", "PASS_THROUGH"}
  BY DEF Base, TypeOK, Flags
<1>4. /\ "RAWIP" \in writer[w].old <=> "RAWIP" \in flags
      /\ hub = "bound" /\ writer[w].attr # "del_mux"
           => ("MUX" \in writer[w].old <=> "MUX" \in flags)
  BY <1>1 DEF OldInv
<1>5. CASE pass_through_store(w)
  <2>1. /\ writer[w].attr = "pass_through" /\ type' = type
        /\ Assign(w, "PASS_THROUGH", writer[w].on)
    BY <1>5 DEF pass_through_store, Is
  <2>2. \A f \in Flags \ {"PASS_THROUGH"} :
          (f \in writer[w].old <=> f \in flags) => (f \in flags' <=> f \in flags)
    BY <1>3, <2>1, AssignEffect
  <2> QED BY <1>1, <1>2, <1>3, <1>4, <2>1, <2>2
<1>6. CASE raw_ip_store(w)
  <2>1. /\ writer[w].attr = "raw_ip" /\ Assign(w, "RAWIP", writer[w].on)
        /\ qmi_wwan_netdev_setup
    BY <1>6 DEF raw_ip_store, Is
  <2>2. \A f \in Flags \ {"RAWIP"} :
          (f \in writer[w].old <=> f \in flags) => (f \in flags' <=> f \in flags)
    BY <1>3, <2>1, AssignEffect
  <2>3. TypeTells'
    BY <2>1 DEF qmi_wwan_netdev_setup, TypeTells
  <2> QED BY <1>1, <1>2, <1>3, <1>4, <2>1, <2>2, <2>3
<1>7. CASE add_mux_store(w)
  <2>1. writer[w].attr = "add_mux" /\ Assign(w, "MUX", TRUE) /\ type' = type
    BY <1>7 DEF add_mux_store, Is
  <2>2. /\ ("MUX" \in flags') = TRUE
        /\ \A f \in Flags \ {"MUX"} :
          (f \in writer[w].old <=> f \in flags) => (f \in flags' <=> f \in flags)
    BY <1>3, <2>1, AssignEffect
  <2> QED BY <1>1, <1>2, <1>3, <1>4, <2>1, <2>2
<1>8. CASE del_mux_store(w)
  <2>1. /\ writer[w].attr = "del_mux" /\ type' = type
        /\ IF slaves = {} THEN Assign(w, "MUX", FALSE) ELSE UNCHANGED flags
    BY <1>8 DEF del_mux_store, Is
  <2>2. CASE slaves = {}
    <3>1. /\ ("MUX" \in flags') = FALSE
          /\ \A f \in Flags \ {"MUX"} :
            (f \in writer[w].old <=> f \in flags) => (f \in flags' <=> f \in flags)
      BY <1>3, <2>1, <2>2, AssignEffect
    <3> QED BY <1>1, <1>2, <1>3, <1>4, <2>1, <2>2, <3>1
  <2>3. CASE slaves # {}
    BY <1>1, <1>2, <2>1, <2>3
  <2> QED BY <2>2, <2>3
<1> QED BY <1>5, <1>6, <1>7, <1>8 DEF Stores

LEMMA StoreMode ==
  ASSUME Base, ModeInv, NEW w \in Writers, Stores(w)
  PROVE  /\ OldInv' /\ StoppedInv' /\ TypeTells' /\ RxInv' /\ MuxInv'
<1> USE DEF ModeInv
<1>1. /\ writer[w].pc = "store" /\ Only(w) /\ writer'[w] = Idle
      /\ UNCHANGED <<slaves, running, rx, hub>>
  BY StoreEffect
<1>2. \A v \in Writers : v # w => writer[v].pc \notin {"wait", "store"}
  BY <1>1, OneStores
<1>3. \A v \in Writers : writer'[v].pc \notin {"wait", "store"}
  BY <1>1, <1>2 DEF Only, Idle
<1>4. OldInv' /\ StoppedInv'
  BY <1>3 DEF OldInv, StoppedInv, Is
<1>5. TypeTells'
  BY StoreEffect DEF TypeTells
<1>6. RxInv'
  <2>1. CASE writer[w].attr = "raw_ip"
    BY <1>1, <2>1 DEF StoppedInv, Is, RxInv
  <2>2. CASE writer[w].attr # "raw_ip"
    <3>1. type' = type
      BY <2>2, StoreEffect
    <3> QED BY <1>1, <3>1 DEF RxInv
  <2> QED BY <2>1, <2>2
<1>7. MuxInv'
  <2> SUFFICES ASSUME hub' = "bound"
               PROVE  "MUX" \in flags' <=> slaves' # {}
    BY <1>3 DEF MuxInv, Between, Locked
  <2>1. hub = "bound"
    BY <1>1
  <2>2. \A v \in Writers : Between(v) => v = w
    BY <1>2 DEF Between, Locked
  <2>3. CASE writer[w].attr = "add_mux"
    <3>1. slaves # {}
      BY <1>1, <2>1, <2>3 DEF MuxInv, Between, Locked
    <3>2. "MUX" \in flags'
      BY <2>1, <2>3, StoreEffect
    <3> QED BY <1>1, <3>1, <3>2
  <2>4. CASE writer[w].attr = "del_mux"
    <3>1. "MUX" \in flags
      BY <1>1, <2>1, <2>4 DEF MuxInv, Between, Locked
    <3>2. IF slaves = {} THEN "MUX" \notin flags' ELSE UNCHANGED flags
      BY <2>1, <2>4, StoreEffect
    <3> QED BY <1>1, <3>1, <3>2
  <2>5. CASE writer[w].attr \notin {"add_mux", "del_mux"}
    <3>1. "MUX" \in flags <=> slaves # {}
      BY <2>1, <2>2, <2>5 DEF MuxInv, Between
    <3>2. "MUX" \in flags' <=> "MUX" \in flags
      BY <2>1, <2>5, StoreEffect
    <3> QED BY <1>1, <3>1, <3>2
  <2> QED BY <2>3, <2>4, <2>5
<1> QED BY <1>4, <1>5, <1>6, <1>7

\* The other steps of a writer leave the flags, and read them on the way to a store.
LEMMA QuietEffect ==
  ASSUME Base, NEW w \in Writers, Sysfs(w), ~Stores(w)
  PROVE  /\ UNCHANGED <<flags, type, running, rx, hub>> /\ Only(w)
         /\ writer'[w].pc = "store" =>
              /\ writer'[w].old = flags /\ writer'[w].attr = writer[w].attr
              /\ writer[w].attr = "raw_ip" => ~running
<1>1. UNCHANGED <<flags, type, running, rx, hub>> /\ Only(w)
  <2>1. Only(w) /\ UNCHANGED <<running, rx, hub>>
    BY SysfsMoves DEF Base, workers
  <2> QED BY <2>1
    DEF Sysfs, Stores, Write, CheckRawIp, CheckPassThrough, Restart, LockRawIp,
        qmimux_register_device, qmimux_unregister_device, synchronize_net, modes
<1>2. CASE Write(w)
  BY <1>1, <1>2, WriteEffect DEF Base
<1>3. CASE ~Write(w)
  <2>1. flags \in SUBSET Flags /\ {} \in SUBSET Flags
    BY DEF Base, TypeOK
  <2>2. CASE Return(w)
    BY <1>1, <2>2, ReturnEffect DEF Base, Idle
  <2>3. CASE Goto(w, "lock", {}) \/ Goto(w, "wait", {})
    BY <1>1, <2>1, <2>3, GotoEffect DEF Base, PCs
  <2>4. CASE Goto(w, "store", flags) /\ ~Return(w)
    <3>1. writer'[w].old = flags /\ writer'[w].attr = writer[w].attr
      BY <2>1, <2>4, GotoEffect DEF Base, PCs
    <3>2. ASSUME writer[w].attr = "raw_ip", writer'[w].pc = "store" PROVE ~running
      <4>1. CASE LockRawIp(w)
        BY <2>4, <4>1 DEF LockRawIp
      <4>2. CASE CheckRawIp(w)
        <5>1. Goto(w, "lock", {})
          BY <2>4, <4>2 DEF CheckRawIp
        <5>2. writer'[w].pc = "lock"
          BY <2>1, <5>1, GotoEffect DEF Base, PCs
        <5> QED BY <3>2, <5>2
      <4>3. CASE synchronize_net(w)
        BY <3>2, <4>3 DEF synchronize_net, Base, IdInv
      <4> QED
        BY <1>3, <2>4, <3>2, <4>1, <4>2, <4>3
        DEF Sysfs, Stores, CheckPassThrough, Restart, qmimux_register_device,
            qmimux_unregister_device, Is, Lock
    <3> QED BY <1>1, <3>1, <3>2
  <2> QED BY <1>3, <2>2, <2>3, <2>4, SysfsMotion
<1> QED BY <1>2, <1>3

\* What a step that is no store does to the slaves and to who is between.
LEMMA QuietMux ==
  ASSUME Base, ModeInv, NEW w \in Writers, Sysfs(w), ~Stores(w)
  PROVE  MuxInv'
<1> USE DEF ModeInv, Base
<1> SUFFICES ASSUME hub' = "bound" PROVE MuxInv'
  BY DEF MuxInv
<1>1. UNCHANGED <<flags, hub>> /\ Only(w) /\ hub = "bound"
  BY QuietEffect
<1>2. \A v \in Writers : v # w => (Between(v)' <=> Between(v))
                               /\ writer'[v].attr = writer[v].attr
  BY <1>1 DEF Between, Locked, Only
<1>3. flags \in SUBSET Flags /\ {} \in SUBSET Flags
  BY DEF TypeOK
<1>4. CASE qmimux_register_device(w) /\ ~Return(w)
  <2>1. /\ rtnl = "none" /\ Goto(w, "store", flags) /\ slaves' # {}
        /\ writer[w].attr = "add_mux"
    BY <1>4 DEF qmimux_register_device, Lock, Is
  <2>2. writer'[w].attr = "add_mux" /\ writer'[w].pc = "store"
    BY <1>3, <2>1, GotoEffect DEF PCs
  <2>3. \A v \in Writers : ~Between(v)
    BY <2>1, WriterAssumption DEF HolderInv, Between
  <2>4. Between(w)'
    BY <2>2 DEF Between, Locked
  <2> QED BY <1>1, <1>2, <2>1, <2>2, <2>3, <2>4 DEF MuxInv
<1>5. CASE qmimux_unregister_device(w) /\ ~Return(w)
  <2>1. /\ rtnl = "none" /\ Goto(w, "wait", {}) /\ slaves # {}
        /\ writer[w].attr = "del_mux"
    BY <1>5 DEF qmimux_unregister_device, Lock, Is
  <2>2. writer'[w].attr = "del_mux" /\ writer'[w].pc = "wait"
    BY <1>3, <2>1, GotoEffect DEF PCs
  <2>3. \A v \in Writers : ~Between(v)
    BY <2>1, WriterAssumption DEF HolderInv, Between
  <2>4. Between(w)' /\ "MUX" \in flags'
    BY <1>1, <2>1, <2>2, <2>3 DEF Between, Locked, MuxInv
  <2> QED BY <1>1, <1>2, <2>2, <2>3, <2>4 DEF MuxInv
<1>6. CASE synchronize_net(w)
  <2>1. /\ writer[w].attr = "del_mux" /\ writer[w].pc = "wait" /\ slaves' = slaves
        /\ Goto(w, "store", flags)
    BY <1>6 DEF synchronize_net, IdInv
  <2>2. writer'[w].attr = "del_mux" /\ writer'[w].pc = "store"
    BY <1>3, <2>1, GotoEffect DEF PCs
  <2>3. Between(w) /\ Between(w)'
    BY <2>1, <2>2 DEF Between, Locked
  <2> QED BY <1>1, <1>2, <2>1, <2>2, <2>3 DEF MuxInv
<1>7. CASE /\ \/ Write(w) \/ CheckRawIp(w) \/ CheckPassThrough(w) \/ Restart(w)
              \/ LockRawIp(w)
              \/ (qmimux_register_device(w) \/ qmimux_unregister_device(w)) /\ Return(w)
  <2>1. slaves' = slaves
    <3>1. CASE (qmimux_register_device(w) \/ qmimux_unregister_device(w)) /\ Return(w)
      <4>1. writer'[w] = Idle /\ writer[w].pc = "lock"
        BY <3>1, ReturnEffect DEF qmimux_register_device, qmimux_unregister_device, Lock, Is
      <4>2. ~Goto(w, "store", flags) /\ ~Goto(w, "wait", {})
        <5>1. writer'[w].pc = "idle"
          BY <4>1 DEF Idle
        <5>2. Goto(w, "store", flags) => writer'[w].pc = "store"
          BY <1>3, GotoEffect DEF PCs
        <5>3. Goto(w, "wait", {}) => writer'[w].pc = "wait"
          BY <1>3, GotoEffect DEF PCs
        <5> QED BY <5>1, <5>2, <5>3
      <4> QED BY <3>1, <4>2 DEF qmimux_register_device, qmimux_unregister_device
    <3>2. CASE Write(w) \/ CheckRawIp(w) \/ CheckPassThrough(w) \/ Restart(w) \/ LockRawIp(w)
      BY <3>2 DEF Write, CheckRawIp, CheckPassThrough, Restart, LockRawIp, modes
    <3> QED BY <1>7, <3>1, <3>2
  <2>2. ~Between(w) /\ ~Between(w)'
    <3>1. writer[w].pc \notin {"wait", "store"}
      BY <1>7 DEF Write, CheckRawIp, CheckPassThrough, Restart, LockRawIp,
        qmimux_register_device, qmimux_unregister_device, Is, Lock
    <3>2. ~Between(w)
      BY <3>1 DEF Between, Locked
    <3>3. ~Between(w)'
      <4>1. CASE Write(w)
        BY <4>1, WriteEffect DEF Between, Locked
      <4>2. CASE Return(w)
        BY <4>2, ReturnEffect DEF Between, Locked, Idle
      <4>3. CASE Goto(w, "lock", {})
        BY <1>3, <4>3, GotoEffect DEF Between, Locked, PCs
      <4>4. CASE (CheckPassThrough(w) \/ LockRawIp(w)) /\ Goto(w, "store", flags)
        <5>1. writer[w].attr \notin {"add_mux", "del_mux"}
          BY <4>4 DEF CheckPassThrough, LockRawIp, Lock, Is
        <5>2. writer'[w].attr = writer[w].attr
          BY <1>3, <4>4, GotoEffect DEF PCs
        <5> QED BY <5>1, <5>2 DEF Between
      <4> QED BY <1>7, <4>1, <4>2, <4>3, <4>4
        DEF CheckRawIp, CheckPassThrough, Restart, LockRawIp
    <3> QED BY <3>2, <3>3
  <2> QED BY <1>1, <1>2, <2>1, <2>2 DEF MuxInv
<1> QED BY <1>4, <1>5, <1>6, <1>7 DEF Sysfs, Stores

LEMMA QuietMode ==
  ASSUME Base, ModeInv, NEW w \in Writers, Sysfs(w), ~Stores(w)
  PROVE  /\ OldInv' /\ StoppedInv' /\ TypeTells' /\ RxInv' /\ MuxInv'
<1> USE DEF ModeInv
<1>1. /\ UNCHANGED <<flags, type, running, rx, hub>> /\ Only(w)
      /\ writer'[w].pc = "store" =>
              /\ writer'[w].old = flags /\ writer'[w].attr = writer[w].attr
              /\ writer[w].attr = "raw_ip" => ~running
  BY QuietEffect
<1>2. OldInv' /\ StoppedInv'
  BY <1>1 DEF OldInv, StoppedInv, Is, Only
<1>3. TypeTells' /\ RxInv'
  BY <1>1 DEF TypeTells, RxInv
<1> QED BY <1>2, <1>3, QuietMux

LEMMA InitMode == Init => ModeInv
<1> SUFFICES ASSUME Init PROVE ModeInv
  OBVIOUS
<1>1. \A w \in Writers : writer[w] = Idle
  BY DEF Init
<1>2. \A w \in Writers : writer[w].pc = "idle"
  BY <1>1 DEF Idle
<1>3. AloneInv /\ OldInv /\ StoppedInv /\ TypeTells /\ RxInv
  BY <1>2 DEF Init, AloneInv, OldInv, StoppedInv, TypeTells, RxInv, Is
<1>4. MuxInv
  BY <1>2 DEF Init, MuxInv, Between, Locked
<1> QED BY <1>3, <1>4 DEF ModeInv

LEMMA OtherMode ==
  ASSUME Base, ModeInv,
         \/ qmi_wwan_rx_fixup \/ qmimux_rx_fixup \/ RxDone
         \/ \E u \in Users : qmi_wwan_manage_power(u)
         \/ Open \/ Close \/ qmi_wwan_cdc_wdm_manage_power
         \/ \E i \in Interfaces : qmi_wwan_suspend(i) \/ qmi_wwan_resume(i)
         \/ qmi_wwan_disconnect \/ UnregisterSlaves \/ ClearMux \/ usbnet_disconnect
  PROVE  ModeInv'
<1> USE DEF ModeInv
<1>1. writer' = writer /\ type' = type
  BY DEF qmi_wwan_rx_fixup, qmimux_rx_fixup, RxDone, qmi_wwan_manage_power, Open, Close,
    qmi_wwan_cdc_wdm_manage_power, qmi_wwan_suspend, qmi_wwan_resume, qmi_wwan_disconnect,
    UnregisterSlaves, ClearMux, usbnet_disconnect, modes
<1>2. /\ "RAWIP" \in flags' <=> "RAWIP" \in flags
      /\ hub' = "bound" => hub = "bound" /\ UNCHANGED <<flags, slaves>>
  BY DEF qmi_wwan_rx_fixup, qmimux_rx_fixup, RxDone, qmi_wwan_manage_power, Open, Close,
    qmi_wwan_cdc_wdm_manage_power, qmi_wwan_suspend, qmi_wwan_resume, qmi_wwan_disconnect,
    UnregisterSlaves, ClearMux, usbnet_disconnect, modes
<1>3. AloneInv' /\ OldInv' /\ TypeTells'
  BY <1>1, <1>2 DEF AloneInv, OldInv, TypeTells
<1>4. MuxInv'
  BY <1>1, <1>2 DEF MuxInv, Between, Locked
<1>5. StoppedInv'
  <2>1. CASE Open
    <3>1. \A w \in Writers : ~Locked(w)
      BY <2>1, WriterAssumption DEF Open, Base, HolderInv
    <3> QED BY <1>1, <3>1 DEF StoppedInv, Is, Locked
  <2>2. CASE ~Open
    <3>1. running' => running
      BY <2>2
      DEF qmi_wwan_rx_fixup, qmimux_rx_fixup, RxDone, qmi_wwan_manage_power, Close,
        qmi_wwan_cdc_wdm_manage_power, qmi_wwan_suspend, qmi_wwan_resume,
        qmi_wwan_disconnect, UnregisterSlaves, ClearMux, usbnet_disconnect
    <3> QED BY <1>1, <3>1 DEF StoppedInv, Is
  <2> QED BY <2>1, <2>2
<1>6. RxInv'
  <2>1. CASE qmi_wwan_rx_fixup
    BY <1>1, <2>1 DEF qmi_wwan_rx_fixup, RxInv, TypeTells
  <2>2. CASE qmimux_rx_fixup
    <3>1. PICK id \in slaves : rx' = [rx EXCEPT !.pc = "slave", !.net = id]
      BY <2>2 DEF qmimux_rx_fixup
    <3>2. rx'.rawip = rx.rawip /\ rx.pc # "idle" /\ running' = running
      BY <2>2, <3>1 DEF qmimux_rx_fixup, Base, TypeOK
    <3> QED BY <1>1, <3>2 DEF RxInv
  <2>3. CASE RxDone
    BY <2>3 DEF RxDone, RxInv
  <2>4. CASE Close \/ usbnet_disconnect
    BY <2>4 DEF Close, usbnet_disconnect, RxInv
  <2>5. CASE /\ ~(qmi_wwan_rx_fixup \/ qmimux_rx_fixup \/ RxDone)
             /\ ~(Close \/ usbnet_disconnect)
    <3>1. rx' = rx /\ (running => running')
      <4>1. CASE Open
        BY <4>1 DEF Open
      <4>2. CASE \E u \in Users : qmi_wwan_manage_power(u)
        <5>1. PICK u \in Users : qmi_wwan_manage_power(u)
          BY <4>2
        <5>2. rx' = rx /\ running' = running
          BY <5>1, Zenon DEF qmi_wwan_manage_power
        <5> QED BY <5>2
      <4>3. CASE \E i \in Interfaces : qmi_wwan_suspend(i) \/ qmi_wwan_resume(i)
        BY <4>3 DEF qmi_wwan_suspend, qmi_wwan_resume
      <4>4. CASE qmi_wwan_cdc_wdm_manage_power
        BY <4>4 DEF qmi_wwan_cdc_wdm_manage_power
      <4>5. CASE qmi_wwan_disconnect \/ UnregisterSlaves \/ ClearMux
        BY <4>5 DEF qmi_wwan_disconnect, UnregisterSlaves, ClearMux
      <4> QED BY <2>5, <4>1, <4>2, <4>3, <4>4, <4>5
    <3> QED BY <1>1, <3>1 DEF RxInv
  <2> QED BY <2>1, <2>2, <2>3, <2>4, <2>5
<1> QED BY <1>3, <1>4, <1>5, <1>6

LEMMA NextMode ==
  ASSUME ~Overlap
  PROVE  Base /\ ModeInv /\ [Next]_vars => ModeInv'
<1> SUFFICES ASSUME Base, ModeInv, [Next]_vars PROVE ModeInv'
  OBVIOUS
<1>1. CASE \E w \in Writers : Sysfs(w)
  <2>1. PICK w \in Writers : Sysfs(w)
    BY <1>1
  <2>2. AloneInv'
    BY <2>1, AloneStep DEF ModeInv
  <2> QED BY <2>1, <2>2, StoreMode, QuietMode DEF ModeInv
<1>2. CASE UNCHANGED vars
  <2>1. UNCHANGED <<flags, type, slaves, running, writer, rx, hub>>
    BY <1>2 DEF vars
  <2> QED BY <2>1
    DEF ModeInv, AloneInv, OldInv, StoppedInv, TypeTells, RxInv, MuxInv, Is, Between, Locked
<1> QED BY <1>1, <1>2, OtherMode DEF Next

LEMMA ModeAlways ==
  ASSUME ~Overlap
  PROVE  Spec => [](Base /\ ModeInv)
<1>1. Base /\ ModeInv /\ [Next]_vars => ModeInv'
  BY NextMode
<1> QED BY <1>1, InitMode, BaseAlways, PTL DEF Spec

\* A packet is fixed up in the mode of the device, though the tasklet takes no lock
\* (qmi_wwan.c:561-612, 435-445).
THEOREM FixUps ==
  ASSUME ~Overlap
  PROVE  Spec => []FixedUpInMode
<1>1. Base /\ ModeInv => FixedUpInMode
  <2>1. Base => rx.rawip \in BOOLEAN
    BY DEF Base, TypeOK
  <2> QED BY <2>1 DEF ModeInv, RxInv, FixedUpInMode
<1> QED BY <1>1, ModeAlways, PTL

\* At rest MUX is set exactly while there are slaves, and RAWIP exactly on a device
\* with no header, although the word they share is read and written in two steps.
THEOREM FlagsAreTrue ==
  ASSUME ~Overlap
  PROVE  Spec => []FlagsTell
<1>1. Base /\ ModeInv => FlagsTell
  <2> SUFFICES ASSUME Base, ModeInv, AtRest
               PROVE  /\ ("MUX" \in flags) = (slaves # {})
                      /\ ("RAWIP" \in flags) = (type = "none")
    BY DEF FlagsTell
  <2>1. \A w \in Writers : ~Locked(w)
    BY WriterAssumption DEF AtRest, Base, HolderInv
  <2>2. \A w \in Writers : ~Between(w)
    BY <2>1 DEF Between
  <2> QED BY <2>2 DEF AtRest, ModeInv, MuxInv, TypeTells
<1> QED BY <1>1, ModeAlways, PTL
=============================================================================
