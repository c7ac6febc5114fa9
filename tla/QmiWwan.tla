------------------------------ MODULE QmiWwan -------------------------------
(***************************************************************************)
(* What qmi_wwan (Linux 6.12) adds to usbnet: the raw IP, pass-through and *)
(* multiplexing modes that are set through sysfs, the slave devices of the *)
(* multiplexer, the fix-up of what is received, the count of those who     *)
(* need remote wake-up, suspend and resume together with the cdc-wdm       *)
(* subdriver, and the disconnect.                                          *)
(*                                                                         *)
(* raw_ip, add_mux and del_mux work under the rtnl lock, pass_through does *)
(* not; the word of flags they share is read, changed and written back,    *)
(* and what is written back may come from this read or from an earlier     *)
(* one.  Received packets are fixed up in a tasklet, which takes no lock.  *)
(***************************************************************************)
EXTENDS Integers, FiniteSets

CONSTANTS
  Writers,  \* threads that write the sysfs attributes
  Ids,      \* the mux ids they use
  NoId,
  Usb3,     \* whether the device needs DTR (bcdUSB is 0x0201 or later)
  Separate, \* whether control and data are two interfaces
  Overlap   \* environment: whether pass_through is written at the same time as others

ASSUME IdAssumption == NoId \notin Ids
ASSUME WriterAssumption == Writers \cap {"none", "net", "hub"} = {}
ASSUME CaseAssumption == {Usb3, Separate, Overlap} \subseteq BOOLEAN

VARIABLES
  flags,   \* info->flags
  type,    \* the device: "ether", or "none" (no header) for raw IP
  slaves,  \* mux ids of the upper devices that are linked
  dying,   \* those unlinked and not yet released
  running, \* netif_running
  rtnl,    \* who holds the lock: "none", "net", "hub" or a writer
  writer,  \* each writer: where it is, what it writes, the flags it has read
  rx,      \* the fix-up: where it is, the mode it has read, the slave it has found
  power,   \* pmcount, needs_remote_wakeup, and each user: whether it counts,
           \* and what it has still to write
  usb,     \* the interfaces that are suspended, suspend_count, the subdriver, and
           \* what the core is doing
  hub      \* the disconnect

vars == <<flags, type, slaves, dying, running, rtnl, writer, rx, power, usb, hub>>

modes   == <<flags, type, slaves, dying>>
workers == <<running, rx, power, usb, hub>>

Users == {"net", "wdm"}
Interfaces == IF Separate THEN {"data", "control"} ELSE {"control"}
Flags == {"RAWIP", "MUX", "PASS_THROUGH"}
Attributes == {"raw_ip", "pass_through", "add_mux", "del_mux"}
Idle == [pc |-> "idle", attr |-> "raw_ip", on |-> FALSE, id |-> NoId, old |-> {}]

(* The state probe leaves, with the DTR quirk counted.                     *)
qmi_wwan_bind ==
  /\ power = [count |-> IF Usb3 THEN 1 ELSE 0, wakeup |-> Usb3,
              counted |-> {}, todo |-> [u \in Users |-> "none"]]
  /\ usb = [suspended |-> {}, count |-> 0, wdm |-> FALSE, core |-> "active"]

Init ==
  /\ flags = {} /\ type = "ether" /\ slaves = {} /\ dying = {}
  /\ running = FALSE /\ rtnl = "none"
  /\ writer = [w \in Writers |-> Idle]
  /\ rx = [pc |-> "idle", rawip |-> FALSE, net |-> NoId]
  /\ qmi_wwan_bind
  /\ hub = "bound"

Registered == hub \in {"bound", "slaves", "flag", "usbnet"}
Others(w) == {v \in Writers \ {w} : writer[v].pc # "idle"}
Return(w) == writer' = [writer EXCEPT ![w] = Idle]
Goto(w, pc, old) == writer' = [writer EXCEPT ![w].pc = pc, ![w].old = old]
Is(w, pc, attrs) == writer[w].pc = pc /\ writer[w].attr \in attrs

-----------------------------------------------------------------------------
(* Writing an attribute.                                                   *)

Write(w) ==
  /\ Registered /\ writer[w].pc = "idle"
  /\ \E attr \in Attributes, on \in BOOLEAN, id \in Ids :
       /\ Overlap \/ \A v \in Others(w) : "pass_through" \notin {attr, writer[v].attr}
       /\ writer' = [writer EXCEPT ![w] =
         [pc |-> IF attr \in {"raw_ip", "pass_through"} THEN "check" ELSE "lock",
          attr |-> attr, on |-> on, id |-> id, old |-> {}]]
  /\ UNCHANGED <<modes, rtnl, workers>>

(* Nothing to change, or not allowed: the lock is not taken.               *)
RawIpRefused(on) ==
  \/ on = ("RAWIP" \in flags)
  \/ ~on /\ "PASS_THROUGH" \in flags

CheckRawIp(w) ==
  /\ Is(w, "check", {"raw_ip"})
  /\ IF RawIpRefused(writer[w].on) THEN Return(w) ELSE Goto(w, "lock", {})
  /\ UNCHANGED <<modes, rtnl, workers>>

CheckPassThrough(w) ==
  /\ Is(w, "check", {"pass_through"})
  /\ IF (~writer[w].on /\ "PASS_THROUGH" \notin flags) \/ "RAWIP" \notin flags
     THEN Return(w) ELSE Goto(w, "store", flags)
  /\ UNCHANGED <<modes, rtnl, workers>>

(* The flags are written back with one bit changed.                        *)
Assign(w, bit, on) ==
  \E old \in {writer[w].old, flags} :
    flags' = IF on THEN old \cup {bit} ELSE old \ {bit}

pass_through_store(w) ==
  /\ Is(w, "store", {"pass_through"})
  /\ Assign(w, "PASS_THROUGH", writer[w].on)
  /\ Return(w)
  /\ UNCHANGED <<type, slaves, dying, rtnl, workers>>

(* rtnl_trylock: if it fails, the system call starts again.                *)
Restart(w) ==
  /\ writer[w].pc = "lock" /\ rtnl # "none"
  /\ Return(w)
  /\ UNCHANGED <<modes, rtnl, workers>>

Lock(w, attr) == Is(w, "lock", {attr}) /\ rtnl = "none" /\ Registered

(* Mutant: whether it runs was looked at before the lock was taken.        *)
LockRawIpAnyway(w) ==
  /\ Lock(w, "raw_ip")
  /\ \/ Return(w) /\ UNCHANGED rtnl
     \/ Goto(w, "store", flags) /\ rtnl' = w
  /\ UNCHANGED <<modes, workers>>

(* A running device is not changed, and another driver may refuse.         *)
LockRawIp(w) ==
  /\ Lock(w, "raw_ip")
  /\ \/ Return(w) /\ UNCHANGED rtnl
     \/ ~running /\ Goto(w, "store", flags) /\ rtnl' = w
  /\ UNCHANGED <<modes, workers>>

qmi_wwan_netdev_setup == type' = IF "RAWIP" \in flags' THEN "none" ELSE "ether"

raw_ip_store(w) ==
  /\ Is(w, "store", {"raw_ip"})
  /\ Assign(w, "RAWIP", writer[w].on)
  /\ qmi_wwan_netdev_setup
  /\ Return(w) /\ rtnl' = "none"
  /\ UNCHANGED <<slaves, dying, workers>>

(* Mutant: the error path keeps the lock.                                  *)
qmimux_register_locked(w) ==
  /\ Lock(w, "add_mux")
  /\ rtnl' = w
  /\ \/ Return(w) /\ UNCHANGED slaves
     \/ /\ writer[w].id \notin slaves
        /\ slaves' = slaves \cup {writer[w].id}
        /\ Goto(w, "store", flags)
  /\ UNCHANGED <<flags, type, dying, workers>>

(* The slave is linked before the flag is set; to register it may fail.    *)
qmimux_register_device(w) ==
  /\ Lock(w, "add_mux")
  /\ \/ Return(w) /\ UNCHANGED <<slaves, rtnl>>
     \/ /\ writer[w].id \notin slaves
        /\ slaves' = slaves \cup {writer[w].id}
        /\ Goto(w, "store", flags) /\ rtnl' = w
  /\ UNCHANGED <<flags, type, dying, workers>>

add_mux_store(w) ==
  /\ Is(w, "store", {"add_mux"})
  /\ Assign(w, "MUX", TRUE)
  /\ Return(w) /\ rtnl' = "none"
  /\ UNCHANGED <<type, slaves, dying, workers>>

(* The slave is unlinked, and waits for those who have found it.           *)
qmimux_unregister_device(w) ==
  /\ Lock(w, "del_mux")
  /\ IF writer[w].id \notin slaves THEN Return(w) /\ UNCHANGED <<slaves, dying, rtnl>>
     ELSE /\ slaves' = slaves \ {writer[w].id}
          /\ dying' = dying \cup {writer[w].id}
          /\ Goto(w, "wait", {}) /\ rtnl' = w
  /\ UNCHANGED <<flags, type, workers>>

(* Mutant: the slave is released at once.                                  *)
synchronize_nothing(w) ==
  /\ writer[w].pc = "wait"
  /\ dying' = dying \ {writer[w].id}
  /\ Goto(w, "store", flags)
  /\ UNCHANGED <<flags, type, slaves, rtnl, workers>>

synchronize_net(w) ==
  /\ writer[w].pc = "wait" /\ rx.net # writer[w].id
  /\ dying' = dying \ {writer[w].id}
  /\ Goto(w, "store", flags)
  /\ UNCHANGED <<flags, type, slaves, rtnl, workers>>

(* Mutant: the last slave leaves and the flag stays.                       *)
del_mux_store_keeps(w) ==
  /\ Is(w, "store", {"del_mux"})
  /\ Return(w) /\ rtnl' = "none"
  /\ UNCHANGED <<modes, workers>>

del_mux_store(w) ==
  /\ Is(w, "store", {"del_mux"})
  /\ IF slaves = {} THEN Assign(w, "MUX", FALSE) ELSE UNCHANGED flags
  /\ Return(w) /\ rtnl' = "none"
  /\ UNCHANGED <<type, slaves, dying, workers>>

-----------------------------------------------------------------------------
(* Received packets: the mode is read first, the other flags after it.     *)

qmi_wwan_rx_fixup ==
  /\ running /\ rx.pc = "idle"
  /\ rx' = [pc |-> "fixup", rawip |-> "RAWIP" \in flags, net |-> NoId]
  /\ UNCHANGED <<modes, rtnl, writer, running, power, usb, hub>>

(* A multiplexed packet is for a slave that is there, or is skipped.       *)
qmimux_rx_fixup ==
  /\ rx.pc = "fixup" /\ "MUX" \in flags
  /\ \E id \in slaves : rx' = [rx EXCEPT !.pc = "slave", !.net = id]
  /\ UNCHANGED <<modes, rtnl, writer, running, power, usb, hub>>

RxDone ==
  /\ rx.pc # "idle"
  /\ rx' = [pc |-> "idle", rawip |-> FALSE, net |-> NoId]
  /\ UNCHANGED <<modes, rtnl, writer, running, power, usb, hub>>

-----------------------------------------------------------------------------
(* Power: the network device and the subdriver share a counter.            *)

(* The count is changed in one go, and what it says is written later.      *)
Count(u, on) ==
  LET edge == IF on THEN power.count = 0 ELSE power.count = 1 IN
  power' = [power EXCEPT
    !.count = IF on THEN @ + 1 ELSE @ - 1,
    !.counted = IF on THEN @ \cup {u} ELSE @ \ {u},
    !.todo[u] = IF ~edge THEN "none" ELSE IF on THEN "on" ELSE "off"]

qmi_wwan_manage_power(u) ==
  /\ power.todo[u] # "none"
  /\ power' = [power EXCEPT !.wakeup = power.todo[u] = "on", !.todo[u] = "none"]
  /\ rtnl' = IF u = "net" THEN "none" ELSE rtnl
  /\ UNCHANGED <<modes, writer, running, rx, usb, hub>>

(* usbnet_open and usbnet_stop, under rtnl; stop waits for the tasklet.    *)
Open ==
  /\ Registered /\ rtnl = "none" /\ ~running
  /\ running' = TRUE
  /\ Count("net", TRUE)
  /\ rtnl' = IF power'.todo["net"] = "none" THEN "none" ELSE "net"
  /\ UNCHANGED <<modes, writer, rx, usb, hub>>

Close ==
  /\ rtnl = "none" /\ running /\ rx.pc = "idle" /\ Registered
  /\ running' = FALSE
  /\ Count("net", FALSE)
  /\ rtnl' = IF power'.todo["net"] = "none" THEN "none" ELSE "net"
  /\ UNCHANGED <<modes, writer, rx, usb, hub>>

(* The first to open /dev/cdc-wdm and the last to close it; not while the  *)
(* subdriver is being disconnected.                                        *)
qmi_wwan_cdc_wdm_manage_power ==
  /\ Registered /\ power.todo["wdm"] = "none"
  /\ Count("wdm", "wdm" \notin power.counted)
  /\ UNCHANGED <<modes, rtnl, writer, running, rx, usb, hub>>

-----------------------------------------------------------------------------
(* Suspend and resume: one interface after the other.                      *)

(* Mutant: when the subdriver refuses, usbnet is left suspended.           *)
qmi_wwan_suspend_half(i) ==
  /\ usb.core \in {"active", "suspending"} /\ i \notin usb.suspended /\ hub = "bound"
  /\ \E refused \in BOOLEAN :
       usb' = IF refused
              THEN [usb EXCEPT !.count = @ + 1,
                               !.core = IF usb.suspended = {} THEN "active" ELSE "resuming"]
              ELSE [suspended |-> usb.suspended \cup {i}, count |-> usb.count + 1,
                    wdm |-> usb.wdm \/ i = "control",
                    core |-> IF usb.suspended \cup {i} = Interfaces THEN "asleep"
                             ELSE "suspending"]
  /\ UNCHANGED <<modes, rtnl, writer, running, rx, power, hub>>

(* Either part may refuse: usbnet with packets on their way, the subdriver *)
(* in the middle of a read.  What was suspended of the interface is undone.*)
qmi_wwan_suspend(i) ==
  /\ usb.core \in {"active", "suspending"} /\ i \notin usb.suspended /\ hub = "bound"
  /\ \E refused \in BOOLEAN :
       usb' = IF refused
              THEN [usb EXCEPT !.core = IF usb.suspended = {} THEN "active" ELSE "resuming"]
              ELSE [suspended |-> usb.suspended \cup {i}, count |-> usb.count + 1,
                    wdm |-> usb.wdm \/ i = "control",
                    core |-> IF usb.suspended \cup {i} = Interfaces THEN "asleep"
                             ELSE "suspending"]
  /\ UNCHANGED <<modes, rtnl, writer, running, rx, power, hub>>

qmi_wwan_resume(i) ==
  /\ usb.core \in {"asleep", "resuming"} /\ i \in usb.suspended
  /\ usb' = [suspended |-> usb.suspended \ {i}, count |-> usb.count - 1,
             wdm |-> usb.wdm /\ i # "control",
             core |-> IF usb.suspended = {i} THEN "active" ELSE "resuming"]
  /\ UNCHANGED <<modes, rtnl, writer, running, rx, power, hub>>

-----------------------------------------------------------------------------
(* The device is unplugged.                                                *)

(* With slaves the lock is needed; if it is not had at once, the callback  *)
(* returns, and nothing of the device is torn down.                        *)
qmi_wwan_disconnect ==
  /\ hub = "bound" /\ usb.core = "active"
  /\ IF "MUX" \notin flags THEN hub' = "usbnet" /\ UNCHANGED rtnl
     ELSE IF rtnl # "none" THEN hub' = "forgotten" /\ UNCHANGED rtnl
     ELSE hub' = "slaves" /\ rtnl' = "hub"
  /\ UNCHANGED <<modes, writer, running, rx, power, usb>>

(* All slaves are unlinked, and released when no one uses them.            *)
UnregisterSlaves ==
  /\ hub = "slaves" /\ rx.net = NoId
  /\ slaves' = {} /\ hub' = "flag" /\ rtnl' = "none"
  /\ UNCHANGED <<flags, type, dying, writer, running, rx, power, usb>>

ClearMux ==
  /\ hub = "flag"
  /\ flags' = flags \ {"MUX"}
  /\ hub' = "usbnet"
  /\ UNCHANGED <<type, slaves, dying, rtnl, writer, running, rx, power, usb>>

(* The network device is closed and unregistered under rtnl; the attributes*)
(* go with it, so the writers in them are waited for.  Then comes unbind.  *)
usbnet_disconnect ==
  /\ hub = "usbnet" /\ rtnl = "none" /\ rx.pc = "idle"
  /\ \A w \in Writers : writer[w].pc = "idle"
  /\ power.todo["wdm"] = "none"
  /\ running' = FALSE
  /\ power' = [power EXCEPT
       !.count = @ - (IF running THEN 1 ELSE 0) - (IF Usb3 THEN 1 ELSE 0),
       !.counted = @ \ {"net"},
       !.wakeup = @ /\ power.count > (IF running THEN 1 ELSE 0) + (IF Usb3 THEN 1 ELSE 0)]
  /\ hub' = "gone"
  /\ UNCHANGED <<modes, rtnl, writer, rx, usb>>

-----------------------------------------------------------------------------
Sysfs(w) ==
  \/ Write(w) \/ CheckRawIp(w) \/ CheckPassThrough(w) \/ pass_through_store(w)
  \/ Restart(w) \/ LockRawIp(w) \/ raw_ip_store(w)
  \/ qmimux_register_device(w) \/ add_mux_store(w)
  \/ qmimux_unregister_device(w) \/ synchronize_net(w) \/ del_mux_store(w)

Next ==
  \/ \E w \in Writers : Sysfs(w)
  \/ qmi_wwan_rx_fixup \/ qmimux_rx_fixup \/ RxDone
  \/ \E u \in Users : qmi_wwan_manage_power(u)
  \/ Open \/ Close \/ qmi_wwan_cdc_wdm_manage_power
  \/ \E i \in Interfaces : qmi_wwan_suspend(i) \/ qmi_wwan_resume(i)
  \/ qmi_wwan_disconnect \/ UnregisterSlaves \/ ClearMux \/ usbnet_disconnect

Spec == Init /\ [][Next]_vars

-----------------------------------------------------------------------------
(* Properties.                                                             *)

(* Every variable has its type, and the lock is held by someone who is in  *)
(* the middle of something.                                                *)
TypeOK ==
  /\ flags \subseteq Flags /\ type \in {"ether", "none"}
  /\ slaves \subseteq Ids /\ dying \subseteq Ids
  /\ running \in BOOLEAN
  /\ rtnl \in Writers \cup {"none", "net", "hub"}
  /\ writer \in [Writers ->
       [pc : {"idle", "check", "lock", "wait", "store"}, attr : Attributes,
        on : BOOLEAN, id : Ids \cup {NoId}, old : SUBSET Flags]]
  /\ rx \in [pc : {"idle", "fixup", "slave"}, rawip : BOOLEAN, net : Ids \cup {NoId}]
  /\ power \in [count : Nat, wakeup : BOOLEAN, counted : SUBSET Users,
                todo : [Users -> {"none", "on", "off"}]]
  /\ usb \in [suspended : SUBSET Interfaces, count : Nat, wdm : BOOLEAN,
              core : {"active", "suspending", "asleep", "resuming"}]
  /\ hub \in {"bound", "slaves", "flag", "usbnet", "forgotten", "gone"}
  /\ \A w \in Writers : rtnl = w => writer[w].pc \in {"wait", "store"}

AtRest == hub = "bound" /\ rtnl = "none" /\ \A w \in Writers : writer[w].pc # "store"

(* The flags say what the device is.  If pass_through is written alone,    *)
(* MUX is set while there are slaves: without it they get nothing, and the *)
(* disconnect leaves them behind.  RAWIP and the type of the device agree, *)
(* although the flags are also written without the lock.                   *)
FlagsTell ==
  AtRest => /\ ("MUX" \in flags) = (slaves # {})
            /\ ("RAWIP" \in flags) = (type = "none")

(* A packet is fixed up in the mode of the device: the mode does not change*)
(* under the tasklet, which takes no lock.                                 *)
FixedUpInMode == rx.pc # "idle" => rx.rawip = (type = "none")

(* A slave a packet was found to be for is not released before the packet  *)
(* was passed to it.                                                       *)
SlaveAlive == rx.net # NoId => rx.net \in slaves \cup dying

(* When the device is active no part of the driver is suspended, and when  *)
(* it is asleep every part is: a part that refuses undoes the others.      *)
SuspendedTogether ==
  /\ usb.core = "active" => usb.count = 0 /\ ~usb.wdm
  /\ usb.core = "asleep" => usb.count = Cardinality(Interfaces) /\ usb.wdm

=============================================================================
