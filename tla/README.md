# ZBT-Z8803BE Mega: models and proofs

TLA+ models of the router firmware in this repository and of the C programs it builds on, the
TLC runs that check them and the theorems TLAPS proves about them.

The firmware is OpenWrt plus a layer of shell scripts (`firmware/files`) and Go services
(`firmware/feeds`) for a router with two cellular modems, "4_1" and "2_1". Below that layer the
repository keeps the source of what carries a modem's traffic: the dialer `quectel-CM`
(`research/qmodem-v3.0.2`) and the kernel drivers `usbnet`, `qmi_wwan` and `xhci`
(`research/linux-6.12.74`). What can go wrong is seldom in one function: it is processes that
share lock files and a modem, threads that share two pointers, or a tasklet, a timer, a work
item and a system call that share a word of flags.

Paths are relative to the repository; scripts without a directory are in
`firmware/files/usr/lib/zbt` or `firmware/files/usr/sbin`, C files in the two directories above.

1. [The system](#1-the-system)
2. [The modules](#2-the-modules)
3. [The runs](#3-the-runs)
4. [The proofs](#4-the-proofs)
5. [Where the code disagrees with what is said of it, and other cases that fail](#5-where-the-code-disagrees-with-what-is-said-of-it-and-other-cases-that-fail)
6. [What is not modelled](#6-what-is-not-modelled)
7. [Plan](#7-plan)

## 1. The system

### 1.1 The path of the traffic

| Component | State it keeps | Operations | What is hard | What makes it correct |
|---|---|---|---|---|
| **Dialer main loop** (`main.c`, `QMIThread.c`, `udhcpc.c`) | connection status and call handle of each family, the profile's addresses, the link as it was set last, backoff and alarm, two sockets of messages | start, check, stop; call list, network state, reset and loss of the modem; signals | one message of each socket per poll; every request may be refused, unheard or cut by a signal; an alarm that each message cancels | the link follows the calls, the interface the address; every outage ends in a call; a stop leaves no call |
| **QMI transport** (`QMIThread.c`) | `s_pRequest`, `s_pResponse`, the two identifier counters, the request buffers | send with a time limit, receive, hang up | the answer comes late, for a freed buffer, for the next request, or when nobody waits | each call ends, with its own answer or none; a buffer is freed once |
| **qmi_wwan** (`qmi_wwan.c`) | mode flags, slave devices, count of users of remote wake-up, suspended parts | `raw_ip`, `pass_through`, `add_mux`, `del_mux`; fix-up of a packet; open, manage_power, suspend, resume, disconnect | one word of flags written with and without the lock; a tasklet that takes none; `rtnl_trylock` | the flags tell what the device is; no slave goes under a packet; the parts sleep together |
| **usbnet** (`usbnet.c`) | queues of reads, writes and done buffers, twelve event flags, tasklet, timer, work item, runtime power references | transmit, completions, refill, deferred work, open, stop, MTU, suspend, resume, disconnect | six contexts without a common lock, each of which schedules others | a closed or sleeping device is quiet; nothing freed is used; no refill or wake-up is lost; references balance; stop returns |
| **xHCI rings** (`xhci-ring.c`, `xhci.h`) | the transfer ring and its TDs, endpoint state flags, the command queue and its timer | submit, transfer events, unlink, completions and time-outs of stop, reset and set-dequeue commands, abort | the controller works on the ring while it is written; three flags put things off; commands that time out or cannot be allocated | both sides agree who owns a slot; nothing given back is still in use; nothing put off is forgotten |

### 1.2 The router's services

| Component | State it keeps | Operations | What is hard | What makes it correct |
|---|---|---|---|---|
| **Firmware updater** (`feeds/zbt-firmware-updater/src`) | `current.json` (one job), `<id>.bin`, lock files, all in `/tmp` | calls: info, prepare, status, discard, flash; detached workers: prepare, flash | calls are processes of their own that may be killed; workers may exist twice; `/tmp` may be full | one sysupgrade per boot; what is being flashed stays as it was validated; a late worker never revives a job |
| **Modem health and recovery** (`modem-recovery.sh`, `modem-health.sh`, `modem-watchdog`) | per slot `<slot>.state`, markers `.recovering` and `.power-off`; `action.lock`, `radio.lock`; power GPIO, USB attribute | loop of resume, ensure worker, probe, check; actions redial, USB reset, power cycle in a subshell | two watchdogs, 5G trials, operator and procd act on the same modem; a kill inside the power pulse | never two modems down at once; a modem cut by recovery gets its power back; no dialer runs into a cut; outages escalate, and not too fast |
| **Adaptive 5G selection** (`5g-adaptive.sh`, `5g-state.sh`, `qmodem-5g.sh`, `zbt-qmodem-performance-policy`) | the policy in `uci`; journal and verified selection of each slot; maintenance marker; two settings inside the modem | trial of SA or NSA, restore; policy call of the UI; pre-dial hook | two settings written one after the other; the worker may die anywhere; the modem is out of client routing meanwhile | an unverified selection is always journaled and in the end replaced |
| **QModem dial worker** (`qmodem-start.sh`, `init.d/qmodem_network`) | launch lock, per-slot lifetime lock, child PID | start, wait until armed, launch, stop, signals | procd's kill timeout against the dialer's cleanup | one dialer per slot; a stop is never lost |
| **QMI session and publication** (`qmi-session.sh`, `qmi-publish.sh`) | PID file, netifd interfaces, routes | start, normalise, publish, reconcile, cleanup | cleanup against re-publication | only the live session's data is published |
| **Speed test lease and service** (`speed-lock.sh`, `zbt-speed-sample`, `feeds/zbt-speedtest`) | lock directory with lease, saved result, cancel file | acquire, release, start, cancel, worker with deadline | two takers of one expired lease | one test at a time; every lease ends |
| **Multi-WAN runtime** (`mwan-runtime.sh`, `mwan-reconcile.sh`, `zbt-mwan-apply`, `-failback`, `-standby-ready`) | restart stamps, locks 1000-1002, mwan3's tracker status | refresh, reconcile, restart, fail back | the marker is looked at and used later | a tracker paused by mistake is resumed, one paused by a trial is not |
| **Multi-WAN preset** (`zbt-mwan-preset`) | five `uci` files | apply a preset, repair, status | five commits; custom layouts | a custom layout stays; a preset is complete or repaired |
| **AdGuard Home**, **application storage**, **Speedify** | `uci` ownership records, install locks, disks | install, enable, guard, adopt, erase, repair routes | loss of the disk while it serves DNS; exchange of a disk between scan and use | DNS works without AdGuard; only the confirmed disk is erased; one installer |
| **LAN IPv6 guard**, **TTL rules**, **Wi-Fi first boot** | ownership file, `active.nft`, stage | suppress and release, refresh and roll back, reload | restart of a service fails; kill between two steps | a user's change wins; what is loaded equals what is saved |
| **Bands, LEDs, labels, events, tether, backend check, migrations, web pages, patches, build, archives** | none that outlives a pass, or one setting | | | |

PROJECT.json lists each with its files and status, and the hazards at their lines.

### 1.3 Interactions

- A **URB** is what `usbnet` submits to `xhci`; its completion runs in the interrupt and ends in
  usbnet's done queue. `Usbnet` has the controller as "completes in any order, one at a time",
  which is what `XhciEndpoint` keeps up.
- `qmi_wwan` sits on `usbnet`: its receive fix-up runs in usbnet's tasklet, its `suspend` calls
  `usbnet_suspend`, its open goes through `usbnet_open`.
- The **dialer** talks QMI through the transport: the request of `QuectelCM` is answered,
  refused, not heard or cut, which are the outcomes `QmiCall` allows. The transport's reader
  thread writes events into the socket of the main loop.
- **procd** starts and stops the dialer through the dial worker; recovery waits until it has
  ended; the interruption in `QuectelCM` is that stop.
- **Files as locks and markers.** `radio.lock` (one per slot) keeps recovery, 5G trials, the
  policy call and the pre-dial hook apart. `action.lock` keeps the recovery actions of both
  slots apart. `<slot>.recovering` and `.power-off` carry the PID of the subshell that wrote
  them and are believed as long as that PID lives. The maintenance marker of a trial stops the
  refresh of mwan3's tracker. The speed-test lock is a directory with a lease.

## 2. The modules

| Module | Of | Variables and actions |
|---|---|---|
| `QmiCall` | what a request promises | abstract: a call begins, and ends with its own answer or none |
| `QmiTransport` | `QMIThread.c:480-700` | `pc` is the caller, `request` its message, `s_pRequest` and `s_pResponse` the shared pointers, `heap` the buffers. `ComposeQMUXMsg` to `ReturnAnswer` are the caller, `Answer`, `Indicate` and `HangUp` the reader. Implements `QmiCall` (`OwnAnswer`) |
| `QuectelCM` | `main.c`, the requests of `QMIThread.c`, `udhcpc.c` | `pc` is the request the loop makes next; `status`, `handle`, `address`, `s_link`, `iface` as in the code; `modem` is external. One action per request; `Outcome` says what became of it |
| `Usbnet` | `usbnet.c` | `pc[p]` for interrupt, tasklet, timer, work, network core and power management; queues are counts by state of URB. A step is what runs without another context being able to interfere |
| `QmiWwan` | `qmi_wwan.c` | `flags`, `type`, `slaves`, `dying`; `writer[w]` a sysfs write with the flags it has read, `rx` the fix-up, `power` the count, `usb` the suspended parts, `hub` the disconnect |
| `XhciEndpoint` | `xhci-ring.c` | `drv` is everything the driver keeps, and each handler an operator from one `drv` to the next, as each runs under `xhci->lock`; `submit` the transfer being written; `hw` and `cmdhw` the controller; `worker` the command time-out |
| `FirmwareUpdater` | `service.go`, `store.go`, `main.go` | `job` is `current.json`; `rpc` the call that holds the store's lock; `image[j]` is `<id>.bin`; `worker[p]` the detached workers, `Copies` of each. `PrepareStart`, `PrepareSave`, `PrepareSpawn` are the prepare call, and so on |
| `ModemRecovery` | `modem-recovery.sh`, `modem-health.sh`, `modem-watchdog` | `loop` is where a slot's watchdog is, `st` its `<slot>.state`, `act` the subshell of its action, `recovering` and `pulse` the markers, `worker` the procd instance. Time is the age of what the code stamps |
| `Adaptive5G` | `5g-adaptive.sh`, `5g-state.sh`, `qmodem-5g.sh`, `speed-lock.sh`, `zbt-qmodem-performance-policy`, `zbt_mwan_refresh` | `mode`, `rat` are the modem's settings, `tx` the radio transaction, `worker` the one process, `rollback` the journal, `maint` the marker, `paused` what mwan3 makes of it, `lease` the speed-test lock |
| `XhciInvariant` | | the inductive invariant of `XhciEndpoint`, and what its handlers do in the words of the proofs |
| `*_proofs` | | the theorems about the module of that name (section 4) |
| `MC*` | | the small sets and the symmetry of the runs |

Every definition that stands for code is mapped to its lines in PROJECT.json. Definitions whose
comment calls them a mutant are deliberate faults used to show that each property can fail; no
action uses them. `ghost`, `count` and `blind` hold what only the properties need.

### 2.1 What the models abstract

- *QmiTransport*: a message is whose answer it is. What both threads do under
  `cm_command_mutex` is one step; between the end of a wait and the return of the mutex the
  reader may run. The modem drops a request that is `MaxTid` (0xFFFF) requests old.
- *QuectelCM*: a request is one step, as the loop makes them one at a time. IPv6 addresses are
  not told apart, since no code compares them. QMI clients opened anew own no call (external).
  The password retry is there, PIN entry is the outcome of `requestGetSIMStatus`.
- *Usbnet*: URBs and buffers are counted. Runtime suspension only. `-EHOSTUNREACH` cannot be
  met, as nothing is submitted past `DEV_ASLEEP`; `autopm_get` in stop fails only when the
  device leaves; `local_bh_enable` in `change_mtu` runs the tasklet; the grace period of
  `unregister` ends when the handlers are idle.
- *QmiWwan*: the fix-up is reading the mode, finding the slave, passing the packet. A write of
  `flags` may be based on this read or on one from before (`Assign`), as the compiler and the
  missing lock allow.
- *XhciEndpoint*: one bulk or control endpoint, one TD for a URB, no streams, isochronous
  transfers or hub buffers. Ring expansion fails with `-ENOMEM`. The controller's events for a
  stop ("Stopped", "Stopped - Length Invalid") are left out: the driver only records them. The
  100 ms of repeated stop commands is one bit, `elapsed`.
- *FirmwareUpdater*: an image is absent, partial or the verified one. A catalogue request
  succeeds or fails. `Reboot` clears everything, as `/tmp` does.
- *ModemRecovery*: a probe has a verdict. A marker's owner is alive or not: reuse of a PID is
  not modelled.
- *Adaptive5G*: a comparison of samples comes out either way, the daily budget allows or refuses
  a round at any time. The worker renews its own lease in time; that of a dead holder expires.
  A reboot is an initial state: `Boots` says what the modem had stored.

## 3. The runs

Distinct states are in parentheses.

| Run | Instance | What it shows |
|---|---|---|
| `qmi_transport` (93,469) | 2 identifiers, 3 requests of each kind | identifiers wrap while answers are late, lost or reordered: `OwnAnswer` (refinement of `QmiCall`), `PendingIsLive`, `AnsweredIsFreed`, `CallReturns` |
| `dialer_calls` (1,133,331) | both families, two addresses, one failed request, one change of the network, an interruption | `LinkHasCall`, `InterfaceCurrent`, `HungUp`, `Connects`, `StopEnds` |
| `dialer_stop` | one family, a reset, an interruption | `StopHonoured` fails, see 5.1 |
| `usbnet_contexts` (477,971) | queues of one URB, batch of one; a suspension, a fault with its repair, a link change, or an MTU change, with an open and a close | `AsleepQuiet`, `QuietAfterStop`, `FreedUnused`, `PmBalanced`, `TrafficCovered`, `StopReturns` |
| `qmi_modes` (1,036,310) | two writers, two mux ids, two interfaces | `FlagsTell`, `FixedUpInMode`, `SlaveAlive`, `SuspendedTogether` |
| `xhci_cancel` (1,213,247) | two URBs of two TRBs, two segments of four slots; a failed allocation, or two time-outs and a silent stop | `RingAgrees`, `GivenBackUnused`, `DequeueSetWhileStopped`, `Covered`, `OutcomesAreOwn` |
| `updater_faults` (299,779) | two jobs, writes fail, kills | `SingleLaunch`, `FlashIsolated`, `WriterKeepsImage` |
| `recovery_slots` (1,385,976) | two slots, redial, kills | `OneTeardown` |
| `recovery_power` (610,956) | one slot, ladder up to the power cycle, GPIO and USB writes without effect, operator, RX errors, kills | `PulseOwned`, `NothingDialing` |
| `recovery_progress` (276,504) | one slot, fairness, kills, switches changed | `PulseRestored`, `Escalates` |
| `adaptive_trial` (3,791,860) | one modem with any settings at boot, a kill, another test, a policy edit and a network type set behind the lock | `JournalCovers`, `MaintCovered`, `VerifiedReached` |
| `adaptive_resume` (102,428) | one modem, fairness, a kill, the UI removes journal and marker | `TrialEnds` |

Deadlock is checked in all but four: `QuectelCM` ends (exit), an unplugged device of `QmiWwan`
and a freed one of `Usbnet` are gone, and a host controller that died or a ring full of no-ops
stops `XhciEndpoint`.

### 3.1 The properties

- `OwnAnswer`: only service and identifier keep a late answer apart from the one waited for, and
  identifiers wrap; it is stated as the refinement of `QmiCall`. `PendingIsLive`,
  `AnsweredIsFreed`: the reader frees what the caller allocated, after the caller has gone.
- `LinkHasCall`: two statuses, found by requests that fail one by one, decide the link.
  `InterfaceCurrent`: the comparison of the addresses overwrites what it compares. `HungUp`: the
  stop comes in the middle of any request. `Connects`: the only thing that brings a call back is
  an alarm that every message cancels. `StopEnds`: a stop behind other messages.
- `AsleepQuiet`, `QuietAfterStop`, `FreedUnused`: tasklet, timer, work and completions schedule
  one another, so that killing each once is not enough. `TrafficCovered`: whoever clears the
  obstacle must schedule the tasklet. `PmBalanced`: references on every error path.
- `FlagsTell`, `FixedUpInMode`: modes change under a tasklet without a lock, by a check before
  the lock and one behind it. `SlaveAlive`: lookup and use of a slave. `SuspendedTogether`: one
  of three parts refuses.
- `RingAgrees`: the slots the controller may take are exactly those of queued transfers, across
  links and toggles. `GivenBackUnused`: a URB is given back only when the controller cannot
  reach its TRBs. `DequeueSetWhileStopped`, `Covered`: each flag that puts off a doorbell or a
  cancellation is cleared by something that then does it. `OutcomesAreOwn`: a completion event
  for a transfer that is being cancelled is not taken for that of another.
- `SingleLaunch`, `FlashIsolated`, `WriterKeepsImage`: duplicate workers, killed calls and a
  sysupgrade that comes back with an error meet the same saved job.
- `OneTeardown`: `action.lock` is per router and `radio.lock` per slot, and a kill releases them
  while the modem is down. `PulseOwned`, `PulseRestored`, `NothingDialing`: between the marker,
  the cut and the read-back anything may be killed. `Escalates`: attempts are given back and
  reduced modulo the ladder, and must reach the power cycle again and again.
- `JournalCovers`, `MaintCovered`, `VerifiedReached`, `TrialEnds`: what is left in `/tmp` at any
  kill is enough to go back.

### 3.2 Bounds

- *qmi_transport*: three requests over two identifiers reuse an identifier while the older
  request may still be unanswered. The proofs have no bound.
- *dialer_calls*: one fault and one change meet every request and every event; `LinkHasCall` and
  `InterfaceCurrent` were also explored with four faults and two changes (9.9 million states),
  and are proved. `MaxQueued` bounds only how many messages the alarm may add.
- *usbnet_contexts*: queues of one make "empty" and "full" neighbours. Each budget is one kind of
  disturbance; mixed budgets were explored by hand (9.9 million states). Traffic pauses while a
  completed buffer waits (`MaxDone`), which leaves every order of contexts. `OpenRaces` leaves
  out one case that fails (5.2). The proofs have none of these bounds.
- *qmi_modes*: two writers, as every conflict is between a pair. `Overlap = FALSE` assumes that
  nobody writes `pass_through` together with another attribute (5.2).
- *xhci_cancel*: two transfers of two TRBs in two segments of three usable slots cross links and
  both toggles. Transfers of one and two TRBs were explored by hand (2.6 million states). The
  two cases are alternatives, as the driver repairs one failure at a time; `StallPasts` and
  `HaltRaces` leave out two cases that fail (5.2).
- *updater_faults*: only the current job is saved, so a third meets the guards of the second.
  Two copies of a worker are covered by the proofs, where storage does not fail (5.2).
- *recovery*: two slots are all the router has. Where slots meet only in locks, one is enough.
  Thresholds of one, ages up to the largest window; `MaxCycles` bounds a counter that limits
  nothing (5.2).
- *adaptive*: one slot, as one worker serves one at a time. One kill: every kill leaves a state
  that one kill reaches. `MaxTests` is 0 under fairness, since tests that alternate for ever
  could keep the worker from the lease, which the code does not exclude either.

### 3.3 Fairness

- *QmiTransport*: the caller runs and its wait ends; `pthread_cond_timedwait` has a deadline of
  30 s (120 s for a data call). Nothing is assumed of the modem or the reader.
- *QuectelCM*: the loop runs, as each request returns (above); time passes; the modem gets ready
  and attaches. `Connects` needs the last two, and faults and changes that end.
- *Usbnet*: the kernel runs what is scheduled; a handler or a call that began goes on; an
  unlinked URB completes (strong, as another completion may be under way), which
  `usb_unlink_urb` promises; a device somebody holds is resumed. Nothing says that traffic comes.
- *Recovery*: loop, subshell and procd run (weak). procd respawns a watchdog for ever
  (`respawn 10 5 0`), and one that is killed again and again still gets through its first two
  steps again and again (strong, on `Resume` and `Ensure`). A trial ends by its time-outs.
- *Adaptive*: whoever holds `radio.lock` goes on; procd starts the worker again; a speed test
  ends by its deadline. The AT port and mwan3 may fail any number of times but not for ever
  (strong, on the step that succeeds). The worker gets its turn for the lease again and again.

## 4. The proofs

Every theorem holds for all values of the constants under the named assumptions of its module,
which TLC evaluates in the runs. Each follows from an inductive invariant, one lemma per action
or per group of actions that disturb the same parts.

**QmiTransport_proofs** (`TypeCorrect`, `PointerLive`, `BufferFreed`, `AnswersAreOwn`).
`OwnAnswer` depends on identifiers being fresh although they wrap. `NumberedInv` says which
identifier a request carries: the counter, set back by the request's age modulo `MaxTid`; so of
the requests the modem still answers none but the last has its identifier. `CallInv` and
`WaitInv` say what the two pointers may be at each point of the call. `AnswersAreOwn` then maps
each step to a step of `QmiCall` or a stutter.

**QuectelCM_proofs** (`TypeCorrect`, `LinkFollowsCalls`, `InterfaceFollows`, `LeavesNoCall`).
`LinkInv`: only a check sets the link, from the statuses it has just found, and says at each of
its requests what they are. `FirstInv`: before the first check nothing makes the loop dial.
`AddressInv`: hence a status becomes connected only with a handle in hand, and an address that
was not compared with the interface's never meets a link that is up. `HungInv`: while nothing
fails, a call that is up is one the statuses know. Steps that touch none of these share the
lemma `CalmStep`.

**QmiWwan_proofs** (`TypeCorrect`, `SlavesAlive`, `PartsTogether`, `FixUps`, `FlagsAreTrue`).
The last two assume `~Overlap`. Who holds rtnl is exactly the writer past its lock, and what it
read of `flags` is still so, as nobody else writes them; the mode changes only while the
interface is down, and the tasklet runs only while it is up. `SlavesAlive` and `PartsTogether`
need neither.

**FirmwareUpdater_proofs** (`Inductive`, `TypeCorrect`, `OneLaunch`, `FlashedImageKept`,
`KeepAllowed`, `PhasesForward`, `WriterSafe`).
That the image stays when sysupgrade runs depends on what every other process still intends: a
worker past its lock step holds its lock (`LockInv`); an ID that was never generated has no
worker (`FreshInv`); what a call has checked is still so when it saves (`RpcInv`); a job whose
flash was started is `flashing` or `error` (`JobInv`); a prepare worker that may still save runs
before the job was ready (`PrepareInv`); a flash worker that may launch has the current job and
no launch before it (`FlashInv`). For `WriterSafe` the same has to be known of jobs that are no
longer the saved one: a job with a flash worker has no prepare worker left that writes
(`PairInv`).

**ModemRecovery_proofs** (`Inductive`, `TypeCorrect`, `OneModemDown`, `CutPowerOwned`,
`NoDialerInCut`, `TeardownsSpaced`). Who holds the two locks is exactly whose subshell is past
taking them (`LockInv`); hence only the action itself changes the markers of a live action
(`MarkerInv`); hence a dial worker that was seen gone stays in its waiting room until the action
restored what it cut (`CutInv`, `QuietInv`). `HighInv`: when the marker goes the power is back.
`SpaceInv`: the time since the last teardown is never less than what `<slot>.state` says.

**Adaptive5G_proofs** (`Inductive`, `TypeCorrect`, `CandidateJournaled`, `MarkerJournaled`,
`VerifiedByReach`). `Held`: `radio.lock` is the worker's exactly while it is at work on the
slot, and a transaction belongs to the lock's holder. `Known`: what a transaction read of the
mode is still so. `Stored`: the selection about to be recorded is the stored one and reached the
Internet. `Journaled`: the journal is there before its candidate is written and until another
selection is verified.

**Usbnet_proofs** (`TypeCorrect`, `ReferencesBalance`, `SleepsQuietly`, `TrafficGoesOn`,
`DrainsForGood`, and with `OpenRaces = {FALSE}` `ClosesQuietly` and `FreesUnused`). What a
context may still do depends on where stop and suspend are. `NetInv`, `OwedInv`, `AwakeInv` and
`SleepInv` tie the interface, the references of a stop, the wakefulness they give and
`DEV_ASLEEP` to those two; under the flags they set nothing new is submitted, so a queue that
was waited for stays empty (`DrainInv`), and each kill is final for what the kills before it
have silenced (`KilledInv`, which needs the hypothesis on opens). That no put takes a count
below zero (`UsageStep`) needs all of them and `PutInv`: a completed write is counted until its
handler ends. `KickInv` and `TrafficInv` follow the handoffs: whoever leaves a buffer behind or
the queue short leaves another run of `usbnet_bh` to come. Looking for `KilledInv` showed the
failed open of 5.2, which the bounds of the run had hidden.

**XhciEndpoint_proofs** (`TypeCorrect`, `FlagsHaveCommands`; for `drv.log = {}`, that is, as
long as no command has timed out or failed to be allocated, `CancelledNotForgotten` and
`DequeueSafe`; and for `drv.log = {}` and `StallPasts`, `HaltRaces` = `{FALSE}`, `RingInStep`,
`GivenBackIsUnused`, `NothingForgotten` and, for the steps, `OutcomeIsOwn` and
`OutcomesWhenClean`). The definitions of the invariant are in `XhciInvariant`. A handler is an
operator on `drv`, so there is a lemma for what each returns: its type, and its effect on the
commands, the flags and the doorbell (`Effect`, `Moved`).

`CountInv`: the completions on their way are among the commands the controller has counted.
`PairInv`: until a time-out the listed commands and the flags are the same thing, one for one.
`WaitInv`: a completion deals with all that is cancelled, so at its end either Set TR Dequeue
Pointer is pending or everything cancelled is given back. `DeqInv` adds the controller: a reset
that is still to be obeyed finds the endpoint halted; from the moment a stop or reset has been
obeyed until the list is empty the endpoint is stopped and its doorbell silent (`Parked`); a
halt the driver has not read of lasts (`HaltLasts`), and is reported before the completion of
the reset that ends it (`HaltsBefore`). TLC checks `PairInv`, `CountInv` and `DeqInv` on the
instance of the run, also with `HaltRaces = {TRUE}`.

`OrderInv` is about the ring. Which slots the controller owns depends on cycle bits that both
sides write, and none of the properties of the ring is inductive: each needs the order of
everything on it. So each place is given by its distance behind the enqueue pointer (`Back`),
where writing a slot adds one to all and the other steps only lower their own. `RingInv` says
that the cycle bit of a slot is what its lap calls for (`Cycled`); that the enqueue pointer does
not run into the dequeue pointer (`Roomy`); that the listed transfers lie between the two in the
order of `td_list` (`Placed`), the controller among them (`Placed_hw`), with nothing before it
that is not theirs (`Slotted`, `Held`); where a pending Set TR Dequeue Pointer or reset will take
it (`Setting`, `Cancels`, `Resetting`); that the events still to come are of listed transfers,
in the order of the ring, but for the second event of a short one (`Reported`); and that a
transfer the controller has passed has an event that completes it (`Awaited`). `Signalled` is
the order of the events among themselves: a halt has one, nothing but a failed stop comes before
the event of a transfer. `Rung`: a stopped endpoint with transfers and nothing pending has been
told to run, unless the one being written will do so; from it, and from where a hard reset finds
the controller, follows `DoorbellRung`. `OrderedInv` joins these to the others. What carries the
order over a submission is the spare slot `xhci_ring_expansion_needed` keeps, which is also why
the second event of a short transfer never falls into a new one.

The two hypotheses are what the run has in `Xhci_cancel.cfg`; each is needed: `StallPasts =
{TRUE}` violates `Covered`, and with `HaltRaces = {TRUE}` the lost cancellation also leaves the
order of the ring (5.2). With more than one failed allocation `DequeueSetWhileStopped` is false
(5.2). How these properties fare after a failed allocation or a time-out only the run shows.
Lists are cut with `Kept`, a composition with the increasing enumeration of the indices that
stay, since what `SelectSeq` computes is a recursive definition; that every finite set of
numbers has such an enumeration is proved by the least counterexample.

Theorems whose property no run checks (`KeepAllowed`, `PhasesForward`, `TeardownsSpaced`,
`DrainsForGood`, the three type theorems of the services) are stated in their modules and proved all the same.

Checked and not proved: of `XhciEndpoint`, `RingAgrees`, `GivenBackUnused`, `Covered`,
`OutcomesAreOwn` and `DequeueSetWhileStopped` once a command has failed to be allocated or timed
out; and all liveness (`CallReturns`, `Connects`, `StopEnds`, `StopReturns`, `PulseRestored`,
`Escalates`, `TrialEnds`), which is out of the prover's reach.

## 5. Where the code disagrees with what is said of it, and other cases that fail

### 5.1 With a run

`dialer_stop`: SIGINT clears `g_donot_exit_when_modem_hangup` and queues `SIG_EVENT_STOP`
(`main.c:232-234`). If a reset of the modem is served first it sets the flag again and leaves
the loop (`main.c:667`); the sockets are closed with the stop in them and `main` starts the
dialer anew. The usage text promises to hang up on SIGINT (`main.c:249`). A stop that arrives
between two lives of the dialer is lost in the same way.

### 5.2 Without a run

*Dialer.*
- A check that finds no call up and does not hear of a family leaves the link as it is
  (`main.c:593-603`, "unknown" at 37-39), with the address of a call that may be gone. When the
  family is dialled again `usbnet_link_change` returns for an equal link and the old address
  stays on the interface. `blind` marks that case, which `LinkHasCall` and `InterfaceCurrent`
  except.
- `requestGetProfile` reads `pResponse` when there is no answer and dies (`QMIThread.c:2187`).
- A set-up that is cut leaves a call without a handle, and a failed deactivation leaves the call:
  hence the premise of `HungUp`.
- `while (qmierr == QMI_ERR_OP_DEVICE_UNSUPPORTED)` (`main.c:370`) never looks at a stop.

*Drivers.*
- `pass_through_store` takes no lock (`qmi_wwan.c:488-518`): together with `raw_ip` it may end
  with pass-through on an Ethernet device, and together with `add_mux` a bit of the flags is
  lost. `Overlap = TRUE` has it and violates `FlagsTell`.
- A disconnect whose `rtnl_trylock` fails returns without a teardown (`qmi_wwan.c:1587-1591`),
  though nobody calls it again. A slave added between the unlock and the clearing of MUX stays
  (`1597-1598`).
- The user that counted last may write `needs_remote_wakeup` first (`qmi_wwan.c:654-673`): it
  then ends 0 with a user counted.
- A cdc-wdm resume that fails leaves usbnet suspended (`qmi_wwan.c:910-927`).
- An open that fails kills nothing (`usbnet.c:969-975`). Reads that an earlier stop gave up leave
  `RX_MEMORY` behind; a link change then starts the work, which schedules the tasklet of an
  interface that counts as running while it is opened. If the open fails, the tasklet is
  scheduled on a closed interface, and a disconnect, which kills the tasklet only by way of
  stop, frees the device under it (`OpenRaces = {TRUE}` violates `QuietAfterStop` and
  `FreedUnused`; it takes an open, a stop, a fault, a link change and the failing open).
- A write deferred while the device slept is put in the queue with whatever its state field
  holds (`usbnet.c:1965`); if that reads "unlinked" a stop may skip it and wait for it
  (`Leftovers` with "stale").
- An endpoint that stalls with the dequeue pointer past the TD: nothing moves it or rings the
  doorbell (`xhci-ring.c:998-1003`; `StallPasts = {TRUE}` violates `Covered`). An endpoint that
  halts while a failed stop waits for its retry loses the cancellation (`2266-2268`,
  `HaltRaces`). If the command of that retry cannot be allocated, the cancelled TD stays until
  the next unlink. An aborted command that completed meanwhile aborts the next one.
- An endpoint halts and its reset cannot be allocated, so that `EP_HALTED` stays clear; the
  transfer is unlinked, the stop fails on the halted endpoint, and the second attempt at a reset
  cannot be allocated either. The handler then breaks out and queues Set TR Dequeue Pointer for
  an endpoint that is halted (`xhci-ring.c:1174-1178`, `1227`): two failed allocations violate
  `DequeueSetWhileStopped`, one does not, which is why the run allows one and the theorem none.

*Services.*
- The prepare worker looks whether its job is current, then creates the image; a discard between
  the two leaves the image in RAM until reboot (`service.go:361`, `373`).
- A confirmed flash whose process dies before `FlashStarted` can neither be resumed nor
  discarded, though the refusal says "resume or discard it first" (`service.go:184`, `230`).
- A duplicate prepare worker that cannot open `<id>.worker.lock` fails the job without the lock
  and removes the image another worker streams (`service.go:331`), against the comment at 328.
- The operator's power-off during the wait for the old dialer is reversed by the pulse
  (`modem-recovery.sh:120`), though "an unmarked manual power-off is not reversed"
  (`modem-health-recovery.md:60`).
- After the first attempt the cooldown of 180 s is replaced by `redial_verify_seconds` also
  after a USB reset or a power cycle (`modem-recovery.sh:215`; `modem-health-recovery.md:41`).
- The counter of actions in an hour limits nothing (`modem-recovery.sh:224`, `248`), though
  `modem-health-recovery.md:42` promises a limit.
- Growing RX errors choose the USB reset first (`modem-recovery.sh:231`), against the order of
  `modem-health-recovery.md:46-47`. An attempt that finds the modem online again is counted
  (`:45`). A procd that does not answer is taken for "no worker" (`:68-71`), which is the
  premise of `NothingDialing`.
- A kill between the `mkdir` and the lease leaves a lock that never expires
  (`speed-lock.sh:10-19`; `KillBare`).
- The journal does not hold the network types: a trial of NSA that wrote only those is restored
  to automatic with `LTE:NR5G` (`qmodem-5g.sh:93`).
- The data budget of trials is a window that starts again at its first use after a day
  (`5g-adaptive.sh:211`), not the rolling 24 hours of `docs/adaptive-5g-and-failback.md:106`.
- After a failed restore the modem rejoins routing with the candidate set
  (`5g-adaptive.sh:241`), against `README.md:530`; so may the refresh of mwan3 that saw no marker
  (`mwan-runtime.sh:36`, `52`).
- The remove branch of the tether hotplug script is unreachable (`15-zbt-rndis-auto:13-14`).

`DiscardRemovesImage`, `BlockedJobCanBeDiscarded`, `ManualOffKept`, `LeaseRecovers` and
`RestoredSelection` state five of these in their modules, for a reader who wants the trace.

## 6. What is not modelled

- Of the dialer: the MBIM and AT request tables, QoS, the loopback state, FCC authentication,
  PIN entry beyond its outcome, and the compile-time options.
- Of usbnet: the status URB, system sleep, paused reads, statistics, ethtool. Of qmi_wwan:
  transmission through a slave, headers, MAC addresses, the device table. Of xhci: isochronous
  transfers, streams, ring expansion, slot and port events, the event ring's own wrap. The host
  of `xhci-debugfs.c` only prints.
- The dial worker, session and publication scripts, the speed-test service, reconciliation,
  presets, AdGuard, Speedify, guards and rules: see the plan.
- Web pages, wrappers and templates: their calls are the calls of the modelled services.
- The catalogue, the parsing of AT answers, bands and LEDs: functions of their input.
- Migrations run alone at first boot; what they leave is an initial state.
- Patches of programs whose source is not here, and build, release and host tools.

## 7. Plan

1. `XhciEndpoint` after a lost command: which parts of `OrderedInv` outlast one failed
   allocation, and a time-out. Then streams.
2. `QmodemWorker`: the two locks, child PID and signals of `qmodem-start.sh`, with procd's kill
   timeout. *One dialer per slot; a stop is never lost.* It refines the worker of
   `ModemRecovery` and composes with `QuectelCM`.
3. `SpeedLease`: both implementations of the lease against an abstract lock with one holder.
4. `LanIpv6Guard` and `Ttl`: *a user's change wins; what was switched off comes back.*
5. `AdGuard` with application storage; `MwanReconcile`, `MwanPublish`, `MwanPreset`.

Further hazards met while reading, beyond the list in PROJECT.json:

- `usbnet.c`: `rx_submit` reads `rx_urb_size` before `change_mtu` changes it, so one read has a
  short buffer; an `autopm_get` that fails in stop with a deferred packet leaves a write behind;
  a link that was up before the open is not shown.
- `xhci-ring.c`: an aborted reset or set-dequeue loses its handler; a hard reset followed by a
  failed allocation rings no doorbell.
- `qmi_wwan.c`: bind keeps `pmcount` after a failed register.
- `modem-recovery.sh:170`: a marker is owned by a PID; after PID reuse the pulse is never
  restored. `:150`, `:249`, `:79`, `:45`: state written after the action it describes.
- `service.go:545`, `:284`, `:373`, `:250`, `:271`: saves that follow what they announce.
- `5g-adaptive.sh:224`, `:241`; `qmodem-5g.sh:117`; `speed-lock.sh:14`, `:19`;
  `mwan-runtime.sh:36`: checks and uses with other processes between.
- `zbt-lan-ipv6-guard:77`, `:81`, `:102`: killed between saved state and commit; odhcpd fails to
  restart after the commit; the state is cleared before the restart.
- `zbt-qmodem-ttl:55`, `:59`: killed before the reload; rollback of file and settings one by one.
- `zbt-mwan-preset:97`, `:228`: the repair of a custom layout removes interfaces by the names of
  the shipped ones; five commits, any of which ends the script.
- `zbt-mwan-apply:35`: the lock is dropped before mwan3 is restarted.
- `qmodem-start.sh:74`, `:90`, `:104`: the launch lock is waited for 60 s; procd kills the worker
  while its dialer cleans up; a stop between fork and the assignment of the PID.
- `qmi-session.sh:125`, `:146`; `qmi-publish.sh:194`: PID file after the child; ownership checked
  before a wait of 10 s.
- `adguard.sh:111`, `:132`, `:305`; `zbt-adguard-install:50`: DNS restored behind a set-up that
  still runs; a port another owner has set.
- `app-storage.sh:366`, `:400`: the disk exchanged between scan and erase; two files committed.
- `speedify-installer-loop:243`: two installers from an empty PID file.
- `main.go:149`, `:308`, `:641` of the speed test: two starters of one expired lease; a run
  removed while it saves its result.
- `15-zbt-rndis-auto:14`, `zbt-wifi-firstboot:47`, `:104`: see the lines.
