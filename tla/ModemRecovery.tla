---------------------------- MODULE ModemRecovery ----------------------------
(***************************************************************************)
(* Recovery of the two modems: one modem-watchdog process per slot loops    *)
(* over resume, ensure-worker, probe and check; a check may run one         *)
(* recovery action in a subshell (modem-recovery.sh).  The two loops share  *)
(* action.lock; each slot's radio.lock is shared with the 5G trials; the    *)
(* action, the slot's procd dial worker and its readers meet in the marker  *)
(* files <slot>.recovering and <slot>.power-off, which hold the PID of the  *)
(* subshell that wrote them.                                                *)
(*                                                                          *)
(* Time is the age of what the code stamps, capped where nothing compares   *)
(* beyond it; Tick lets it pass between any two steps.  Probing, RX-counter *)
(* baselines and USB enumeration are reduced to their verdict.  A marker's  *)
(* PID is live or stale: that a PID is reused by another process is not     *)
(* modelled.                                                                *)
(***************************************************************************)

EXTENDS Integers, FiniteSets

CONSTANTS Slots,          \* "4_1" and "2_1"
          Action,         \* modem_watchdog.<modem>.action
          Limit,          \* redial_attempts
          Threshold,      \* ping_fail_threshold
          GoodNeeded,     \* 3 successful observations clear a streak
          Cooldown,       \* cooldown_seconds, in ticks
          Verify,         \* redial_verify_seconds, in ticks
          Grace,          \* boot_grace_seconds, in ticks
          Hour,           \* the 3600 s window of the cycle counter, in ticks
          MaxCycles,      \* bound: the counter of the window stops here
          RxErrors,       \* TRUE: RX errors may grow by 100 between two checks
          Faults,         \* TRUE: a GPIO or USB write may have no effect, procd
                          \* may not answer, the probe may have no verdict
          Kills,          \* TRUE: the subshell or the watchdog may be killed
          Admin,          \* TRUE: the switches are changed while it runs
          Manual          \* TRUE: the operator switches modem power by hand

Actions == {"redial", "usb_reset", "power_cycle", "disconnect"}

ASSUME RecoveryAssumption ==
  /\ Action \in Actions
  /\ Limit \in Nat /\ Threshold \in Nat \ {0} /\ GoodNeeded \in Nat \ {0}
  /\ Cooldown \in Nat /\ Verify \in Nat /\ Verify <= Cooldown
  /\ Grace \in Nat /\ Hour \in Nat /\ MaxCycles \in Nat
  /\ {RxErrors, Faults, Kills, Admin, Manual} \subseteq BOOLEAN

VARIABLES up,          \* uptime, capped at UpCap
          dial,        \* per slot: qmodem.main and qmodem.<slot> enable_dial
          recov,       \* per slot: the modem_watchdog switches
          gpio,        \* per slot: modem power
          usb,         \* per slot: the USB device's authorized attribute
          worker,      \* per slot: the procd instance modem_<slot>
          session,     \* per slot: the Internet is reachable through the modem
          qmiLost,     \* per slot: <slot>.qmi-lost
          radio,       \* per slot: the holder of radio.lock
          actionLock,  \* the slots whose subshell holds action.lock
          recovering,  \* per slot: <slot>.recovering
          pulse,       \* per slot: <slot>.power-off
          loop,        \* per slot: the watchdog's next step, its last probe
          st,          \* per slot: <slot>.state
          act,         \* per slot: the recovery subshell
          ghost        \* per slot: what the properties remember

modem == <<gpio, usb, worker, session, qmiLost>>
locks == <<radio, actionLock>>
files == <<recovering, pulse, st>>
admin == <<dial, recov>>
vars  == <<up, admin, modem, locks, files, loop, act, ghost>>

Markers == {"none", "live", "stale"}
Torn    == {"pid", "hang", "wait", "authorized", "usbOff", "usbOn", "mark", "low", "high", "unmark",
            "restart"}
Finish  == {"finishPower", "finishMarker", "finishEnd"}

UpCap == IF Hour > Grace THEN Hour ELSE Grace

\* Enough residues of the attempt counter for both ladders (modulo 2, Limit + 2);
\* only the power_cycle action has a ladder.
Period == IF Action # "power_cycle" THEN 1
          ELSE IF RxErrors THEN 2 * (Limit + 2) ELSE Limit + 2

StateType == [fails : 0..Threshold, good : 0..GoodNeeded, since : 0..Cooldown,
              attempts : 0..Period, age : 0..Hour, cycles : 0..MaxCycles]

LoopType == [at : {"resume", "ensure", "probe", "check", "act", "dead"},
             health : {"online", "offline", "unknown", "disabled"}]

ActSteps == {"none", "lock", "probe", "dial", "done"} \cup Torn \cup Finish

ActType == [at : ActSteps,
            action : Actions, pid : {"none", "some", "unheard"}, off : BOOLEAN, deauth : BOOLEAN,
            result : {"ok", "failed", "busy"}, fails : 0..Threshold, since : 0..Cooldown,
            attempts : 0..Period, cycles : 0..MaxCycles]

GhostType == [ago : 0..Cooldown, last : Actions \cup {"none"}, forgot : BOOLEAN,
              manual : {"no", "marked", "unmarked"}]

TypeOK ==
  /\ up \in 0..UpCap
  /\ dial \in [Slots -> BOOLEAN] /\ recov \in [Slots -> BOOLEAN]
  /\ gpio \in [Slots -> {0, 1}] /\ usb \in [Slots -> {0, 1}]
  /\ worker \in [Slots -> {"none", "waiting", "committed", "dialing", "stopping"}]
  /\ session \in [Slots -> BOOLEAN] /\ qmiLost \in [Slots -> BOOLEAN]
  /\ radio \in [Slots -> {"free", "recovery", "trial"}]
  /\ actionLock \subseteq Slots
  /\ recovering \in [Slots -> Markers] /\ pulse \in [Slots -> Markers]
  /\ loop \in [Slots -> LoopType]
  /\ st \in [Slots -> StateType]
  /\ act \in [Slots -> ActType]
  /\ ghost \in [Slots -> GhostType]

\* No <slot>.state: last=0 is "never", window=0 is the boot.
NoState == [fails |-> 0, good |-> 0, since |-> Cooldown, attempts |-> 0,
            age |-> IF up < Hour THEN up ELSE Hour, cycles |-> 0]
NoAct   == [at |-> "none", action |-> Action, pid |-> "none", off |-> FALSE, deauth |-> FALSE, result |-> "ok",
            fails |-> 0, since |-> 0, attempts |-> 0, cycles |-> 0]

Init ==
  /\ up = 0
  /\ dial = [s \in Slots |-> TRUE] /\ recov = [s \in Slots |-> TRUE]
  /\ gpio = [s \in Slots |-> 1] /\ usb = [s \in Slots |-> 1]
  /\ worker = [s \in Slots |-> "waiting"]
  /\ session = [s \in Slots |-> FALSE] /\ qmiLost = [s \in Slots |-> FALSE]
  /\ radio = [s \in Slots |-> "free"] /\ actionLock = {}
  /\ recovering = [s \in Slots |-> "none"] /\ pulse = [s \in Slots |-> "none"]
  /\ loop = [s \in Slots |-> [at |-> "resume", health |-> "offline"]]
  /\ st = [s \in Slots |-> [NoState EXCEPT !.age = 0]]
  /\ act = [s \in Slots |-> NoAct]
  /\ ghost = [s \in Slots |-> [ago |-> Cooldown, last |-> "none", forgot |-> FALSE, manual |-> "no"]]

-----------------------------------------------------------------------------
(* Who may act                                                              *)

\* zbt_modem_enabled: powered, and QModem may dial.
Enabled(s) == gpio[s] # 0 /\ dial[s]

\* zbt_recovery_authorized ignores power, zbt_recovery_allowed does not.
Authorized(s) == dial[s] /\ recov[s]
Allowed(s)    == Authorized(s) /\ Enabled(s)

\* zbt_qmodem_recovery_busy: the marker's owner is alive.
RecoveryBusy(s) == recovering[s] = "live"

Connected(s) == gpio[s] = 1 /\ usb[s] = 1

\* The verdicts zbt_health_probe may reach; "unknown" without the socket wrapper.
Verdicts(s) ==
  IF ~Enabled(s) THEN {"disabled"}
  ELSE IF session[s] THEN {"online"}
  ELSE {"offline"} \cup (IF Faults THEN {"unknown"} ELSE {})

\* A write to the power GPIO; USB enumerates again after a cycle.
Power(s, v) ==
  /\ gpio' = [gpio EXCEPT ![s] = v]
  /\ usb' = [usb EXCEPT ![s] = IF gpio[s] = 0 /\ v = 1 THEN 1 ELSE usb[s]]
  /\ session' = [session EXCEPT ![s] = session[s] /\ v = 1]

-----------------------------------------------------------------------------
(* The dial worker of a slot (procd instance and qmodem-start.sh), as far   *)
(* as recovery meets it                                                     *)

\* procd's reload trigger, LuCI: start the armed instance.
StartArmed(s) ==
  /\ dial[s] /\ worker[s] = "none"
  /\ worker' = [worker EXCEPT ![s] = "waiting"]
  /\ UNCHANGED <<up, admin, gpio, usb, session, qmiLost, locks, files, loop, act, ghost>>

\* The readiness gate: no recovery, own USB path, netdev and AT port.
WorkerReady(s) ==
  /\ worker[s] = "waiting" /\ dial[s] /\ ~RecoveryBusy(s) /\ Connected(s)
  /\ worker' = [worker EXCEPT ![s] = "committed"]
  /\ UNCHANGED <<up, admin, gpio, usb, session, qmiLost, locks, files, loop, act, ghost>>

\* Up to a minute later, with the startup lock, the dialer starts.
WorkerLaunch(s) ==
  /\ worker[s] = "committed"
  /\ worker' = [worker EXCEPT ![s] = "dialing"]
  /\ UNCHANGED <<up, admin, gpio, usb, session, qmiLost, locks, files, loop, act, ghost>>

SessionUp(s) ==
  /\ worker[s] = "dialing" /\ Connected(s) /\ ~session[s]
  /\ session' = [session EXCEPT ![s] = TRUE]
  /\ UNCHANGED <<up, admin, gpio, usb, worker, qmiLost, locks, files, loop, act, ghost>>

\* The carrier, the radio or the connection manager fails; a dead child is marked
\* (only RX errors tell the mark apart).
SessionDown(s) ==
  /\ worker[s] = "dialing"
  /\ session' = [session EXCEPT ![s] = FALSE]
  /\ \/ UNCHANGED <<worker, qmiLost>>
     \/ /\ worker' = [worker EXCEPT ![s] = "waiting"]
        /\ qmiLost' = [qmiLost EXCEPT ![s] = RxErrors]
  /\ UNCHANGED <<up, admin, gpio, usb, locks, files, loop, act, ghost>>

\* hang: procd terminates the instance; its dialer, if it has one, cleans up first.
Hang(s) ==
  /\ worker' = [worker EXCEPT ![s] = IF worker[s] \in {"none", "waiting"} THEN "none" ELSE "stopping"]
  /\ session' = [session EXCEPT ![s] = FALSE]

WorkerGone(s) ==
  /\ \/ worker[s] = "stopping"
     \/ worker[s] = "waiting" /\ ~dial[s]
  /\ worker' = [worker EXCEPT ![s] = "none"]
  /\ UNCHANGED <<up, admin, gpio, usb, session, qmiLost, locks, files, loop, act, ghost>>

\* dial: nothing to do if it runs, an error if it is not armed or still stopping.
Dial(s) ==
  worker' = [worker EXCEPT ![s] = IF dial[s] /\ worker[s] = "none" THEN "waiting" ELSE worker[s]]

Registered(s) == worker'[s] \notin {"none", "stopping"}

-----------------------------------------------------------------------------
(* The watchdog loop                                                        *)

Goto(s, step) == loop' = [loop EXCEPT ![s].at = step]

\* The next round; the last probe is forgotten.
Again(s) == loop' = [loop EXCEPT ![s] = [at |-> "resume", health |-> "offline"]]

\* Mutant: as every other step of recovery, only for a modem that is powered.
AbandonedAllowed(s) == pulse[s] = "stale" /\ Allowed(s)

Abandoned(s) == pulse[s] = "stale"

\* zbt_recovery_resume: the owner of <slot>.power-off died.
Resume(s) ==
  /\ loop[s].at = "resume"
  /\ Goto(s, "ensure")
  /\ IF Abandoned(s) /\ radio[s] = "free"
     THEN \/ /\ Power(s, 1)
             /\ pulse' = [pulse EXCEPT ![s] = "none"]
             /\ recovering' = [recovering EXCEPT ![s] = "none"]
          \/ Faults /\ UNCHANGED <<gpio, usb, session, pulse, recovering>>
     ELSE UNCHANGED <<gpio, usb, session, pulse, recovering>>
  /\ UNCHANGED <<up, admin, worker, qmiLost, locks, st, act, ghost>>

\* Mutant: a recovery marker defers the repair, whether or not its owner lives.
MissingUnmarked(s) == Enabled(s) /\ recovering[s] = "none"

Missing(s) == Enabled(s)

\* ensure_slot_worker
Ensure(s) ==
  /\ loop[s].at = "ensure"
  /\ Goto(s, "probe")
  /\ IF Missing(s) THEN Dial(s) ELSE UNCHANGED worker
  /\ UNCHANGED <<up, admin, gpio, usb, session, qmiLost, locks, files, act, ghost>>

ProbeSlot(s) ==
  /\ loop[s].at = "probe"
  /\ \E h \in Verdicts(s) : loop' = [loop EXCEPT ![s] = [at |-> "check", health |-> h]]
  /\ UNCHANGED <<up, admin, modem, locks, files, act, ghost>>

Capped(n, cap) == IF n < cap THEN n ELSE cap

\* The streaks and the window after this observation.
Observed(s) ==
  LET online == loop[s].health = "online"
      good   == IF online THEN Capped(st[s].good + 1, GoodNeeded) ELSE 0
      clear  == good >= GoodNeeded
  IN [st[s] EXCEPT
        !.good     = good,
        !.fails    = IF clear THEN 0
                     ELSE IF loop[s].health = "offline" THEN Capped(st[s].fails + 1, Threshold)
                     ELSE st[s].fails,
        !.attempts = IF clear THEN 0 ELSE st[s].attempts,
        !.age      = IF st[s].age < Hour THEN st[s].age ELSE 0,
        !.cycles   = IF st[s].age < Hour THEN st[s].cycles ELSE 0]

\* Verify applies from the first attempt of a streak on.
Due(s) ==
  /\ loop[s].health = "offline"
  /\ Observed(s).fails >= Threshold
  /\ up >= Grace
  /\ st[s].since >= (IF st[s].attempts = 0 THEN Cooldown ELSE Verify)

\* Mutant: the ladder is one rung short.
ChosenShort(attempts, rx) ==
  IF Action # "power_cycle" THEN Action
  ELSE IF rx THEN IF attempts % 2 = 0 THEN "usb_reset" ELSE "power_cycle"
  ELSE IF Limit = 0 THEN "power_cycle"
  ELSE IF attempts % (Limit + 1) < Limit THEN "redial"
  ELSE "usb_reset"

\* The ladder: redials, then a USB reset, then a power cycle, and again; growing
\* RX errors alternate USB reset and power cycle.
Chosen(attempts, rx) ==
  IF Action # "power_cycle" THEN Action
  ELSE IF rx THEN IF attempts % 2 = 0 THEN "usb_reset" ELSE "power_cycle"
  ELSE IF Limit = 0 THEN "power_cycle"
  ELSE IF attempts % (Limit + 2) < Limit THEN "redial"
  ELSE IF attempts % (Limit + 2) = Limit THEN "usb_reset"
  ELSE "power_cycle"

\* A lost QMI session overrides the RX counters.
RxGrowing(s) == IF RxErrors /\ ~qmiLost[s] THEN BOOLEAN ELSE {FALSE}

CheckDenied(s) ==
  /\ loop[s].at = "check" /\ ~Allowed(s)
  /\ Again(s)
  /\ st' = [st EXCEPT ![s] = NoState]
  /\ ghost' = [ghost EXCEPT ![s].forgot = TRUE]
  /\ UNCHANGED <<up, admin, modem, locks, recovering, pulse, act>>

CheckQuiet(s) ==
  /\ loop[s].at = "check" /\ Allowed(s)
  /\ ~Due(s) \/ radio[s] # "free"
  /\ Again(s)
  /\ st' = [st EXCEPT ![s] = Observed(s)]
  /\ qmiLost' = [qmiLost EXCEPT ![s] = qmiLost[s] /\ Observed(s).good < GoodNeeded]
  /\ UNCHANGED <<up, admin, gpio, usb, worker, session, locks, recovering, pulse, act, ghost>>

\* The attempt is saved before the action runs.
Request(s) ==
  /\ loop[s].at = "check" /\ Allowed(s) /\ Due(s) /\ radio[s] = "free"
  /\ loop' = [loop EXCEPT ![s] = [at |-> "act", health |-> "offline"]]
  /\ LET o == Observed(s) IN
       /\ \E rx \in RxGrowing(s) :
            act' = [act EXCEPT ![s] =
                      [NoAct EXCEPT !.at = "lock", !.action = Chosen(o.attempts, rx),
                                    !.fails = o.fails, !.since = o.since,
                                    !.attempts = o.attempts, !.cycles = o.cycles]]
       /\ st' = [st EXCEPT ![s] =
                   [o EXCEPT !.fails = 0, !.since = 0,
                             !.attempts = IF o.attempts = Period THEN 1 ELSE o.attempts + 1,
                             !.cycles = Capped(o.cycles + 1, MaxCycles)]]
  /\ UNCHANGED <<up, admin, modem, locks, recovering, pulse, ghost>>

\* Mutant: every result but success takes the attempt back.
GivenBackUnlessOk(s) == act[s].result # "ok"

GivenBack(s) == act[s].result = "busy"

\* Mutant: the counter is decremented from the value before the attempt.
BeforeRequestTwice(s) ==
  [st[s] EXCEPT !.fails = act[s].fails, !.since = act[s].since,
                !.attempts = act[s].attempts - 1, !.cycles = act[s].cycles]

BeforeRequest(s) ==
  [st[s] EXCEPT !.fails = act[s].fails, !.since = act[s].since,
                !.attempts = act[s].attempts, !.cycles = act[s].cycles]

\* Result 75 takes the attempt back, any other stamps its end.
Account(s) ==
  /\ loop[s].at = "act" /\ act[s].at = "done"
  /\ Again(s)
  /\ act' = [act EXCEPT ![s] = NoAct]
  /\ st' = [st EXCEPT ![s] = IF GivenBack(s) THEN BeforeRequest(s) ELSE [st[s] EXCEPT !.since = 0]]
  /\ ghost' = [ghost EXCEPT ![s].ago = IF act[s].result = "busy" THEN ghost[s].ago ELSE 0]
  /\ UNCHANGED <<up, admin, modem, locks, recovering, pulse>>

-----------------------------------------------------------------------------
(* The recovery action (a subshell)                                         *)

Step(s, step) == act' = [act EXCEPT ![s].at = step]

\* exit before the trap: the kernel drops the flocks.
Exit(s, result) ==
  /\ act' = [act EXCEPT ![s].at = "done", ![s].result = result]
  /\ radio' = [radio EXCEPT ![s] = IF radio[s] = "recovery" THEN "free" ELSE radio[s]]
  /\ actionLock' = actionLock \ {s}

\* exit once the trap is set: finish runs.
Finishing(s, result) ==
  act' = [act EXCEPT ![s].at = "finishPower", ![s].result = result]

\* Mutant: each slot looks at its own lock only.
RadioFree(s) == radio[s] = "free"

LocksFree(s) == actionLock = {} /\ radio[s] = "free"

\* action.lock is tried before radio.lock: the peer may hold it for a moment.
TakeLocks(s) ==
  /\ act[s].at = "lock"
  /\ \/ ~Allowed(s) /\ Exit(s, "failed")
     \/ /\ Allowed(s)
        /\ ~LocksFree(s) \/ \E t \in Slots \ {s} : act[t].at = "lock"
        /\ Exit(s, "busy")
     \/ /\ Allowed(s) /\ LocksFree(s)
        /\ actionLock' = actionLock \cup {s}
        /\ radio' = [radio EXCEPT ![s] = "recovery"]
        /\ Step(s, "probe")
  /\ UNCHANGED <<up, admin, modem, files, loop, ghost>>

\* Only a modem that is still offline is torn down.
ActProbe(s) ==
  /\ act[s].at = "probe"
  /\ \/ "online" \in Verdicts(s) /\ Exit(s, "ok") /\ UNCHANGED <<recovering, ghost>>
     \/ Verdicts(s) \cap {"unknown", "disabled"} # {} /\ Exit(s, "busy") /\ UNCHANGED <<recovering, ghost>>
     \/ /\ "offline" \in Verdicts(s)
        /\ Step(s, "pid")
        /\ recovering' = [recovering EXCEPT ![s] = "live"]
        /\ ghost' = [ghost EXCEPT ![s].ago = st[s].since, ![s].last = act[s].action,
                                  ![s].forgot = FALSE]
        /\ UNCHANGED locks
  /\ UNCHANGED <<up, admin, modem, pulse, st, loop>>

\* The sysfs files are checked and the PID of the slot's instance is read; no
\* answer reads as no instance.
ActPid(s) ==
  /\ act[s].at = "pid"
  /\ \/ act' = [act EXCEPT ![s].at = "hang", ![s].pid = IF worker[s] = "none" THEN "none" ELSE "some"]
     \/ Faults /\ act' = [act EXCEPT ![s].at = "hang", ![s].pid = "unheard"]
     \/ Faults /\ Finishing(s, "failed")
  /\ UNCHANGED <<up, admin, modem, locks, files, loop, ghost>>

\* The result of hang is ignored.
ActHang(s) ==
  /\ act[s].at = "hang"
  /\ Step(s, "wait")
  /\ \/ Hang(s)
     \/ Faults /\ UNCHANGED <<worker, session>>
  /\ UNCHANGED <<up, admin, gpio, usb, qmiLost, locks, files, loop, ghost>>

\* Mutant: the old worker is not waited for.
OldWorkerIgnored(s) == TRUE

\* Up to 30 s for the old worker; then nothing is cut.  procd kills it after 15 s
\* (term_timeout), so the time only runs out when procd fails.
OldWorkerGone(s) == act[s].pid # "some" \/ worker[s] \in {"none", "waiting"}

ActWait(s) ==
  /\ act[s].at = "wait"
  /\ \/ OldWorkerGone(s) /\ Step(s, "authorized")
     \/ Faults /\ act[s].pid = "some" /\ worker[s] # "none" /\ Finishing(s, "failed")
  /\ UNCHANGED <<up, admin, modem, locks, files, loop, ghost>>

ActAuthorized(s) ==
  /\ act[s].at = "authorized"
  /\ IF ~Authorized(s) THEN Finishing(s, "failed")
     ELSE CASE act[s].action = "usb_reset"   -> Step(s, "usbOff")
            [] act[s].action = "power_cycle" -> Step(s, "mark")
            [] act[s].action = "redial"      -> Step(s, "restart")
            [] act[s].action = "disconnect"  -> Finishing(s, "ok")
  /\ UNCHANGED <<up, admin, modem, locks, files, loop, ghost>>

\* Deauthorized as read back, or the network device is gone.
ActUsbOff(s) ==
  /\ act[s].at = "usbOff"
  /\ \/ /\ act' = [act EXCEPT ![s].at = "usbOn", ![s].deauth = TRUE]
        /\ usb' = [usb EXCEPT ![s] = 0]
        /\ session' = [session EXCEPT ![s] = FALSE]
     \/ /\ Faults
        /\ act' = [act EXCEPT ![s].at = "finishPower", ![s].result = "failed", ![s].deauth = TRUE]
        /\ UNCHANGED <<usb, session>>
  /\ UNCHANGED <<up, admin, gpio, worker, qmiLost, locks, files, loop, ghost>>

\* Reauthorized and enumerated, or 20 s have passed.
ActUsbOn(s) ==
  /\ act[s].at = "usbOn"
  /\ \/ usb' = [usb EXCEPT ![s] = 1]
     \/ Faults /\ UNCHANGED usb
  /\ \/ gpio[s] = 1 /\ usb'[s] = 1 /\ act' = [act EXCEPT ![s].at = "restart", ![s].deauth = FALSE]
     \/ (Faults \/ gpio[s] = 0) /\ Finishing(s, "failed")
  /\ UNCHANGED <<up, admin, gpio, session, worker, qmiLost, locks, files, loop, ghost>>

\* The marker names the owner before the power goes.
ActMark(s) ==
  /\ act[s].at = "mark"
  /\ act' = [act EXCEPT ![s].at = "low", ![s].off = TRUE]
  /\ pulse' = [pulse EXCEPT ![s] = "live"]
  /\ UNCHANGED <<up, admin, modem, locks, recovering, st, loop, ghost>>

ActLow(s) ==
  /\ act[s].at = "low"
  /\ \/ /\ Power(s, 0) /\ Step(s, "high")
        /\ ghost' = [ghost EXCEPT ![s].manual = IF gpio[s] = 1 THEN "no" ELSE ghost[s].manual]
     \/ Faults /\ Finishing(s, "failed") /\ UNCHANGED <<gpio, usb, session, ghost>>
  /\ UNCHANGED <<up, admin, worker, qmiLost, locks, files, loop>>

ActHigh(s) ==
  /\ act[s].at = "high"
  /\ \/ Power(s, 1) /\ Step(s, "unmark")
     \/ Faults /\ Finishing(s, "failed") /\ UNCHANGED <<gpio, usb, session>>
  /\ UNCHANGED <<up, admin, worker, qmiLost, locks, files, loop, ghost>>

ActUnmark(s) ==
  /\ act[s].at = "unmark"
  /\ act' = [act EXCEPT ![s].at = "restart", ![s].off = FALSE]
  /\ pulse' = [pulse EXCEPT ![s] = "none"]
  /\ UNCHANGED <<up, admin, modem, locks, recovering, st, loop, ghost>>

\* The switches are read once more before the restart.
ActRestart(s) ==
  /\ act[s].at = "restart"
  /\ IF Authorized(s)
     THEN Step(s, "dial") /\ recovering' = [recovering EXCEPT ![s] = "none"]
     ELSE Finishing(s, "failed") /\ UNCHANGED recovering
  /\ UNCHANGED <<up, admin, modem, locks, pulse, st, loop, ghost>>

\* Up to 30 dials until the worker is registered.
ActDial(s) ==
  /\ act[s].at = "dial"
  /\ Dial(s)
  /\ \/ Registered(s) /\ Finishing(s, "ok") /\ UNCHANGED recovering
     \/ /\ Faults \/ ~dial[s]
        /\ Finishing(s, "failed")
        /\ recovering' = [recovering EXCEPT ![s] = "live"]
  /\ UNCHANGED <<up, admin, gpio, usb, session, qmiLost, locks, pulse, st, loop, ghost>>

\* Mutant: the marker is removed without reading the power back.
PoweredAssumed(s) == TRUE

PoweredBack(s) == gpio[s] = 1

\* finish: whatever was cut is restored, the marker goes once power reads 1.
FinishPower(s) ==
  /\ act[s].at = "finishPower"
  /\ Step(s, "finishMarker")
  /\ \/ act[s].off /\ Power(s, 1)
     \/ /\ act[s].deauth
        /\ usb' = [usb EXCEPT ![s] = 1]
        /\ UNCHANGED <<gpio, session>>
     \/ /\ Faults \/ ~(act[s].off \/ act[s].deauth)
        /\ UNCHANGED <<gpio, usb, session>>
  /\ UNCHANGED <<up, admin, worker, qmiLost, locks, files, loop, ghost>>

FinishMarker(s) ==
  /\ act[s].at = "finishMarker"
  /\ Step(s, "finishEnd")
  /\ pulse' = [pulse EXCEPT ![s] = IF PoweredBack(s) THEN "none" ELSE pulse[s]]
  /\ UNCHANGED <<up, admin, modem, locks, recovering, st, loop, ghost>>

\* The subshell exits; a .power-off it could not clear has no live owner any more.
FinishEnd(s) ==
  /\ act[s].at = "finishEnd"
  /\ Exit(s, act[s].result)
  /\ recovering' = [recovering EXCEPT ![s] = "none"]
  /\ pulse' = [pulse EXCEPT ![s] = IF pulse[s] = "live" THEN "stale" ELSE pulse[s]]
  /\ UNCHANGED <<up, admin, modem, st, loop, ghost>>

-----------------------------------------------------------------------------
(* Signals, restarts, and everyone else                                     *)

\* INT or TERM to the subshell: exit 1, through finish.
Interrupted(s) ==
  /\ Kills /\ act[s].at \in Torn \cup {"dial"}
  /\ Finishing(s, "failed")
  /\ UNCHANGED <<up, admin, modem, locks, files, loop, ghost>>

\* SIGKILL: no finish; the markers name a dead owner.
Killed(s) ==
  /\ Kills /\ act[s].at \notin {"none", "done"}
  /\ Exit(s, "failed")
  /\ recovering' = [recovering EXCEPT ![s] = IF recovering[s] = "live" THEN "stale" ELSE recovering[s]]
  /\ pulse' = [pulse EXCEPT ![s] = IF pulse[s] = "live" THEN "stale" ELSE pulse[s]]
  /\ UNCHANGED <<up, admin, modem, st, loop, ghost>>

\* procd kills the watchdog after term_timeout; its subshell goes on and keeps
\* <slot>.worker.lock (descriptor 7) until it ends.
WatchdogKilled(s) ==
  /\ Kills /\ loop[s].at # "dead"
  /\ loop' = [loop EXCEPT ![s] = [at |-> "dead", health |-> "offline"]]
  /\ UNCHANGED <<up, admin, modem, locks, files, act, ghost>>

OrphanEnds(s) ==
  /\ loop[s].at = "dead" /\ act[s].at = "done"
  /\ act' = [act EXCEPT ![s] = NoAct]
  /\ UNCHANGED <<up, admin, modem, locks, files, loop, ghost>>

WatchdogStarts(s) ==
  /\ loop[s].at = "dead" /\ act[s].at = "none"
  /\ Goto(s, "resume")
  /\ UNCHANGED <<up, admin, modem, locks, files, act, ghost>>

\* A 5G trial or a mode change.
TrialStarts(s) ==
  /\ radio[s] = "free"
  /\ radio' = [radio EXCEPT ![s] = "trial"]
  /\ UNCHANGED <<up, admin, modem, actionLock, files, loop, act, ghost>>

TrialEnds(s) ==
  /\ radio[s] = "trial"
  /\ radio' = [radio EXCEPT ![s] = "free"]
  /\ UNCHANGED <<up, admin, modem, actionLock, files, loop, act, ghost>>

\* Disabling dial makes procd stop the instance on its reload trigger.
SetDial(s) ==
  /\ Admin
  /\ dial' = [dial EXCEPT ![s] = ~dial[s]]
  /\ IF dial[s] THEN Hang(s) ELSE UNCHANGED <<worker, session>>
  /\ UNCHANGED <<up, recov, gpio, usb, qmiLost, locks, files, loop, act, ghost>>

SetRecovery(s) ==
  /\ Admin
  /\ recov' = [recov EXCEPT ![s] = ~recov[s]]
  /\ UNCHANGED <<up, dial, modem, locks, files, loop, act, ghost>>

ManualOff(s) ==
  /\ Manual /\ gpio[s] = 1
  /\ Power(s, 0)
  /\ ghost' = [ghost EXCEPT ![s].manual = IF pulse[s] = "none" THEN "unmarked" ELSE "marked"]
  /\ UNCHANGED <<up, admin, worker, qmiLost, locks, files, loop, act>>

ManualOn(s) ==
  /\ Manual /\ gpio[s] = 0
  /\ Power(s, 1)
  /\ ghost' = [ghost EXCEPT ![s].manual = "no"]
  /\ UNCHANGED <<up, admin, worker, qmiLost, locks, files, loop, act>>

Tick ==
  /\ up' = Capped(up + 1, UpCap)
  /\ st' = [s \in Slots |-> [st[s] EXCEPT !.since = Capped(st[s].since + 1, Cooldown),
                                          !.age = Capped(st[s].age + 1, Hour)]]
  /\ act' = [s \in Slots |-> [act[s] EXCEPT !.since =
                                IF act[s].at \in {"lock", "probe", "done"}
                                THEN Capped(act[s].since + 1, Cooldown) ELSE act[s].since]]
  /\ ghost' = [s \in Slots |-> [ghost[s] EXCEPT !.ago = Capped(ghost[s].ago + 1, Cooldown)]]
  /\ UNCHANGED <<admin, modem, locks, recovering, pulse, loop>>

-----------------------------------------------------------------------------
Loop(s) ==
  Resume(s) \/ Ensure(s) \/ ProbeSlot(s) \/ CheckDenied(s) \/ CheckQuiet(s) \/ Request(s) \/ Account(s)

Act(s) ==
  \/ TakeLocks(s) \/ ActProbe(s) \/ ActPid(s) \/ ActHang(s) \/ ActWait(s) \/ ActAuthorized(s)
  \/ ActUsbOff(s) \/ ActUsbOn(s) \/ ActMark(s) \/ ActLow(s) \/ ActHigh(s) \/ ActUnmark(s)
  \/ ActRestart(s) \/ ActDial(s) \/ FinishPower(s) \/ FinishMarker(s) \/ FinishEnd(s)

Worker(s) ==
  \/ StartArmed(s) \/ WorkerReady(s) \/ WorkerLaunch(s) \/ WorkerGone(s)
  \/ SessionUp(s) \/ SessionDown(s)

Others(s) ==
  \/ Interrupted(s) \/ Killed(s) \/ WatchdogKilled(s) \/ OrphanEnds(s) \/ WatchdogStarts(s)
  \/ TrialStarts(s) \/ TrialEnds(s) \/ SetDial(s) \/ SetRecovery(s) \/ ManualOff(s) \/ ManualOn(s)

Next == Tick \/ \E s \in Slots : Loop(s) \/ Act(s) \/ Worker(s) \/ Others(s)

Spec == Init /\ [][Next]_vars

\* The loop, the subshell and procd are scheduled; time passes; procd respawns a
\* watchdog without limit (respawn 10 5 0), and however often it is killed it gets
\* through resume and ensure again.  Nothing is assumed of the carrier, the
\* operator or the trials, but that a trial ends.
Fairness ==
  /\ WF_vars(Tick)
  /\ \A s \in Slots :
       /\ WF_vars(Loop(s)) /\ WF_vars(Act(s))
       /\ WF_vars(WatchdogStarts(s)) /\ WF_vars(OrphanEnds(s))
       /\ WF_vars(WorkerGone(s)) /\ WF_vars(TrialEnds(s))
       /\ SF_vars(Resume(s)) /\ SF_vars(Ensure(s))

FairSpec == Spec /\ Fairness

-----------------------------------------------------------------------------
(* What recovery must not do                                                *)

\* At most one modem is torn down at any moment, and never while a 5G trial owns
\* its radio, however the watchdogs and their subshells are killed and restarted
\* (action.lock, radio.lock).
OneTeardown ==
  \A s \in Slots :
    act[s].at \in Torn => actionLock = {s} /\ radio[s] = "recovery"

\* A modem that recovery left without power is named by a .power-off marker until
\* its power is back, across failed GPIO writes, signals and kills: the next
\* watchdog can find it.
PulseOwned ==
  \A s \in Slots : gpio[s] = 0 /\ ghost[s].manual = "no" => pulse[s] # "none"

\* While a live action has the modem's power or its USB device cut, no dialer of
\* the slot runs or starts: the old one is gone and a new one waits.  (That procd
\* answered the question for the old one's PID is a premise: an answer that does not
\* come is taken for "no worker".)
NothingDialing ==
  \A s \in Slots :
    act[s].at \notin {"none", "done"} /\ act[s].pid # "unheard" /\ (act[s].off \/ act[s].deauth)
      => worker[s] \notin {"committed", "dialing", "stopping"}

Teardown(s) == act[s].at = "probe" /\ act'[s].at = "pid"

\* Two teardowns of one modem are at least the verification window apart, counted
\* from the end of the first (from its request, when the watchdog was killed
\* during it), unless the state was forgotten because recovery was disallowed.
Spaced ==
  [][\A s \in Slots :
       Teardown(s) => \/ ghost[s].ago >= Verify
                      \/ ghost[s].forgot \/ ghost[s].last = "none"]_vars

\* The power that an interrupted pulse cut comes back, once the trials leave the
\* radio alone, however often watchdog and subshell are killed.
PulseRestored ==
  \A s \in Slots :
    <>[](radio[s] # "trial") => (pulse[s] = "stale" ~> gpio[s] = 1)

\* A slot that may dial gets its worker back after any recovery, interrupted or not.
WorkerReturns ==
  \A s \in Slots : (worker[s] = "none" /\ Enabled(s)) ~> (worker[s] # "none" \/ ~Enabled(s))

\* An outage that nothing softer ends is escalated to power cycles, again and
\* again, while recovery is allowed and its watchdog and actions are not killed.
Escalates ==
  \A s \in Slots :
    <>[](/\ ~session[s] /\ radio[s] # "trial" /\ Authorized(s)
         /\ loop[s].at # "dead" /\ act[s].result # "failed")
      => []<>(act[s].at = "high")

-----------------------------------------------------------------------------
(* What the documentation says                                              *)

\* "an unmarked manual power-off is not reversed": only the operator reverses it.
ManualOffKept ==
  [][\A s \in Slots :
       ghost[s].manual = "unmarked" /\ gpio[s] = 0 /\ gpio'[s] = 1
         => UNCHANGED <<loop, act>>]_vars
=============================================================================
