---------------------- MODULE ModemRecovery_proofs ----------------------
(***************************************************************************)
(* TypeOK, OneTeardown, PulseOwned, NothingDialing and Spaced for any set   *)
(* of slots, any durations and any of the faults, kills and operators.      *)
(*                                                                          *)
(* The argument: who holds the two locks is exactly whose subshell is past  *)
(* taking them (LockInv); hence the markers of a live action can be changed *)
(* by that action only (MarkerInv), since resume asks for radio.lock; hence *)
(* a dial worker that was seen gone stays in its waiting room until the     *)
(* action has restored what it cut (CutInv, QuietInv).  For the spacing,    *)
(* the time since the last teardown is never less than what <slot>.state    *)
(* says, nor than what a contended action will give back (SpaceInv).        *)
(***************************************************************************)
EXTENDS ModemRecovery, TLAPS

\* The steps between taking the locks and the end of finish.
Held == {"probe", "dial"} \cup Torn \cup Finish

\* A subshell at such a step holds action.lock and its radio.lock, and no other does.
LockInv ==
  /\ \A s \in Slots : /\ act[s].at \in Held <=> s \in actionLock
                      /\ act[s].at \in Held <=> radio[s] = "recovery"
  /\ \A s, t \in actionLock : s = t

\* What is cut is restored before the restart, or by finish.
CutInv ==
  \A s \in Slots :
    /\ act[s].off    => act[s].at \in {"low", "high", "unmark", "done"} \cup Finish
    /\ act[s].deauth => act[s].at \in {"usbOn", "done"} \cup Finish

\* From the PID query to the restart the slot is marked as recovering; during the
\* pulse, as powered off by a live owner.
MarkerInv ==
  \A s \in Slots :
    /\ act[s].at \in Torn => recovering[s] = "live"
    /\ act[s].at \in Finish /\ (act[s].off \/ act[s].deauth) => recovering[s] = "live"
    /\ act[s].at \in {"low", "high", "unmark"} => pulse[s] = "live"

\* Only the operator can have cut the power again before the marker goes.
HighInv ==
  \A s \in Slots : act[s].at = "unmark" /\ gpio[s] = 0 => ghost[s].manual # "no"

\* Past the wait for the old worker, up to the restart.
Past == {"authorized", "usbOff", "usbOn", "mark", "low", "high", "unmark"}

\* Once the old worker is known to be gone, a new one only waits.
QuietInv ==
  \A s \in Slots :
    /\ act[s].pid # "unheard"
    /\ \/ act[s].at \in {"hang", "wait"} /\ act[s].pid = "none"
       \/ act[s].at \in Past
       \/ act[s].at \in Finish /\ (act[s].off \/ act[s].deauth)
    => worker[s] \in {"none", "waiting"}

\* There was no teardown yet, or <slot>.state was removed since.
Excused(s) == ghost[s].forgot \/ ghost[s].last = "none"

\* An attempt is due only Verify after the last one, and one that is taken back
\* finds the time it started from.
SpaceInv ==
  \A s \in Slots :
    /\ act[s].at \in Held \cup {"lock"} => act[s].result # "busy"
    /\ \/ Excused(s)
       \/ /\ ghost[s].ago >= st[s].since
          /\ \/ act[s].at \in {"lock", "probe"}
             \/ act[s].at = "done" /\ act[s].result = "busy"
             => ghost[s].ago >= act[s].since
          /\ act[s].at \in {"lock", "probe"} => ghost[s].ago >= Verify

\* The inductive invariant.
IInv == TypeOK /\ LockInv /\ CutInv /\ MarkerInv /\ QuietInv /\ HighInv /\ PulseOwned /\ SpaceInv

-----------------------------------------------------------------------------
(* What a step does to the records of one slot                              *)

\* The subshell of s is at step a and remembers this much; the others are unchanged.
Became(s, a, r, p, o, d, c) ==
  /\ act' \in [Slots -> ActType]
  /\ \A t \in Slots \ {s} : act'[t] = act[t]
  /\ act'[s].at = a /\ act'[s].result = r /\ act'[s].pid = p
  /\ act'[s].off = o /\ act'[s].deauth = d /\ act'[s].since = c

\* <slot>.state of s now says that the last attempt is c ticks ago.
Stamped(s, c) ==
  /\ st' \in [Slots -> StateType]
  /\ \A t \in Slots \ {s} : st'[t] = st[t]
  /\ st'[s].since = c

\* The ghost of s has these values.
Noted(s, ago, last, forgot, manual) ==
  /\ ghost' \in [Slots -> GhostType]
  /\ \A t \in Slots \ {s} : ghost'[t] = ghost[t]
  /\ ghost'[s].ago = ago /\ ghost'[s].last = last
  /\ ghost'[s].forgot = forgot /\ ghost'[s].manual = manual

LEMMA StepBecame ==
  ASSUME act \in [Slots -> ActType], NEW s \in Slots, NEW a \in ActSteps,
         Step(s, a)
  PROVE  Became(s, a, act[s].result, act[s].pid, act[s].off, act[s].deauth, act[s].since)
<1> DEFINE n == [act[s] EXCEPT !.at = a]
<1>1. act[s] \in ActType OBVIOUS
<1>2. n \in ActType BY <1>1 DEF ActType, ActSteps, Torn, Finish
<1>3. act' = [act EXCEPT ![s] = n] BY DEF Step
<1>4. /\ n.at = a /\ n.result = act[s].result /\ n.pid = act[s].pid
      /\ n.off = act[s].off /\ n.deauth = act[s].deauth /\ n.since = act[s].since
  BY <1>1 DEF ActType
<1> HIDE DEF n
<1>5. /\ act' \in [Slots -> ActType] /\ act'[s] = n
      /\ \A t \in Slots \ {s} : act'[t] = act[t]
  BY <1>2, <1>3
<1>. QED BY <1>4, <1>5 DEF Became

LEMMA FinishingBecame ==
  ASSUME act \in [Slots -> ActType], NEW s \in Slots, NEW r \in {"ok", "failed", "busy"},
         Finishing(s, r)
  PROVE  Became(s, "finishPower", r, act[s].pid, act[s].off, act[s].deauth, act[s].since)
<1> DEFINE n == [act[s] EXCEPT !.at = "finishPower", !.result = r]
<1>1. act[s] \in ActType OBVIOUS
<1>2. n \in ActType BY <1>1 DEF ActType, ActSteps, Torn, Finish
<1>3. act' = [act EXCEPT ![s] = n] BY DEF Finishing
<1>4. /\ n.at = "finishPower" /\ n.result = r /\ n.pid = act[s].pid
      /\ n.off = act[s].off /\ n.deauth = act[s].deauth /\ n.since = act[s].since
  BY <1>1 DEF ActType
<1> HIDE DEF n
<1>5. /\ act' \in [Slots -> ActType] /\ act'[s] = n
      /\ \A t \in Slots \ {s} : act'[t] = act[t]
  BY <1>2, <1>3
<1>. QED BY <1>4, <1>5 DEF Became

LEMMA ExitBecame ==
  ASSUME act \in [Slots -> ActType], NEW s \in Slots, NEW r \in {"ok", "failed", "busy"},
         Exit(s, r)
  PROVE  Became(s, "done", r, act[s].pid, act[s].off, act[s].deauth, act[s].since)
<1> DEFINE n == [act[s] EXCEPT !.at = "done", !.result = r]
<1>1. act[s] \in ActType OBVIOUS
<1>2. n \in ActType BY <1>1 DEF ActType, ActSteps, Torn, Finish
<1>3. act' = [act EXCEPT ![s] = n] BY DEF Exit
<1>4. /\ n.at = "done" /\ n.result = r /\ n.pid = act[s].pid
      /\ n.off = act[s].off /\ n.deauth = act[s].deauth /\ n.since = act[s].since
  BY <1>1 DEF ActType
<1> HIDE DEF n
<1>5. /\ act' \in [Slots -> ActType] /\ act'[s] = n
      /\ \A t \in Slots \ {s} : act'[t] = act[t]
  BY <1>2, <1>3
<1>. QED BY <1>4, <1>5 DEF Became

LEMMA PidBecame ==
  ASSUME act \in [Slots -> ActType], NEW s \in Slots, NEW p \in {"none", "some", "unheard"},
         act' = [act EXCEPT ![s].at = "hang", ![s].pid = p]
  PROVE  Became(s, "hang", act[s].result, p, act[s].off, act[s].deauth, act[s].since)
<1> DEFINE n == [act[s] EXCEPT !.at = "hang", !.pid = p]
<1>1. act[s] \in ActType OBVIOUS
<1>2. n \in ActType BY <1>1 DEF ActType, ActSteps, Torn, Finish
<1>3. act' = [act EXCEPT ![s] = n] OBVIOUS
<1>4. /\ n.at = "hang" /\ n.result = act[s].result /\ n.pid = p
      /\ n.off = act[s].off /\ n.deauth = act[s].deauth /\ n.since = act[s].since
  BY <1>1 DEF ActType
<1> HIDE DEF n
<1>5. /\ act' \in [Slots -> ActType] /\ act'[s] = n
      /\ \A t \in Slots \ {s} : act'[t] = act[t]
  BY <1>2, <1>3
<1>. QED BY <1>4, <1>5 DEF Became

LEMMA CutBecame ==
  ASSUME act \in [Slots -> ActType], NEW s \in Slots, NEW a \in ActSteps, NEW o \in BOOLEAN,
         act' = [act EXCEPT ![s].at = a, ![s].off = o]
  PROVE  Became(s, a, act[s].result, act[s].pid, o, act[s].deauth, act[s].since)
<1> DEFINE n == [act[s] EXCEPT !.at = a, !.off = o]
<1>1. act[s] \in ActType OBVIOUS
<1>2. n \in ActType BY <1>1 DEF ActType, ActSteps, Torn, Finish
<1>3. act' = [act EXCEPT ![s] = n] OBVIOUS
<1>4. /\ n.at = a /\ n.result = act[s].result /\ n.pid = act[s].pid
      /\ n.off = o /\ n.deauth = act[s].deauth /\ n.since = act[s].since
  BY <1>1 DEF ActType
<1> HIDE DEF n
<1>5. /\ act' \in [Slots -> ActType] /\ act'[s] = n
      /\ \A t \in Slots \ {s} : act'[t] = act[t]
  BY <1>2, <1>3
<1>. QED BY <1>4, <1>5 DEF Became

LEMMA DeauthBecame ==
  ASSUME act \in [Slots -> ActType], NEW s \in Slots, NEW a \in ActSteps, NEW d \in BOOLEAN,
         act' = [act EXCEPT ![s].at = a, ![s].deauth = d]
  PROVE  Became(s, a, act[s].result, act[s].pid, act[s].off, d, act[s].since)
<1> DEFINE n == [act[s] EXCEPT !.at = a, !.deauth = d]
<1>1. act[s] \in ActType OBVIOUS
<1>2. n \in ActType BY <1>1 DEF ActType, ActSteps, Torn, Finish
<1>3. act' = [act EXCEPT ![s] = n] OBVIOUS
<1>4. /\ n.at = a /\ n.result = act[s].result /\ n.pid = act[s].pid
      /\ n.off = act[s].off /\ n.deauth = d /\ n.since = act[s].since
  BY <1>1 DEF ActType
<1> HIDE DEF n
<1>5. /\ act' \in [Slots -> ActType] /\ act'[s] = n
      /\ \A t \in Slots \ {s} : act'[t] = act[t]
  BY <1>2, <1>3
<1>. QED BY <1>4, <1>5 DEF Became

LEMMA DeauthFailed ==
  ASSUME act \in [Slots -> ActType], NEW s \in Slots,
         act' = [act EXCEPT ![s].at = "finishPower", ![s].result = "failed", ![s].deauth = TRUE]
  PROVE  Became(s, "finishPower", "failed", act[s].pid, act[s].off, TRUE, act[s].since)
<1> DEFINE n == [act[s] EXCEPT !.at = "finishPower", !.result = "failed", !.deauth = TRUE]
<1>1. act[s] \in ActType OBVIOUS
<1>2. n \in ActType BY <1>1 DEF ActType, ActSteps, Torn, Finish
<1>3. act' = [act EXCEPT ![s] = n] OBVIOUS
<1>4. /\ n.at = "finishPower" /\ n.result = "failed" /\ n.pid = act[s].pid
      /\ n.off = act[s].off /\ n.deauth = TRUE /\ n.since = act[s].since
  BY <1>1 DEF ActType
<1> HIDE DEF n
<1>5. /\ act' \in [Slots -> ActType] /\ act'[s] = n
      /\ \A t \in Slots \ {s} : act'[t] = act[t]
  BY <1>2, <1>3
<1>. QED BY <1>4, <1>5 DEF Became

LEMMA NoActBecame ==
  ASSUME act \in [Slots -> ActType], NEW s \in Slots, act' = [act EXCEPT ![s] = NoAct]
  PROVE  Became(s, "none", "ok", "none", FALSE, FALSE, 0)
<1>1. NoAct \in ActType BY RecoveryAssumption DEF NoAct, ActType, ActSteps, Period
<1>2. /\ act' \in [Slots -> ActType] /\ act'[s] = NoAct
      /\ \A t \in Slots \ {s} : act'[t] = act[t]
  BY <1>1
<1>. QED BY <1>2 DEF Became, NoAct

LEMMA NoStateType ==
  ASSUME TypeOK PROVE NoState \in StateType /\ NoState.since = Cooldown
BY RecoveryAssumption DEF NoState, StateType, TypeOK, UpCap, Period

\* An observation keeps its caps and does not touch the time of the last attempt.
LEMMA ObservedType ==
  ASSUME TypeOK, NEW s \in Slots
  PROVE  Observed(s) \in StateType /\ Observed(s).since = st[s].since
<1>1. st[s] \in StateType BY DEF TypeOK
<1> DEFINE good == IF loop[s].health = "online" THEN Capped(st[s].good + 1, GoodNeeded) ELSE 0
           fails == IF good >= GoodNeeded THEN 0
                    ELSE IF loop[s].health = "offline" THEN Capped(st[s].fails + 1, Threshold)
                    ELSE st[s].fails
           attempts == IF good >= GoodNeeded THEN 0 ELSE st[s].attempts
           age    == IF st[s].age < Hour THEN st[s].age ELSE 0
           cycles == IF st[s].age < Hour THEN st[s].cycles ELSE 0
<1>2. /\ st[s].good \in 0..GoodNeeded /\ st[s].fails \in 0..Threshold
      /\ st[s].attempts \in 0..Period /\ st[s].age \in 0..Hour /\ st[s].cycles \in 0..MaxCycles
      /\ Period \in Nat
  BY <1>1, RecoveryAssumption DEF StateType, Period
<1>3. good \in 0..GoodNeeded BY <1>2, RecoveryAssumption DEF Capped
<1>4. /\ fails \in 0..Threshold /\ attempts \in 0..Period
      /\ age \in 0..Hour /\ cycles \in 0..MaxCycles
  <2> HIDE DEF good
  <2>. QED BY <1>2, <1>3, RecoveryAssumption DEF Capped
<1>5. Observed(s) = [st[s] EXCEPT !.good = good, !.fails = fails, !.attempts = attempts,
                                  !.age = age, !.cycles = cycles]
  BY DEF Observed
<1> HIDE DEF good, fails, attempts, age, cycles
<1>. QED BY <1>1, <1>3, <1>4, <1>5 DEF StateType

LEMMA ChosenType == ASSUME NEW a, NEW rx PROVE Chosen(a, rx) \in Actions
BY RecoveryAssumption DEF Chosen, Actions

LEMMA Restamped ==
  ASSUME st \in [Slots -> StateType], NEW s \in Slots, NEW n \in StateType, st' = [st EXCEPT ![s] = n]
  PROVE  Stamped(s, n.since)
BY DEF Stamped

LEMMA DeniedStamped ==
  ASSUME TypeOK, NEW s \in Slots, CheckDenied(s) PROVE Stamped(s, Cooldown)
BY NoStateType, Restamped DEF TypeOK, CheckDenied

LEMMA QuietStamped ==
  ASSUME TypeOK, NEW s \in Slots, CheckQuiet(s) PROVE Stamped(s, st[s].since)
BY ObservedType, Restamped DEF TypeOK, CheckQuiet

Saved(r, f, c, a, y) == [r EXCEPT !.fails = f, !.since = c, !.attempts = a, !.cycles = y]

LEMMA SavedType ==
  ASSUME NEW r \in StateType, NEW f \in 0..Threshold, NEW c \in 0..Cooldown,
         NEW a \in 0..Period, NEW y \in 0..MaxCycles
  PROVE  Saved(r, f, c, a, y) \in StateType /\ Saved(r, f, c, a, y).since = c
BY DEF Saved, StateType

LEMMA RequestStamped ==
  ASSUME TypeOK, NEW s \in Slots, Request(s) PROVE Stamped(s, 0)
<1> DEFINE o == Observed(s)
           attempts == IF o.attempts = Period THEN 1 ELSE o.attempts + 1
           cycles == Capped(o.cycles + 1, MaxCycles)
           n == Saved(o, 0, 0, attempts, cycles)
<1>1. o \in StateType BY ObservedType
<1>2. st' = [st EXCEPT ![s] = n] BY DEF Request, Saved
<1>3. o.attempts \in 0..Period /\ o.cycles \in 0..MaxCycles /\ Period \in Nat \ {0}
  <2> HIDE DEF o
  <2>. QED BY <1>1, RecoveryAssumption DEF StateType, Period
<1>4. attempts \in 0..Period /\ cycles \in 0..MaxCycles
  <2> HIDE DEF o
  <2>. QED BY <1>3, RecoveryAssumption DEF Capped
<1>5. n \in StateType /\ n.since = 0
  <2> HIDE DEF o, attempts, cycles
  <2>1. 0 \in 0..Threshold /\ 0 \in 0..Cooldown BY RecoveryAssumption
  <2>. QED BY <1>1, <1>4, <2>1, SavedType
<1> HIDE DEF n
<1>. QED BY <1>2, <1>5, Restamped DEF TypeOK

LEMMA AccountStamped ==
  ASSUME TypeOK, NEW s \in Slots, Account(s)
  PROVE  Stamped(s, IF act[s].result = "busy" THEN act[s].since ELSE 0)
<1> DEFINE given == BeforeRequest(s)
           kept  == [st[s] EXCEPT !.since = 0]
<1>1. st[s] \in StateType /\ act[s] \in ActType BY DEF TypeOK
<1>2. given \in StateType /\ given.since = act[s].since
  BY <1>1 DEF BeforeRequest, StateType, ActType
<1>3. kept \in StateType /\ kept.since = 0 BY <1>1, RecoveryAssumption DEF StateType
<1>4. st' = [st EXCEPT ![s] = IF act[s].result = "busy" THEN given ELSE kept]
  BY DEF Account, GivenBack
<1> HIDE DEF given, kept
<1>. QED BY <1>2, <1>3, <1>4, Restamped DEF TypeOK

LEMMA RequestBecame ==
  ASSUME TypeOK, NEW s \in Slots, Request(s)
  PROVE  Became(s, "lock", "ok", "none", FALSE, FALSE, st[s].since)
<1> DEFINE o == Observed(s)
<1>1. PICK rx : act' = [act EXCEPT ![s] =
                          [NoAct EXCEPT !.at = "lock", !.action = Chosen(o.attempts, rx),
                                        !.fails = o.fails, !.since = o.since,
                                        !.attempts = o.attempts, !.cycles = o.cycles]]
  BY DEF Request
<1> DEFINE n == [NoAct EXCEPT !.at = "lock", !.action = Chosen(o.attempts, rx),
                              !.fails = o.fails, !.since = o.since,
                              !.attempts = o.attempts, !.cycles = o.cycles]
<1>2. o \in StateType /\ o.since = st[s].since BY ObservedType
<1>3. Chosen(o.attempts, rx) \in Actions BY ChosenType
<1>4. NoAct \in ActType /\ NoAct.pid = "none" /\ ~NoAct.off /\ ~NoAct.deauth /\ NoAct.result = "ok"
  BY RecoveryAssumption DEF NoAct, ActType, ActSteps, Period
<1>5. n \in ActType
  <2> HIDE DEF o
  <2>. QED BY <1>2, <1>3, <1>4 DEF ActType, StateType, ActSteps
<1>6. /\ n.at = "lock" /\ n.result = "ok" /\ n.pid = "none" /\ ~n.off /\ ~n.deauth
      /\ n.since = st[s].since
  <2> HIDE DEF o
  <2>. QED BY <1>2, <1>4 DEF ActType
<1>7. act' = [act EXCEPT ![s] = n] BY <1>1
<1>8. n.off = FALSE /\ n.deauth = FALSE
  <2> HIDE DEF n
  <2>. QED BY <1>5, <1>6 DEF ActType
<1> HIDE DEF n
<1>9. /\ act' \in [Slots -> ActType] /\ act'[s] = n
      /\ \A t \in Slots \ {s} : act'[t] = act[t]
  BY <1>5, <1>7 DEF TypeOK
<1>. QED BY <1>6, <1>8, <1>9 DEF Became

TornRemembered(s) ==
  ghost' = [ghost EXCEPT ![s].ago = st[s].since, ![s].last = act[s].action, ![s].forgot = FALSE]

LEMMA TornNoted ==
  ASSUME TypeOK, NEW s \in Slots, TornRemembered(s)
  PROVE  Noted(s, st[s].since, act[s].action, FALSE, ghost[s].manual)
<1> DEFINE n == [ghost[s] EXCEPT !.ago = st[s].since, !.last = act[s].action, !.forgot = FALSE]
<1>1. ghost[s] \in GhostType /\ act[s] \in ActType /\ st[s] \in StateType BY DEF TypeOK
<1>2. n \in GhostType BY <1>1, RecoveryAssumption DEF GhostType, ActType, StateType
<1>3. /\ n.ago = st[s].since /\ n.last = act[s].action
      /\ n.forgot = FALSE /\ n.manual = ghost[s].manual
  BY <1>1 DEF GhostType
<1>4. ghost' = [ghost EXCEPT ![s] = n] BY DEF TornRemembered
<1> HIDE DEF n
<1>5. /\ ghost' \in [Slots -> GhostType] /\ ghost'[s] = n
      /\ \A t \in Slots \ {s} : ghost'[t] = ghost[t]
  BY <1>2, <1>4 DEF TypeOK
<1>. QED BY <1>3, <1>5 DEF Noted

LEMMA ForgotNoted ==
  ASSUME TypeOK, NEW s \in Slots, CheckDenied(s)
  PROVE  Noted(s, ghost[s].ago, ghost[s].last, TRUE, ghost[s].manual)
<1> DEFINE n == [ghost[s] EXCEPT !.forgot = TRUE]
<1>1. ghost[s] \in GhostType /\ act[s] \in ActType /\ st[s] \in StateType BY DEF TypeOK
<1>2. n \in GhostType BY <1>1, RecoveryAssumption DEF GhostType, ActType, StateType
<1>3. /\ n.ago = ghost[s].ago /\ n.last = ghost[s].last
      /\ n.forgot = TRUE /\ n.manual = ghost[s].manual
  BY <1>1 DEF GhostType
<1>4. ghost' = [ghost EXCEPT ![s] = n] BY DEF CheckDenied
<1> HIDE DEF n
<1>5. /\ ghost' \in [Slots -> GhostType] /\ ghost'[s] = n
      /\ \A t \in Slots \ {s} : ghost'[t] = ghost[t]
  BY <1>2, <1>4 DEF TypeOK
<1>. QED BY <1>3, <1>5 DEF Noted

LEMMA AccountNoted ==
  ASSUME TypeOK, NEW s \in Slots, Account(s)
  PROVE  Noted(s, (IF act[s].result = "busy" THEN ghost[s].ago ELSE 0), ghost[s].last, ghost[s].forgot, ghost[s].manual)
<1> DEFINE n == [ghost[s] EXCEPT !.ago = (IF act[s].result = "busy" THEN ghost[s].ago ELSE 0)]
<1>1. ghost[s] \in GhostType /\ act[s] \in ActType /\ st[s] \in StateType BY DEF TypeOK
<1>2. n \in GhostType BY <1>1, RecoveryAssumption DEF GhostType, ActType, StateType
<1>3. /\ n.ago = (IF act[s].result = "busy" THEN ghost[s].ago ELSE 0) /\ n.last = ghost[s].last
      /\ n.forgot = ghost[s].forgot /\ n.manual = ghost[s].manual
  BY <1>1 DEF GhostType
<1>4. ghost' = [ghost EXCEPT ![s] = n] BY DEF Account
<1> HIDE DEF n
<1>5. /\ ghost' \in [Slots -> GhostType] /\ ghost'[s] = n
      /\ \A t \in Slots \ {s} : ghost'[t] = ghost[t]
  BY <1>2, <1>4 DEF TypeOK
<1>. QED BY <1>3, <1>5 DEF Noted

LEMMA ManualNoted ==
  ASSUME TypeOK, NEW s \in Slots, NEW m \in {"no", "marked", "unmarked"}, ghost' = [ghost EXCEPT ![s].manual = m]
  PROVE  Noted(s, ghost[s].ago, ghost[s].last, ghost[s].forgot, m)
<1> DEFINE n == [ghost[s] EXCEPT !.manual = m]
<1>1. ghost[s] \in GhostType /\ act[s] \in ActType /\ st[s] \in StateType BY DEF TypeOK
<1>2. n \in GhostType BY <1>1, RecoveryAssumption DEF GhostType, ActType, StateType
<1>3. /\ n.ago = ghost[s].ago /\ n.last = ghost[s].last
      /\ n.forgot = ghost[s].forgot /\ n.manual = m
  BY <1>1 DEF GhostType
<1>4. ghost' = [ghost EXCEPT ![s] = n] OBVIOUS
<1> HIDE DEF n
<1>5. /\ ghost' \in [Slots -> GhostType] /\ ghost'[s] = n
      /\ \A t \in Slots \ {s} : ghost'[t] = ghost[t]
  BY <1>2, <1>4 DEF TypeOK
<1>. QED BY <1>3, <1>5 DEF Noted

-----------------------------------------------------------------------------
(* The dial worker keeps the invariant                                      *)

LEMMA StartArmedKeeps ==
  ASSUME IInv, NEW s \in Slots, StartArmed(s)
  PROVE  IInv'
<1>1. TypeOK'
  BY DEF TypeOK, StartArmed, IInv, admin, locks, files, Markers
<1>2. LockInv'
  BY DEF LockInv, StartArmed, IInv, admin, locks, files
<1>3. CutInv'
  BY DEF CutInv, StartArmed, IInv, admin, locks, files
<1>4. MarkerInv'
  BY DEF MarkerInv, StartArmed, IInv, admin, locks, files
<1>5. QuietInv'
  BY DEF TypeOK, MarkerInv, QuietInv, CutInv, Torn, Finish, Past, StartArmed, IInv, admin, locks,
     files
<1>6. HighInv'
  BY DEF HighInv, StartArmed, IInv, admin, locks, files
<1>7. PulseOwned'
  BY DEF PulseOwned, StartArmed, IInv, admin, locks, files
<1>8. SpaceInv'
  BY DEF SpaceInv, StartArmed, IInv, admin, locks, files, Excused
<1>. QED BY <1>1, <1>2, <1>3, <1>4, <1>5, <1>6, <1>7, <1>8 DEF IInv

LEMMA WorkerReadyKeeps ==
  ASSUME IInv, NEW s \in Slots, WorkerReady(s)
  PROVE  IInv'
<1>1. TypeOK'
  BY DEF TypeOK, WorkerReady, RecoveryBusy, IInv, admin, locks, files, Markers
<1>2. LockInv'
  BY DEF LockInv, WorkerReady, IInv, admin, locks, files
<1>3. CutInv'
  BY DEF CutInv, WorkerReady, IInv, admin, locks, files
<1>4. MarkerInv'
  BY DEF MarkerInv, WorkerReady, IInv, admin, locks, files
<1>5. QuietInv'
  BY DEF TypeOK, MarkerInv, QuietInv, CutInv, Torn, Finish, Past, WorkerReady, RecoveryBusy, IInv,
     admin, locks, files
<1>6. HighInv'
  BY DEF HighInv, WorkerReady, IInv, admin, locks, files
<1>7. PulseOwned'
  BY DEF PulseOwned, WorkerReady, IInv, admin, locks, files
<1>8. SpaceInv'
  BY DEF SpaceInv, WorkerReady, IInv, admin, locks, files, Excused
<1>. QED BY <1>1, <1>2, <1>3, <1>4, <1>5, <1>6, <1>7, <1>8 DEF IInv

LEMMA WorkerLaunchKeeps ==
  ASSUME IInv, NEW s \in Slots, WorkerLaunch(s)
  PROVE  IInv'
<1>1. TypeOK'
  BY DEF TypeOK, WorkerLaunch, IInv, admin, locks, files, Markers
<1>2. LockInv'
  BY DEF LockInv, WorkerLaunch, IInv, admin, locks, files
<1>3. CutInv'
  BY DEF CutInv, WorkerLaunch, IInv, admin, locks, files
<1>4. MarkerInv'
  BY DEF MarkerInv, WorkerLaunch, IInv, admin, locks, files
<1>5. QuietInv'
  BY DEF TypeOK, MarkerInv, QuietInv, CutInv, Torn, Finish, Past, WorkerLaunch, IInv, admin,
     locks, files
<1>6. HighInv'
  BY DEF HighInv, WorkerLaunch, IInv, admin, locks, files
<1>7. PulseOwned'
  BY DEF PulseOwned, WorkerLaunch, IInv, admin, locks, files
<1>8. SpaceInv'
  BY DEF SpaceInv, WorkerLaunch, IInv, admin, locks, files, Excused
<1>. QED BY <1>1, <1>2, <1>3, <1>4, <1>5, <1>6, <1>7, <1>8 DEF IInv

LEMMA WorkerGoneKeeps ==
  ASSUME IInv, NEW s \in Slots, WorkerGone(s)
  PROVE  IInv'
<1>1. TypeOK'
  BY DEF TypeOK, WorkerGone, IInv, admin, locks, files, Markers
<1>2. LockInv'
  BY DEF LockInv, WorkerGone, IInv, admin, locks, files
<1>3. CutInv'
  BY DEF CutInv, WorkerGone, IInv, admin, locks, files
<1>4. MarkerInv'
  BY DEF MarkerInv, WorkerGone, IInv, admin, locks, files
<1>5. QuietInv'
  BY DEF TypeOK, MarkerInv, QuietInv, CutInv, Torn, Finish, Past, WorkerGone, IInv, admin, locks,
     files
<1>6. HighInv'
  BY DEF HighInv, WorkerGone, IInv, admin, locks, files
<1>7. PulseOwned'
  BY DEF PulseOwned, WorkerGone, IInv, admin, locks, files
<1>8. SpaceInv'
  BY DEF SpaceInv, WorkerGone, IInv, admin, locks, files, Excused
<1>. QED BY <1>1, <1>2, <1>3, <1>4, <1>5, <1>6, <1>7, <1>8 DEF IInv

LEMMA SessionUpKeeps ==
  ASSUME IInv, NEW s \in Slots, SessionUp(s)
  PROVE  IInv'
<1>1. TypeOK'
  BY DEF TypeOK, SessionUp, IInv, admin, locks, files, Markers
<1>2. LockInv'
  BY DEF LockInv, SessionUp, IInv, admin, locks, files
<1>3. CutInv'
  BY DEF CutInv, SessionUp, IInv, admin, locks, files
<1>4. MarkerInv'
  BY DEF MarkerInv, SessionUp, IInv, admin, locks, files
<1>5. QuietInv'
  BY DEF QuietInv, SessionUp, IInv, admin, locks, files
<1>6. HighInv'
  BY DEF HighInv, SessionUp, IInv, admin, locks, files
<1>7. PulseOwned'
  BY DEF PulseOwned, SessionUp, IInv, admin, locks, files
<1>8. SpaceInv'
  BY DEF SpaceInv, SessionUp, IInv, admin, locks, files, Excused
<1>. QED BY <1>1, <1>2, <1>3, <1>4, <1>5, <1>6, <1>7, <1>8 DEF IInv

LEMMA SessionDownKeeps ==
  ASSUME IInv, NEW s \in Slots, SessionDown(s)
  PROVE  IInv'
<1>1. TypeOK'
  BY RecoveryAssumption DEF TypeOK, SessionDown, IInv, admin, locks, files
<1>2. LockInv'
  BY DEF LockInv, SessionDown, IInv, admin, locks, files
<1>3. CutInv'
  BY DEF CutInv, SessionDown, IInv, admin, locks, files
<1>4. MarkerInv'
  BY DEF MarkerInv, SessionDown, IInv, admin, locks, files
<1>5. QuietInv'
  BY DEF TypeOK, MarkerInv, QuietInv, CutInv, Torn, Finish, Past, SessionDown, IInv, admin, locks,
     files
<1>6. HighInv'
  BY DEF HighInv, SessionDown, IInv, admin, locks, files
<1>7. PulseOwned'
  BY DEF PulseOwned, SessionDown, IInv, admin, locks, files
<1>8. SpaceInv'
  BY DEF SpaceInv, SessionDown, IInv, admin, locks, files, Excused
<1>. QED BY <1>1, <1>2, <1>3, <1>4, <1>5, <1>6, <1>7, <1>8 DEF IInv

-----------------------------------------------------------------------------
(* The watchdog loop keeps the invariant                                    *)

LEMMA ResumeKeeps ==
  ASSUME IInv, NEW s \in Slots, Resume(s)
  PROVE  IInv'
<1>1. TypeOK'
  <2>1. /\ gpio' \in [Slots -> {0, 1}] /\ usb' \in [Slots -> {0, 1}]
        /\ session' \in [Slots -> BOOLEAN]
    BY DEF Resume, Power, IInv, TypeOK
  <2>2. pulse' \in [Slots -> Markers] /\ recovering' \in [Slots -> Markers]
    BY DEF Resume, Markers, IInv, TypeOK
  <2>3. loop' \in [Slots -> LoopType] BY DEF Resume, Goto, LoopType, IInv, TypeOK
  <2>. QED BY <2>1, <2>2, <2>3 DEF Resume, IInv, TypeOK, admin, locks
<1>2. LockInv'
  BY DEF LockInv, Resume, IInv, admin, locks
<1>3. CutInv'
  BY DEF CutInv, Resume, IInv, admin, locks
<1>4. MarkerInv'
  BY DEF TypeOK, LockInv, CutInv, MarkerInv, Held, Torn, Finish, Resume, Goto, Abandoned, Power,
     IInv, admin, locks
<1>5. QuietInv'
  BY DEF QuietInv, Resume, IInv, admin, locks
<1>6. HighInv'
  BY DEF TypeOK, HighInv, Torn, Finish, Resume, Goto, Abandoned, Power, IInv, admin, locks
<1>7. PulseOwned'
  BY DEF TypeOK, LockInv, HighInv, MarkerInv, PulseOwned, Held, Torn, Finish, Resume, Goto,
     Abandoned, Power, IInv, admin, locks
<1>8. SpaceInv'
  BY DEF SpaceInv, Resume, IInv, admin, locks, Excused
<1>. QED BY <1>1, <1>2, <1>3, <1>4, <1>5, <1>6, <1>7, <1>8 DEF IInv

LEMMA EnsureKeeps ==
  ASSUME IInv, NEW s \in Slots, Ensure(s)
  PROVE  IInv'
<1>1. TypeOK'
  <2>1. worker' \in [Slots -> {"none", "waiting", "committed", "dialing", "stopping"}]
    BY DEF Ensure, Dial, IInv, TypeOK
  <2>2. loop' \in [Slots -> LoopType] BY DEF Ensure, Goto, LoopType, IInv, TypeOK
  <2>. QED BY <2>1, <2>2 DEF Ensure, IInv, TypeOK, admin, locks, files
<1>2. LockInv'
  BY DEF LockInv, Ensure, IInv, admin, locks, files
<1>3. CutInv'
  BY DEF CutInv, Ensure, IInv, admin, locks, files
<1>4. MarkerInv'
  BY DEF MarkerInv, Ensure, IInv, admin, locks, files
<1>5. QuietInv'
  BY DEF TypeOK, MarkerInv, QuietInv, CutInv, Torn, Finish, Past, Ensure, Goto, Missing, Dial,
     IInv, admin, locks, files
<1>6. HighInv'
  BY DEF HighInv, Ensure, IInv, admin, locks, files
<1>7. PulseOwned'
  BY DEF PulseOwned, Ensure, IInv, admin, locks, files
<1>8. SpaceInv'
  BY DEF SpaceInv, Ensure, IInv, admin, locks, files, Excused
<1>. QED BY <1>1, <1>2, <1>3, <1>4, <1>5, <1>6, <1>7, <1>8 DEF IInv

LEMMA ProbeSlotKeeps ==
  ASSUME IInv, NEW s \in Slots, ProbeSlot(s)
  PROVE  IInv'
<1>1. TypeOK'
  BY DEF TypeOK, ProbeSlot, Verdicts, IInv, admin, modem, locks, files, Markers, LoopType
<1>2. LockInv'
  BY DEF LockInv, ProbeSlot, IInv, admin, modem, locks, files
<1>3. CutInv'
  BY DEF CutInv, ProbeSlot, IInv, admin, modem, locks, files
<1>4. MarkerInv'
  BY DEF MarkerInv, ProbeSlot, IInv, admin, modem, locks, files
<1>5. QuietInv'
  BY DEF QuietInv, ProbeSlot, IInv, admin, modem, locks, files
<1>6. HighInv'
  BY DEF HighInv, ProbeSlot, IInv, admin, modem, locks, files
<1>7. PulseOwned'
  BY DEF PulseOwned, ProbeSlot, IInv, admin, modem, locks, files
<1>8. SpaceInv'
  BY DEF SpaceInv, ProbeSlot, IInv, admin, modem, locks, files, Excused
<1>. QED BY <1>1, <1>2, <1>3, <1>4, <1>5, <1>6, <1>7, <1>8 DEF IInv

LEMMA CheckDeniedKeeps ==
  ASSUME IInv, NEW s \in Slots, CheckDenied(s)
  PROVE  IInv'
<1>1. /\ Stamped(s, Cooldown)
      /\ Noted(s, ghost[s].ago, ghost[s].last, TRUE, ghost[s].manual)
  BY DeniedStamped, ForgotNoted DEF CheckDenied, IInv, TypeOK, ActSteps, Torn, Finish
<1>2. TypeOK'
  BY <1>1 DEF TypeOK, CheckDenied, Again, IInv, admin, modem, locks, Became, Noted, Stamped,
     Markers, LoopType
<1>3. LockInv'
  BY DEF LockInv, CheckDenied, IInv, admin, modem, locks
<1>4. CutInv'
  BY DEF CutInv, CheckDenied, IInv, admin, modem, locks
<1>5. MarkerInv'
  BY DEF MarkerInv, CheckDenied, IInv, admin, modem, locks
<1>6. QuietInv'
  BY DEF QuietInv, CheckDenied, IInv, admin, modem, locks
<1>7. HighInv'
  BY <1>1 DEF TypeOK, HighInv, Torn, Finish, CheckDenied, Again, IInv, admin, modem, locks,
     Became, Noted, Stamped
<1>8. PulseOwned'
  BY <1>1 DEF TypeOK, LockInv, HighInv, MarkerInv, PulseOwned, Held, Torn, Finish, CheckDenied,
     Again, IInv, admin, modem, locks, Became, Noted, Stamped
<1>9. SpaceInv'
  BY <1>1, RecoveryAssumption DEF TypeOK, SpaceInv, Excused, Held, Torn, Finish, CheckDenied,
     Again, IInv, admin, modem, locks, Became, Noted, Stamped
<1>. QED BY <1>2, <1>3, <1>4, <1>5, <1>6, <1>7, <1>8, <1>9 DEF IInv

LEMMA CheckQuietKeeps ==
  ASSUME IInv, NEW s \in Slots, CheckQuiet(s)
  PROVE  IInv'
<1>1. Stamped(s, st[s].since)
  BY QuietStamped DEF CheckQuiet, IInv, TypeOK, ActSteps, Torn, Finish
<1>2. TypeOK'
  BY <1>1 DEF TypeOK, CheckQuiet, Again, IInv, admin, locks, Became, Stamped, Markers, LoopType
<1>3. LockInv'
  BY DEF LockInv, CheckQuiet, IInv, admin, locks
<1>4. CutInv'
  BY DEF CutInv, CheckQuiet, IInv, admin, locks
<1>5. MarkerInv'
  BY DEF MarkerInv, CheckQuiet, IInv, admin, locks
<1>6. QuietInv'
  BY DEF QuietInv, CheckQuiet, IInv, admin, locks
<1>7. HighInv'
  BY DEF HighInv, CheckQuiet, IInv, admin, locks
<1>8. PulseOwned'
  BY DEF PulseOwned, CheckQuiet, IInv, admin, locks
<1>9. SpaceInv'
  BY <1>1, RecoveryAssumption DEF TypeOK, SpaceInv, Excused, Held, Torn, Finish, CheckQuiet,
     Again, IInv, admin, locks, Became, Stamped
<1>. QED BY <1>2, <1>3, <1>4, <1>5, <1>6, <1>7, <1>8, <1>9 DEF IInv

LEMMA RequestKeeps ==
  ASSUME IInv, NEW s \in Slots, Request(s)
  PROVE  IInv'
<1>1. /\ Became(s, "lock", "ok", "none", FALSE, FALSE, st[s].since)
      /\ Stamped(s, 0)
  BY RequestBecame, RequestStamped DEF Request, IInv, TypeOK, ActSteps, Torn, Finish
<1>2. TypeOK'
  BY <1>1 DEF TypeOK, Request, IInv, admin, modem, locks, Became, Stamped, Markers, LoopType
<1>3. LockInv'
  BY <1>1 DEF TypeOK, LockInv, Held, Torn, Finish, Request, IInv, admin, modem, locks, Became,
     Stamped
<1>4. CutInv'
  BY <1>1 DEF CutInv, Torn, Finish, Request, IInv, admin, modem, locks, Became, Stamped
<1>5. MarkerInv'
  BY <1>1 DEF TypeOK, LockInv, CutInv, MarkerInv, Held, Torn, Finish, Request, IInv, admin, modem,
     locks, Became, Stamped
<1>6. QuietInv'
  BY <1>1 DEF TypeOK, MarkerInv, QuietInv, CutInv, Torn, Finish, Past, Request, IInv, admin,
     modem, locks, Became, Stamped
<1>7. HighInv'
  BY <1>1 DEF TypeOK, HighInv, Torn, Finish, Request, IInv, admin, modem, locks, Became, Stamped
<1>8. PulseOwned'
  BY DEF PulseOwned, Request, IInv, admin, modem, locks
<1>9. SpaceInv'
  <2>1. st[s] \in StateType /\ \A t \in Slots : ghost[t] \in GhostType BY DEF IInv, TypeOK
  <2>2. st[s].since >= Verify
    BY <2>1, RecoveryAssumption DEF Request, Due, StateType
  <2>3. ghost' = ghost BY DEF Request
  <2>4. Excused(s) \/ (ghost[s].ago >= st[s].since /\ ghost[s].ago >= Verify /\ ghost[s].ago >= 0)
    BY <2>1, <2>2, RecoveryAssumption DEF IInv, SpaceInv, StateType, GhostType
  <2>. QED BY <1>1, <2>3, <2>4 DEF IInv, SpaceInv, Excused, Became, Stamped, Held, Torn, Finish
<1>. QED BY <1>2, <1>3, <1>4, <1>5, <1>6, <1>7, <1>8, <1>9 DEF IInv

LEMMA AccountKeeps ==
  ASSUME IInv, NEW s \in Slots, Account(s)
  PROVE  IInv'
<1>1. /\ Became(s, "none", "ok", "none", FALSE, FALSE, 0)
      /\ Stamped(s, IF act[s].result = "busy" THEN act[s].since ELSE 0)
      /\ Noted(s, IF act[s].result = "busy" THEN ghost[s].ago ELSE 0, ghost[s].last,
               ghost[s].forgot, ghost[s].manual)
  BY NoActBecame, AccountStamped, AccountNoted DEF Account, IInv, TypeOK, ActSteps, Torn, Finish
<1>2. TypeOK'
  BY <1>1 DEF TypeOK, Account, Again, IInv, admin, modem, locks, Became, Noted, Stamped, Markers,
     LoopType
<1>3. LockInv'
  BY <1>1 DEF TypeOK, LockInv, Held, Torn, Finish, Account, Again, IInv, admin, modem, locks,
     Became, Noted, Stamped
<1>4. CutInv'
  BY <1>1 DEF CutInv, Torn, Finish, Account, Again, IInv, admin, modem, locks, Became, Noted,
     Stamped
<1>5. MarkerInv'
  BY <1>1 DEF TypeOK, LockInv, CutInv, MarkerInv, Held, Torn, Finish, Account, Again, IInv, admin,
     modem, locks, Became, Noted, Stamped
<1>6. QuietInv'
  BY <1>1 DEF TypeOK, MarkerInv, QuietInv, CutInv, Torn, Finish, Past, Account, Again, IInv,
     admin, modem, locks, Became, Noted, Stamped
<1>7. HighInv'
  BY <1>1 DEF TypeOK, HighInv, Torn, Finish, Account, Again, IInv, admin, modem, locks, Became,
     Noted, Stamped
<1>8. PulseOwned'
  BY <1>1 DEF TypeOK, LockInv, HighInv, MarkerInv, PulseOwned, Held, Torn, Finish, Account, Again,
     IInv, admin, modem, locks, Became, Noted, Stamped
<1>9. SpaceInv'
  BY <1>1, RecoveryAssumption DEF TypeOK, SpaceInv, Excused, Held, Torn, Finish, Account, Again,
     IInv, admin, modem, locks, Became, Noted, Stamped
<1>. QED BY <1>2, <1>3, <1>4, <1>5, <1>6, <1>7, <1>8, <1>9 DEF IInv

-----------------------------------------------------------------------------
(* The recovery action keeps the invariant                                  *)

LEMMA TakeLocksKeeps ==
  ASSUME IInv, NEW s \in Slots, TakeLocks(s)
  PROVE  IInv'
<1>1. \/ Exit(s, "failed") /\ Became(s, "done", "failed", act[s].pid, act[s].off, act[s].deauth, act[s].since)
      \/ Exit(s, "busy") /\ Became(s, "done", "busy", act[s].pid, act[s].off, act[s].deauth, act[s].since)
      \/ LocksFree(s) /\ radio' = [radio EXCEPT ![s] = "recovery"]
         /\ actionLock' = actionLock \cup {s} /\ Became(s, "probe", act[s].result, act[s].pid, act[s].off, act[s].deauth, act[s].since)
  BY ExitBecame, StepBecame DEF TakeLocks, IInv, TypeOK, ActSteps, Torn, Finish
<1>2. TypeOK'
  BY <1>1 DEF TypeOK, TakeLocks, Exit, LocksFree, IInv, admin, modem, files, Became, Markers
<1>3. LockInv'
  BY <1>1 DEF TypeOK, LockInv, Held, Torn, Finish, TakeLocks, Exit, LocksFree, IInv, admin, modem,
     files, Became
<1>4. CutInv'
  BY <1>1 DEF CutInv, Torn, Finish, TakeLocks, Exit, LocksFree, IInv, admin, modem, files, Became
<1>5. MarkerInv'
  BY <1>1 DEF TypeOK, LockInv, CutInv, MarkerInv, Held, Torn, Finish, TakeLocks, Exit, LocksFree,
     IInv, admin, modem, files, Became
<1>6. QuietInv'
  BY <1>1 DEF TypeOK, MarkerInv, QuietInv, CutInv, Torn, Finish, Past, TakeLocks, Exit, LocksFree,
     IInv, admin, modem, files, Became
<1>7. HighInv'
  BY <1>1 DEF TypeOK, HighInv, Torn, Finish, TakeLocks, Exit, LocksFree, IInv, admin, modem,
     files, Became
<1>8. PulseOwned'
  BY DEF PulseOwned, TakeLocks, IInv, admin, modem, files
<1>9. SpaceInv'
  BY <1>1, RecoveryAssumption DEF TypeOK, SpaceInv, Excused, Held, Torn, Finish, TakeLocks, Exit,
     LocksFree, IInv, admin, modem, files, Became
<1>. QED BY <1>2, <1>3, <1>4, <1>5, <1>6, <1>7, <1>8, <1>9 DEF IInv

LEMMA ActProbeKeeps ==
  ASSUME IInv, NEW s \in Slots, ActProbe(s)
  PROVE  IInv'
<1>1. \/ Exit(s, "ok") /\ Became(s, "done", "ok", act[s].pid, act[s].off, act[s].deauth, act[s].since) /\ UNCHANGED <<recovering, ghost>>
      \/ Exit(s, "busy") /\ Became(s, "done", "busy", act[s].pid, act[s].off, act[s].deauth, act[s].since) /\ UNCHANGED <<recovering, ghost>>
      \/ /\ Became(s, "pid", act[s].result, act[s].pid, act[s].off, act[s].deauth, act[s].since)
         /\ recovering' = [recovering EXCEPT ![s] = "live"]
         /\ Noted(s, st[s].since, act[s].action, FALSE, ghost[s].manual)
         /\ UNCHANGED locks
  BY ExitBecame, StepBecame, TornNoted DEF ActProbe, TornRemembered, IInv, TypeOK, ActSteps, Torn,
     Finish
<1>2. TypeOK'
  BY <1>1 DEF TypeOK, ActProbe, Exit, IInv, admin, modem, locks, Became, Noted, Markers
<1>3. LockInv'
  BY <1>1 DEF TypeOK, LockInv, Held, Torn, Finish, ActProbe, Exit, IInv, admin, modem, locks,
     Became, Noted
<1>4. CutInv'
  BY <1>1 DEF CutInv, Torn, Finish, ActProbe, Exit, IInv, admin, modem, locks, Became, Noted
<1>5. MarkerInv'
  BY <1>1 DEF TypeOK, LockInv, CutInv, MarkerInv, Held, Torn, Finish, ActProbe, Exit, IInv, admin,
     modem, locks, Became, Noted
<1>6. QuietInv'
  BY <1>1 DEF TypeOK, MarkerInv, QuietInv, CutInv, Torn, Finish, Past, ActProbe, Exit, IInv,
     admin, modem, locks, Became, Noted
<1>7. HighInv'
  BY <1>1 DEF TypeOK, HighInv, Torn, Finish, ActProbe, Exit, IInv, admin, modem, locks, Became,
     Noted
<1>8. PulseOwned'
  BY <1>1 DEF TypeOK, LockInv, HighInv, MarkerInv, PulseOwned, Held, Torn, Finish, ActProbe, Exit,
     IInv, admin, modem, locks, Became, Noted
<1>9. SpaceInv'
  <2>1. st[s] \in StateType BY DEF IInv, TypeOK
  <2>2. st[s].since >= st[s].since BY <2>1, RecoveryAssumption DEF StateType
  <2>3. st' = st BY DEF ActProbe
  <2>. QED BY <1>1, <2>2, <2>3
           DEF ActProbe, IInv, SpaceInv, Excused, Became, Noted, Held, Torn, Finish
<1>. QED BY <1>2, <1>3, <1>4, <1>5, <1>6, <1>7, <1>8, <1>9 DEF IInv

LEMMA ActPidKeeps ==
  ASSUME IInv, NEW s \in Slots, ActPid(s)
  PROVE  IInv'
<1>1. \/ Became(s, "hang", act[s].result, "some", act[s].off, act[s].deauth, act[s].since)
      \/ worker[s] = "none" /\ Became(s, "hang", act[s].result, "none", act[s].off, act[s].deauth, act[s].since)
      \/ Became(s, "hang", act[s].result, "unheard", act[s].off, act[s].deauth, act[s].since)
      \/ Became(s, "finishPower", "failed", act[s].pid, act[s].off, act[s].deauth, act[s].since)
  BY PidBecame, FinishingBecame DEF ActPid, IInv, TypeOK, ActSteps, Torn, Finish
<1>2. TypeOK'
  BY <1>1 DEF TypeOK, ActPid, IInv, admin, modem, locks, files, Became, Markers
<1>3. LockInv'
  BY <1>1 DEF TypeOK, LockInv, Held, Torn, Finish, ActPid, IInv, admin, modem, locks, files, Became
<1>4. CutInv'
  BY <1>1 DEF CutInv, Torn, Finish, ActPid, IInv, admin, modem, locks, files, Became
<1>5. MarkerInv'
  BY <1>1 DEF TypeOK, LockInv, CutInv, MarkerInv, Held, Torn, Finish, ActPid, IInv, admin, modem,
     locks, files, Became
<1>6. QuietInv'
  BY <1>1 DEF TypeOK, MarkerInv, QuietInv, CutInv, Torn, Finish, Past, ActPid, IInv, admin, modem,
     locks, files, Became
<1>7. HighInv'
  BY <1>1 DEF TypeOK, HighInv, Torn, Finish, ActPid, IInv, admin, modem, locks, files, Became
<1>8. PulseOwned'
  BY DEF PulseOwned, ActPid, IInv, admin, modem, locks, files
<1>9. SpaceInv'
  BY <1>1, RecoveryAssumption DEF TypeOK, SpaceInv, Excused, Held, Torn, Finish, ActPid, IInv,
     admin, modem, locks, files, Became
<1>. QED BY <1>2, <1>3, <1>4, <1>5, <1>6, <1>7, <1>8, <1>9 DEF IInv

LEMMA ActHangKeeps ==
  ASSUME IInv, NEW s \in Slots, ActHang(s)
  PROVE  IInv'
<1>1. Became(s, "wait", act[s].result, act[s].pid, act[s].off, act[s].deauth, act[s].since)
  BY StepBecame DEF ActHang, IInv, TypeOK, ActSteps, Torn, Finish
<1>2. TypeOK'
  BY <1>1 DEF TypeOK, ActHang, Hang, IInv, admin, locks, files, Became, Markers
<1>3. LockInv'
  BY <1>1 DEF TypeOK, LockInv, Held, Torn, Finish, ActHang, Hang, IInv, admin, locks, files, Became
<1>4. CutInv'
  BY <1>1 DEF CutInv, Torn, Finish, ActHang, Hang, IInv, admin, locks, files, Became
<1>5. MarkerInv'
  BY <1>1 DEF TypeOK, LockInv, CutInv, MarkerInv, Held, Torn, Finish, ActHang, Hang, IInv, admin,
     locks, files, Became
<1>6. QuietInv'
  BY <1>1 DEF TypeOK, MarkerInv, QuietInv, CutInv, Torn, Finish, Past, ActHang, Hang, IInv, admin,
     locks, files, Became
<1>7. HighInv'
  BY <1>1 DEF TypeOK, HighInv, Torn, Finish, ActHang, Hang, IInv, admin, locks, files, Became
<1>8. PulseOwned'
  BY DEF PulseOwned, ActHang, IInv, admin, locks, files
<1>9. SpaceInv'
  BY <1>1, RecoveryAssumption DEF TypeOK, SpaceInv, Excused, Held, Torn, Finish, ActHang, Hang,
     IInv, admin, locks, files, Became
<1>. QED BY <1>2, <1>3, <1>4, <1>5, <1>6, <1>7, <1>8, <1>9 DEF IInv

LEMMA ActWaitKeeps ==
  ASSUME IInv, NEW s \in Slots, ActWait(s)
  PROVE  IInv'
<1>1. \/ OldWorkerGone(s) /\ Became(s, "authorized", act[s].result, act[s].pid, act[s].off, act[s].deauth, act[s].since)
      \/ Became(s, "finishPower", "failed", act[s].pid, act[s].off, act[s].deauth, act[s].since)
  BY StepBecame, FinishingBecame DEF ActWait, IInv, TypeOK, ActSteps, Torn, Finish
<1>2. TypeOK'
  BY <1>1 DEF TypeOK, ActWait, OldWorkerGone, IInv, admin, modem, locks, files, Became, Markers
<1>3. LockInv'
  BY <1>1 DEF TypeOK, LockInv, Held, Torn, Finish, ActWait, OldWorkerGone, IInv, admin, modem,
     locks, files, Became
<1>4. CutInv'
  BY <1>1 DEF CutInv, Torn, Finish, ActWait, OldWorkerGone, IInv, admin, modem, locks, files, Became
<1>5. MarkerInv'
  BY <1>1 DEF TypeOK, LockInv, CutInv, MarkerInv, Held, Torn, Finish, ActWait, OldWorkerGone,
     IInv, admin, modem, locks, files, Became
<1>6. QuietInv'
  <2>1. worker' = worker /\ act[s].at = "wait" BY DEF ActWait, modem
  <2>2. CutInv' /\ ~act[s].off /\ ~act[s].deauth BY <1>4 DEF IInv, CutInv, ActWait, Finish
  <2>3. act[s].pid \in {"none", "some", "unheard"} BY DEF IInv, TypeOK, ActType
  <2>4. OldWorkerGone(s) /\ act[s].pid # "unheard" => worker[s] \in {"none", "waiting"}
    BY <2>1, <2>3 DEF OldWorkerGone, IInv, QuietInv
  <2>. QED BY <1>1, <2>1, <2>2, <2>4 DEF IInv, QuietInv, Became, Past, Finish
<1>7. HighInv'
  BY <1>1 DEF TypeOK, HighInv, Torn, Finish, ActWait, OldWorkerGone, IInv, admin, modem, locks,
     files, Became
<1>8. PulseOwned'
  BY DEF PulseOwned, ActWait, IInv, admin, modem, locks, files
<1>9. SpaceInv'
  BY <1>1, RecoveryAssumption DEF TypeOK, SpaceInv, Excused, Held, Torn, Finish, ActWait,
     OldWorkerGone, IInv, admin, modem, locks, files, Became
<1>. QED BY <1>2, <1>3, <1>4, <1>5, <1>6, <1>7, <1>8, <1>9 DEF IInv

LEMMA ActAuthorizedKeeps ==
  ASSUME IInv, NEW s \in Slots, ActAuthorized(s)
  PROVE  IInv'
<1>1. \/ \E r \in {"ok", "failed"} : Became(s, "finishPower", r, act[s].pid, act[s].off, act[s].deauth, act[s].since)
      \/ \E a \in {"usbOff", "mark", "restart"} : Became(s, a, act[s].result, act[s].pid, act[s].off, act[s].deauth, act[s].since)
  <2>1. act[s].action \in Actions BY DEF IInv, TypeOK, ActType
  <2>2. CASE ~Authorized(s)
    BY <2>2, FinishingBecame DEF ActAuthorized, IInv, TypeOK
  <2>3. CASE Authorized(s) /\ act[s].action = "usb_reset"
    BY <2>3, StepBecame DEF ActAuthorized, IInv, TypeOK, ActSteps, Torn
  <2>4. CASE Authorized(s) /\ act[s].action = "power_cycle"
    BY <2>4, StepBecame DEF ActAuthorized, IInv, TypeOK, ActSteps, Torn
  <2>5. CASE Authorized(s) /\ act[s].action = "redial"
    BY <2>5, StepBecame DEF ActAuthorized, IInv, TypeOK, ActSteps, Torn
  <2>6. CASE Authorized(s) /\ act[s].action = "disconnect"
    BY <2>6, FinishingBecame DEF ActAuthorized, IInv, TypeOK
  <2>. QED BY <2>1, <2>2, <2>3, <2>4, <2>5, <2>6 DEF Actions
<1>2. TypeOK'
  BY <1>1 DEF TypeOK, ActAuthorized, IInv, admin, modem, locks, files, Became, Markers
<1>3. LockInv'
  BY <1>1 DEF TypeOK, LockInv, Held, Torn, Finish, ActAuthorized, IInv, admin, modem, locks,
     files, Became
<1>4. CutInv'
  BY <1>1 DEF CutInv, Torn, Finish, ActAuthorized, IInv, admin, modem, locks, files, Became
<1>5. MarkerInv'
  BY <1>1 DEF TypeOK, LockInv, CutInv, MarkerInv, Held, Torn, Finish, ActAuthorized, IInv, admin,
     modem, locks, files, Became
<1>6. QuietInv'
  BY <1>1 DEF TypeOK, MarkerInv, QuietInv, CutInv, Torn, Finish, Past, ActAuthorized, IInv, admin,
     modem, locks, files, Became
<1>7. HighInv'
  BY <1>1 DEF TypeOK, HighInv, Torn, Finish, ActAuthorized, IInv, admin, modem, locks, files, Became
<1>8. PulseOwned'
  BY DEF PulseOwned, ActAuthorized, IInv, admin, modem, locks, files
<1>9. SpaceInv'
  BY <1>1, RecoveryAssumption DEF TypeOK, SpaceInv, Excused, Held, Torn, Finish, ActAuthorized,
     IInv, admin, modem, locks, files, Became
<1>. QED BY <1>2, <1>3, <1>4, <1>5, <1>6, <1>7, <1>8, <1>9 DEF IInv

LEMMA ActUsbOffKeeps ==
  ASSUME IInv, NEW s \in Slots, ActUsbOff(s)
  PROVE  IInv'
<1>1. \/ Became(s, "usbOn", act[s].result, act[s].pid, act[s].off, TRUE, act[s].since)
      \/ Became(s, "finishPower", "failed", act[s].pid, act[s].off, TRUE, act[s].since)
  BY DeauthBecame, DeauthFailed DEF ActUsbOff, IInv, TypeOK, ActSteps, Torn, Finish
<1>2. TypeOK'
  BY <1>1 DEF TypeOK, ActUsbOff, IInv, admin, locks, files, Became, Markers
<1>3. LockInv'
  BY <1>1 DEF TypeOK, LockInv, Held, Torn, Finish, ActUsbOff, IInv, admin, locks, files, Became
<1>4. CutInv'
  BY <1>1 DEF CutInv, Torn, Finish, ActUsbOff, IInv, admin, locks, files, Became
<1>5. MarkerInv'
  BY <1>1 DEF TypeOK, LockInv, CutInv, MarkerInv, Held, Torn, Finish, ActUsbOff, IInv, admin,
     locks, files, Became
<1>6. QuietInv'
  BY <1>1 DEF TypeOK, MarkerInv, QuietInv, CutInv, Torn, Finish, Past, ActUsbOff, IInv, admin,
     locks, files, Became
<1>7. HighInv'
  BY <1>1 DEF TypeOK, HighInv, Torn, Finish, ActUsbOff, IInv, admin, locks, files, Became
<1>8. PulseOwned'
  BY DEF PulseOwned, ActUsbOff, IInv, admin, locks, files
<1>9. SpaceInv'
  BY <1>1, RecoveryAssumption DEF TypeOK, SpaceInv, Excused, Held, Torn, Finish, ActUsbOff, IInv,
     admin, locks, files, Became
<1>. QED BY <1>2, <1>3, <1>4, <1>5, <1>6, <1>7, <1>8, <1>9 DEF IInv

LEMMA ActUsbOnKeeps ==
  ASSUME IInv, NEW s \in Slots, ActUsbOn(s)
  PROVE  IInv'
<1>1. \/ Became(s, "restart", act[s].result, act[s].pid, act[s].off, FALSE, act[s].since)
      \/ Became(s, "finishPower", "failed", act[s].pid, act[s].off, act[s].deauth, act[s].since)
  BY DeauthBecame, FinishingBecame DEF ActUsbOn, IInv, TypeOK, ActSteps, Torn, Finish
<1>2. TypeOK'
  BY <1>1 DEF TypeOK, ActUsbOn, IInv, admin, locks, files, Became, Markers
<1>3. LockInv'
  BY <1>1 DEF TypeOK, LockInv, Held, Torn, Finish, ActUsbOn, IInv, admin, locks, files, Became
<1>4. CutInv'
  BY <1>1 DEF CutInv, Torn, Finish, ActUsbOn, IInv, admin, locks, files, Became
<1>5. MarkerInv'
  BY <1>1 DEF TypeOK, LockInv, CutInv, MarkerInv, Held, Torn, Finish, ActUsbOn, IInv, admin,
     locks, files, Became
<1>6. QuietInv'
  BY <1>1 DEF TypeOK, MarkerInv, QuietInv, CutInv, Torn, Finish, Past, ActUsbOn, IInv, admin,
     locks, files, Became
<1>7. HighInv'
  BY <1>1 DEF TypeOK, HighInv, Torn, Finish, ActUsbOn, IInv, admin, locks, files, Became
<1>8. PulseOwned'
  BY DEF PulseOwned, ActUsbOn, IInv, admin, locks, files
<1>9. SpaceInv'
  BY <1>1, RecoveryAssumption DEF TypeOK, SpaceInv, Excused, Held, Torn, Finish, ActUsbOn, IInv,
     admin, locks, files, Became
<1>. QED BY <1>2, <1>3, <1>4, <1>5, <1>6, <1>7, <1>8, <1>9 DEF IInv

LEMMA ActMarkKeeps ==
  ASSUME IInv, NEW s \in Slots, ActMark(s)
  PROVE  IInv'
<1>1. Became(s, "low", act[s].result, act[s].pid, TRUE, act[s].deauth, act[s].since)
  BY CutBecame DEF ActMark, IInv, TypeOK, ActSteps, Torn, Finish
<1>2. TypeOK'
  BY <1>1 DEF TypeOK, ActMark, IInv, admin, modem, locks, Became, Markers
<1>3. LockInv'
  BY <1>1 DEF TypeOK, LockInv, Held, Torn, Finish, ActMark, IInv, admin, modem, locks, Became
<1>4. CutInv'
  BY <1>1 DEF CutInv, Torn, Finish, ActMark, IInv, admin, modem, locks, Became
<1>5. MarkerInv'
  BY <1>1 DEF TypeOK, LockInv, CutInv, MarkerInv, Held, Torn, Finish, ActMark, IInv, admin, modem,
     locks, Became
<1>6. QuietInv'
  BY <1>1 DEF TypeOK, MarkerInv, QuietInv, CutInv, Torn, Finish, Past, ActMark, IInv, admin,
     modem, locks, Became
<1>7. HighInv'
  BY <1>1 DEF TypeOK, HighInv, Torn, Finish, ActMark, IInv, admin, modem, locks, Became
<1>8. PulseOwned'
  BY <1>1 DEF TypeOK, LockInv, HighInv, MarkerInv, PulseOwned, Held, Torn, Finish, ActMark, IInv,
     admin, modem, locks, Became
<1>9. SpaceInv'
  BY <1>1, RecoveryAssumption DEF TypeOK, SpaceInv, Excused, Held, Torn, Finish, ActMark, IInv,
     admin, modem, locks, Became
<1>. QED BY <1>2, <1>3, <1>4, <1>5, <1>6, <1>7, <1>8, <1>9 DEF IInv

LEMMA ActLowKeeps ==
  ASSUME IInv, NEW s \in Slots, ActLow(s)
  PROVE  IInv'
<1>1. \/ /\ Power(s, 0) /\ Became(s, "high", act[s].result, act[s].pid, act[s].off, act[s].deauth, act[s].since)
         /\ Noted(s, ghost[s].ago, ghost[s].last, ghost[s].forgot,
                  IF gpio[s] = 1 THEN "no" ELSE ghost[s].manual)
      \/ Became(s, "finishPower", "failed", act[s].pid, act[s].off, act[s].deauth, act[s].since) /\ UNCHANGED <<gpio, usb, session, ghost>>
  <2> DEFINE m == IF gpio[s] = 1 THEN "no" ELSE ghost[s].manual
  <2>1. m \in {"no", "marked", "unmarked"} BY DEF IInv, TypeOK, GhostType
  <2>2. \/ /\ Power(s, 0) /\ Step(s, "high")
           /\ ghost' = [ghost EXCEPT ![s].manual = m]
        \/ Finishing(s, "failed") /\ UNCHANGED <<gpio, usb, session, ghost>>
    BY DEF ActLow
  <2> HIDE DEF m
  <2>3. ASSUME ghost' = [ghost EXCEPT ![s].manual = m]
        PROVE  Noted(s, ghost[s].ago, ghost[s].last, ghost[s].forgot, m)
    BY <2>1, <2>3, ManualNoted DEF IInv
  <2>4. \/ /\ Power(s, 0) /\ Step(s, "high")
           /\ Noted(s, ghost[s].ago, ghost[s].last, ghost[s].forgot, m)
        \/ Finishing(s, "failed") /\ UNCHANGED <<gpio, usb, session, ghost>>
    BY <2>2, <2>3
  <2>5. act \in [Slots -> ActType] /\ "high" \in ActSteps BY DEF IInv, TypeOK, ActSteps, Torn
  <2>. QED BY <2>4, <2>5, StepBecame, FinishingBecame DEF m
<1>2. TypeOK'
  <2>1. gpio' \in [Slots -> {0, 1}] /\ usb' \in [Slots -> {0, 1}] /\ session' \in [Slots -> BOOLEAN]
    <3>1. gpio \in [Slots -> {0, 1}] /\ usb \in [Slots -> {0, 1}] /\ session \in [Slots -> BOOLEAN]
      BY DEF IInv, TypeOK
    <3>2. CASE Power(s, 0) BY <3>1, <3>2 DEF Power
    <3>3. CASE UNCHANGED <<gpio, usb, session>> BY <3>1, <3>3
    <3>. QED BY <1>1, <3>2, <3>3
  <2>2. act' \in [Slots -> ActType] /\ ghost' \in [Slots -> GhostType]
    BY <1>1 DEF Became, Noted, IInv, TypeOK
  <2>. QED BY <2>1, <2>2 DEF ActLow, IInv, TypeOK, admin, locks, files
<1>3. LockInv'
  BY <1>1 DEF TypeOK, LockInv, Held, Torn, Finish, ActLow, Power, IInv, admin, locks, files,
     Became, Noted
<1>4. CutInv'
  BY <1>1 DEF CutInv, Torn, Finish, ActLow, Power, IInv, admin, locks, files, Became, Noted
<1>5. MarkerInv'
  BY <1>1 DEF TypeOK, LockInv, CutInv, MarkerInv, Held, Torn, Finish, ActLow, Power, IInv, admin,
     locks, files, Became, Noted
<1>6. QuietInv'
  BY <1>1 DEF TypeOK, MarkerInv, QuietInv, CutInv, Torn, Finish, Past, ActLow, Power, IInv, admin,
     locks, files, Became, Noted
<1>7. HighInv'
  BY <1>1 DEF TypeOK, HighInv, Torn, Finish, ActLow, Power, IInv, admin, locks, files, Became, Noted
<1>8. PulseOwned'
  BY <1>1 DEF TypeOK, LockInv, HighInv, MarkerInv, PulseOwned, Held, Torn, Finish, ActLow, Power,
     IInv, admin, locks, files, Became, Noted
<1>9. SpaceInv'
  BY <1>1, RecoveryAssumption DEF TypeOK, SpaceInv, Excused, Held, Torn, Finish, ActLow, Power,
     IInv, admin, locks, files, Became, Noted
<1>. QED BY <1>2, <1>3, <1>4, <1>5, <1>6, <1>7, <1>8, <1>9 DEF IInv

LEMMA ActHighKeeps ==
  ASSUME IInv, NEW s \in Slots, ActHigh(s)
  PROVE  IInv'
<1>1. \/ Power(s, 1) /\ Became(s, "unmark", act[s].result, act[s].pid, act[s].off, act[s].deauth, act[s].since)
      \/ Became(s, "finishPower", "failed", act[s].pid, act[s].off, act[s].deauth, act[s].since) /\ UNCHANGED <<gpio, usb, session>>
  BY StepBecame, FinishingBecame DEF ActHigh, IInv, TypeOK, ActSteps, Torn, Finish
<1>2. TypeOK'
  BY <1>1 DEF TypeOK, ActHigh, Power, IInv, admin, locks, files, Became, Markers
<1>3. LockInv'
  BY <1>1 DEF TypeOK, LockInv, Held, Torn, Finish, ActHigh, Power, IInv, admin, locks, files, Became
<1>4. CutInv'
  BY <1>1 DEF CutInv, Torn, Finish, ActHigh, Power, IInv, admin, locks, files, Became
<1>5. MarkerInv'
  BY <1>1 DEF TypeOK, LockInv, CutInv, MarkerInv, Held, Torn, Finish, ActHigh, Power, IInv, admin,
     locks, files, Became
<1>6. QuietInv'
  BY <1>1 DEF TypeOK, MarkerInv, QuietInv, CutInv, Torn, Finish, Past, ActHigh, Power, IInv,
     admin, locks, files, Became
<1>7. HighInv'
  BY <1>1 DEF TypeOK, HighInv, Torn, Finish, ActHigh, Power, IInv, admin, locks, files, Became
<1>8. PulseOwned'
  BY <1>1 DEF TypeOK, LockInv, HighInv, MarkerInv, PulseOwned, Held, Torn, Finish, ActHigh, Power,
     IInv, admin, locks, files, Became
<1>9. SpaceInv'
  BY <1>1, RecoveryAssumption DEF TypeOK, SpaceInv, Excused, Held, Torn, Finish, ActHigh, Power,
     IInv, admin, locks, files, Became
<1>. QED BY <1>2, <1>3, <1>4, <1>5, <1>6, <1>7, <1>8, <1>9 DEF IInv

LEMMA ActUnmarkKeeps ==
  ASSUME IInv, NEW s \in Slots, ActUnmark(s)
  PROVE  IInv'
<1>1. Became(s, "restart", act[s].result, act[s].pid, FALSE, act[s].deauth, act[s].since)
  BY CutBecame DEF ActUnmark, IInv, TypeOK, ActSteps, Torn, Finish
<1>2. TypeOK'
  BY <1>1 DEF TypeOK, ActUnmark, IInv, admin, modem, locks, Became, Markers
<1>3. LockInv'
  BY <1>1 DEF TypeOK, LockInv, Held, Torn, Finish, ActUnmark, IInv, admin, modem, locks, Became
<1>4. CutInv'
  BY <1>1 DEF CutInv, Torn, Finish, ActUnmark, IInv, admin, modem, locks, Became
<1>5. MarkerInv'
  BY <1>1 DEF TypeOK, LockInv, CutInv, MarkerInv, Held, Torn, Finish, ActUnmark, IInv, admin,
     modem, locks, Became
<1>6. QuietInv'
  BY <1>1 DEF TypeOK, MarkerInv, QuietInv, CutInv, Torn, Finish, Past, ActUnmark, IInv, admin,
     modem, locks, Became
<1>7. HighInv'
  BY <1>1 DEF TypeOK, HighInv, Torn, Finish, ActUnmark, IInv, admin, modem, locks, Became
<1>8. PulseOwned'
  BY <1>1 DEF TypeOK, LockInv, HighInv, MarkerInv, PulseOwned, Held, Torn, Finish, ActUnmark,
     IInv, admin, modem, locks, Became
<1>9. SpaceInv'
  BY <1>1, RecoveryAssumption DEF TypeOK, SpaceInv, Excused, Held, Torn, Finish, ActUnmark, IInv,
     admin, modem, locks, Became
<1>. QED BY <1>2, <1>3, <1>4, <1>5, <1>6, <1>7, <1>8, <1>9 DEF IInv

LEMMA ActRestartKeeps ==
  ASSUME IInv, NEW s \in Slots, ActRestart(s)
  PROVE  IInv'
<1>1. \/ Became(s, "dial", act[s].result, act[s].pid, act[s].off, act[s].deauth, act[s].since) /\ recovering' = [recovering EXCEPT ![s] = "none"]
      \/ Became(s, "finishPower", "failed", act[s].pid, act[s].off, act[s].deauth, act[s].since) /\ UNCHANGED recovering
  BY StepBecame, FinishingBecame DEF ActRestart, IInv, TypeOK, ActSteps, Torn, Finish
<1>2. TypeOK'
  BY <1>1 DEF TypeOK, ActRestart, IInv, admin, modem, locks, Became, Markers
<1>3. LockInv'
  BY <1>1 DEF TypeOK, LockInv, Held, Torn, Finish, ActRestart, IInv, admin, modem, locks, Became
<1>4. CutInv'
  BY <1>1 DEF CutInv, Torn, Finish, ActRestart, IInv, admin, modem, locks, Became
<1>5. MarkerInv'
  BY <1>1 DEF TypeOK, LockInv, CutInv, MarkerInv, Held, Torn, Finish, ActRestart, IInv, admin,
     modem, locks, Became
<1>6. QuietInv'
  BY <1>1 DEF TypeOK, MarkerInv, QuietInv, CutInv, Torn, Finish, Past, ActRestart, IInv, admin,
     modem, locks, Became
<1>7. HighInv'
  BY <1>1 DEF TypeOK, HighInv, Torn, Finish, ActRestart, IInv, admin, modem, locks, Became
<1>8. PulseOwned'
  BY DEF PulseOwned, ActRestart, IInv, admin, modem, locks
<1>9. SpaceInv'
  BY <1>1, RecoveryAssumption DEF TypeOK, SpaceInv, Excused, Held, Torn, Finish, ActRestart, IInv,
     admin, modem, locks, Became
<1>. QED BY <1>2, <1>3, <1>4, <1>5, <1>6, <1>7, <1>8, <1>9 DEF IInv

LEMMA ActDialKeeps ==
  ASSUME IInv, NEW s \in Slots, ActDial(s)
  PROVE  IInv'
<1>1. \/ Became(s, "finishPower", "ok", act[s].pid, act[s].off, act[s].deauth, act[s].since) /\ UNCHANGED recovering
      \/ Became(s, "finishPower", "failed", act[s].pid, act[s].off, act[s].deauth, act[s].since) /\ recovering' = [recovering EXCEPT ![s] = "live"]
  BY FinishingBecame DEF ActDial, IInv, TypeOK, ActSteps, Torn, Finish
<1>2. TypeOK'
  BY <1>1 DEF TypeOK, ActDial, Dial, IInv, admin, locks, Became, Markers
<1>3. LockInv'
  BY <1>1 DEF TypeOK, LockInv, Held, Torn, Finish, ActDial, Dial, IInv, admin, locks, Became
<1>4. CutInv'
  BY <1>1 DEF CutInv, Torn, Finish, ActDial, Dial, IInv, admin, locks, Became
<1>5. MarkerInv'
  BY <1>1 DEF TypeOK, LockInv, CutInv, MarkerInv, Held, Torn, Finish, ActDial, Dial, IInv, admin,
     locks, Became
<1>6. QuietInv'
  BY <1>1 DEF TypeOK, MarkerInv, QuietInv, CutInv, Torn, Finish, Past, ActDial, Dial, IInv, admin,
     locks, Became
<1>7. HighInv'
  BY <1>1 DEF TypeOK, HighInv, Torn, Finish, ActDial, Dial, IInv, admin, locks, Became
<1>8. PulseOwned'
  BY DEF PulseOwned, ActDial, IInv, admin, locks
<1>9. SpaceInv'
  BY <1>1, RecoveryAssumption DEF TypeOK, SpaceInv, Excused, Held, Torn, Finish, ActDial, Dial,
     IInv, admin, locks, Became
<1>. QED BY <1>2, <1>3, <1>4, <1>5, <1>6, <1>7, <1>8, <1>9 DEF IInv

LEMMA FinishPowerKeeps ==
  ASSUME IInv, NEW s \in Slots, FinishPower(s)
  PROVE  IInv'
<1>1. Became(s, "finishMarker", act[s].result, act[s].pid, act[s].off, act[s].deauth, act[s].since)
  BY StepBecame DEF FinishPower, IInv, TypeOK, ActSteps, Torn, Finish
<1>2. TypeOK'
  BY <1>1 DEF TypeOK, FinishPower, Power, IInv, admin, locks, files, Became, Markers
<1>3. LockInv'
  BY <1>1 DEF TypeOK, LockInv, Held, Torn, Finish, FinishPower, Power, IInv, admin, locks, files,
     Became
<1>4. CutInv'
  BY <1>1 DEF CutInv, Torn, Finish, FinishPower, Power, IInv, admin, locks, files, Became
<1>5. MarkerInv'
  BY <1>1 DEF TypeOK, LockInv, CutInv, MarkerInv, Held, Torn, Finish, FinishPower, Power, IInv,
     admin, locks, files, Became
<1>6. QuietInv'
  BY <1>1 DEF TypeOK, MarkerInv, QuietInv, CutInv, Torn, Finish, Past, FinishPower, Power, IInv,
     admin, locks, files, Became
<1>7. HighInv'
  BY <1>1 DEF TypeOK, HighInv, Torn, Finish, FinishPower, Power, IInv, admin, locks, files, Became
<1>8. PulseOwned'
  BY <1>1 DEF TypeOK, LockInv, HighInv, MarkerInv, PulseOwned, Held, Torn, Finish, FinishPower,
     Power, IInv, admin, locks, files, Became
<1>9. SpaceInv'
  BY <1>1, RecoveryAssumption DEF TypeOK, SpaceInv, Excused, Held, Torn, Finish, FinishPower,
     Power, IInv, admin, locks, files, Became
<1>. QED BY <1>2, <1>3, <1>4, <1>5, <1>6, <1>7, <1>8, <1>9 DEF IInv

LEMMA FinishMarkerKeeps ==
  ASSUME IInv, NEW s \in Slots, FinishMarker(s)
  PROVE  IInv'
<1>1. Became(s, "finishEnd", act[s].result, act[s].pid, act[s].off, act[s].deauth, act[s].since)
  BY StepBecame DEF FinishMarker, IInv, TypeOK, ActSteps, Torn, Finish
<1>2. TypeOK'
  BY <1>1 DEF TypeOK, FinishMarker, PoweredBack, IInv, admin, modem, locks, Became, Markers
<1>3. LockInv'
  BY <1>1 DEF TypeOK, LockInv, Held, Torn, Finish, FinishMarker, PoweredBack, IInv, admin, modem,
     locks, Became
<1>4. CutInv'
  BY <1>1 DEF CutInv, Torn, Finish, FinishMarker, PoweredBack, IInv, admin, modem, locks, Became
<1>5. MarkerInv'
  BY <1>1 DEF TypeOK, LockInv, CutInv, MarkerInv, Held, Torn, Finish, FinishMarker, PoweredBack,
     IInv, admin, modem, locks, Became
<1>6. QuietInv'
  BY <1>1 DEF TypeOK, MarkerInv, QuietInv, CutInv, Torn, Finish, Past, FinishMarker, PoweredBack,
     IInv, admin, modem, locks, Became
<1>7. HighInv'
  BY <1>1 DEF TypeOK, HighInv, Torn, Finish, FinishMarker, PoweredBack, IInv, admin, modem, locks,
     Became
<1>8. PulseOwned'
  BY <1>1 DEF TypeOK, LockInv, HighInv, MarkerInv, PulseOwned, Held, Torn, Finish, FinishMarker,
     PoweredBack, IInv, admin, modem, locks, Became
<1>9. SpaceInv'
  BY <1>1, RecoveryAssumption DEF TypeOK, SpaceInv, Excused, Held, Torn, Finish, FinishMarker,
     PoweredBack, IInv, admin, modem, locks, Became
<1>. QED BY <1>2, <1>3, <1>4, <1>5, <1>6, <1>7, <1>8, <1>9 DEF IInv

LEMMA FinishEndKeeps ==
  ASSUME IInv, NEW s \in Slots, FinishEnd(s)
  PROVE  IInv'
<1>1. Exit(s, act[s].result) /\ Became(s, "done", act[s].result, act[s].pid, act[s].off, act[s].deauth, act[s].since)
  <2>1. act[s].result \in {"ok", "failed", "busy"} BY DEF IInv, TypeOK, ActType
  <2>. QED BY <2>1, ExitBecame DEF FinishEnd, IInv, TypeOK
<1>2. TypeOK'
  BY <1>1 DEF TypeOK, FinishEnd, Exit, IInv, admin, modem, Became, Markers
<1>3. LockInv'
  BY <1>1 DEF TypeOK, LockInv, Held, Torn, Finish, FinishEnd, Exit, IInv, admin, modem, Became
<1>4. CutInv'
  BY <1>1 DEF CutInv, Torn, Finish, FinishEnd, Exit, IInv, admin, modem, Became
<1>5. MarkerInv'
  BY <1>1 DEF TypeOK, LockInv, CutInv, MarkerInv, Held, Torn, Finish, FinishEnd, Exit, IInv,
     admin, modem, Became
<1>6. QuietInv'
  BY <1>1 DEF TypeOK, MarkerInv, QuietInv, CutInv, Torn, Finish, Past, FinishEnd, Exit, IInv,
     admin, modem, Became
<1>7. HighInv'
  BY <1>1 DEF TypeOK, HighInv, Torn, Finish, FinishEnd, Exit, IInv, admin, modem, Became
<1>8. PulseOwned'
  BY <1>1 DEF TypeOK, LockInv, HighInv, MarkerInv, PulseOwned, Held, Torn, Finish, FinishEnd,
     Exit, IInv, admin, modem, Became
<1>9. SpaceInv'
  BY <1>1, RecoveryAssumption DEF TypeOK, SpaceInv, Excused, Held, Torn, Finish, FinishEnd, Exit,
     IInv, admin, modem, Became
<1>. QED BY <1>2, <1>3, <1>4, <1>5, <1>6, <1>7, <1>8, <1>9 DEF IInv

-----------------------------------------------------------------------------
(* Signals, restarts and everyone else keep the invariant                   *)

LEMMA InterruptedKeeps ==
  ASSUME IInv, NEW s \in Slots, Interrupted(s)
  PROVE  IInv'
<1>1. Became(s, "finishPower", "failed", act[s].pid, act[s].off, act[s].deauth, act[s].since)
  BY FinishingBecame DEF Interrupted, IInv, TypeOK, ActSteps, Torn, Finish
<1>2. TypeOK'
  BY <1>1 DEF TypeOK, Interrupted, IInv, admin, modem, locks, files, Became, Markers
<1>3. LockInv'
  BY <1>1 DEF TypeOK, LockInv, Held, Torn, Finish, Interrupted, IInv, admin, modem, locks, files,
     Became
<1>4. CutInv'
  BY <1>1 DEF CutInv, Torn, Finish, Interrupted, IInv, admin, modem, locks, files, Became
<1>5. MarkerInv'
  BY <1>1 DEF TypeOK, LockInv, CutInv, MarkerInv, Held, Torn, Finish, Interrupted, IInv, admin,
     modem, locks, files, Became
<1>6. QuietInv'
  BY <1>1 DEF TypeOK, MarkerInv, QuietInv, CutInv, Torn, Finish, Past, Interrupted, IInv, admin,
     modem, locks, files, Became
<1>7. HighInv'
  BY <1>1 DEF TypeOK, HighInv, Torn, Finish, Interrupted, IInv, admin, modem, locks, files, Became
<1>8. PulseOwned'
  BY DEF PulseOwned, Interrupted, IInv, admin, modem, locks, files
<1>9. SpaceInv'
  BY <1>1, RecoveryAssumption DEF TypeOK, SpaceInv, Excused, Held, Torn, Finish, Interrupted,
     IInv, admin, modem, locks, files, Became
<1>. QED BY <1>2, <1>3, <1>4, <1>5, <1>6, <1>7, <1>8, <1>9 DEF IInv

LEMMA KilledKeeps ==
  ASSUME IInv, NEW s \in Slots, Killed(s)
  PROVE  IInv'
<1>1. Exit(s, "failed") /\ Became(s, "done", "failed", act[s].pid, act[s].off, act[s].deauth, act[s].since)
  BY ExitBecame DEF Killed, IInv, TypeOK, ActSteps, Torn, Finish
<1>2. TypeOK'
  BY <1>1 DEF TypeOK, Killed, Exit, IInv, admin, modem, Became, Markers
<1>3. LockInv'
  BY <1>1 DEF TypeOK, LockInv, Held, Torn, Finish, Killed, Exit, IInv, admin, modem, Became
<1>4. CutInv'
  BY <1>1 DEF CutInv, Torn, Finish, Killed, Exit, IInv, admin, modem, Became
<1>5. MarkerInv'
  BY <1>1 DEF TypeOK, LockInv, CutInv, MarkerInv, Held, Torn, Finish, Killed, Exit, IInv, admin,
     modem, Became
<1>6. QuietInv'
  BY <1>1 DEF TypeOK, MarkerInv, QuietInv, CutInv, Torn, Finish, Past, Killed, Exit, IInv, admin,
     modem, Became
<1>7. HighInv'
  BY <1>1 DEF TypeOK, HighInv, Torn, Finish, Killed, Exit, IInv, admin, modem, Became
<1>8. PulseOwned'
  BY <1>1 DEF TypeOK, LockInv, HighInv, MarkerInv, PulseOwned, Held, Torn, Finish, Killed, Exit,
     IInv, admin, modem, Became
<1>9. SpaceInv'
  BY <1>1, RecoveryAssumption DEF TypeOK, SpaceInv, Excused, Held, Torn, Finish, Killed, Exit,
     IInv, admin, modem, Became
<1>. QED BY <1>2, <1>3, <1>4, <1>5, <1>6, <1>7, <1>8, <1>9 DEF IInv

LEMMA WatchdogKilledKeeps ==
  ASSUME IInv, NEW s \in Slots, WatchdogKilled(s)
  PROVE  IInv'
<1>1. TypeOK'
  BY DEF TypeOK, WatchdogKilled, IInv, admin, modem, locks, files, Markers, LoopType
<1>2. LockInv'
  BY DEF LockInv, WatchdogKilled, IInv, admin, modem, locks, files
<1>3. CutInv'
  BY DEF CutInv, WatchdogKilled, IInv, admin, modem, locks, files
<1>4. MarkerInv'
  BY DEF MarkerInv, WatchdogKilled, IInv, admin, modem, locks, files
<1>5. QuietInv'
  BY DEF QuietInv, WatchdogKilled, IInv, admin, modem, locks, files
<1>6. HighInv'
  BY DEF HighInv, WatchdogKilled, IInv, admin, modem, locks, files
<1>7. PulseOwned'
  BY DEF PulseOwned, WatchdogKilled, IInv, admin, modem, locks, files
<1>8. SpaceInv'
  BY DEF SpaceInv, WatchdogKilled, IInv, admin, modem, locks, files, Excused
<1>. QED BY <1>1, <1>2, <1>3, <1>4, <1>5, <1>6, <1>7, <1>8 DEF IInv

LEMMA OrphanEndsKeeps ==
  ASSUME IInv, NEW s \in Slots, OrphanEnds(s)
  PROVE  IInv'
<1>1. Became(s, "none", "ok", "none", FALSE, FALSE, 0)
  BY NoActBecame DEF OrphanEnds, IInv, TypeOK, ActSteps, Torn, Finish
<1>2. TypeOK'
  BY <1>1 DEF TypeOK, OrphanEnds, IInv, admin, modem, locks, files, Became, Markers
<1>3. LockInv'
  BY <1>1 DEF TypeOK, LockInv, Held, Torn, Finish, OrphanEnds, IInv, admin, modem, locks, files,
     Became
<1>4. CutInv'
  BY <1>1 DEF CutInv, Torn, Finish, OrphanEnds, IInv, admin, modem, locks, files, Became
<1>5. MarkerInv'
  BY <1>1 DEF TypeOK, LockInv, CutInv, MarkerInv, Held, Torn, Finish, OrphanEnds, IInv, admin,
     modem, locks, files, Became
<1>6. QuietInv'
  BY <1>1 DEF TypeOK, MarkerInv, QuietInv, CutInv, Torn, Finish, Past, OrphanEnds, IInv, admin,
     modem, locks, files, Became
<1>7. HighInv'
  BY <1>1 DEF TypeOK, HighInv, Torn, Finish, OrphanEnds, IInv, admin, modem, locks, files, Became
<1>8. PulseOwned'
  BY DEF PulseOwned, OrphanEnds, IInv, admin, modem, locks, files
<1>9. SpaceInv'
  BY <1>1, RecoveryAssumption DEF TypeOK, SpaceInv, Excused, Held, Torn, Finish, OrphanEnds, IInv,
     admin, modem, locks, files, Became
<1>. QED BY <1>2, <1>3, <1>4, <1>5, <1>6, <1>7, <1>8, <1>9 DEF IInv

LEMMA WatchdogStartsKeeps ==
  ASSUME IInv, NEW s \in Slots, WatchdogStarts(s)
  PROVE  IInv'
<1>1. TypeOK'
  BY DEF TypeOK, WatchdogStarts, Goto, IInv, admin, modem, locks, files, Markers, LoopType
<1>2. LockInv'
  BY DEF LockInv, WatchdogStarts, IInv, admin, modem, locks, files
<1>3. CutInv'
  BY DEF CutInv, WatchdogStarts, IInv, admin, modem, locks, files
<1>4. MarkerInv'
  BY DEF MarkerInv, WatchdogStarts, IInv, admin, modem, locks, files
<1>5. QuietInv'
  BY DEF QuietInv, WatchdogStarts, IInv, admin, modem, locks, files
<1>6. HighInv'
  BY DEF HighInv, WatchdogStarts, IInv, admin, modem, locks, files
<1>7. PulseOwned'
  BY DEF PulseOwned, WatchdogStarts, IInv, admin, modem, locks, files
<1>8. SpaceInv'
  BY DEF SpaceInv, WatchdogStarts, IInv, admin, modem, locks, files, Excused
<1>. QED BY <1>1, <1>2, <1>3, <1>4, <1>5, <1>6, <1>7, <1>8 DEF IInv

LEMMA TrialStartsKeeps ==
  ASSUME IInv, NEW s \in Slots, TrialStarts(s)
  PROVE  IInv'
<1>1. TypeOK'
  BY DEF TypeOK, TrialStarts, IInv, admin, modem, files, Markers
<1>2. LockInv'
  BY DEF TypeOK, LockInv, Held, Torn, Finish, TrialStarts, IInv, admin, modem, files
<1>3. CutInv'
  BY DEF CutInv, TrialStarts, IInv, admin, modem, files
<1>4. MarkerInv'
  BY DEF MarkerInv, TrialStarts, IInv, admin, modem, files
<1>5. QuietInv'
  BY DEF QuietInv, TrialStarts, IInv, admin, modem, files
<1>6. HighInv'
  BY DEF HighInv, TrialStarts, IInv, admin, modem, files
<1>7. PulseOwned'
  BY DEF PulseOwned, TrialStarts, IInv, admin, modem, files
<1>8. SpaceInv'
  BY DEF SpaceInv, TrialStarts, IInv, admin, modem, files, Excused
<1>. QED BY <1>1, <1>2, <1>3, <1>4, <1>5, <1>6, <1>7, <1>8 DEF IInv

LEMMA TrialEndsKeeps ==
  ASSUME IInv, NEW s \in Slots, TrialEnds(s)
  PROVE  IInv'
<1>1. TypeOK'
  BY DEF TypeOK, TrialEnds, IInv, admin, modem, files, Markers
<1>2. LockInv'
  BY DEF TypeOK, LockInv, Held, Torn, Finish, TrialEnds, IInv, admin, modem, files
<1>3. CutInv'
  BY DEF CutInv, TrialEnds, IInv, admin, modem, files
<1>4. MarkerInv'
  BY DEF MarkerInv, TrialEnds, IInv, admin, modem, files
<1>5. QuietInv'
  BY DEF QuietInv, TrialEnds, IInv, admin, modem, files
<1>6. HighInv'
  BY DEF HighInv, TrialEnds, IInv, admin, modem, files
<1>7. PulseOwned'
  BY DEF PulseOwned, TrialEnds, IInv, admin, modem, files
<1>8. SpaceInv'
  BY DEF SpaceInv, TrialEnds, IInv, admin, modem, files, Excused
<1>. QED BY <1>1, <1>2, <1>3, <1>4, <1>5, <1>6, <1>7, <1>8 DEF IInv

LEMMA SetDialKeeps ==
  ASSUME IInv, NEW s \in Slots, SetDial(s)
  PROVE  IInv'
<1>1. TypeOK'
  BY DEF TypeOK, SetDial, Hang, IInv, locks, files, Markers
<1>2. LockInv'
  BY DEF LockInv, SetDial, IInv, locks, files
<1>3. CutInv'
  BY DEF CutInv, SetDial, IInv, locks, files
<1>4. MarkerInv'
  BY DEF MarkerInv, SetDial, IInv, locks, files
<1>5. QuietInv'
  BY DEF TypeOK, MarkerInv, QuietInv, CutInv, Torn, Finish, Past, SetDial, Hang, IInv, locks, files
<1>6. HighInv'
  BY DEF HighInv, SetDial, IInv, locks, files
<1>7. PulseOwned'
  BY DEF PulseOwned, SetDial, IInv, locks, files
<1>8. SpaceInv'
  BY DEF SpaceInv, SetDial, IInv, locks, files, Excused
<1>. QED BY <1>1, <1>2, <1>3, <1>4, <1>5, <1>6, <1>7, <1>8 DEF IInv

LEMMA SetRecoveryKeeps ==
  ASSUME IInv, NEW s \in Slots, SetRecovery(s)
  PROVE  IInv'
<1>1. TypeOK'
  BY DEF TypeOK, SetRecovery, IInv, modem, locks, files, Markers
<1>2. LockInv'
  BY DEF LockInv, SetRecovery, IInv, modem, locks, files
<1>3. CutInv'
  BY DEF CutInv, SetRecovery, IInv, modem, locks, files
<1>4. MarkerInv'
  BY DEF MarkerInv, SetRecovery, IInv, modem, locks, files
<1>5. QuietInv'
  BY DEF QuietInv, SetRecovery, IInv, modem, locks, files
<1>6. HighInv'
  BY DEF HighInv, SetRecovery, IInv, modem, locks, files
<1>7. PulseOwned'
  BY DEF PulseOwned, SetRecovery, IInv, modem, locks, files
<1>8. SpaceInv'
  BY DEF SpaceInv, SetRecovery, IInv, modem, locks, files, Excused
<1>. QED BY <1>1, <1>2, <1>3, <1>4, <1>5, <1>6, <1>7, <1>8 DEF IInv

LEMMA ManualOffKeeps ==
  ASSUME IInv, NEW s \in Slots, ManualOff(s)
  PROVE  IInv'
<1>1. \E m \in {"marked", "unmarked"} :
        Noted(s, ghost[s].ago, ghost[s].last, ghost[s].forgot, m)
  BY ManualNoted DEF ManualOff, IInv, TypeOK, ActSteps, Torn, Finish
<1>2. TypeOK'
  BY <1>1 DEF TypeOK, ManualOff, Power, IInv, admin, locks, files, Became, Noted, Markers
<1>3. LockInv'
  BY DEF LockInv, ManualOff, IInv, admin, locks, files
<1>4. CutInv'
  BY DEF CutInv, ManualOff, IInv, admin, locks, files
<1>5. MarkerInv'
  BY DEF MarkerInv, ManualOff, IInv, admin, locks, files
<1>6. QuietInv'
  BY DEF QuietInv, ManualOff, IInv, admin, locks, files
<1>7. HighInv'
  BY <1>1 DEF TypeOK, HighInv, Torn, Finish, ManualOff, Power, IInv, admin, locks, files, Became,
     Noted
<1>8. PulseOwned'
  BY <1>1 DEF TypeOK, LockInv, HighInv, MarkerInv, PulseOwned, Held, Torn, Finish, ManualOff,
     Power, IInv, admin, locks, files, Became, Noted
<1>9. SpaceInv'
  BY <1>1, RecoveryAssumption DEF TypeOK, SpaceInv, Excused, Held, Torn, Finish, ManualOff, Power,
     IInv, admin, locks, files, Became, Noted
<1>. QED BY <1>2, <1>3, <1>4, <1>5, <1>6, <1>7, <1>8, <1>9 DEF IInv

LEMMA ManualOnKeeps ==
  ASSUME IInv, NEW s \in Slots, ManualOn(s)
  PROVE  IInv'
<1>1. Noted(s, ghost[s].ago, ghost[s].last, ghost[s].forgot, "no")
  BY ManualNoted DEF ManualOn, IInv, TypeOK, ActSteps, Torn, Finish
<1>2. TypeOK'
  BY <1>1 DEF TypeOK, ManualOn, Power, IInv, admin, locks, files, Became, Noted, Markers
<1>3. LockInv'
  BY DEF LockInv, ManualOn, IInv, admin, locks, files
<1>4. CutInv'
  BY DEF CutInv, ManualOn, IInv, admin, locks, files
<1>5. MarkerInv'
  BY DEF MarkerInv, ManualOn, IInv, admin, locks, files
<1>6. QuietInv'
  BY DEF QuietInv, ManualOn, IInv, admin, locks, files
<1>7. HighInv'
  BY <1>1 DEF TypeOK, HighInv, Torn, Finish, ManualOn, Power, IInv, admin, locks, files, Became,
     Noted
<1>8. PulseOwned'
  BY <1>1 DEF TypeOK, LockInv, HighInv, MarkerInv, PulseOwned, Held, Torn, Finish, ManualOn,
     Power, IInv, admin, locks, files, Became, Noted
<1>9. SpaceInv'
  BY <1>1, RecoveryAssumption DEF TypeOK, SpaceInv, Excused, Held, Torn, Finish, ManualOn, Power,
     IInv, admin, locks, files, Became, Noted
<1>. QED BY <1>2, <1>3, <1>4, <1>5, <1>6, <1>7, <1>8, <1>9 DEF IInv

\* Time passes alike for the ghost, the saved state and the attempt in hand.
LEMMA TickKeeps == ASSUME IInv, Tick PROVE IInv'
<1> DEFINE s1(s) == [st[s] EXCEPT !.since = Capped(st[s].since + 1, Cooldown),
                                  !.age = Capped(st[s].age + 1, Hour)]
           a1(s) == [act[s] EXCEPT !.since = IF act[s].at \in {"lock", "probe", "done"}
                                             THEN Capped(act[s].since + 1, Cooldown)
                                             ELSE act[s].since]
           g1(s) == [ghost[s] EXCEPT !.ago = Capped(ghost[s].ago + 1, Cooldown)]
<1>1. st' = [s \in Slots |-> s1(s)] /\ act' = [s \in Slots |-> a1(s)] /\ ghost' = [s \in Slots |-> g1(s)]
  BY DEF Tick
<1>2. ASSUME NEW s \in Slots
      PROVE  /\ s1(s) \in StateType /\ s1(s).since = Capped(st[s].since + 1, Cooldown)
             /\ st[s].since \in 0..Cooldown
  <2>1. st[s] \in StateType BY DEF IInv, TypeOK
  <2>2. st[s].since \in 0..Cooldown /\ st[s].age \in 0..Hour BY <2>1 DEF StateType
  <2>3. Capped(st[s].since + 1, Cooldown) \in 0..Cooldown /\ Capped(st[s].age + 1, Hour) \in 0..Hour
    BY <2>2, RecoveryAssumption DEF Capped
  <2>. QED BY <2>1, <2>2, <2>3 DEF StateType
<1>3. ASSUME NEW s \in Slots
      PROVE  /\ a1(s) \in ActType
             /\ a1(s).at = act[s].at /\ a1(s).result = act[s].result /\ a1(s).pid = act[s].pid
             /\ a1(s).off = act[s].off /\ a1(s).deauth = act[s].deauth
             /\ act[s].at \in {"lock", "probe", "done"} => a1(s).since = Capped(act[s].since + 1, Cooldown)
             /\ act[s].since \in 0..Cooldown
  <2>1. act[s] \in ActType BY DEF IInv, TypeOK
  <2>2. act[s].since \in 0..Cooldown BY <2>1 DEF ActType
  <2>3. Capped(act[s].since + 1, Cooldown) \in 0..Cooldown
    BY <2>2, RecoveryAssumption DEF Capped
  <2>. QED BY <2>1, <2>2, <2>3 DEF ActType
<1>4. ASSUME NEW s \in Slots
      PROVE  /\ g1(s) \in GhostType /\ g1(s).ago = Capped(ghost[s].ago + 1, Cooldown)
             /\ g1(s).last = ghost[s].last /\ g1(s).forgot = ghost[s].forgot
             /\ g1(s).manual = ghost[s].manual /\ ghost[s].ago \in 0..Cooldown
  <2>1. ghost[s] \in GhostType BY DEF IInv, TypeOK
  <2>2. ghost[s].ago \in 0..Cooldown BY <2>1 DEF GhostType
  <2>3. Capped(ghost[s].ago + 1, Cooldown) \in 0..Cooldown
    BY <2>2, RecoveryAssumption DEF Capped
  <2>. QED BY <2>1, <2>2, <2>3 DEF GhostType
<1> HIDE DEF s1, a1, g1
<1>5. st' \in [Slots -> StateType] /\ act' \in [Slots -> ActType] /\ ghost' \in [Slots -> GhostType]
  BY <1>1, <1>2, <1>3, <1>4
<1>6. \A s \in Slots : st'[s] = s1(s) /\ act'[s] = a1(s) /\ ghost'[s] = g1(s) BY <1>1
<1>7. \A s \in Slots : /\ act'[s].at = act[s].at /\ act'[s].result = act[s].result
                       /\ act'[s].pid = act[s].pid
                       /\ act'[s].off = act[s].off /\ act'[s].deauth = act[s].deauth
                       /\ ghost'[s].manual = ghost[s].manual
                       /\ ghost'[s].last = ghost[s].last /\ ghost'[s].forgot = ghost[s].forgot
  BY <1>3, <1>4, <1>6
<1>8. TypeOK'
  <2>0. UpCap \in Nat /\ up \in 0..UpCap BY RecoveryAssumption DEF UpCap, IInv, TypeOK
  <2>1. up' = Capped(up + 1, UpCap) BY DEF Tick
  <2>2. up' \in 0..UpCap BY <2>0, <2>1 DEF Capped
  <2>. QED BY <1>5, <2>2 DEF Tick, IInv, TypeOK, admin, modem, locks
<1>9. LockInv' /\ CutInv' BY <1>7 DEF Tick, IInv, LockInv, CutInv, locks
<1>10. MarkerInv' /\ QuietInv'
  <2>1. UNCHANGED <<recovering, pulse, worker>> BY DEF Tick, modem
  <2>2. MarkerInv' BY <1>7, <2>1 DEF IInv, MarkerInv
  <2>3. QuietInv' BY <1>7, <2>1 DEF IInv, QuietInv
  <2>. QED BY <2>2, <2>3
<1>11. HighInv' /\ PulseOwned' BY <1>7 DEF Tick, IInv, HighInv, PulseOwned, modem
<1>12. SpaceInv'
  <2>1. ASSUME NEW a \in 0..Cooldown, NEW b \in 0..Cooldown, a >= b
        PROVE  Capped(a + 1, Cooldown) >= Capped(b + 1, Cooldown)
    BY RecoveryAssumption, <2>1 DEF Capped
  <2>2. ASSUME NEW a \in 0..Cooldown, a >= Verify PROVE Capped(a + 1, Cooldown) >= Verify
    BY RecoveryAssumption, <2>2 DEF Capped
  <2>3. ASSUME NEW s \in Slots
        PROVE  /\ ghost[s].ago >= st[s].since => ghost'[s].ago >= st'[s].since
               /\ act[s].at \in {"lock", "probe", "done"} /\ ghost[s].ago >= act[s].since
                    => ghost'[s].ago >= act'[s].since
               /\ ghost[s].ago >= Verify => ghost'[s].ago >= Verify
    BY <1>2, <1>3, <1>4, <1>6, <2>1, <2>2
  <2>. QED BY <1>7, <2>3 DEF IInv, SpaceInv, Excused
<1>. QED BY <1>8, <1>9, <1>10, <1>11, <1>12 DEF IInv

-----------------------------------------------------------------------------

\* The boot satisfies the invariant.
LEMMA InitInv == Init => IInv
<1> SUFFICES ASSUME Init PROVE IInv OBVIOUS
<1>1. NoAct \in ActType /\ NoAct.at = "none" /\ ~NoAct.off /\ ~NoAct.deauth /\ NoAct.result = "ok"
  BY RecoveryAssumption DEF NoAct, ActType, ActSteps, Period
<1> DEFINE n == [NoState EXCEPT !.age = 0]
           g == [ago |-> Cooldown, last |-> "none", forgot |-> FALSE, manual |-> "no"]
<1>2. n \in StateType
  BY RecoveryAssumption DEF Init, NoState, StateType, UpCap, Period
<1>3. g \in GhostType /\ g.last = "none" BY RecoveryAssumption DEF GhostType
<1>4. act = [s \in Slots |-> NoAct] /\ st = [s \in Slots |-> n] /\ ghost = [s \in Slots |-> g]
  BY DEF Init
<1> HIDE DEF n, g
<1>5. TypeOK
  <2>1. act \in [Slots -> ActType] /\ st \in [Slots -> StateType] /\ ghost \in [Slots -> GhostType]
    BY <1>1, <1>2, <1>3, <1>4
  <2>2. up \in 0..UpCap BY RecoveryAssumption DEF Init, UpCap
  <2>3. loop \in [Slots -> LoopType] BY DEF Init, LoopType
  <2>. QED BY <2>1, <2>2, <2>3 DEF Init, TypeOK, Markers
<1>6. LockInv /\ CutInv /\ MarkerInv /\ QuietInv
  BY <1>1, <1>4 DEF Init, LockInv, CutInv, MarkerInv, QuietInv, Held, Torn, Finish, Past
<1>7. HighInv /\ PulseOwned BY <1>1, <1>4 DEF Init, HighInv, PulseOwned
<1>8. SpaceInv BY <1>1, <1>3, <1>4 DEF SpaceInv, Excused, Held, Torn, Finish
<1>. QED BY <1>5, <1>6, <1>7, <1>8 DEF IInv

\* So does a step of nobody.
LEMMA StutterKeeps == IInv /\ UNCHANGED vars => IInv'
<1> SUFFICES ASSUME IInv, UNCHANGED vars PROVE IInv' OBVIOUS
<1>1. TypeOK' BY DEF vars, IInv, TypeOK, admin, modem, locks, files
<1>2. LockInv' /\ CutInv' BY DEF vars, IInv, LockInv, CutInv, locks
<1>3. MarkerInv' /\ QuietInv' BY DEF vars, IInv, MarkerInv, QuietInv, files, modem
<1>4. HighInv' /\ PulseOwned' BY DEF vars, IInv, HighInv, PulseOwned, files, modem
<1>5. SpaceInv' BY DEF vars, IInv, SpaceInv, Excused, files
<1>. QED BY <1>1, <1>2, <1>3, <1>4, <1>5 DEF IInv

\* Every step keeps it.
LEMMA NextKeeps == IInv /\ [Next]_vars => IInv'
<1> SUFFICES ASSUME IInv, [Next]_vars PROVE IInv' OBVIOUS
<1>1. CASE Tick BY <1>1, TickKeeps
<1>2. ASSUME NEW s \in Slots, Worker(s) PROVE IInv'
  BY <1>2, StartArmedKeeps, WorkerReadyKeeps, WorkerLaunchKeeps, WorkerGoneKeeps, SessionUpKeeps,
     SessionDownKeeps DEF Worker
<1>3. ASSUME NEW s \in Slots, Loop(s) PROVE IInv'
  BY <1>3, ResumeKeeps, EnsureKeeps, ProbeSlotKeeps, CheckDeniedKeeps, CheckQuietKeeps,
     RequestKeeps, AccountKeeps DEF Loop
<1>4. ASSUME NEW s \in Slots, Act(s) PROVE IInv'
  BY <1>4, TakeLocksKeeps, ActProbeKeeps, ActPidKeeps, ActHangKeeps, ActWaitKeeps,
     ActAuthorizedKeeps, ActUsbOffKeeps, ActUsbOnKeeps, ActMarkKeeps, ActLowKeeps, ActHighKeeps,
     ActUnmarkKeeps, ActRestartKeeps, ActDialKeeps, FinishPowerKeeps, FinishMarkerKeeps,
     FinishEndKeeps DEF Act
<1>5. ASSUME NEW s \in Slots, Others(s) PROVE IInv'
  BY <1>5, InterruptedKeeps, KilledKeeps, WatchdogKilledKeeps, OrphanEndsKeeps,
     WatchdogStartsKeeps, TrialStartsKeeps, TrialEndsKeeps, SetDialKeeps, SetRecoveryKeeps,
     ManualOffKeeps, ManualOnKeeps DEF Others
<1>6. CASE UNCHANGED vars BY <1>6, StutterKeeps
<1>. QED BY <1>1, <1>2, <1>3, <1>4, <1>5, <1>6 DEF Next

\* The invariant of the argument holds for any set of slots, any bounds and any of
\* the faults (modem-recovery.sh, modem-watchdog).
THEOREM Inductive == Spec => []IInv
<1>. QED BY InitInv, NextKeeps, PTL DEF Spec

\* Every variable keeps its type.
THEOREM TypeCorrect == Spec => []TypeOK
<1>1. IInv => TypeOK BY DEF IInv
<1>. QED BY <1>1, Inductive, PTL

\* For any number of modems, at most one is torn down, under its radio lock, with
\* watchdogs and subshells killed and restarted at will.
THEOREM OneModemDown == Spec => []OneTeardown
<1>1. IInv => OneTeardown
  <2> SUFFICES ASSUME IInv, NEW s \in Slots, act[s].at \in Torn
               PROVE  actionLock = {s} /\ radio[s] = "recovery"
    BY DEF OneTeardown
  <2>1. act[s].at \in Held BY DEF Held
  <2>2. s \in actionLock /\ radio[s] = "recovery" BY <2>1 DEF IInv, LockInv
  <2>3. \A t \in actionLock : t = s BY <2>2 DEF IInv, LockInv
  <2>. QED BY <2>2, <2>3
<1>. QED BY <1>1, Inductive, PTL

\* Power that recovery cut is always named by a marker, whatever write fails and
\* whoever is killed.
THEOREM CutPowerOwned == Spec => []PulseOwned
<1>1. IInv => PulseOwned BY DEF IInv
<1>. QED BY <1>1, Inductive, PTL

\* No dialer of the slot runs or starts while its modem is cut.
THEOREM NoDialerInCut == Spec => []NothingDialing
<1>1. IInv => NothingDialing
  BY DEF IInv, TypeOK, CutInv, QuietInv, NothingDialing, Past, Torn, Finish
<1>. QED BY <1>1, Inductive, PTL

\* Teardowns of a modem are at least the verification window apart.
THEOREM TeardownsSpaced == Spec => Spaced
<1>1. IInv /\ [Next]_vars => [\A s \in Slots :
        Teardown(s) => \/ ghost[s].ago >= Verify
                       \/ ghost[s].forgot \/ ghost[s].last = "none"]_vars
  BY DEF IInv, SpaceInv, Excused, Teardown
<1>. QED BY <1>1, Inductive, PTL DEF Spec, Spaced
=============================================================================
