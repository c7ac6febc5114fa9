----------------------------- MODULE QuectelCM ------------------------------
(***************************************************************************)
(* The main loop of the quectel-CM dialer over QMI (main.c, the requests   *)
(* of QMIThread.c, udhcpc.c): it brings the modem's data calls up, keeps   *)
(* the interface in step with them, and hangs up when it is interrupted.   *)
(*                                                                         *)
(* The loop is one thread; pc is the request it makes next, "poll" between *)
(* two handlers.  Signals, the events of the device thread and the modem   *)
(* come in at any step.  A request is one step: the modem answers, refuses,*)
(* is not heard within the time allowed, or the wait is cut by a signal -  *)
(* and then it may have acted or not.                                      *)
(***************************************************************************)
EXTENDS Integers, Sequences, FiniteSets

CONSTANTS
  Enabled,     \* the families to dial: a part of {4, 6}
  Addresses,   \* the addresses the network gives out
  NoAddress,
  allow_time,  \* how long to wait after the first failures, and after the others
  HasPassword, \* whether a user and a password are set
  MaxQueued,   \* bound: signals on their way when the alarm goes off
  MaxFaults,   \* bound: requests that fail
  MaxChanges,  \* bound: changes in the network, the call or the modem
  Signals      \* whether the process may be interrupted

ASSUME FamilyAssumption == Enabled \subseteq {4, 6} /\ Enabled # {}
ASSUME AddressAssumption == NoAddress \notin Addresses /\ Addresses # {}
ASSUME TimeAssumption == allow_time \in Seq(Nat \ {0}) /\ allow_time # <<>>
ASSUME BoundAssumption ==
  /\ MaxQueued \in Nat /\ MaxFaults \in Nat /\ MaxChanges \in Nat
  /\ HasPassword \in BOOLEAN /\ Signals \in BOOLEAN

VARIABLES
  pc,       \* where the main loop is
  ready,    \* the descriptors poll has found readable and that are not served yet
  signals,  \* the socket to the main loop from signal handlers and from itself
  events,   \* the socket from the device thread
  ps,       \* PSAttachedState
  status,   \* IPv4ConnectionStatus and IPv6ConnectionStatus
  handle,   \* whether WdsConnectionIPv4Handle and ..IPv6Handle are set (static)
  address,  \* the addresses of the profile
  s_link,   \* the link as it was set last (static): a set of families, or {0} at first
  iface,    \* the addresses on the interface
  blind,    \* history: a check left the link as it was, not knowing of a family
  backoff,  \* SetupCallFail, the time until SetupCallAllowTime, the alarm (0: none)
  again,    \* g_donot_exit_when_modem_hangup
  modem,    \* external: whether it is attached, its calls, whether it is ready
  stop,     \* SIGINT or SIGTERM: not sent; sent, not yet seen by the device thread;
            \* seen, and what it has cut
  left      \* what remains of the bounds

vars == <<pc, ready, signals, events, ps, status, handle, address, s_link, iface,
          blind, backoff, again, modem, stop, left>>

sockets  == <<ready, signals, events>>
link     == <<s_link, iface, blind>>
external == <<modem, stop>>

Families == {4, 6}
NoCalls == [f \in Families |-> NoAddress]
Connected == {f \in Enabled : status[f] = "connected"}
Down == \E f \in Enabled : status[f] = "disconnected"

Start(state) ==
  /\ ready = {} /\ signals = <<>> /\ events = <<>> /\ ps = 0
  /\ status = [f \in Families |-> "unknown"]
  /\ backoff = [fails |-> 0, wait |-> 0, alarm |-> 0]
  /\ pc = state

Init ==
  /\ Start("detect")
  /\ handle = [f \in Families |-> FALSE]
  /\ address = NoCalls /\ s_link = {0} /\ iface = NoCalls /\ blind = FALSE
  /\ again = FALSE
  /\ modem = [attached |-> FALSE, call |-> NoCalls, ready |-> FALSE]
  /\ stop = "none"
  /\ left = [faults |-> MaxFaults, changes |-> MaxChanges]

-----------------------------------------------------------------------------
(* Requests.                                                               *)

(* Answered, refused, not heard, or cut by the device thread, which lets   *)
(* the request return 0 without an answer.  A modem that cannot refuses.   *)
Outcomes == {"ok", "error", "lost", "cut"}

Outcome(o, can) ==
  LET fault == o = "lost" \/ (o = "error" /\ can) IN
  /\ o = "ok" => can
  /\ o = "cut" => stop = "sent"
  /\ fault => left.faults > 0
  /\ stop' = IF o = "cut" THEN "cut" ELSE stop
  /\ left' = IF fault THEN [left EXCEPT !.faults = @ - 1] ELSE left

Returns0(o) == o \in {"ok", "cut"}

(* A request the modem was not heard on may have been obeyed all the same. *)
Obeys(o, new) ==
  \/ o # "error" /\ modem' = new
  \/ o # "ok" /\ modem' = modem

CallUp(f) == modem.call[f] # NoAddress
Dropped(f) == [modem EXCEPT !.call[f] = NoAddress]

(* The addresses of a family; no one compares those of IPv6.               *)
GivenOut(f) == IF f = 4 THEN Addresses ELSE {CHOOSE a \in Addresses : TRUE}

(* A call that is up is answered with the same handle.                     *)
requestSetupDataCall(f, o) ==
  /\ Outcome(o, modem.attached)
  /\ IF CallUp(f) \/ ~modem.attached THEN modem' = modem
     ELSE \E a \in GivenOut(f) : Obeys(o, [modem EXCEPT !.call[f] = a])
  /\ handle' = IF o = "ok" THEN [handle EXCEPT ![f] = TRUE] ELSE handle

(* The address is forgotten first; without a handle nothing is asked.      *)
requestGetIPAddress(f, o) ==
  IF ~handle[f]
  THEN /\ o = "ok" /\ address' = [address EXCEPT ![f] = NoAddress]
       /\ UNCHANGED <<modem, stop, left>>
  ELSE /\ Outcome(o, CallUp(f))
       /\ address' = [address EXCEPT ![f] = IF o = "ok" THEN modem.call[f] ELSE NoAddress]
       /\ UNCHANGED modem

requestQueryDataCall(f, o) ==
  LET found == IF CallUp(f) THEN "connected" ELSE "disconnected" IN
  /\ Outcome(o, TRUE)
  /\ IF o = "ok"
     THEN /\ status' = [status EXCEPT ![f] = found]
          /\ handle' = [handle EXCEPT ![f] = @ /\ found = "connected"]
     ELSE UNCHANGED <<status, handle>>
  /\ UNCHANGED modem

(* Mutant: the registration state is passed on as it is.                   *)
RegistrationRaw(o) ==
  /\ Outcome(o, TRUE)
  /\ ps' = IF o # "ok" THEN ps ELSE IF modem.attached THEN 1 ELSE 3
  /\ UNCHANGED modem

requestDeactivateDefaultPDP(f, o) ==
  IF ~handle[f]
  THEN o = "ok" /\ UNCHANGED <<handle, modem, stop, left>>
  ELSE /\ Outcome(o, TRUE)
       /\ Obeys(o, Dropped(f))
       /\ handle' = IF o = "ok" THEN [handle EXCEPT ![f] = FALSE] ELSE handle

requestRegistrationState(o) ==
  /\ Outcome(o, TRUE)
  /\ ps' = IF o # "ok" THEN ps ELSE IF modem.attached THEN 1 ELSE 2
  /\ UNCHANGED modem

-----------------------------------------------------------------------------
(* The interface.                                                          *)

(* An address the profile does not have leaves the interface's as it is,   *)
(* and udhcpc_stop flushes the interface.                                  *)
update_ip_address_by_qmi(f, known) == IF known[f] = NoAddress THEN iface[f] ELSE known[f]
udhcpc_start(known) ==
  iface' = [f \in Families |-> update_ip_address_by_qmi(f, known)]
udhcpc_stop == iface' = NoCalls

usbnet_link_change(l) ==
  IF s_link = l THEN UNCHANGED <<link, address>>
  ELSE LET known == [f \in Families |-> IF f \in l THEN address[f] ELSE NoAddress] IN
       /\ s_link' = l /\ blind' = FALSE
       /\ address' = known
       /\ IF l # {} THEN udhcpc_start(known) ELSE udhcpc_stop

send_signo_to_main(signo) == signals' = Append(signals, signo)

-----------------------------------------------------------------------------
(* Before the loop.                                                        *)

(* The device is looked for, the sockets are made and the clients of the   *)
(* modem opened anew, which own no call.                                   *)
quectel_CM ==
  /\ pc = "detect"
  /\ \/ /\ pc' = "sim"
        /\ modem' = [modem EXCEPT !.call = NoCalls]
        /\ UNCHANGED left
     \/ /\ pc' = "closed"
        /\ left.faults > 0 /\ left' = [left EXCEPT !.faults = @ - 1]
        /\ UNCHANGED modem
  /\ UNCHANGED <<sockets, ps, status, handle, address, link, backoff, again, stop>>

(* A modem that is not ready is asked again every second.                  *)
Unsupported(o) == o = "ok" /\ ~modem.ready

requestGetSIMStatus ==
  /\ pc = "sim"
  /\ \E o \in Outcomes : Outcome(o, TRUE) /\ pc' = IF Unsupported(o) THEN "sim" ELSE "profile"
  /\ UNCHANGED <<sockets, ps, status, handle, address, link, backoff, again, modem>>

(* The profile is read and, if it differs, written.  The length of the     *)
(* answer is read even if there is none: the dialer dies of it.            *)
Unanswered(o) == o \in {"lost", "cut"}

requestGetProfile ==
  /\ pc = "profile"
  /\ \E o \in Outcomes :
       Outcome(o, TRUE) /\ pc' = IF Unanswered(o) THEN "dead" ELSE "registration"
  /\ UNCHANGED <<sockets, ps, status, handle, address, link, backoff, again, modem>>

EnterLoop ==
  /\ pc = "registration"
  /\ \E o \in Outcomes : requestRegistrationState(o)
  /\ send_signo_to_main("CHECK")
  /\ pc' = "poll"
  /\ UNCHANGED <<ready, events, status, handle, address, link, backoff, again>>

-----------------------------------------------------------------------------
(* The loop.  What poll reports is served before it is called again, the   *)
(* signal first, one message of each socket.                               *)

Poll ==
  /\ pc = "poll" /\ ready = {} /\ (signals # <<>> \/ events # <<>>)
  /\ ready' = {x \in {"signal", "event"} :
                 IF x = "signal" THEN signals # <<>> ELSE events # <<>>}
  /\ UNCHANGED <<pc, signals, events, ps, status, handle, address, link, backoff,
                 again, external, left>>

PollTimeout ==
  /\ pc = "poll" /\ ready = {} /\ signals = <<>> /\ events = <<>>
  /\ send_signo_to_main("CHECK")
  /\ UNCHANGED <<pc, ready, events, ps, status, handle, address, link, backoff,
                 again, external, left>>

(* Family 4 is dialled first, then family 6.                               *)
DialFrom(f) ==
  LET todo(g) == g \in Enabled /\ status'[g] # "connected" IN
  IF f = 4 /\ todo(4) THEN "setup4" ELSE IF todo(6) THEN "setup6" ELSE "dialled"

(* Mutant: all that is in the socket is read, and the first of it served.  *)
TakeAll(signo) ==
  /\ pc = "poll" /\ "signal" \in ready /\ Head(signals) = signo
  /\ ready' = ready \ {"signal"}
  /\ signals' = <<>>

(* One message is taken from the socket, and any alarm is cancelled.       *)
Take(signo) ==
  /\ pc = "poll" /\ "signal" \in ready /\ Head(signals) = signo
  /\ ready' = ready \ {"signal"}
  /\ signals' = Tail(signals)

OnStart ==
  /\ Take("START")
  /\ UNCHANGED status
  /\ pc' = IF ps = 1 /\ backoff.wait = 0 THEN DialFrom(4) ELSE "poll"
  /\ backoff' = [backoff EXCEPT !.alarm = IF ps = 1 THEN backoff.wait ELSE 0]
  /\ UNCHANGED <<events, ps, handle, address, link, again, external, left>>

OnCheck ==
  /\ Take("CHECK")
  /\ pc' = IF ps # 1 THEN "attach" ELSE "query4"
  /\ backoff' = [backoff EXCEPT !.alarm = 0]
  /\ UNCHANGED <<events, ps, status, handle, address, link, again, external, left>>

OnStop ==
  /\ Take("STOP")
  /\ pc' = "hangup4"
  /\ backoff' = [backoff EXCEPT !.alarm = 0]
  /\ UNCHANGED <<events, ps, status, handle, address, link, again, external, left>>

-----------------------------------------------------------------------------
(* SIG_EVENT_START.                                                        *)

Family == IF pc \in {"setup4", "retry4", "ip4"} THEN 4 ELSE 6

Setup ==
  /\ pc \in {"setup4", "retry4", "setup6"}
  /\ UNCHANGED <<sockets, ps, status, address, link, backoff, again>>
  /\ \E o \in Outcomes :
       /\ requestSetupDataCall(Family, o)
       /\ pc' = IF Returns0(o) THEN IF Family = 4 THEN "ip4" ELSE "ip6"
                ELSE IF pc = "setup4" /\ o = "error" /\ HasPassword THEN "retry4"
                ELSE IF Family = 4 THEN DialFrom(6) ELSE "dialled"

GetAddress ==
  /\ pc \in {"ip4", "ip6"}
  /\ \E o \in Outcomes :
       /\ requestGetIPAddress(Family, o)
       /\ status' = IF Returns0(o) THEN [status EXCEPT ![Family] = "connected"] ELSE status
  /\ pc' = IF Family = 4 THEN DialFrom(6) ELSE "dialled"
  /\ UNCHANGED <<sockets, ps, handle, link, backoff, again>>

Delay(fails) == allow_time[IF fails < Len(allow_time) THEN fails + 1 ELSE Len(allow_time)]

(* After a failure the next attempt is put off, after a success it is not. *)
Dialled ==
  /\ pc = "dialled"
  /\ backoff' =
       IF Down THEN [fails |-> IF backoff.fails < Len(allow_time) THEN backoff.fails + 1
                               ELSE backoff.fails,
                     wait |-> Delay(backoff.fails), alarm |-> Delay(backoff.fails)]
       ELSE IF Connected # {} THEN [backoff EXCEPT !.fails = 0, !.wait = 0] ELSE backoff
  /\ pc' = "poll"
  /\ UNCHANGED <<sockets, ps, status, handle, address, link, again, external, left>>

-----------------------------------------------------------------------------
(* SIG_EVENT_CHECK.                                                        *)

CheckAttached ==
  /\ pc = "attach"
  /\ \E o \in Outcomes : requestRegistrationState(o)
  /\ pc' = "query4"
  /\ UNCHANGED <<sockets, status, handle, address, link, backoff, again>>

Lost(f) == [status EXCEPT ![f] = "disconnected"]

(* A family that is not enabled, or known to be down, is down; so is 4 if  *)
(* the question fails.                                                     *)
Query4 ==
  /\ pc = "query4"
  /\ IF 4 \notin Enabled \/ status[4] = "disconnected"
     THEN status' = Lost(4) /\ pc' = "query6" /\ UNCHANGED <<handle, external, left>>
     ELSE \E o \in Outcomes :
            IF Returns0(o)
            THEN /\ requestQueryDataCall(4, o)
                 /\ pc' = IF status'[4] # "connected" THEN "query6"
                          ELSE IF address[4] = NoAddress THEN "learn" ELSE "compare"
            ELSE /\ Outcome(o, TRUE) /\ status' = Lost(4) /\ pc' = "query6"
                 /\ UNCHANGED <<handle, modem>>
  /\ UNCHANGED <<sockets, ps, address, link, backoff, again>>

Learn ==
  /\ pc = "learn"
  /\ \E o \in Outcomes :
       /\ requestGetIPAddress(4, o)
       /\ IF Returns0(o) THEN pc' = "compare" /\ UNCHANGED status
          ELSE pc' = "query6" /\ status' = Lost(4)
  /\ UNCHANGED <<sockets, ps, handle, link, backoff, again>>

(* Mutant: the call is torn down, and still taken for connected.           *)
RenewQuietly ==
  /\ pc = "renew"
  /\ \E o \in Outcomes : requestDeactivateDefaultPDP(4, o)
  /\ pc' = "query6"
  /\ UNCHANGED <<sockets, ps, status, address, link, backoff, again>>

(* The local address is compared with the modem's, which replaces it.      *)
check_ipv4_address ==
  /\ pc = "compare"
  /\ \E o \in Outcomes :
       /\ requestGetIPAddress(4, o)
       /\ pc' = IF Returns0(o) /\ address'[4] = address[4] THEN "query6" ELSE "renew"
  /\ UNCHANGED <<sockets, ps, status, handle, link, backoff, again>>

Renew ==
  /\ pc = "renew"
  /\ \E o \in Outcomes : requestDeactivateDefaultPDP(4, o)
  /\ status' = Lost(4)
  /\ pc' = "query6"
  /\ UNCHANGED <<sockets, ps, address, link, backoff, again>>

Query6 ==
  /\ pc = "query6"
  /\ IF 6 \notin Enabled \/ status[6] = "disconnected"
     THEN status' = Lost(6) /\ UNCHANGED <<handle, external, left>>
     ELSE \E o \in Outcomes : requestQueryDataCall(6, o)
  /\ pc' = "checked"
  /\ UNCHANGED <<sockets, ps, address, link, backoff, again>>

(* Mutant: the bits of the link are set and never cleared.                 *)
CheckedAccumulates ==
  /\ pc = "checked"
  /\ IF \A f \in Families : status[f] = "disconnected" THEN usbnet_link_change({})
     ELSE IF Connected # {} THEN usbnet_link_change(Connected \cup (s_link \ {0}))
     ELSE UNCHANGED <<link, address>>
  /\ IF Down THEN send_signo_to_main("START") ELSE UNCHANGED signals
  /\ pc' = "poll"
  /\ UNCHANGED <<ready, events, ps, status, handle, backoff, again, external, left>>

(* Mutant: a check that finds a call down leaves it to the network events. *)
CheckedOnly ==
  /\ pc = "checked"
  /\ IF \A f \in Families : status[f] = "disconnected" THEN usbnet_link_change({})
     ELSE IF Connected # {} THEN usbnet_link_change(Connected)
     ELSE UNCHANGED <<link, address>>
  /\ pc' = "poll"
  /\ UNCHANGED <<sockets, ps, status, handle, backoff, again, external, left>>

(* A family of which nothing is known is neither up nor down; with none up *)
(* the link stays as it is.                                                *)
Checked ==
  /\ pc = "checked"
  /\ IF \A f \in Families : status[f] = "disconnected" THEN usbnet_link_change({})
     ELSE IF Connected # {} THEN usbnet_link_change(Connected)
     ELSE blind' = (s_link \cap Families # {}) /\ UNCHANGED <<s_link, iface, address>>
  /\ IF Down THEN send_signo_to_main("START") ELSE UNCHANGED signals
  /\ pc' = "poll"
  /\ UNCHANGED <<ready, events, ps, status, handle, backoff, again, external, left>>

-----------------------------------------------------------------------------
(* SIG_EVENT_STOP.                                                         *)

HangUp(f, next) ==
  /\ IF f \in Connected THEN \E o \in Outcomes : requestDeactivateDefaultPDP(f, o)
     ELSE UNCHANGED <<handle, external, left>>
  /\ pc' = next
  /\ UNCHANGED <<sockets, ps, status, address, link, backoff, again>>

(* Mutant: only the IPv4 call is hung up.                                  *)
DeactivateIpv4 ==
  \/ pc = "hangup4" /\ HangUp(4, "hangup6")
  \/ /\ pc = "hangup6" /\ pc' = "quit"
     /\ UNCHANGED <<sockets, ps, status, handle, address, link, backoff, again,
                    external, left>>

Deactivate ==
  \/ pc = "hangup4" /\ HangUp(4, "hangup6")
  \/ pc = "hangup6" /\ HangUp(6, "quit")

(* The link goes down, the thread ends and the sockets are closed with     *)
(* what is in them.                                                        *)
Quit ==
  /\ pc = "quit"
  /\ usbnet_link_change({})
  /\ ready' = {} /\ signals' = <<>> /\ events' = <<>>
  /\ ps' = 0 /\ status' = [f \in Families |-> "unknown"]
  /\ backoff' = [fails |-> 0, wait |-> 0, alarm |-> 0]
  /\ pc' = "closed"
  /\ UNCHANGED <<handle, again, external, left>>

(* main: after a reset, the dialer starts again in 3 s.                    *)
main ==
  /\ pc = "closed"
  /\ pc' = IF again THEN "detect" ELSE "exit"
  /\ UNCHANGED <<sockets, ps, status, handle, address, link, backoff, again, external, left>>

-----------------------------------------------------------------------------
(* The events of the device thread.                                        *)

TakeEvent(e) ==
  /\ pc = "poll" /\ "event" \in ready /\ "signal" \notin ready /\ Head(events) = e
  /\ ready' = {}
  /\ events' = Tail(events)

OnDisconnected ==
  /\ TakeEvent("GONE")
  /\ pc' = "quit"
  /\ UNCHANGED <<signals, ps, status, handle, address, link, backoff, again, external, left>>

OnNetworkState ==
  /\ TakeEvent("NETWORK")
  /\ \E o \in Outcomes : requestRegistrationState(o)
  /\ signals' = IF ps' = 1 /\ Down THEN Append(signals, "START") ELSE signals
  /\ backoff' = IF ps' = 1 THEN backoff ELSE [backoff EXCEPT !.wait = 0]
  /\ UNCHANGED <<pc, status, handle, address, link, again>>

(* From connected to disconnected: wait a moment for the network.          *)
OnCallList ==
  /\ TakeEvent("CALLS")
  /\ backoff' = IF Connected # {} THEN [backoff EXCEPT !.wait = 1] ELSE backoff
  /\ send_signo_to_main("CHECK")
  /\ UNCHANGED <<pc, ps, status, handle, address, link, again, external, left>>

OnReset ==
  /\ TakeEvent("RESET")
  /\ again' = TRUE
  /\ pc' = "quit"
  /\ UNCHANGED <<signals, ps, status, handle, address, link, backoff, external, left>>

-----------------------------------------------------------------------------
(* Time, signals and the modem.                                            *)

Open == pc \notin {"detect", "closed", "exit", "dead"}

(* Time passes; the alarm, if it is due, sends SIG_EVENT_START.            *)
Tick ==
  /\ Open /\ (backoff.wait > 0 \/ backoff.alarm > 0)
  /\ backoff' = [backoff EXCEPT !.wait = IF @ > 0 THEN @ - 1 ELSE 0,
                                !.alarm = IF @ > 0 THEN @ - 1 ELSE 0]
  /\ IF backoff.alarm = 1 THEN Len(signals) < MaxQueued /\ send_signo_to_main("START")
     ELSE UNCHANGED signals
  /\ UNCHANGED <<pc, ready, events, ps, status, handle, address, link, again, external, left>>

(* Between two lives there is no socket to write to.                       *)
ql_sigaction ==
  /\ Signals /\ stop = "none" /\ pc \notin {"exit", "dead"}
  /\ again' = FALSE
  /\ IF Open THEN send_signo_to_main("STOP") ELSE UNCHANGED signals
  /\ stop' = "sent"
  /\ UNCHANGED <<pc, ready, events, ps, status, handle, address, link, backoff, modem, left>>

(* The device thread sees the signal while no request waits.               *)
NothingToCut ==
  /\ stop = "sent"
  /\ stop' = "seen"
  /\ UNCHANGED <<pc, sockets, ps, status, handle, address, link, backoff, again, modem, left>>

Change == left.changes > 0 /\ left' = [left EXCEPT !.changes = @ - 1]
Report(e) == IF Open /\ pc \notin {"sim", "profile", "registration"}
             THEN events' = Append(events, e) ELSE UNCHANGED events

MayChange ==
  UNCHANGED <<pc, ready, signals, ps, status, handle, address, link, backoff, again, stop>>

ModemReady ==
  /\ ~modem.ready
  /\ modem' = [modem EXCEPT !.ready = TRUE]
  /\ UNCHANGED <<events, left>> /\ MayChange

Attach ==
  /\ ~modem.attached
  /\ modem' = [modem EXCEPT !.attached = TRUE]
  /\ Report("NETWORK")
  /\ UNCHANGED left /\ MayChange

Detach ==
  /\ modem.attached /\ Change
  /\ modem' = [modem EXCEPT !.attached = FALSE, !.call = NoCalls]
  /\ Report("NETWORK") /\ MayChange

CallDrops ==
  /\ Change
  /\ \E f \in Enabled : CallUp(f) /\ modem' = Dropped(f)
  /\ Report("CALLS") /\ MayChange

CallMoves ==
  /\ Change
  /\ \E f \in Enabled : \E a \in GivenOut(f) :
       CallUp(f) /\ modem.call[f] # a /\ modem' = [modem EXCEPT !.call[f] = a]
  /\ UNCHANGED events /\ MayChange

ModemResets ==
  /\ Change
  /\ modem' = [attached |-> FALSE, call |-> NoCalls, ready |-> FALSE]
  /\ \E e \in {"RESET", "GONE"} : Report(e)
  /\ MayChange

-----------------------------------------------------------------------------
MainLoop ==
  \/ quectel_CM \/ requestGetSIMStatus \/ requestGetProfile \/ EnterLoop
  \/ Poll \/ PollTimeout \/ OnStart \/ OnCheck \/ OnStop
  \/ Setup \/ GetAddress \/ Dialled
  \/ CheckAttached \/ Query4 \/ Learn \/ check_ipv4_address \/ Renew \/ Query6 \/ Checked
  \/ Deactivate \/ Quit \/ main
  \/ OnDisconnected \/ OnNetworkState \/ OnCallList \/ OnReset

Next ==
  \/ MainLoop \/ Tick \/ ql_sigaction \/ NothingToCut
  \/ ModemReady \/ Attach \/ Detach \/ CallDrops \/ CallMoves \/ ModemResets

Spec == Init /\ [][Next]_vars

(* The process runs, time passes, and the modem gets ready and attaches.   *)
FairSpec ==
  /\ Spec /\ WF_vars(MainLoop) /\ WF_vars(Tick)
  /\ WF_vars(ModemReady) /\ WF_vars(Attach)

-----------------------------------------------------------------------------
(* Properties.                                                             *)

Signos == {"START", "CHECK", "STOP"}
TriggerEvents == {"GONE", "NETWORK", "CALLS", "RESET"}

(* Every variable has its type; the sockets hold what the code writes to   *)
(* them, and no address is known of a family that was not enabled.         *)
TypeOK ==
  /\ pc \in {"detect", "sim", "profile", "registration", "poll", "setup4", "retry4",
             "setup6", "ip4", "ip6", "dialled", "attach", "query4", "learn", "compare",
             "renew", "query6", "checked", "hangup4", "hangup6", "quit", "closed",
             "exit", "dead"}
  /\ ready \subseteq {"signal", "event"}
  /\ signals \in Seq(Signos) /\ events \in Seq(TriggerEvents)
  /\ ps \in 0..2
  /\ status \in [Families -> {"unknown", "connected", "disconnected"}]
  /\ handle \in [Families -> BOOLEAN]
  /\ address \in [Families -> Addresses \cup {NoAddress}]
  /\ \A f \in Families \ Enabled : address[f] = NoAddress
  /\ s_link \in (SUBSET Enabled) \cup {{0}}
  /\ iface \in [Families -> Addresses \cup {NoAddress}] /\ blind \in BOOLEAN
  /\ backoff \in [fails : 0..Len(allow_time), wait : Nat, alarm : Nat]
  /\ again \in BOOLEAN
  /\ modem \in [attached : BOOLEAN, ready : BOOLEAN,
                call : [Families -> Addresses \cup {NoAddress}]]
  /\ stop \in {"none", "sent", "seen", "cut"}
  /\ left \in [faults : 0..MaxFaults, changes : 0..MaxChanges]

(* Between two events the link carries only families whose call is up: a   *)
(* call that is lost takes the link, and the addresses on it, along.  The  *)
(* exception is blind: a check that finds no call up and does not hear of  *)
(* a family leaves the link until the set of calls that are up is another. *)
LinkHasCall ==
  /\ pc = "poll" /\ ~blind => s_link \ {0} \subseteq Connected
  /\ s_link = {} => iface = NoCalls

(* Until it is interrupted, the IPv4 address on a link that is up is the   *)
(* one the modem gave last: whatever replaces the address of the profile   *)
(* ends in the interface being set again, but for a link that was left up. *)
InterfaceCurrent ==
  (pc = "poll" /\ stop = "none" /\ ~blind /\ 4 \in s_link /\ status[4] = "connected")
  => address[4] # NoAddress /\ iface[4] = address[4]

(* A dialer that was interrupted at any moment leaves no call up, if its   *)
(* requests were all answered and nothing changed in the modem.            *)
HungUp ==
  (pc = "exit" /\ stop = "seen" /\ left = [faults |-> MaxFaults, changes |-> MaxChanges])
  => modem.call = NoCalls /\ iface = NoCalls

(* Unless it is interrupted, dies or loses the device, the dialer ends     *)
(* with every enabled family on the link and the modem's IPv4 address on   *)
(* the interface, whatever was lost, refused or changed before.            *)
Dialed ==
  /\ s_link = Enabled
  /\ 4 \in Enabled => CallUp(4) /\ iface[4] = modem.call[4]
Connects == <>[](Dialed \/ stop # "none" \/ pc \in {"exit", "dead"})

(* A stop the main loop was told of is not forgotten: it ends this life of *)
(* the dialer.                                                             *)
Told == \E i \in DOMAIN signals : signals[i] = "STOP"
StopEnds == Told ~> pc \in {"closed", "exit", "dead"}

(* A dialer that was interrupted ends.                                     *)
StopHonoured == stop # "none" ~> pc \in {"exit", "dead"}

=============================================================================
