-------------------------- MODULE QuectelCM_proofs --------------------------
(***************************************************************************)
(* TypeOK, LinkHasCall, InterfaceCurrent and HungUp for any families,       *)
(* addresses, delays and bounds.                                            *)
(*                                                                          *)
(* The argument follows the statuses of the families.  Only a check sets the*)
(* link, from the statuses it has just found (LinkInv).  Until the first    *)
(* check nothing is dialled (FirstInv), so a status is set to connected     *)
(* only with a handle in hand, and an address that was not compared with    *)
(* the interface's never meets a link that is up (AddressInv).  If nothing  *)
(* fails, a call that is up is always one the statuses know (HungInv).      *)
(***************************************************************************)
EXTENDS QuectelCM, SequenceTheorems, TLAPS

BackoffType == [fails : 0..Len(allow_time), wait : Nat, alarm : Nat]
CallType    == [Families -> Addresses \cup {NoAddress}]
ModemType   == [attached : BOOLEAN, ready : BOOLEAN, call : CallType]
LeftType    == [faults : 0..MaxFaults, changes : 0..MaxChanges]

\* From the start of a check until it has set the link.
Checking == {"attach", "query4", "learn", "compare", "renew", "query6", "checked"}

LinkInv ==
  /\ s_link \cap Families = {} => iface = NoCalls
  /\ \A f \in Families : status[f] = "unknown" => f \notin s_link
  /\ pc \notin Checking /\ ~blind => s_link \ {0} \subseteq Connected
  /\ pc \in {"setup4", "retry4", "ip4"} => 4 \in Enabled /\ status[4] # "connected"
  /\ pc \in {"setup6", "ip6"} => 6 \in Enabled /\ status[6] # "connected"
  /\ pc \in {"learn", "compare", "renew"} => 4 \in Enabled /\ status[4] = "connected"
  /\ pc = "learn" => address[4] = NoAddress
  /\ pc \in {"query6", "checked"} /\ 4 \notin Enabled => status[4] = "disconnected"
  /\ pc = "checked" /\ 6 \notin Enabled => status[6] = "disconnected"

\* Before it is interrupted, no one has asked the loop to stop.
StopInv ==
  stop = "none" => /\ signals \in Seq({"START", "CHECK"})
                   /\ pc \notin {"hangup4", "hangup6"}

\* Until the first check has asked for the IPv4 call there is none, nor anything
\* that would make the loop dial.
FirstInv ==
  stop = "none" /\ 4 \in Enabled /\ status[4] = "unknown" =>
    /\ \A f \in Enabled : status[f] = "unknown"
    /\ signals \in Seq({"CHECK"}) /\ backoff.alarm = 0
    /\ pc \in {"detect", "sim", "profile", "registration", "poll", "attach", "query4",
               "quit", "closed", "exit", "dead"}
    /\ pc \in {"sim", "profile", "registration", "poll", "attach", "query4"}
         => modem.call[4] = NoAddress

\* Until it is interrupted, a call taken for connected has a handle, and its address
\* is on the link's interface, but between the comparison and the renewal.
AddressInv ==
  stop = "none" =>
    /\ status[4] = "connected" => handle[4]
    /\ pc = "ip4" => handle[4]
    /\ pc \in {"query6", "checked"} /\ status[4] = "connected" => address[4] # NoAddress
    /\ ~blind /\ 4 \in s_link /\ status[4] = "connected" /\ pc # "renew"
         => address[4] # NoAddress /\ iface[4] = address[4]

\* No request failed and nothing changed in the modem.
Clean == stop # "cut" /\ left = [faults |-> MaxFaults, changes |-> MaxChanges]

HungInv ==
  Clean =>
    /\ \A f \in Families : CallUp(f) =>
         /\ f \in Enabled /\ handle[f]
         /\ status[f] = "connected" \/ (f = 4 /\ pc = "ip4") \/ (f = 6 /\ pc = "ip6")
    /\ events \in Seq({"NETWORK"})
    /\ pc = "hangup6" => modem.call[4] = NoAddress
    /\ pc \in {"quit", "closed", "exit"} => modem.call = NoCalls
    /\ pc \in {"closed", "exit"} => iface = NoCalls

\* What poll has found readable is still there.
ReadyInv ==
  /\ "signal" \in ready => signals # <<>>
  /\ "event" \in ready => events # <<>>

Inv == TypeOK /\ ReadyInv /\ LinkInv /\ StopInv /\ FirstInv /\ AddressInv /\ HungInv

-----------------------------------------------------------------------------
(* Requests                                                                *)

LEMMA FamilyFacts ==
  /\ Families = {4, 6} /\ Enabled \subseteq Families /\ 0 \notin Families
  /\ NoAddress \notin Addresses
BY FamilyAssumption, AddressAssumption DEF Families

LEMMA GivenFacts == \A f \in Families : GivenOut(f) \subseteq Addresses
BY AddressAssumption DEF GivenOut

\* What a request costs: the fault it is, or nothing.
LEMMA OutcomeEffect ==
  ASSUME TypeOK, NEW o \in Outcomes, NEW can, Outcome(o, can)
  PROVE  /\ left' \in LeftType
         /\ stop' \in {"none", "sent", "seen", "cut"}
         /\ stop' = "none" => stop = "none" /\ o # "cut"
         /\ stop = "none" => stop' = "none"
         /\ o = "ok" => can
         /\ Clean' => Clean /\ o # "lost" /\ o # "cut" /\ (o = "error" => ~can)
<1> DEFINE fault == o = "lost" \/ (o = "error" /\ can)
<1>1. /\ o = "ok" => can
      /\ o = "cut" => stop = "sent"
      /\ fault => left.faults > 0
      /\ stop' = IF o = "cut" THEN "cut" ELSE stop
      /\ left' = IF fault THEN [left EXCEPT !.faults = @ - 1] ELSE left
  BY DEF Outcome
<1>2. left \in LeftType /\ stop \in {"none", "sent", "seen", "cut"}
  BY DEF TypeOK, LeftType
<1>3. MaxFaults \in Nat /\ MaxChanges \in Nat
  BY BoundAssumption
<1>4. CASE fault
  <2>1. left' \in LeftType /\ left'.faults = left.faults - 1 /\ left.faults \in 0..MaxFaults
    BY <1>1, <1>2, <1>3, <1>4 DEF LeftType
  <2>2. left' # [faults |-> MaxFaults, changes |-> MaxChanges]
    BY <1>3, <2>1
  <2> QED BY <1>1, <1>2, <1>4, <2>1, <2>2 DEF Clean
<1>5. CASE ~fault
  BY <1>1, <1>2, <1>5 DEF Clean, Outcomes
<1> QED BY <1>4, <1>5

\* A call is dropped and the rest of the modem is left.
LEMMA DroppedFacts ==
  ASSUME TypeOK, NEW f \in Families
  PROVE  /\ Dropped(f) \in ModemType
         /\ Dropped(f).call[f] = NoAddress
         /\ \A g \in Families : g # f => Dropped(f).call[g] = modem.call[g]
<1> DEFINE c == [modem.call EXCEPT ![f] = NoAddress]
<1>1. modem \in ModemType
  BY DEF TypeOK, ModemType, CallType
<1>2. Dropped(f) = [modem EXCEPT !.call = c]
  BY <1>1 DEF Dropped, ModemType
<1>3. /\ c \in CallType /\ c[f] = NoAddress
      /\ \A g \in Families : g # f => c[g] = modem.call[g]
  BY <1>1 DEF ModemType, CallType
<1> HIDE DEF c
<1> QED BY <1>1, <1>2, <1>3 DEF ModemType

LEMMA SetupEffect ==
  ASSUME TypeOK, NEW f \in Families, NEW o \in Outcomes, requestSetupDataCall(f, o)
  PROVE  /\ Outcome(o, modem.attached)
         /\ modem' \in ModemType
         /\ handle' \in [Families -> BOOLEAN]
         /\ \A g \in Families : g # f => /\ handle'[g] = handle[g]
                                         /\ modem'.call[g] = modem.call[g]
         /\ handle'[f] = (handle[f] \/ o = "ok")
         /\ o = "error" => modem' = modem
<1>1. modem \in ModemType /\ handle \in [Families -> BOOLEAN]
  BY DEF TypeOK, ModemType, CallType
<1>2. handle' = IF o = "ok" THEN [handle EXCEPT ![f] = TRUE] ELSE handle
  BY DEF requestSetupDataCall
<1>3. /\ modem' \in ModemType
      /\ \A g \in Families : g # f => modem'.call[g] = modem.call[g]
      /\ o = "error" => modem' = modem
  <2>1. CASE modem' = modem
    BY <1>1, <2>1
  <2>2. CASE modem' # modem
    <3>1. PICK a \in GivenOut(f) : Obeys(o, [modem EXCEPT !.call[f] = a])
      BY <2>2 DEF requestSetupDataCall
    <3> DEFINE c == [modem.call EXCEPT ![f] = a]
    <3>2. /\ c \in CallType
          /\ \A g \in Families : g # f => c[g] = modem.call[g]
      BY <1>1, GivenFacts DEF ModemType, CallType
    <3>3. o # "error" /\ modem' = [modem EXCEPT !.call[f] = a]
      BY <2>2, <3>1 DEF Obeys
    <3>4. modem' = [modem EXCEPT !.call = c]
      BY <1>1, <3>3 DEF ModemType
    <3> HIDE DEF c
    <3> QED BY <1>1, <3>2, <3>3, <3>4 DEF ModemType
  <2> QED BY <2>1, <2>2
<1> QED BY <1>1, <1>2, <1>3 DEF requestSetupDataCall

LEMMA GetEffect ==
  ASSUME TypeOK, NEW f \in Families, NEW o \in Outcomes, requestGetIPAddress(f, o)
  PROVE  /\ modem' = modem
         /\ address' \in [Families -> Addresses \cup {NoAddress}]
         /\ \A g \in Families : g # f => address'[g] = address[g]
         /\ left' \in LeftType /\ stop' \in {"none", "sent", "seen", "cut"}
         /\ stop' = "none" => stop = "none" /\ o # "cut"
         /\ stop = "none" => stop' = "none"
         /\ Clean' => Clean /\ (o = "ok" \/ (~CallUp(f) /\ o = "error"))
         /\ handle[f] /\ o = "ok" => address'[f] = modem.call[f] /\ CallUp(f)
         /\ ~handle[f] => o = "ok" /\ address'[f] = NoAddress
<1>1. /\ modem \in ModemType /\ address \in [Families -> Addresses \cup {NoAddress}]
      /\ left \in LeftType /\ stop \in {"none", "sent", "seen", "cut"}
  BY DEF TypeOK, ModemType, CallType, LeftType
<1>2. modem.call[f] \in Addresses \cup {NoAddress}
  BY <1>1 DEF ModemType, CallType
<1>3. CASE ~handle[f]
  <2>1. /\ o = "ok" /\ address' = [address EXCEPT ![f] = NoAddress]
        /\ UNCHANGED <<modem, stop, left>>
    BY <1>3 DEF requestGetIPAddress
  <2> QED BY <1>1, <1>3, <2>1 DEF Clean
<1>4. CASE handle[f]
  <2>1. /\ Outcome(o, CallUp(f)) /\ modem' = modem
        /\ address' = [address EXCEPT ![f] = IF o = "ok" THEN modem.call[f] ELSE NoAddress]
    BY <1>4 DEF requestGetIPAddress
  <2>2. /\ address' \in [Families -> Addresses \cup {NoAddress}]
        /\ \A g \in Families : g # f => address'[g] = address[g]
        /\ o = "ok" => address'[f] = modem.call[f]
    BY <1>1, <1>2, <2>1
  <2>3. /\ left' \in LeftType /\ stop' \in {"none", "sent", "seen", "cut"}
        /\ stop' = "none" => stop = "none" /\ o # "cut"
        /\ stop = "none" => stop' = "none"
        /\ o = "ok" => CallUp(f)
        /\ Clean' => Clean /\ o # "lost" /\ o # "cut" /\ (o = "error" => ~CallUp(f))
    BY <2>1, OutcomeEffect
  <2> QED BY <1>4, <2>1, <2>2, <2>3 DEF Outcomes
<1> QED BY <1>3, <1>4

LEMMA QueryEffect ==
  ASSUME TypeOK, NEW f \in Families, NEW o \in Outcomes, requestQueryDataCall(f, o)
  PROVE  /\ Outcome(o, TRUE) /\ modem' = modem
         /\ handle' \in [Families -> BOOLEAN]
         /\ status' \in [Families -> {"unknown", "connected", "disconnected"}]
         /\ \A g \in Families : g # f => handle'[g] = handle[g] /\ status'[g] = status[g]
         /\ o = "ok" => /\ status'[f] = IF CallUp(f) THEN "connected" ELSE "disconnected"
                        /\ handle'[f] = (handle[f] /\ CallUp(f))
         /\ o # "ok" => status' = status /\ handle' = handle
<1> DEFINE found == IF CallUp(f) THEN "connected" ELSE "disconnected"
<1>1. /\ handle \in [Families -> BOOLEAN]
      /\ status \in [Families -> {"unknown", "connected", "disconnected"}]
  BY DEF TypeOK
<1>2. /\ Outcome(o, TRUE) /\ modem' = modem
      /\ o # "ok" => UNCHANGED <<status, handle>>
      /\ o = "ok" => /\ status' = [status EXCEPT ![f] = found]
                     /\ handle' = [handle EXCEPT ![f] = handle[f] /\ found = "connected"]
  BY DEF requestQueryDataCall
<1>3. CASE o = "ok"
  <2>1. status' \in [Families -> {"unknown", "connected", "disconnected"}]
    BY <1>1, <1>2, <1>3
  <2>2. (handle[f] /\ found = "connected") \in BOOLEAN
    OBVIOUS
  <2>3. /\ handle' \in [Families -> BOOLEAN]
        /\ handle'[f] = (handle[f] /\ found = "connected")
        /\ \A g \in Families : g # f => handle'[g] = handle[g]
    BY <1>1, <1>2, <1>3, <2>2
  <2>4. status'[f] = found /\ \A g \in Families : g # f => status'[g] = status[g]
    BY <1>1, <1>2, <1>3
  <2>5. found = "connected" <=> CallUp(f)
    OBVIOUS
  <2> QED BY <1>2, <1>3, <2>1, <2>3, <2>4, <2>5
<1>4. CASE o # "ok"
  BY <1>1, <1>2, <1>4
<1> QED BY <1>3, <1>4

LEMMA DeactivateEffect ==
  ASSUME TypeOK, NEW f \in Families, NEW o \in Outcomes,
         requestDeactivateDefaultPDP(f, o)
  PROVE  /\ modem' \in ModemType
         /\ handle' \in [Families -> BOOLEAN]
         /\ \A g \in Families : g # f => /\ handle'[g] = handle[g]
                                         /\ modem'.call[g] = modem.call[g]
         /\ modem'.call[f] \in {modem.call[f], NoAddress}
         /\ left' \in LeftType /\ stop' \in {"none", "sent", "seen", "cut"}
         /\ stop' = "none" => stop = "none"
         /\ stop = "none" => stop' = "none"
         /\ Clean' => Clean /\ (handle[f] => modem'.call[f] = NoAddress)
                            /\ (~handle[f] => modem' = modem)
<1>1. /\ modem \in ModemType /\ handle \in [Families -> BOOLEAN]
      /\ left \in LeftType /\ stop \in {"none", "sent", "seen", "cut"}
  BY DEF TypeOK, ModemType, CallType, LeftType
<1>2. CASE ~handle[f]
  <2>1. UNCHANGED <<handle, modem, stop, left>>
    BY <1>2 DEF requestDeactivateDefaultPDP
  <2> QED BY <1>1, <1>2, <2>1 DEF Clean
<1>3. CASE handle[f]
  <2>1. /\ Outcome(o, TRUE) /\ Obeys(o, Dropped(f))
        /\ handle' = IF o = "ok" THEN [handle EXCEPT ![f] = FALSE] ELSE handle
    BY <1>3 DEF requestDeactivateDefaultPDP
  <2>2. modem' \in {modem, Dropped(f)} /\ (o = "ok" => modem' = Dropped(f))
    BY <2>1 DEF Obeys
  <2>3. /\ modem' \in ModemType
        /\ modem'.call[f] \in {modem.call[f], NoAddress}
        /\ o = "ok" => modem'.call[f] = NoAddress
        /\ \A g \in Families : g # f => modem'.call[g] = modem.call[g]
    BY <1>1, <2>2, DroppedFacts
  <2>4. /\ handle' \in [Families -> BOOLEAN]
        /\ \A g \in Families : g # f => handle'[g] = handle[g]
    BY <1>1, <2>1
  <2>5. /\ left' \in LeftType /\ stop' \in {"none", "sent", "seen", "cut"}
        /\ stop' = "none" => stop = "none"
        /\ stop = "none" => stop' = "none"
        /\ Clean' => Clean /\ o # "lost" /\ o # "cut" /\ o # "error"
    BY <2>1, OutcomeEffect
  <2> QED BY <1>3, <2>3, <2>4, <2>5 DEF Outcomes
<1> QED BY <1>2, <1>3

LEMMA RegistrationEffect ==
  ASSUME TypeOK, NEW o \in Outcomes, requestRegistrationState(o)
  PROVE  Outcome(o, TRUE) /\ modem' = modem /\ ps' \in 0..2
<1>1. ps \in 0..2
  BY DEF TypeOK
<1>2. Outcome(o, TRUE) /\ modem' = modem /\ ps' \in {ps, 1, 2}
  BY DEF requestRegistrationState
<1>3. ps' \in 0..2
  <2>1. CASE ps' = ps
    BY <1>1, <2>1
  <2>2. CASE ps' \in {1, 2}
    BY <2>2
  <2> QED BY <1>2, <2>1, <2>2
<1> QED BY <1>2, <1>3

\* The interface after the link was set to l.
LEMMA LinkEffect ==
  ASSUME TypeOK, NEW l \in SUBSET Enabled, usbnet_link_change(l)
  PROVE  /\ s_link' = l
         /\ address' \in [Families -> Addresses \cup {NoAddress}]
         /\ iface' \in [Families -> Addresses \cup {NoAddress}]
         /\ blind' \in BOOLEAN
         /\ \A f \in Families : address'[f] \in {address[f], NoAddress}
         /\ s_link = l => UNCHANGED <<iface, address, blind>>
         /\ s_link # l =>
              /\ l = {} => iface' = NoCalls
              /\ \A f \in l : address'[f] = address[f]
                              /\ (address[f] # NoAddress => iface'[f] = address[f])
<1>1. /\ address \in [Families -> Addresses \cup {NoAddress}]
      /\ iface \in [Families -> Addresses \cup {NoAddress}] /\ blind \in BOOLEAN
      /\ l \subseteq Families
  BY FamilyFacts DEF TypeOK
<1>2. CASE s_link = l
  BY <1>1, <1>2 DEF usbnet_link_change, link
<1>3. CASE s_link # l
  <2> DEFINE known == [f \in Families |-> IF f \in l THEN address[f] ELSE NoAddress]
  <2>1. /\ s_link' = l /\ blind' = FALSE /\ address' = known
        /\ IF l # {} THEN udhcpc_start(known) ELSE udhcpc_stop
    BY <1>3 DEF usbnet_link_change
  <2>2. /\ known \in [Families -> Addresses \cup {NoAddress}]
        /\ \A f \in Families : known[f] = IF f \in l THEN address[f] ELSE NoAddress
    BY <1>1
  <2> HIDE DEF known
  <2>3. /\ iface' \in [Families -> Addresses \cup {NoAddress}]
        /\ l = {} => iface' = NoCalls
        /\ \A f \in l : address[f] # NoAddress => iface'[f] = address[f]
    <3>1. CASE l = {}
      BY <2>1, <3>1 DEF udhcpc_stop, NoCalls
    <3>2. CASE l # {}
      <4>1. iface' = [f \in Families |-> IF known[f] = NoAddress THEN iface[f] ELSE known[f]]
        BY <2>1, <3>2 DEF udhcpc_start, update_ip_address_by_qmi
      <4> QED BY <1>1, <2>2, <3>2, <4>1
    <3> QED BY <3>1, <3>2
  <2> QED BY <1>1, <1>3, <2>1, <2>2, <2>3
<1> QED BY <1>2, <1>3

LEMMA LostEffect ==
  ASSUME TypeOK, NEW f \in Families
  PROVE  /\ Lost(f) \in [Families -> {"unknown", "connected", "disconnected"}]
         /\ Lost(f)[f] = "disconnected"
         /\ \A g \in Families : g # f => Lost(f)[g] = status[g]
BY DEF Lost, TypeOK

-----------------------------------------------------------------------------
(* Steps that leave the statuses, the addresses and the link               *)

PCs == {"detect", "sim", "profile", "registration", "poll", "setup4", "retry4",
        "setup6", "ip4", "ip6", "dialled", "attach", "query4", "learn", "compare",
        "renew", "query6", "checked", "hangup4", "hangup6", "quit", "closed",
        "exit", "dead"}

LEMMA AppendIn ==
  ASSUME NEW S, NEW s \in Seq(S), NEW e \in S
  PROVE  Append(s, e) \in Seq(S) /\ Append(s, e) # <<>>
BY AppendProperties

LEMMA TailIn ==
  ASSUME NEW S, NEW s \in Seq(S), s # <<>>
  PROVE  Tail(s) \in Seq(S) /\ Head(s) \in S
OBVIOUS

\* Everything but pc and the statuses has its type.
LEMMA Typed ==
  ASSUME Inv, UNCHANGED <<handle, address, s_link, iface, blind, status>>,
         pc' \in PCs, ready' \subseteq {"signal", "event"},
         signals' \in Seq(Signos), events' \in Seq(TriggerEvents),
         ps' \in 0..2, backoff' \in BackoffType, again' \in BOOLEAN,
         modem' \in ModemType, stop' \in {"none", "sent", "seen", "cut"},
         left' \in LeftType
  PROVE  TypeOK'
BY DEF Inv, TypeOK, PCs, BackoffType, ModemType, CallType, LeftType

\* The ways pc moves in a calm step.
CalmMove ==
  \/ pc' = pc
  \/ /\ pc' \notin {"setup4", "setup6", "retry4", "ip4", "ip6", "learn", "compare",
                    "renew", "query6", "checked", "hangup6", "quit", "closed", "exit"}
     /\ pc' \in Checking <=> pc \in Checking \/ pc' \in {"attach", "query4"}
     /\ pc \notin {"ip4", "ip6", "renew"}
  \/ pc = "poll" /\ pc' = "setup4" /\ 4 \in Enabled /\ status[4] # "connected"
  \/ pc = "poll" /\ pc' = "setup6" /\ 6 \in Enabled /\ status[6] # "connected"
  \/ pc = "poll" /\ pc' = "quit" /\ ~Clean'
  \/ pc = "closed" /\ pc' = "exit"

\* What keeps the loop from dialling before the first check.
CalmFirst ==
  stop' = "none" /\ 4 \in Enabled /\ status[4] = "unknown"
  /\ signals \in Seq({"CHECK"}) /\ backoff.alarm = 0
  /\ (\A f \in Enabled : status[f] = "unknown")
  => /\ signals' \in Seq({"CHECK"}) /\ backoff'.alarm = 0
     /\ pc' \notin {"setup4", "setup6", "dialled", "hangup4"}
     /\ pc \in {"detect", "quit", "closed", "exit", "dead"}
          => pc' \in {pc, "detect", "exit"}

LEMMA CalmStep ==
  ASSUME Inv, TypeOK', ReadyInv',
         UNCHANGED <<handle, address, s_link, iface, blind, status>>,
         modem'.call = modem.call, CalmMove, CalmFirst,
         stop' = "none" => /\ stop = "none" /\ pc' # "hangup4"
                           /\ (signals \in Seq({"START", "CHECK"})
                                 => signals' \in Seq({"START", "CHECK"})),
         Clean' => Clean /\ (events \in Seq({"NETWORK"}) => events' \in Seq({"NETWORK"}))
  PROVE  Inv'
<1> USE DEF Inv
<1>0. Connected' = Connected /\ Families = {4, 6}
  BY DEF Connected, Families
<1>1. LinkInv'
  BY <1>0 DEF LinkInv, CalmMove, Checking
<1>2. StopInv'
  BY DEF StopInv, CalmMove
<1>3. FirstInv'
  <2> SUFFICES ASSUME stop' = "none", 4 \in Enabled, status[4] = "unknown"
               PROVE  FirstInv'
    BY DEF FirstInv
  <2>1. /\ \A f \in Enabled : status[f] = "unknown"
        /\ signals \in Seq({"CHECK"}) /\ backoff.alarm = 0
        /\ pc \in {"detect", "sim", "profile", "registration", "poll", "attach", "query4",
               "quit", "closed", "exit", "dead"}
        /\ pc \in {"sim", "profile", "registration", "poll", "attach", "query4"}
         => modem.call[4] = NoAddress
    BY DEF FirstInv
  <2>2. /\ signals' \in Seq({"CHECK"}) /\ backoff'.alarm = 0
        /\ pc' \notin {"setup4", "setup6", "dialled", "hangup4"}
        /\ pc \in {"detect", "quit", "closed", "exit", "dead"}
          => pc' \in {pc, "detect", "exit"}
    BY <2>1 DEF CalmFirst
  <2>3. pc' \in {"detect", "sim", "profile", "registration", "poll", "attach", "query4",
               "quit", "closed", "exit", "dead"}
    <3>1. pc' \in PCs
      BY DEF TypeOK, PCs
    <3> QED BY <2>1, <2>2, <3>1 DEF CalmMove, PCs
  <2> QED BY <2>1, <2>2, <2>3 DEF FirstInv
<1>4. AddressInv'
  BY DEF AddressInv, CalmMove, LinkInv
<1>5. HungInv'
  BY <1>0 DEF HungInv, CalmMove, CallUp
<1> QED BY <1>1, <1>2, <1>3, <1>4, <1>5

\* The types that every calm step's lemma starts from.
LEMMA Types ==
  ASSUME Inv
  PROVE  /\ pc \in PCs /\ ready \subseteq {"signal", "event"}
         /\ signals \in Seq(Signos) /\ events \in Seq(TriggerEvents)
         /\ ps \in 0..2 /\ backoff \in BackoffType /\ again \in BOOLEAN
         /\ modem \in ModemType /\ stop \in {"none", "sent", "seen", "cut"}
         /\ left \in LeftType
         /\ handle \in [Families -> BOOLEAN]
         /\ status \in [Families -> {"unknown", "connected", "disconnected"}]
         /\ address \in [Families -> Addresses \cup {NoAddress}]
         /\ iface \in [Families -> Addresses \cup {NoAddress}]
         /\ Families = {4, 6} /\ Enabled \subseteq Families
BY FamilyFacts DEF Inv, TypeOK, PCs, BackoffType, ModemType, CallType, LeftType

\* A message is written to the main loop, or none.
LEMMA SignalEffect ==
  ASSUME Inv, NEW e \in Signos, signals' = signals \/ signals' = Append(signals, e)
  PROVE  /\ signals' \in Seq(Signos) /\ (signals # <<>> => signals' # <<>>)
         /\ e # "STOP" /\ signals \in Seq({"START", "CHECK"})
              => signals' \in Seq({"START", "CHECK"})
         /\ e = "CHECK" /\ signals \in Seq({"CHECK"}) => signals' \in Seq({"CHECK"})
<1>1. CASE signals' = signals
  BY <1>1, Types
<1>2. CASE signals' = Append(signals, e)
  <2>1. signals' \in Seq(Signos) /\ signals' # <<>>
    BY <1>2, Types, AppendIn
  <2>2. e # "STOP" /\ signals \in Seq({"START", "CHECK"})
          => signals' \in Seq({"START", "CHECK"})
    <3>1. e # "STOP" => e \in {"START", "CHECK"}
      BY DEF Signos
    <3> QED BY <1>2, <3>1, AppendIn
  <2>3. e = "CHECK" /\ signals \in Seq({"CHECK"}) => signals' \in Seq({"CHECK"})
    <3>1. "CHECK" \in {"CHECK"}
      OBVIOUS
    <3> QED BY <1>2, <3>1, AppendIn
  <2> QED BY <2>1, <2>2, <2>3
<1> QED BY <1>1, <1>2

\* A message was there to be taken.
LEMMA EventEffect ==
  ASSUME Inv, NEW e, TakeEvent(e)
  PROVE  /\ pc = "poll" /\ ready' = {} /\ events # <<>> /\ events' = Tail(events)
         /\ events' \in Seq(TriggerEvents)
         /\ events \in Seq({"NETWORK"}) => e = "NETWORK" /\ events' \in Seq({"NETWORK"})
<1>1. /\ pc = "poll" /\ ready' = {} /\ events # <<>> /\ events' = Tail(events)
      /\ e = Head(events)
  BY DEF TakeEvent, Inv, ReadyInv
<1>2. events' \in Seq(TriggerEvents)
  BY <1>1, Types, TailIn
<1>3. events \in Seq({"NETWORK"}) => e \in {"NETWORK"} /\ events' \in Seq({"NETWORK"})
  BY <1>1, TailIn
<1> QED BY <1>1, <1>2, <1>3

\* Requests that are made where no call is at stake.
LEMMA AskStep ==
  ASSUME Inv,
         \/ requestGetSIMStatus \/ requestGetProfile \/ EnterLoop \/ CheckAttached
         \/ OnNetworkState
  PROVE  Inv'
<1>1. PICK o \in Outcomes : Outcome(o, TRUE) /\ modem' = modem /\ ps' \in 0..2
  BY Types, RegistrationEffect
  DEF requestGetSIMStatus, requestGetProfile, EnterLoop, CheckAttached, OnNetworkState, Inv
<1>2. /\ left' \in LeftType /\ stop' \in {"none", "sent", "seen", "cut"}
      /\ stop' = "none" => stop = "none"
      /\ Clean' => Clean
  BY <1>1, OutcomeEffect DEF Inv
<1>3. /\ UNCHANGED <<handle, address, s_link, iface, blind, status, again>>
      /\ \/ pc = "sim" /\ pc' \in {"sim", "profile"}
         \/ pc = "profile" /\ pc' \in {"dead", "registration"}
         \/ pc = "registration" /\ pc' = "poll"
         \/ pc = "attach" /\ pc' = "query4"
         \/ pc = "poll" /\ pc' = "poll"
  BY DEF requestGetSIMStatus, requestGetProfile, EnterLoop, CheckAttached, OnNetworkState,
         TakeEvent, sockets, link
<1>4. /\ signals' = signals \/ signals' = Append(signals, "CHECK")
         \/ (signals' = Append(signals, "START") /\ Down)
      /\ ready' \in {ready, {}}
      /\ UNCHANGED events \/ (pc = "poll" /\ events # <<>> /\ events' = Tail(events) /\ ready' = {})
      /\ backoff' = backoff \/ backoff' = [backoff EXCEPT !.wait = 0]
  <2>1. CASE OnNetworkState
    <3>1. events # <<>> /\ pc = "poll"
      BY <2>1 DEF OnNetworkState, TakeEvent, Inv, ReadyInv
    <3> QED BY <2>1, <3>1 DEF OnNetworkState, TakeEvent
  <2>2. CASE ~OnNetworkState
    BY <2>2 DEF requestGetSIMStatus, requestGetProfile, EnterLoop, CheckAttached, sockets,
                send_signo_to_main
  <2> QED BY <2>1, <2>2
<1>5. /\ signals' \in Seq(Signos)
      /\ signals # <<>> => signals' # <<>>
      /\ signals \in Seq({"START", "CHECK"}) => signals' \in Seq({"START", "CHECK"})
      /\ signals \in Seq({"CHECK"}) /\ ~Down => signals' \in Seq({"CHECK"})
  <2>1. {"START", "CHECK"} \subseteq Signos
    BY DEF Signos
  <2>2. CASE signals' = signals \/ signals' = Append(signals, "CHECK")
    BY <2>1, <2>2, SignalEffect
  <2>3. CASE signals' = Append(signals, "START") /\ Down
    BY <2>1, <2>3, SignalEffect
  <2> QED BY <1>4, <2>2, <2>3
<1>6. /\ events' \in Seq(TriggerEvents)
      /\ events \in Seq({"NETWORK"}) => events' \in Seq({"NETWORK"})
  <2>1. CASE OnNetworkState
    BY <2>1, EventEffect DEF OnNetworkState
  <2>2. CASE ~OnNetworkState
    <3>1. events' = events
      BY <2>2 DEF requestGetSIMStatus, requestGetProfile, EnterLoop, CheckAttached, sockets
    <3> QED BY <3>1, Types
  <2> QED BY <2>1, <2>2
<1>7. backoff' \in BackoffType /\ backoff'.alarm = backoff.alarm
  BY <1>4, Types DEF BackoffType
<1>8. TypeOK'
  <2>1. pc' \in PCs
    BY <1>3 DEF PCs
  <2>2. ready' \subseteq {"signal", "event"}
    BY <1>4, Types
  <2> QED BY <1>1, <1>2, <1>3, <1>5, <1>6, <1>7, <2>1, <2>2, Types, Typed
<1>9. ReadyInv'
  BY <1>4, <1>5 DEF Inv, ReadyInv
<1>10. CalmMove
  BY <1>3 DEF CalmMove, Checking
<1>11. CalmFirst
  <2>1. (\A f \in Enabled : status[f] = "unknown") => ~Down
    BY DEF Down
  <2> QED BY <1>3, <1>5, <1>7, <2>1 DEF CalmFirst
<1>12. modem'.call = modem.call /\ pc' # "hangup4"
  BY <1>1, <1>3
<1> QED BY <1>2, <1>3, <1>5, <1>6, <1>8, <1>9, <1>10, <1>11, <1>12, CalmStep

-----------------------------------------------------------------------------
(* The loop: what poll reports, and what is taken from the sockets         *)

LEMMA PollStep ==
  ASSUME Inv, Poll \/ PollTimeout
  PROVE  Inv'
<1>1. /\ UNCHANGED <<pc, events, ps, status, handle, address, s_link, iface, blind,
                     backoff, again, modem, stop, left>>
      /\ ready' \subseteq {"signal", "event"}
      /\ signals' = signals \/ signals' = Append(signals, "CHECK")
  BY Types DEF Poll, PollTimeout, link, external, send_signo_to_main
<1>2. /\ signals' \in Seq(Signos)
      /\ signals \in Seq({"START", "CHECK"}) => signals' \in Seq({"START", "CHECK"})
      /\ signals \in Seq({"CHECK"}) => signals' \in Seq({"CHECK"})
  <2>1. "CHECK" \in Signos
    BY DEF Signos
  <2> QED BY <1>1, <2>1, SignalEffect
<1>3. TypeOK'
  BY <1>1, <1>2, Types, Typed
<1>4. ReadyInv'
  BY DEF Poll, PollTimeout, ReadyInv
<1>5. CalmMove /\ CalmFirst
  BY <1>1, <1>2, Types DEF CalmMove, CalmFirst, Inv, FirstInv
<1>6. stop' = "none" => pc' # "hangup4"
  BY <1>1 DEF Inv, StopInv
<1>7. Clean' => Clean
  BY <1>1 DEF Clean
<1> QED BY <1>1, <1>2, <1>3, <1>4, <1>5, <1>6, <1>7, CalmStep

\* A message was there to be taken, and what remains is of its kinds.
LEMMA TakeEffect ==
  ASSUME Inv, NEW signo, Take(signo)
  PROVE  /\ pc = "poll" /\ ready' \subseteq {"signal", "event"} /\ "signal" \notin ready'
         /\ "event" \in ready' => "event" \in ready
         /\ signals' \in Seq(Signos)
         /\ \A S \in SUBSET Signos : signals \in Seq(S) => signo \in S /\ signals' \in Seq(S)
<1>1. /\ signals # <<>> /\ signals' = Tail(signals) /\ signo = Head(signals)
      /\ pc = "poll" /\ ready' = ready \ {"signal"}
  BY DEF Take, Inv, ReadyInv
<1>2. \A S \in SUBSET Signos : signals \in Seq(S) => signo \in S /\ signals' \in Seq(S)
  BY <1>1, TailIn
<1> QED BY <1>1, <1>2, Types

LEMMA DelayFacts == \A n \in 0..Len(allow_time) : Delay(n) \in Nat
<1>1. Len(allow_time) \in Nat \ {0} /\ allow_time \in Seq(Nat)
  BY TimeAssumption
<1>2. \A i \in 1..Len(allow_time) : allow_time[i] \in Nat
  BY <1>1
<1> QED BY <1>1, <1>2 DEF Delay

\* Where dialling goes on from.
LEMMA DialEffect ==
  ASSUME NEW f \in {4, 6}
  PROVE  \/ f = 4 /\ DialFrom(f) = "setup4" /\ 4 \in Enabled /\ status'[4] # "connected"
         \/ DialFrom(f) = "setup6" /\ 6 \in Enabled /\ status'[6] # "connected"
         \/ DialFrom(f) = "dialled"
BY DEF DialFrom

LEMMA SignalStep ==
  ASSUME Inv, OnStart \/ OnCheck \/ OnStop
  PROVE  Inv'
<1>1. PICK signo \in {"START", "CHECK", "STOP"} :
        /\ Take(signo)
        /\ UNCHANGED <<events, ps, status, handle, address, s_link, iface, blind,
                       again, modem, stop, left>>
        /\ backoff' = [backoff EXCEPT !.alarm = IF signo = "START" /\ ps = 1 THEN backoff.wait ELSE 0]
        /\ signo = "START" => pc' \in {"poll", DialFrom(4)}
        /\ signo = "CHECK" => pc' \in {"attach", "query4"}
        /\ signo = "STOP"  => pc' = "hangup4"
  BY DEF OnStart, OnCheck, OnStop, link, external
<1>2. /\ pc = "poll" /\ ready' \subseteq {"signal", "event"} /\ "signal" \notin ready'
      /\ "event" \in ready' => "event" \in ready
      /\ signals' \in Seq(Signos)
      /\ \A S \in SUBSET Signos : signals \in Seq(S) => signo \in S /\ signals' \in Seq(S)
  BY <1>1, TakeEffect
<1>3. {"START", "CHECK"} \in SUBSET Signos /\ {"CHECK"} \in SUBSET Signos
  BY DEF Signos
<1>4. /\ backoff' \in BackoffType
      /\ signo # "START" => backoff'.alarm = 0
  BY <1>1, Types DEF BackoffType
<1>5. pc' \in PCs /\ CalmMove
  BY <1>1, <1>2, DialEffect DEF PCs, CalmMove, Checking
<1>6. TypeOK'
  BY <1>1, <1>2, <1>4, <1>5, Types, Typed
<1>7. ReadyInv'
  BY <1>1, <1>2 DEF Inv, ReadyInv
<1>8. signals \in Seq({"START", "CHECK"}) => signo # "STOP" /\ signals' \in Seq({"START", "CHECK"})
  BY <1>2, <1>3
<1>9. signals \in Seq({"CHECK"}) => signo = "CHECK" /\ signals' \in Seq({"CHECK"})
  BY <1>2, <1>3
<1>10. CalmFirst
  BY <1>1, <1>2, <1>4, <1>9 DEF CalmFirst
<1>11. stop' = "none" => /\ stop = "none" /\ pc' # "hangup4"
                         /\ signals \in Seq({"START", "CHECK"})
                         /\ signals' \in Seq({"START", "CHECK"})
  <2>1. signo \in {"START", "CHECK"} => pc' # "hangup4"
    BY <1>1, DialEffect
  <2> QED BY <1>1, <1>8, <2>1 DEF Inv, StopInv
<1>12. modem'.call = modem.call /\ (Clean' => Clean)
  BY <1>1 DEF Clean
<1> QED BY <1>1, <1>5, <1>6, <1>7, <1>10, <1>11, <1>12, CalmStep

LEMMA EventStep ==
  ASSUME Inv, OnDisconnected \/ OnCallList \/ OnReset
  PROVE  Inv'
<1>1. PICK e \in {"GONE", "CALLS", "RESET"} :
        /\ TakeEvent(e)
        /\ UNCHANGED <<ps, status, handle, address, s_link, iface, blind, modem, stop, left>>
        /\ again' \in {again, TRUE}
        /\ signals' = signals \/ signals' = Append(signals, "CHECK")
        /\ backoff' = backoff \/ backoff' = [backoff EXCEPT !.wait = 1]
        /\ pc' \in {"poll", "quit"}
  BY DEF OnDisconnected, OnCallList, OnReset, link, external, send_signo_to_main, TakeEvent
<1>2. /\ pc = "poll" /\ events # <<>> /\ events' = Tail(events) /\ e = Head(events)
      /\ ready' = {}
  BY <1>1 DEF TakeEvent, Inv, ReadyInv
<1>3. events' \in Seq(TriggerEvents) /\ ~Clean
  <2>1. events' \in Seq(TriggerEvents) /\ (events \in Seq({"NETWORK"}) => e = "NETWORK")
    BY <1>1, EventEffect
  <2> QED BY <2>1 DEF Inv, HungInv
<1>4. ~Clean'
  BY <1>1, <1>3 DEF Clean
<1>5. /\ signals' \in Seq(Signos)
      /\ signals \in Seq({"START", "CHECK"}) => signals' \in Seq({"START", "CHECK"})
      /\ signals \in Seq({"CHECK"}) => signals' \in Seq({"CHECK"})
  <2>1. "CHECK" \in Signos
    BY DEF Signos
  <2> QED BY <1>1, <2>1, SignalEffect
<1>6. backoff' \in BackoffType /\ backoff'.alarm = backoff.alarm
  BY <1>1, Types DEF BackoffType
<1>7. TypeOK'
  <2>1. pc' \in PCs /\ ready' \subseteq {"signal", "event"} /\ again' \in BOOLEAN
    BY <1>1, <1>2, Types DEF PCs
  <2> QED BY <1>1, <1>3, <1>5, <1>6, <2>1, Types, Typed
<1>8. ReadyInv'
  BY <1>2 DEF ReadyInv
<1>9. CalmMove /\ CalmFirst
  BY <1>1, <1>2, <1>4, <1>5, <1>6 DEF CalmMove, CalmFirst
<1>10. stop' = "none" => stop = "none" /\ pc' # "hangup4"
  BY <1>1
<1> QED BY <1>1, <1>4, <1>5, <1>7, <1>8, <1>9, <1>10, CalmStep

LEMMA DialledStep ==
  ASSUME Inv, Dialled
  PROVE  Inv'
<1>1. /\ pc = "dialled" /\ pc' = "poll"
      /\ UNCHANGED <<ready, signals, events, ps, status, handle, address, s_link, iface,
                     blind, again, modem, stop, left>>
  BY DEF Dialled, sockets, link, external
<1>2. backoff' \in BackoffType
  <2>1. Len(allow_time) \in Nat \ {0}
    BY TimeAssumption
  <2>2. backoff \in BackoffType /\ Delay(backoff.fails) \in Nat
    BY Types, DelayFacts DEF BackoffType
  <2>3. CASE Down
    BY <2>1, <2>2, <2>3 DEF Dialled, BackoffType
  <2>4. CASE ~Down
    <3>1. backoff' = backoff \/ backoff' = [backoff EXCEPT !.fails = 0, !.wait = 0]
      BY <2>4 DEF Dialled
    <3>2. 0 \in 0..Len(allow_time) /\ 0 \in Nat
      BY <2>1
    <3> QED BY <2>2, <3>1, <3>2 DEF BackoffType
  <2> QED BY <2>3, <2>4
<1>3. TypeOK' /\ ReadyInv'
  <2>1. pc' \in PCs
    BY <1>1 DEF PCs
  <2> QED BY <1>1, <1>2, <2>1, Types, Typed DEF Inv, ReadyInv
<1>4. CalmMove
  BY <1>1 DEF CalmMove, Checking
<1>5. CalmFirst
  BY <1>1 DEF CalmFirst, Inv, FirstInv
<1>6. Clean' => Clean
  BY <1>1 DEF Clean
<1> QED BY <1>1, <1>3, <1>4, <1>5, <1>6, CalmStep

LEMMA MainStep ==
  ASSUME Inv, main
  PROVE  Inv'
<1>1. /\ pc = "closed" /\ pc' \in {"detect", "exit"}
      /\ UNCHANGED <<ready, signals, events, ps, status, handle, address, s_link, iface,
                     blind, backoff, again, modem, stop, left>>
  BY DEF main, sockets, link, external
<1>2. TypeOK' /\ ReadyInv'
  <2>1. pc' \in PCs
    BY <1>1 DEF PCs
  <2> QED BY <1>1, <2>1, Types, Typed DEF Inv, ReadyInv
<1>3. CalmMove /\ CalmFirst
  BY <1>1 DEF CalmMove, Checking, CalmFirst
<1>4. Clean' => Clean
  BY <1>1 DEF Clean
<1> QED BY <1>1, <1>2, <1>3, <1>4, CalmStep

-----------------------------------------------------------------------------
(* Time, the user and the modem                                            *)

LEMMA TickStep ==
  ASSUME Inv, Tick
  PROVE  Inv'
<1>1. /\ UNCHANGED <<pc, ready, events, ps, status, handle, address, s_link, iface, blind,
                     again, modem, stop, left>>
      /\ backoff' = [backoff EXCEPT !.wait = IF backoff.wait > 0 THEN backoff.wait - 1 ELSE 0,
                     !.alarm = IF backoff.alarm > 0 THEN backoff.alarm - 1 ELSE 0]
      /\ IF backoff.alarm = 1 THEN signals' = Append(signals, "START") ELSE signals' = signals
  BY DEF Tick, link, external, send_signo_to_main
<1>0. backoff \in BackoffType
  BY Types
<1>2. backoff' \in BackoffType /\ (backoff.alarm = 0 => backoff'.alarm = 0)
  <2>1. PICK w \in Nat, a \in Nat :
          /\ backoff' = [backoff EXCEPT !.wait = w, !.alarm = a]
          /\ backoff.alarm = 0 => a = 0
    <3> DEFINE w == IF backoff.wait > 0 THEN backoff.wait - 1 ELSE 0
               a == IF backoff.alarm > 0 THEN backoff.alarm - 1 ELSE 0
    <3>1. w \in Nat /\ a \in Nat /\ (backoff.alarm = 0 => a = 0)
      BY <1>0 DEF BackoffType
    <3>2. backoff' = [backoff EXCEPT !.wait = w, !.alarm = a]
      BY <1>1
    <3> QED BY <3>1, <3>2
  <2> QED BY <1>0, <2>1 DEF BackoffType
<1>3. backoff.alarm = 0 => backoff'.alarm = 0
  BY <1>2
<1>4. /\ signals' \in Seq(Signos)
      /\ signals # <<>> => signals' # <<>>
      /\ signals \in Seq({"START", "CHECK"}) => signals' \in Seq({"START", "CHECK"})
      /\ backoff.alarm = 0 => signals' = signals
  <2>1. "START" \in Signos
    BY DEF Signos
  <2>2. signals' = signals \/ signals' = Append(signals, "START")
    BY <1>1
  <2> QED BY <1>1, <2>1, <2>2, SignalEffect
<1>5. TypeOK' /\ ReadyInv'
  BY <1>1, <1>2, <1>4, Types, Typed DEF Inv, ReadyInv
<1>6. CalmMove
  BY <1>1 DEF CalmMove
<1>7. CalmFirst
  BY <1>1, <1>3, <1>4 DEF CalmFirst, Inv, FirstInv
<1>8. Clean' => Clean
  BY <1>1 DEF Clean
<1>9. stop' = "none" => pc' # "hangup4"
  BY <1>1 DEF Inv, StopInv
<1> QED BY <1>1, <1>4, <1>5, <1>6, <1>7, <1>8, <1>9, CalmStep

LEMMA InterruptStep ==
  ASSUME Inv, ql_sigaction \/ NothingToCut
  PROVE  Inv'
<1>1. /\ UNCHANGED <<pc, ready, events, ps, status, handle, address, s_link, iface, blind,
                     backoff, modem, left>>
      /\ again' \in {again, FALSE} /\ stop # "cut" /\ stop' \in {"sent", "seen"}
      /\ signals' = signals \/ signals' = Append(signals, "STOP")
  BY DEF ql_sigaction, NothingToCut, sockets, link, send_signo_to_main
<1>2. signals' \in Seq(Signos) /\ (signals # <<>> => signals' # <<>>)
  <2>1. "STOP" \in Signos
    BY DEF Signos
  <2> QED BY <1>1, <2>1, SignalEffect
<1>3. TypeOK' /\ ReadyInv'
  <2>1. again' \in BOOLEAN
    BY <1>1, Types
  <2> QED BY <1>1, <1>2, <2>1, Types, Typed DEF Inv, ReadyInv
<1>4. CalmMove /\ CalmFirst
  BY <1>1 DEF CalmMove, CalmFirst
<1>5. Clean' => Clean
  BY <1>1 DEF Clean
<1> QED BY <1>1, <1>3, <1>4, <1>5, CalmStep

\* What the device thread reports of the modem.
LEMMA ReportEffect ==
  ASSUME Inv, NEW e \in TriggerEvents, Report(e)
  PROVE  /\ events' \in Seq(TriggerEvents) /\ (events # <<>> => events' # <<>>)
         /\ e = "NETWORK" /\ events \in Seq({"NETWORK"}) => events' \in Seq({"NETWORK"})
<1>1. CASE events' = events
  BY <1>1, Types
<1>2. CASE events' = Append(events, e)
  <2>1. events' \in Seq(TriggerEvents) /\ events' # <<>>
    BY <1>2, Types, AppendIn
  <2>2. e = "NETWORK" /\ events \in Seq({"NETWORK"}) => events' \in Seq({"NETWORK"})
    <3>1. "NETWORK" \in {"NETWORK"}
      OBVIOUS
    <3> QED BY <1>2, <3>1, AppendIn
  <2> QED BY <2>1, <2>2
<1> QED BY <1>1, <1>2 DEF Report

LEMMA ArriveStep ==
  ASSUME Inv, ModemReady \/ Attach
  PROVE  Inv'
<1>1. /\ UNCHANGED <<pc, ready, signals, ps, status, handle, address, s_link, iface, blind,
                     backoff, again, stop, left>>
      /\ modem' \in {[modem EXCEPT !.ready = TRUE], [modem EXCEPT !.attached = TRUE]}
      /\ UNCHANGED events \/ Report("NETWORK")
  BY DEF ModemReady, Attach, MayChange, link
<1>2. modem' \in ModemType /\ modem'.call = modem.call
  BY <1>1, Types DEF ModemType
<1>3. /\ events' \in Seq(TriggerEvents) /\ (events # <<>> => events' # <<>>)
      /\ events \in Seq({"NETWORK"}) => events' \in Seq({"NETWORK"})
  <2>1. "NETWORK" \in TriggerEvents
    BY DEF TriggerEvents
  <2> QED BY <1>1, <2>1, Types, ReportEffect
<1>4. TypeOK' /\ ReadyInv'
  BY <1>1, <1>2, <1>3, Types, Typed DEF Inv, ReadyInv
<1>5. CalmMove
  BY <1>1 DEF CalmMove
<1>6. CalmFirst
  BY <1>1 DEF CalmFirst, Inv, FirstInv
<1>7. Clean' => Clean
  BY <1>1 DEF Clean
<1>8. stop' = "none" => pc' # "hangup4"
  BY <1>1 DEF Inv, StopInv
<1> QED BY <1>1, <1>2, <1>3, <1>4, <1>5, <1>6, <1>7, <1>8, CalmStep

\* A change in the modem is counted, and brings up no call that was not.
LEMMA ChangeStep ==
  ASSUME Inv, Detach \/ CallDrops \/ CallMoves \/ ModemResets
  PROVE  Inv'
<1>1. /\ UNCHANGED <<pc, ready, signals, ps, status, handle, address, s_link, iface, blind,
                     backoff, again, stop>>
      /\ Change
      /\ UNCHANGED events \/ \E e \in TriggerEvents : Report(e)
  BY DEF Detach, CallDrops, CallMoves, ModemResets, MayChange, link, TriggerEvents
<1>2. left' \in LeftType /\ ~Clean'
  <2>1. left \in LeftType /\ MaxChanges \in Nat /\ MaxFaults \in Nat
    BY Types, BoundAssumption
  <2>2. left.changes > 0 /\ left' = [left EXCEPT !.changes = left.changes - 1]
    BY <1>1 DEF Change
  <2>3. left' \in LeftType /\ left'.changes # MaxChanges
    BY <2>1, <2>2 DEF LeftType
  <2> QED BY <2>3 DEF Clean
<1>3. /\ modem' \in ModemType
      /\ modem.call[4] = NoAddress => modem'.call[4] = NoAddress
  <2>0. modem \in ModemType /\ NoCalls \in CallType /\ NoCalls[4] = NoAddress
    BY Types DEF NoCalls, CallType
  <2>1. CASE Detach
    BY <2>0, <2>1 DEF Detach, ModemType
  <2>2. CASE CallDrops
    <3>1. PICK f \in Enabled : modem' = Dropped(f)
      BY <2>2 DEF CallDrops
    <3>2. f \in Families /\ 4 \in Families
      BY Types
    <3> QED BY <3>1, <3>2, DroppedFacts DEF Inv
  <2>3. CASE CallMoves
    <3>0. PICK f \in Enabled : \E a \in GivenOut(f) :
            CallUp(f) /\ modem' = [modem EXCEPT !.call[f] = a]
      BY <2>3 DEF CallMoves
    <3>1. PICK a \in GivenOut(f) : CallUp(f) /\ modem' = [modem EXCEPT !.call[f] = a]
      BY <3>0
    <3> DEFINE c == [modem.call EXCEPT ![f] = a]
    <3>2. f \in Families /\ a \in Addresses
      BY <3>1, Types, GivenFacts
    <3>3. modem' = [modem EXCEPT !.call = c]
      BY <2>0, <3>1 DEF ModemType
    <3>4. c \in CallType /\ (modem.call[4] = NoAddress => c[4] = NoAddress)
      BY <2>0, <3>1, <3>2, Types DEF ModemType, CallType, CallUp
    <3> HIDE DEF c
    <3> QED BY <2>0, <3>3, <3>4 DEF ModemType
  <2>4. CASE ModemResets
    BY <2>0, <2>4 DEF ModemResets, ModemType
  <2> QED BY <2>1, <2>2, <2>3, <2>4
<1>4. events' \in Seq(TriggerEvents) /\ (events # <<>> => events' # <<>>)
  BY <1>1, Types, ReportEffect
<1>5. TypeOK' /\ ReadyInv'
  BY <1>1, <1>2, <1>3, <1>4, Types, Typed DEF Inv, ReadyInv
<1>6. Connected' = Connected
  BY <1>1 DEF Connected
<1>7. LinkInv' /\ StopInv' /\ AddressInv' /\ HungInv'
  BY <1>1, <1>2, <1>6 DEF Inv, LinkInv, StopInv, AddressInv, HungInv
<1>8. FirstInv'
  BY <1>1, <1>3 DEF Inv, FirstInv
<1> QED BY <1>5, <1>7, <1>8 DEF Inv

-----------------------------------------------------------------------------
(* The requests of the loop                                                *)

\* A request leaves the sockets, the backoff, the link and what it is about.
LEMMA RequestTyped ==
  ASSUME Inv, UNCHANGED <<sockets, link, backoff, again>>,
         pc' \in PCs, ps' \in 0..2,
         handle' \in [Families -> BOOLEAN],
         status' \in [Families -> {"unknown", "connected", "disconnected"}],
         address' \in [Families -> Addresses \cup {NoAddress}],
         \A f \in Families \ Enabled : address'[f] = NoAddress,
         modem' \in ModemType, stop' \in {"none", "sent", "seen", "cut"},
         left' \in LeftType
  PROVE  /\ TypeOK' /\ ReadyInv'
         /\ UNCHANGED <<signals, events, s_link, iface, blind, backoff>>
<1>1. UNCHANGED <<ready, signals, events, s_link, iface, blind, backoff, again>>
  BY DEF sockets, link
<1> QED BY <1>1 DEF Inv, TypeOK, ReadyInv, PCs, ModemType, CallType, LeftType

\* The sockets are made, and the modem's clients opened anew.
LEMMA OpenStep ==
  ASSUME Inv, quectel_CM
  PROVE  Inv'
<1>1. /\ pc = "detect"
      /\ UNCHANGED <<ps, status, handle, address, stop, sockets, link, backoff, again>>
      /\ \/ pc' = "sim" /\ modem' = [modem EXCEPT !.call = NoCalls] /\ left' = left
         \/ /\ pc' = "closed" /\ modem' = modem
            /\ left.faults > 0 /\ left' = [left EXCEPT !.faults = left.faults - 1]
  BY DEF quectel_CM
<1>2. NoCalls \in CallType /\ \A f \in Families : NoCalls[f] = NoAddress
  BY DEF NoCalls, CallType
<1>3. modem' \in ModemType
  BY <1>1, <1>2, Types DEF ModemType
<1>4. /\ left' \in LeftType
      /\ pc' = "closed" => ~Clean'
      /\ Clean' => Clean /\ pc' = "sim" /\ modem'.call = NoCalls
  <2>1. left \in LeftType /\ MaxChanges \in Nat /\ MaxFaults \in Nat /\ modem \in ModemType
    BY Types, BoundAssumption
  <2>2. CASE pc' = "sim"
    <3>1. modem' = [modem EXCEPT !.call = NoCalls] /\ left' = left
      BY <1>1, <2>2
    <3> QED BY <1>1, <2>1, <2>2, <3>1 DEF Clean, ModemType
  <2>3. CASE pc' = "closed"
    <3>1. left.faults > 0 /\ left' = [left EXCEPT !.faults = left.faults - 1]
      BY <1>1, <2>3
    <3>2. left' \in LeftType /\ left'.faults # MaxFaults
      BY <2>1, <3>1 DEF LeftType
    <3> QED BY <2>3, <3>2 DEF Clean
  <2> QED BY <1>1, <2>2, <2>3
<1>5. /\ TypeOK' /\ ReadyInv'
      /\ UNCHANGED <<signals, events, s_link, iface, blind, backoff>>
  <2>1. pc' \in PCs
    BY <1>1 DEF PCs
  <2>2. \A f \in Families \ Enabled : address'[f] = NoAddress
    BY <1>1 DEF Inv, TypeOK
  <2> QED BY <1>1, <1>3, <1>4, <2>1, <2>2, Types, RequestTyped
<1>6. LinkInv'
  BY <1>1, <1>5 DEF Inv, LinkInv, Connected, Checking
<1>7. StopInv' /\ AddressInv'
  BY <1>1, <1>5 DEF Inv, StopInv, AddressInv
<1>8. FirstInv'
  <2>1. pc' = "sim" => modem'.call[4] = NoAddress
    BY <1>1, <1>2, Types DEF ModemType
  <2> QED BY <1>1, <1>5, <2>1 DEF Inv, FirstInv
<1>9. HungInv'
  <2>1. SUFFICES ASSUME Clean' PROVE HungInv'
    BY DEF HungInv
  <2>2. Clean /\ pc' = "sim" /\ modem'.call = NoCalls
    BY <1>4, <2>1
  <2> QED BY <1>2, <1>5, <2>2 DEF Inv, HungInv, CallUp
<1> QED BY <1>5, <1>6, <1>7, <1>8, <1>9 DEF Inv

LEMMA SetupStep ==
  ASSUME Inv, Setup
  PROVE  Inv'
<1>1. PICK f \in {4, 6}, o \in Outcomes :
        /\ requestSetupDataCall(f, o)
        /\ f = 4 => pc \in {"setup4", "retry4"}
        /\ f = 6 => pc = "setup6"
        /\ Returns0(o) => pc' = IF f = 4 THEN "ip4" ELSE "ip6"
        /\ ~Returns0(o) => pc' \in IF f = 4 THEN {"retry4", DialFrom(6)} ELSE {"dialled"}
  <2>1. PICK o \in Outcomes :
          /\ requestSetupDataCall(Family, o)
          /\ pc' = IF Returns0(o) THEN IF Family = 4 THEN "ip4" ELSE "ip6"
                   ELSE IF pc = "setup4" /\ o = "error" /\ HasPassword THEN "retry4"
                   ELSE IF Family = 4 THEN DialFrom(6) ELSE "dialled"
    BY DEF Setup
  <2>2. CASE pc \in {"setup4", "retry4"}
    <3>1. Family = 4
      BY <2>2 DEF Family
    <3> QED BY <2>1, <2>2, <3>1
  <2>3. CASE pc = "setup6"
    <3>1. Family = 6
      BY <2>3 DEF Family
    <3> QED BY <2>1, <2>3, <3>1
  <2> QED BY <2>2, <2>3 DEF Setup
<1>2. UNCHANGED <<sockets, ps, status, address, link, backoff, again>>
  BY DEF Setup
<1>3. /\ Outcome(o, modem.attached)
      /\ modem' \in ModemType /\ handle' \in [Families -> BOOLEAN]
      /\ \A g \in Families : g # f => /\ handle'[g] = handle[g]
                                      /\ modem'.call[g] = modem.call[g]
      /\ handle'[f] = (handle[f] \/ o = "ok")
      /\ o = "error" => modem' = modem
  BY <1>1, Types, SetupEffect DEF Inv
<1>4. /\ left' \in LeftType /\ stop' \in {"none", "sent", "seen", "cut"}
      /\ stop' = "none" => stop = "none" /\ o # "cut"
      /\ Clean' => Clean /\ o # "lost" /\ o # "cut"
  BY <1>3, OutcomeEffect DEF Inv
<1>5. /\ pc' \in {"ip4", "ip6", "retry4", "setup6", "dialled"}
      /\ pc' \in {"ip4", "retry4"} => f = 4
      /\ pc' = "ip6" => f = 6
      /\ pc' \in {"ip4", "ip6"} => Returns0(o)
      /\ pc' = "setup6" => 6 \in Enabled /\ status[6] # "connected"
      /\ Returns0(o) => pc' = IF f = 4 THEN "ip4" ELSE "ip6"
  <2>1. \/ DialFrom(6) = "dialled"
        \/ DialFrom(6) = "setup6" /\ 6 \in Enabled /\ status'[6] # "connected"
    BY DialEffect
  <2> QED BY <1>1, <1>2, <2>1
<1>6. /\ TypeOK' /\ ReadyInv'
      /\ UNCHANGED <<signals, events, s_link, iface, blind, backoff>>
  <2>1. pc' \in PCs
    BY <1>5 DEF PCs
  <2>2. \A g \in Families \ Enabled : address'[g] = NoAddress
    BY <1>2 DEF Inv, TypeOK
  <2> QED BY <1>2, <1>3, <1>4, <2>1, <2>2, Types, RequestTyped
<1>7. f = 4 => 4 \in Enabled /\ status[4] # "connected"
  BY <1>1 DEF Inv, LinkInv
<1>8. f = 6 => 6 \in Enabled /\ status[6] # "connected"
  BY <1>1 DEF Inv, LinkInv
<1>9. LinkInv'
  BY <1>1, <1>2, <1>5, <1>6, <1>7, <1>8 DEF Inv, LinkInv, Connected, Checking
<1>10. StopInv' /\ FirstInv'
  BY <1>1, <1>2, <1>4, <1>5, <1>6 DEF Inv, StopInv, FirstInv
<1>11. AddressInv'
  <2> SUFFICES ASSUME stop' = "none" PROVE AddressInv'
    BY DEF AddressInv
  <2>1. stop = "none" /\ (pc' = "ip4" => o = "ok" /\ f = 4)
    BY <1>4, <1>5 DEF Returns0
  <2>2. handle[4] => handle'[4]
    BY <1>1, <1>3, Types
  <2>3. pc' = "ip4" => handle'[4]
    BY <1>3, <2>1
  <2> QED BY <1>1, <1>2, <1>5, <1>6, <2>1, <2>2, <2>3 DEF Inv, AddressInv
<1>12. HungInv'
  <2> SUFFICES ASSUME Clean' PROVE HungInv'
    BY DEF HungInv
  <2>1. Clean /\ o \in {"ok", "error"}
    BY <1>4 DEF Outcomes
  <2>2. ASSUME NEW g \in Families, CallUp(g)'
        PROVE  /\ g \in Enabled /\ handle'[g]
               /\ status'[g] = "connected" \/ (g = 4 /\ pc' = "ip4") \/ (g = 6 /\ pc' = "ip6")
    <3>1. CASE g # f \/ o = "error"
      <4>1. modem'.call[g] = modem.call[g] /\ (handle[g] => handle'[g])
        BY <1>3, <3>1, Types
      <4> QED BY <1>1, <1>2, <2>1, <2>2, <4>1 DEF Inv, HungInv, CallUp
    <3>2. CASE g = f /\ o = "ok"
      BY <1>3, <1>5, <1>7, <1>8, <3>2, Types DEF Returns0
    <3> QED BY <2>1, <3>1, <3>2
  <2> QED BY <1>5, <1>6, <2>1, <2>2 DEF Inv, HungInv
<1> QED BY <1>6, <1>9, <1>10, <1>11, <1>12 DEF Inv

LEMMA GetAddressStep ==
  ASSUME Inv, GetAddress
  PROVE  Inv'
<1>1. PICK f \in {4, 6}, o \in Outcomes :
        /\ requestGetIPAddress(f, o)
        /\ f = 4 => pc = "ip4" /\ pc' = DialFrom(6)
        /\ f = 6 => pc = "ip6" /\ pc' = "dialled"
        /\ status' = IF Returns0(o) THEN [status EXCEPT ![f] = "connected"] ELSE status
  <2>1. PICK o \in Outcomes :
          /\ requestGetIPAddress(Family, o)
          /\ status' = IF Returns0(o) THEN [status EXCEPT ![Family] = "connected"] ELSE status
    BY DEF GetAddress
  <2>2. pc' = IF Family = 4 THEN DialFrom(6) ELSE "dialled"
    BY DEF GetAddress
  <2>3. CASE pc = "ip4"
    <3>1. Family = 4
      BY <2>3 DEF Family
    <3> QED BY <2>1, <2>2, <2>3, <3>1
  <2>4. CASE pc = "ip6"
    <3>1. Family = 6
      BY <2>4 DEF Family
    <3> QED BY <2>1, <2>2, <2>4, <3>1
  <2> QED BY <2>3, <2>4 DEF GetAddress
<1>2. UNCHANGED <<sockets, ps, handle, link, backoff, again>>
  BY DEF GetAddress
<1>3. /\ modem' = modem
      /\ address' \in [Families -> Addresses \cup {NoAddress}]
      /\ \A g \in Families : g # f => address'[g] = address[g]
      /\ left' \in LeftType /\ stop' \in {"none", "sent", "seen", "cut"}
      /\ stop' = "none" => stop = "none" /\ o # "cut"
      /\ Clean' => Clean /\ (o = "ok" \/ (~CallUp(f) /\ o = "error"))
  BY <1>1, Types, GetEffect DEF Inv
<1>4. /\ status' \in [Families -> {"unknown", "connected", "disconnected"}]
      /\ \A g \in Families : status'[g] = status[g] \/ (g = f /\ status'[g] = "connected")
      /\ Returns0(o) => status'[f] = "connected"
  BY <1>1, Types
<1>5. /\ pc' \in {"setup6", "dialled"}
      /\ pc' = "setup6" => 6 \in Enabled /\ status'[6] # "connected"
  BY <1>1, DialEffect
<1>6. f \in Enabled /\ status[f] # "connected"
  BY <1>1 DEF Inv, LinkInv
<1>7. /\ TypeOK' /\ ReadyInv'
      /\ UNCHANGED <<signals, events, s_link, iface, blind, backoff>>
  <2>1. pc' \in PCs
    BY <1>5 DEF PCs
  <2>2. \A g \in Families \ Enabled : address'[g] = NoAddress
    BY <1>3, <1>6 DEF Inv, TypeOK
  <2> QED BY <1>2, <1>3, <1>4, <2>1, <2>2, Types, RequestTyped
<1>8. Connected \subseteq Connected' /\ \A g \in Families : status'[g] = "unknown" => status[g] = "unknown"
  BY <1>4, Types DEF Connected
<1>9. LinkInv'
  BY <1>1, <1>5, <1>7, <1>8 DEF Inv, LinkInv, Checking
<1>10. StopInv' /\ FirstInv'
  <2>1. StopInv'
    BY <1>3, <1>5, <1>7 DEF Inv, StopInv
  <2>2. stop' = "none" /\ 4 \in Enabled => status[4] # "unknown"
    BY <1>1, <1>3 DEF Inv, FirstInv
  <2> QED BY <1>8, <2>1, <2>2, Types DEF FirstInv
<1>11. AddressInv'
  <2> SUFFICES ASSUME stop' = "none" PROVE AddressInv'
    BY DEF AddressInv
  <2>1. CASE f = 4
    <3>1. handle[4] /\ (~blind => 4 \notin s_link)
      BY <1>1, <1>3, <1>6, <2>1 DEF Inv, AddressInv, LinkInv, Connected, Checking
    <3> QED BY <1>2, <1>5, <1>7, <3>1 DEF AddressInv
  <2>2. CASE f = 6
    <3>1. status'[4] = status[4] /\ address'[4] = address[4]
      BY <1>3, <1>4, <2>2, Types
    <3> QED BY <1>1, <1>2, <1>3, <1>5, <1>7, <2>2, <3>1 DEF Inv, AddressInv
  <2> QED BY <2>1, <2>2
<1>12. HungInv'
  <2> SUFFICES ASSUME Clean' PROVE HungInv'
    BY DEF HungInv
  <2>1. Clean /\ (o = "ok" \/ ~CallUp(f))
    BY <1>3
  <2>2. ASSUME NEW g \in Families, CallUp(g)
        PROVE  g \in Enabled /\ handle[g] /\ status'[g] = "connected"
    BY <1>1, <1>4, <2>1, <2>2 DEF Inv, HungInv, Returns0
  <2> QED BY <1>2, <1>3, <1>5, <1>7, <2>1, <2>2 DEF Inv, HungInv, CallUp
<1> QED BY <1>7, <1>9, <1>10, <1>11, <1>12 DEF Inv

LEMMA QueryIPv4Step ==
  ASSUME Inv, Query4
  PROVE  Inv'
<1>1. /\ pc = "query4"
      /\ UNCHANGED <<sockets, ps, address, link, backoff, again>>
  BY DEF Query4
<1>2. /\ \A g \in Families \ Enabled : address'[g] = NoAddress
      /\ modem \in ModemType /\ left \in LeftType /\ stop \in {"none", "sent", "seen", "cut"}
  BY <1>1, Types DEF Inv, TypeOK
<1>3. CASE 4 \notin Enabled \/ status[4] = "disconnected"
  <2>1. status' = Lost(4) /\ pc' = "query6" /\ UNCHANGED <<handle, modem, stop, left>>
    BY <1>3 DEF Query4, external
  <2>2. /\ status' \in [Families -> {"unknown", "connected", "disconnected"}]
        /\ status'[4] = "disconnected" /\ status'[6] = status[6]
    BY <2>1, LostEffect, Types DEF Inv
  <2>3. /\ TypeOK' /\ ReadyInv'
        /\ UNCHANGED <<signals, events, s_link, iface, blind, backoff>>
    <3>1. pc' \in PCs
      BY <2>1 DEF PCs
    <3> QED BY <1>1, <1>2, <2>1, <2>2, <3>1, Types, RequestTyped
  <2>4. LinkInv'
    BY <1>1, <2>1, <2>2, <2>3, Types DEF Inv, LinkInv, Checking
  <2>5. StopInv' /\ FirstInv' /\ AddressInv'
    BY <1>1, <2>1, <2>2, <2>3 DEF Inv, StopInv, FirstInv, AddressInv
  <2>6. HungInv'
    <3>1. Clean' => ~CallUp(4)
      BY <1>1, <1>3, <2>1, Types DEF Inv, HungInv, Clean
    <3> QED BY <1>1, <2>1, <2>2, <2>3, <3>1, Types DEF Inv, HungInv, Clean, CallUp
  <2> QED BY <2>3, <2>4, <2>5, <2>6 DEF Inv
<1>4. CASE 4 \in Enabled /\ status[4] # "disconnected"
  <2>1. PICK o \in Outcomes :
          IF Returns0(o)
          THEN /\ requestQueryDataCall(4, o)
               /\ pc' = IF status'[4] # "connected" THEN "query6"
                        ELSE IF address[4] = NoAddress THEN "learn" ELSE "compare"
          ELSE /\ Outcome(o, TRUE) /\ status' = Lost(4) /\ pc' = "query6"
               /\ UNCHANGED <<handle, modem>>
    BY <1>4 DEF Query4
  <2>2. CASE Returns0(o)
    <3>1. /\ requestQueryDataCall(4, o)
          /\ pc' \in {"query6", "learn", "compare"}
          /\ pc' = "query6" <=> status'[4] # "connected"
          /\ pc' = "learn" => address[4] = NoAddress
      BY <2>1, <2>2
    <3>2. /\ Outcome(o, TRUE) /\ modem' = modem
          /\ handle' \in [Families -> BOOLEAN]
          /\ status' \in [Families -> {"unknown", "connected", "disconnected"}]
          /\ handle'[6] = handle[6] /\ status'[6] = status[6]
          /\ o = "ok" => /\ status'[4] = IF CallUp(4) THEN "connected" ELSE "disconnected"
                         /\ handle'[4] = (handle[4] /\ CallUp(4))
          /\ o # "ok" => status' = status /\ handle' = handle
      <4>1. 4 \in Families /\ 6 \in Families /\ TypeOK
        BY Types DEF Inv
      <4>2. /\ Outcome(o, TRUE) /\ modem' = modem
            /\ handle' \in [Families -> BOOLEAN]
            /\ status' \in [Families -> {"unknown", "connected", "disconnected"}]
            /\ \A g \in Families : g # 4 => handle'[g] = handle[g] /\ status'[g] = status[g]
        BY <3>1, <4>1, QueryEffect
      <4>3. /\ o = "ok" => /\ status'[4] = IF CallUp(4) THEN "connected" ELSE "disconnected"
                           /\ handle'[4] = (handle[4] /\ CallUp(4))
            /\ o # "ok" => status' = status /\ handle' = handle
        <5>1. requestQueryDataCall(4, o)
          BY <3>1
        <5> QED
          BY <4>1, <5>1, QueryEffect
      <4>4. handle'[6] = handle[6] /\ status'[6] = status[6]
        BY <4>1, <4>2
      <4> QED BY <4>2, <4>3, <4>4
    <3>3. /\ left' \in LeftType /\ stop' \in {"none", "sent", "seen", "cut"}
          /\ stop' = "none" => stop = "none" /\ o = "ok"
          /\ Clean' => Clean /\ o = "ok"
      BY <2>2, <3>2, OutcomeEffect DEF Inv, Returns0
    <3>4. /\ TypeOK' /\ ReadyInv'
          /\ UNCHANGED <<signals, events, s_link, iface, blind, backoff>>
      <4>1. pc' \in PCs
        BY <3>1 DEF PCs
      <4> QED BY <1>1, <1>2, <3>2, <3>3, <4>1, Types, RequestTyped
    <3>5. status'[4] = "unknown" => status[4] = "unknown"
      BY <3>2
    <3>6. LinkInv'
      <4>1. \A g \in Families : status'[g] = "unknown" => g \notin s_link
        BY <3>2, <3>5, Types DEF Inv, LinkInv
      <4> QED BY <1>1, <1>4, <3>1, <3>4, <4>1 DEF Inv, LinkInv, Checking
    <3>7. StopInv' /\ FirstInv'
      BY <1>1, <1>4, <3>1, <3>2, <3>3, <3>4 DEF Inv, StopInv, FirstInv
    <3>8. AddressInv'
      <4> SUFFICES ASSUME stop' = "none" PROVE AddressInv'
        BY DEF AddressInv
      <4>1. stop = "none" /\ o = "ok"
        BY <3>3
      <4>2. status'[4] = "connected" => CallUp(4)
        BY <3>2, <4>1
      <4>3. CallUp(4) => status[4] = "connected"
        BY <1>1, <1>4, <4>1, Types DEF Inv, FirstInv, CallUp
      <4>4. status'[4] = "connected" => handle'[4]
        BY <3>2, <4>1, <4>2, <4>3 DEF Inv, AddressInv
      <4> QED BY <1>1, <3>1, <3>4, <4>1, <4>2, <4>3, <4>4 DEF Inv, AddressInv
    <3>9. HungInv'
      <4> SUFFICES ASSUME Clean' PROVE HungInv'
        BY DEF HungInv
      <4>1. Clean /\ o = "ok" /\ (CallUp(4) => status'[4] = "connected" /\ handle'[4])
        BY <3>2, <3>3, Types DEF Inv, HungInv
      <4> QED BY <1>1, <1>4, <3>1, <3>2, <3>4, <4>1, Types DEF Inv, HungInv, CallUp
    <3> QED BY <3>4, <3>6, <3>7, <3>8, <3>9 DEF Inv
  <2>3. CASE ~Returns0(o)
    <3>1. /\ Outcome(o, TRUE) /\ status' = Lost(4) /\ pc' = "query6"
          /\ UNCHANGED <<handle, modem>> /\ o \in {"error", "lost"}
      BY <2>1, <2>3 DEF Returns0, Outcomes
    <3>2. /\ left' \in LeftType /\ stop' \in {"none", "sent", "seen", "cut"} /\ ~Clean'
          /\ stop' = "none" => stop = "none"
      BY <3>1, OutcomeEffect DEF Inv
    <3>3. /\ status' \in [Families -> {"unknown", "connected", "disconnected"}]
          /\ status'[4] = "disconnected" /\ status'[6] = status[6]
      BY <3>1, LostEffect, Types DEF Inv
    <3>4. /\ TypeOK' /\ ReadyInv'
          /\ UNCHANGED <<signals, events, s_link, iface, blind, backoff>>
      <4>1. pc' \in PCs
        BY <3>1 DEF PCs
      <4> QED BY <1>1, <1>2, <3>1, <3>2, <3>3, <4>1, Types, RequestTyped
    <3>5. LinkInv'
      BY <1>1, <1>4, <3>1, <3>3, <3>4, Types DEF Inv, LinkInv, Checking
    <3>6. StopInv' /\ FirstInv' /\ AddressInv' /\ HungInv'
      BY <1>1, <3>1, <3>2, <3>3, <3>4 DEF Inv, StopInv, FirstInv, AddressInv, HungInv
    <3> QED BY <3>4, <3>5, <3>6 DEF Inv
  <2> QED BY <2>2, <2>3
<1> QED BY <1>3, <1>4, Types

\* The address is asked for because the profile has none.
LEMMA LearnStep ==
  ASSUME Inv, Learn
  PROVE  Inv'
<1>1. PICK o \in Outcomes :
        /\ requestGetIPAddress(4, o)
        /\ IF Returns0(o) THEN pc' = "compare" /\ UNCHANGED status
           ELSE pc' = "query6" /\ status' = Lost(4)
  BY DEF Learn
<1>2. pc = "learn" /\ UNCHANGED <<sockets, ps, handle, link, backoff, again>>
  BY DEF Learn
<1>3. /\ modem' = modem
      /\ address' \in [Families -> Addresses \cup {NoAddress}]
      /\ \A g \in Families : g # 4 => address'[g] = address[g]
      /\ left' \in LeftType /\ stop' \in {"none", "sent", "seen", "cut"}
      /\ stop' = "none" => stop = "none" /\ o # "cut"
      /\ Clean' => Clean /\ (o = "ok" \/ ~CallUp(4))
      /\ o = "cut" => ~Clean'
  BY <1>1, Types, GetEffect DEF Inv, Returns0
<1>4. /\ status' \in [Families -> {"unknown", "connected", "disconnected"}]
      /\ status'[6] = status[6]
      /\ \/ Returns0(o) /\ pc' = "compare" /\ status' = status
         \/ ~Returns0(o) /\ pc' = "query6" /\ status'[4] = "disconnected"
  BY <1>1, LostEffect, Types DEF Inv
<1>5. 4 \in Enabled /\ status[4] = "connected" /\ address[4] = NoAddress
  BY <1>2 DEF Inv, LinkInv
<1>6. /\ TypeOK' /\ ReadyInv'
      /\ UNCHANGED <<signals, events, s_link, iface, blind, backoff>>
  <2>1. pc' \in PCs
    BY <1>4 DEF PCs
  <2>2. \A g \in Families \ Enabled : address'[g] = NoAddress
    BY <1>3, <1>5 DEF Inv, TypeOK
  <2> QED BY <1>2, <1>3, <1>4, <2>1, <2>2, Types, RequestTyped
<1>7. LinkInv'
  BY <1>2, <1>4, <1>5, <1>6, Types DEF Inv, LinkInv, Checking
<1>8. StopInv' /\ FirstInv'
  BY <1>2, <1>3, <1>4, <1>5, <1>6 DEF Inv, StopInv, FirstInv
<1>9. AddressInv'
  <2> SUFFICES ASSUME stop' = "none" PROVE AddressInv'
    BY DEF AddressInv
  <2>1. stop = "none" /\ handle[4] /\ (~blind => 4 \notin s_link)
    BY <1>2, <1>3, <1>5 DEF Inv, AddressInv
  <2> QED BY <1>2, <1>4, <1>6, <2>1 DEF AddressInv
<1>10. HungInv'
  <2> SUFFICES ASSUME Clean' PROVE HungInv'
    BY DEF HungInv
  <2>1. Clean /\ (CallUp(4) => status'[4] = "connected")
    BY <1>3, <1>4, <1>5 DEF Returns0
  <2> QED BY <1>2, <1>3, <1>4, <1>5, <1>6, <2>1, Types DEF Inv, HungInv, CallUp
<1> QED BY <1>6, <1>7, <1>8, <1>9, <1>10 DEF Inv

LEMMA CompareStep ==
  ASSUME Inv, check_ipv4_address
  PROVE  Inv'
<1>1. PICK o \in Outcomes :
        /\ requestGetIPAddress(4, o)
        /\ pc' = IF Returns0(o) /\ address'[4] = address[4] THEN "query6" ELSE "renew"
  BY DEF check_ipv4_address
<1>2. pc = "compare" /\ UNCHANGED <<sockets, ps, status, handle, link, backoff, again>>
  BY DEF check_ipv4_address
<1>3. /\ modem' = modem
      /\ address' \in [Families -> Addresses \cup {NoAddress}]
      /\ \A g \in Families : g # 4 => address'[g] = address[g]
      /\ left' \in LeftType /\ stop' \in {"none", "sent", "seen", "cut"}
      /\ stop' = "none" => stop = "none" /\ o # "cut"
      /\ Clean' => Clean
      /\ handle[4] /\ o = "ok" => address'[4] = modem.call[4] /\ CallUp(4)
  BY <1>1, Types, GetEffect DEF Inv
<1>4. 4 \in Enabled /\ status[4] = "connected"
  BY <1>2 DEF Inv, LinkInv
<1>5. /\ TypeOK' /\ ReadyInv'
      /\ UNCHANGED <<signals, events, s_link, iface, blind, backoff>>
  <2>1. pc' \in PCs
    BY <1>1 DEF PCs
  <2>2. \A g \in Families \ Enabled : address'[g] = NoAddress
    BY <1>3, <1>4 DEF Inv, TypeOK
  <2> QED BY <1>2, <1>3, <2>1, <2>2, Types, RequestTyped
<1>6. LinkInv'
  BY <1>1, <1>2, <1>4, <1>5 DEF Inv, LinkInv, Checking
<1>7. StopInv' /\ FirstInv'
  BY <1>1, <1>2, <1>3, <1>4, <1>5 DEF Inv, StopInv, FirstInv
<1>8. AddressInv'
  <2> SUFFICES ASSUME stop' = "none" PROVE AddressInv'
    BY DEF AddressInv
  <2>1. stop = "none" /\ handle[4]
    BY <1>3, <1>4 DEF Inv, AddressInv
  <2>2. CASE pc' = "query6"
    <3>1. o = "ok" /\ address'[4] = address[4]
      BY <1>1, <1>3, <2>2 DEF Returns0
    <3>2. address'[4] # NoAddress
      BY <1>3, <2>1, <3>1 DEF CallUp
    <3> QED BY <1>2, <1>5, <2>1, <2>2, <3>1, <3>2 DEF Inv, AddressInv
  <2>3. CASE pc' = "renew"
    BY <1>2, <1>5, <2>1, <2>3 DEF AddressInv
  <2> QED BY <1>1, <2>2, <2>3
<1>9. HungInv'
  BY <1>1, <1>2, <1>3, <1>5 DEF Inv, HungInv, CallUp
<1> QED BY <1>5, <1>6, <1>7, <1>8, <1>9 DEF Inv

LEMMA RenewStep ==
  ASSUME Inv, Renew
  PROVE  Inv'
<1>1. /\ pc = "renew" /\ pc' = "query6" /\ status' = Lost(4)
      /\ UNCHANGED <<sockets, ps, address, link, backoff, again>>
  BY DEF Renew
<1>2. PICK o \in Outcomes : requestDeactivateDefaultPDP(4, o)
  BY DEF Renew
<1>3. /\ modem' \in ModemType /\ handle' \in [Families -> BOOLEAN]
      /\ handle'[6] = handle[6] /\ modem'.call[6] = modem.call[6]
      /\ left' \in LeftType /\ stop' \in {"none", "sent", "seen", "cut"}
      /\ stop' = "none" => stop = "none"
      /\ Clean' => Clean /\ (handle[4] => modem'.call[4] = NoAddress)
                         /\ (~handle[4] => modem' = modem)
  BY <1>2, Types, DeactivateEffect DEF Inv
<1>4. /\ status' \in [Families -> {"unknown", "connected", "disconnected"}]
      /\ status'[4] = "disconnected" /\ status'[6] = status[6]
  <2>1. 4 \in Families /\ 6 \in Families /\ TypeOK
    BY Types DEF Inv
  <2> QED
    BY <1>1, <2>1, LostEffect
<1>5. /\ TypeOK' /\ ReadyInv'
      /\ UNCHANGED <<signals, events, s_link, iface, blind, backoff>>
  <2>1. pc' \in PCs
    BY <1>1 DEF PCs
  <2>2. \A g \in Families \ Enabled : address'[g] = NoAddress
    BY <1>1 DEF Inv, TypeOK
  <2> QED BY <1>1, <1>3, <1>4, <2>1, <2>2, Types, RequestTyped
<1>6. LinkInv'
  BY <1>1, <1>4, <1>5, Types DEF Inv, LinkInv, Checking
<1>7. StopInv' /\ FirstInv' /\ AddressInv'
  BY <1>1, <1>3, <1>4, <1>5 DEF Inv, StopInv, FirstInv, AddressInv
<1>8. HungInv'
  <2> SUFFICES ASSUME Clean' PROVE HungInv'
    BY DEF HungInv
  <2>1. Clean /\ modem'.call[4] = NoAddress
    BY <1>3, Types DEF Inv, HungInv, CallUp
  <2> QED BY <1>1, <1>3, <1>4, <1>5, <2>1, Types DEF Inv, HungInv, CallUp
<1> QED BY <1>5, <1>6, <1>7, <1>8 DEF Inv

LEMMA QueryIPv6Step ==
  ASSUME Inv, Query6
  PROVE  Inv'
<1>1. /\ pc = "query6" /\ pc' = "checked"
      /\ UNCHANGED <<sockets, ps, address, link, backoff, again>>
  BY DEF Query6
<1>2. /\ status' \in [Families -> {"unknown", "connected", "disconnected"}]
      /\ handle' \in [Families -> BOOLEAN]
      /\ status'[4] = status[4] /\ handle'[4] = handle[4]
      /\ status'[6] = "unknown" => status[6] = "unknown"
      /\ 6 \notin Enabled => status'[6] = "disconnected"
      /\ modem' = modem
      /\ left' \in LeftType /\ stop' \in {"none", "sent", "seen", "cut"}
      /\ stop' = "none" => stop = "none"
      /\ Clean' => Clean /\ (CallUp(6) => 6 \in Enabled /\ handle'[6] /\ status'[6] = "connected")
  <2>1. CASE 6 \notin Enabled \/ status[6] = "disconnected"
    <3>1. status' = Lost(6) /\ UNCHANGED <<handle, modem, stop, left>>
      BY <2>1 DEF Query6, external
    <3>2. /\ status' \in [Families -> {"unknown", "connected", "disconnected"}]
          /\ status'[6] = "disconnected" /\ status'[4] = status[4]
      BY <3>1, LostEffect, Types DEF Inv
    <3>3. Clean => ~CallUp(6)
      BY <1>1, <2>1, Types DEF Inv, HungInv
    <3> QED BY <3>1, <3>2, <3>3, Types DEF Clean
  <2>2. CASE 6 \in Enabled /\ status[6] # "disconnected"
    <3>1. PICK o \in Outcomes : requestQueryDataCall(6, o)
      BY <2>2 DEF Query6
    <3>2. /\ Outcome(o, TRUE) /\ modem' = modem
          /\ handle' \in [Families -> BOOLEAN]
          /\ status' \in [Families -> {"unknown", "connected", "disconnected"}]
          /\ handle'[4] = handle[4] /\ status'[4] = status[4]
          /\ o = "ok" => /\ status'[6] = IF CallUp(6) THEN "connected" ELSE "disconnected"
                         /\ handle'[6] = (handle[6] /\ CallUp(6))
          /\ o # "ok" => status' = status /\ handle' = handle
      <4>1. 6 \in Families /\ 4 \in Families /\ TypeOK
        BY Types DEF Inv
      <4>2. /\ Outcome(o, TRUE) /\ modem' = modem
            /\ handle' \in [Families -> BOOLEAN]
            /\ status' \in [Families -> {"unknown", "connected", "disconnected"}]
            /\ \A g \in Families : g # 6 => handle'[g] = handle[g] /\ status'[g] = status[g]
        BY <3>1, <4>1, QueryEffect
      <4>3. /\ o = "ok" => /\ status'[6] = IF CallUp(6) THEN "connected" ELSE "disconnected"
                           /\ handle'[6] = (handle[6] /\ CallUp(6))
            /\ o # "ok" => status' = status /\ handle' = handle
        BY <3>1, <4>1, QueryEffect
      <4>4. handle'[4] = handle[4] /\ status'[4] = status[4]
        BY <4>1, <4>2
      <4> QED BY <4>2, <4>3, <4>4
    <3>3. /\ left' \in LeftType /\ stop' \in {"none", "sent", "seen", "cut"}
          /\ stop' = "none" => stop = "none"
          /\ Clean' => Clean /\ o = "ok"
      BY <3>2, OutcomeEffect DEF Inv, Outcomes
    <3>4. Clean /\ CallUp(6) => handle[6]
      BY Types DEF Inv, HungInv
    <3> QED BY <2>2, <3>2, <3>3, <3>4
  <2> QED BY <2>1, <2>2
<1>3. /\ TypeOK' /\ ReadyInv'
      /\ UNCHANGED <<signals, events, s_link, iface, blind, backoff>>
  <2>1. pc' \in PCs
    BY <1>1 DEF PCs
  <2>2. \A g \in Families \ Enabled : address'[g] = NoAddress
    BY <1>1 DEF Inv, TypeOK
  <2> QED BY <1>1, <1>2, <2>1, <2>2, Types, RequestTyped
<1>4. LinkInv'
  BY <1>1, <1>2, <1>3, Types DEF Inv, LinkInv, Checking
<1>5. StopInv' /\ FirstInv' /\ AddressInv'
  BY <1>1, <1>2, <1>3 DEF Inv, StopInv, FirstInv, AddressInv
<1>6. HungInv'
  <2> SUFFICES ASSUME Clean' PROVE HungInv'
    BY DEF HungInv
  <2>1. Clean /\ modem' = modem
    BY <1>2
  <2>2. \A f \in Families : CallUp(f)' => CallUp(f)
    BY <2>1 DEF CallUp
  <2> QED BY <1>1, <1>2, <1>3, <2>1, <2>2, Types DEF Inv, HungInv
<1> QED BY <1>3, <1>4, <1>5, <1>6 DEF Inv

-----------------------------------------------------------------------------
(* The link, and the end of a life                                         *)

\* However the link goes down, no address is left on the interface.
LEMMA DownEffect ==
  ASSUME Inv, usbnet_link_change({})
  PROVE  iface' = NoCalls
<1>1. {} \in SUBSET Enabled /\ TypeOK
  BY DEF Inv
<1>2. CASE s_link = {}
  BY <1>1, <1>2, LinkEffect DEF Inv, LinkInv
<1>3. CASE s_link # {}
  BY <1>1, <1>3, LinkEffect
<1> QED BY <1>2, <1>3

LEMMA CheckedStep ==
  ASSUME Inv, Checked
  PROVE  Inv'
<1>1. /\ pc = "checked" /\ pc' = "poll"
      /\ UNCHANGED <<ready, events, ps, status, handle, backoff, again, modem, stop, left>>
      /\ signals' = signals \/ signals' = Append(signals, "START")
  BY DEF Checked, external, send_signo_to_main
<1>2. /\ signals' \in Seq(Signos) /\ (signals # <<>> => signals' # <<>>)
      /\ signals \in Seq({"START", "CHECK"}) => signals' \in Seq({"START", "CHECK"})
  <2>1. "START" \in Signos
    BY DEF Signos
  <2> QED BY <1>1, <2>1, SignalEffect
<1>3. Connected' = Connected /\ Connected \in SUBSET Enabled
  BY <1>1 DEF Connected
<1>4. \A f \in Enabled : f \notin Connected <=> status[f] # "connected"
  BY DEF Connected
<1>5. /\ 4 \notin Enabled => status[4] = "disconnected"
      /\ 6 \notin Enabled => status[6] = "disconnected"
  BY <1>1 DEF Inv, LinkInv
<1>6. /\ s_link' \in (SUBSET Enabled) \cup {{0}}
      /\ address' \in [Families -> Addresses \cup {NoAddress}]
      /\ iface' \in [Families -> Addresses \cup {NoAddress}]
      /\ blind' \in BOOLEAN
      /\ \A f \in Families : address'[f] \in {address[f], NoAddress}
      /\ s_link' \cap Families = {} => iface' = NoCalls
      /\ \A f \in Families : status[f] = "unknown" => f \notin s_link'
      /\ ~blind' => s_link' \ {0} \subseteq Connected
      /\ stop = "none" /\ ~blind' /\ 4 \in s_link' /\ status[4] = "connected"
           => address'[4] # NoAddress /\ iface'[4] = address'[4]
  <2>1. CASE \A f \in Families : status[f] = "disconnected"
    <3>1. usbnet_link_change({}) /\ {} \in SUBSET Enabled
      BY <2>1 DEF Checked
    <3>2. /\ s_link' = {}
          /\ address' \in [Families -> Addresses \cup {NoAddress}]
          /\ iface' \in [Families -> Addresses \cup {NoAddress}]
          /\ blind' \in BOOLEAN
          /\ \A f \in Families : address'[f] \in {address[f], NoAddress}
      BY <3>1, LinkEffect DEF Inv
    <3>3. iface' = NoCalls
      BY <3>1, DownEffect
    <3> QED BY <3>2, <3>3
  <2>2. CASE ~(\A f \in Families : status[f] = "disconnected") /\ Connected # {}
    <3>1. usbnet_link_change(Connected)
      BY <2>2 DEF Checked
    <3>2. /\ s_link' = Connected
          /\ address' \in [Families -> Addresses \cup {NoAddress}]
          /\ iface' \in [Families -> Addresses \cup {NoAddress}]
          /\ blind' \in BOOLEAN
          /\ \A f \in Families : address'[f] \in {address[f], NoAddress}
          /\ s_link = Connected => UNCHANGED <<iface, address, blind>>
          /\ s_link # Connected =>
               \A f \in Connected : address'[f] = address[f]
                              /\ (address[f] # NoAddress => iface'[f] = address[f])
      BY <1>3, <3>1, LinkEffect DEF Inv
    <3>3. s_link' \cap Families # {}
      BY <1>3, <2>2, <3>2, Types
    <3>4. \A f \in Families : status[f] = "unknown" => f \notin s_link'
      BY <3>2 DEF Connected
    <3>5. stop = "none" /\ ~blind' /\ 4 \in s_link' /\ status[4] = "connected"
            => address'[4] # NoAddress /\ iface'[4] = address'[4]
      <4>1. CASE s_link = Connected
        BY <1>1, <3>2, <4>1 DEF Inv, AddressInv
      <4>2. CASE s_link # Connected
        BY <1>1, <3>2, <4>2 DEF Inv, AddressInv
      <4> QED BY <4>1, <4>2
    <3> QED BY <1>3, <3>2, <3>3, <3>4, <3>5
  <2>3. CASE ~(\A f \in Families : status[f] = "disconnected") /\ Connected = {}
    <3>1. /\ blind' = (s_link \cap Families # {})
          /\ UNCHANGED <<s_link, iface, address>>
      BY <2>3 DEF Checked
    <3>2. s_link \in (SUBSET Enabled) \cup {{0}}
      BY DEF Inv, TypeOK
    <3>3. ~blind' => s_link' \ {0} = {}
      <4>1. CASE s_link = {0}
        BY <3>1, <4>1
      <4>2. CASE s_link \in SUBSET Enabled
        <5>1. ~blind' => s_link \cap Families = {}
          BY <3>1
        <5>2. s_link \cap Families = s_link
          BY <4>2, Types
        <5> QED BY <3>1, <5>1, <5>2
      <4>3. s_link = {0} \/ s_link \in SUBSET Enabled
        BY <3>2, Zenon
      <4> QED BY <4>1, <4>2, <4>3
    <3>4. status[4] # "connected"
      BY <1>4, <1>5, <2>3
    <3>5. blind' \in BOOLEAN
      BY <3>1
    <3>6. /\ s_link' \cap Families = {} => iface' = NoCalls
          /\ \A f \in Families : status[f] = "unknown" => f \notin s_link'
      BY <3>1 DEF Inv, LinkInv
    <3> QED BY <3>1, <3>2, <3>3, <3>4, <3>5, <3>6, Types
  <2> QED BY <2>1, <2>2, <2>3
<1>7. TypeOK' /\ ReadyInv'
  BY <1>1, <1>2, <1>6 DEF Inv, TypeOK, ReadyInv
<1>8. LinkInv'
  BY <1>1, <1>3, <1>6 DEF LinkInv, Checking
<1>9. StopInv' /\ FirstInv' /\ AddressInv' /\ HungInv'
  BY <1>1, <1>2, <1>6 DEF Inv, StopInv, FirstInv, AddressInv, HungInv, Clean, CallUp
<1> QED BY <1>7, <1>8, <1>9 DEF Inv

\* The calls are hung up one after the other.
LEMMA DeactivateStep ==
  ASSUME Inv, Deactivate
  PROVE  Inv'
<1>1. PICK f \in {4, 6} :
        /\ f = 4 => pc = "hangup4" /\ pc' = "hangup6"
        /\ f = 6 => pc = "hangup6" /\ pc' = "quit"
        /\ IF f \in Connected THEN \E o \in Outcomes : requestDeactivateDefaultPDP(f, o)
           ELSE UNCHANGED <<handle, modem, stop, left>>
        /\ UNCHANGED <<sockets, ps, status, address, link, backoff, again>>
  BY DEF Deactivate, HangUp, external
<1>2. f \in Families /\ stop # "none"
  BY <1>1, Types DEF Inv, StopInv
<1>3. /\ modem' \in ModemType /\ handle' \in [Families -> BOOLEAN]
      /\ \A g \in Families : g # f => /\ handle'[g] = handle[g]
                                      /\ modem'.call[g] = modem.call[g]
      /\ left' \in LeftType /\ stop' \in {"none", "sent", "seen", "cut"}
      /\ stop' # "none"
      /\ Clean' => Clean /\ modem'.call[f] = NoAddress
  <2>1. CASE f \in Connected
    <3>1. PICK o \in Outcomes : requestDeactivateDefaultPDP(f, o)
      BY <1>1, <2>1
    <3>2. /\ modem' \in ModemType /\ handle' \in [Families -> BOOLEAN]
          /\ \A g \in Families : g # f => /\ handle'[g] = handle[g]
                                          /\ modem'.call[g] = modem.call[g]
          /\ left' \in LeftType /\ stop' \in {"none", "sent", "seen", "cut"}
          /\ stop' = "none" => stop = "none"
          /\ Clean' => Clean /\ (handle[f] => modem'.call[f] = NoAddress)
                             /\ (~handle[f] => modem' = modem)
      BY <1>2, <3>1, DeactivateEffect DEF Inv
    <3>3. Clean /\ ~handle[f] => modem.call[f] = NoAddress
      BY <1>2 DEF Inv, HungInv, CallUp
    <3> QED BY <1>2, <3>2, <3>3
  <2>2. CASE f \notin Connected
    <3>1. UNCHANGED <<handle, modem, stop, left>>
      BY <1>1, <2>2
    <3>2. Clean => modem.call[f] = NoAddress
      BY <1>1, <1>2, <2>2 DEF Inv, HungInv, CallUp, Connected
    <3> QED BY <1>2, <3>1, <3>2, Types DEF Clean
  <2> QED BY <2>1, <2>2
<1>4. pc' \in {"hangup6", "quit"}
  BY <1>1
<1>5. /\ TypeOK' /\ ReadyInv'
      /\ UNCHANGED <<signals, events, s_link, iface, blind, backoff>>
  <2>1. pc' \in PCs
    BY <1>4 DEF PCs
  <2>2. \A g \in Families \ Enabled : address'[g] = NoAddress
    BY <1>1 DEF Inv, TypeOK
  <2> QED BY <1>1, <1>3, <2>1, <2>2, Types, RequestTyped
<1>6. LinkInv'
  BY <1>1, <1>4, <1>5 DEF Inv, LinkInv, Connected, Checking
<1>7. StopInv' /\ FirstInv' /\ AddressInv'
  BY <1>3 DEF StopInv, FirstInv, AddressInv
<1>8. HungInv'
  <2> SUFFICES ASSUME Clean' PROVE HungInv'
    BY DEF HungInv
  <2>1. Clean /\ modem'.call[f] = NoAddress
    BY <1>3
  <2>2. pc' = "hangup6" => modem'.call[4] = NoAddress
    BY <1>1, <2>1
  <2>3. pc' = "quit" => modem'.call = NoCalls
    <3> SUFFICES ASSUME pc' = "quit" PROVE modem'.call = NoCalls
      OBVIOUS
    <3>1. f = 6 /\ pc = "hangup6"
      BY <1>1
    <3>2. modem.call[4] = NoAddress
      BY <2>1, <3>1 DEF Inv, HungInv
    <3>3. modem'.call[4] = NoAddress /\ modem'.call[6] = NoAddress
      BY <1>3, <2>1, <3>1, <3>2, Types
    <3> QED BY <1>3, <3>3, Types DEF ModemType, CallType, NoCalls
  <2>4. ASSUME NEW g \in Families, CallUp(g)'
        PROVE  g \in Enabled /\ handle'[g] /\ status'[g] = "connected"
    <3>1. g # f /\ CallUp(g) /\ handle'[g] = handle[g]
      BY <1>3, <2>1, <2>4 DEF CallUp
    <3> QED BY <1>1, <2>1, <3>1 DEF Inv, HungInv
  <2> QED BY <1>4, <1>5, <2>1, <2>2, <2>3, <2>4 DEF Inv, HungInv
<1> QED BY <1>5, <1>6, <1>7, <1>8 DEF Inv

LEMMA QuitStep ==
  ASSUME Inv, Quit
  PROVE  Inv'
<1>1. /\ pc = "quit" /\ pc' = "closed"
      /\ usbnet_link_change({})
      /\ ready' = {} /\ signals' = <<>> /\ events' = <<>>
      /\ ps' = 0 /\ status' = [f \in Families |-> "unknown"]
      /\ backoff' = [fails |-> 0, wait |-> 0, alarm |-> 0]
      /\ UNCHANGED <<handle, again, modem, stop, left>>
  BY DEF Quit, external
<1>2. /\ s_link' = {}
      /\ address' \in [Families -> Addresses \cup {NoAddress}]
      /\ iface' \in [Families -> Addresses \cup {NoAddress}]
      /\ blind' \in BOOLEAN
      /\ \A f \in Families : address'[f] \in {address[f], NoAddress}
  <2>1. {} \in SUBSET Enabled
    OBVIOUS
  <2> QED BY <1>1, <2>1, LinkEffect DEF Inv
<1>3. iface' = NoCalls
  BY <1>1, DownEffect
<1>4. \A S : <<>> \in Seq(S)
  OBVIOUS
<1>5. TypeOK' /\ ReadyInv'
  <2>1. /\ backoff' \in BackoffType /\ status' \in [Families -> {"unknown", "connected", "disconnected"}]
        /\ signals' \in Seq(Signos) /\ events' \in Seq(TriggerEvents) /\ ps' \in 0..2
    BY <1>1, <1>4, TimeAssumption DEF BackoffType
  <2>2. ready' \subseteq {"signal", "event"}
    BY <1>1
  <2>3. \A f \in Families \ Enabled : address'[f] = NoAddress
    BY <1>2 DEF Inv, TypeOK
  <2>4. ReadyInv'
    BY <1>1 DEF ReadyInv
  <2> QED BY <1>1, <1>2, <2>1, <2>2, <2>3, <2>4 DEF Inv, TypeOK, BackoffType
<1>6. LinkInv'
  BY <1>1, <1>2, <1>3 DEF LinkInv, Checking
<1>7. StopInv' /\ FirstInv' /\ AddressInv'
  <2>1. \A f \in Families : status'[f] = "unknown"
    BY <1>1
  <2>2. 4 \in Families /\ Enabled \subseteq Families
    BY Types
  <2>3. StopInv'
    BY <1>1, <1>4 DEF StopInv
  <2>4. backoff'.alarm = 0
    BY <1>1
  <2>5. FirstInv'
    BY <1>1, <1>4, <2>1, <2>2, <2>4 DEF FirstInv
  <2>6. AddressInv'
    BY <1>1, <2>1, <2>2 DEF AddressInv
  <2> QED BY <2>3, <2>5, <2>6
<1>8. HungInv'
  <2> SUFFICES ASSUME Clean' PROVE HungInv'
    BY DEF HungInv
  <2>1. Clean /\ modem.call = NoCalls
    BY <1>1 DEF Inv, HungInv, Clean
  <2> QED BY <1>1, <1>3, <1>4, <2>1 DEF HungInv, CallUp, NoCalls
<1> QED BY <1>5, <1>6, <1>7, <1>8 DEF Inv

-----------------------------------------------------------------------------
(* The theorems                                                            *)

LEMMA InitInv == Init => Inv
<1> SUFFICES ASSUME Init PROVE Inv
  OBVIOUS
<1>1. /\ pc = "detect" /\ ready = {} /\ signals = <<>> /\ events = <<>> /\ ps = 0
      /\ status = [f \in Families |-> "unknown"]
      /\ backoff = [fails |-> 0, wait |-> 0, alarm |-> 0]
      /\ handle = [f \in Families |-> FALSE]
      /\ address = NoCalls /\ s_link = {0} /\ iface = NoCalls /\ blind = FALSE
      /\ again = FALSE
      /\ modem = [attached |-> FALSE, call |-> NoCalls, ready |-> FALSE]
      /\ stop = "none"
      /\ left = [faults |-> MaxFaults, changes |-> MaxChanges]
  BY DEF Init, Start
<1>2. /\ NoCalls \in CallType /\ \A f \in Families : NoCalls[f] = NoAddress
      /\ \A S : <<>> \in Seq(S)
  BY DEF NoCalls, CallType
<1>3. TypeOK
  <2>1. /\ backoff \in BackoffType /\ left \in LeftType /\ ps \in 0..2
    BY <1>1, TimeAssumption, BoundAssumption DEF BackoffType, LeftType
  <2>2. modem \in ModemType /\ address \in CallType /\ iface \in CallType
    BY <1>1, <1>2 DEF ModemType
  <2>3. /\ handle \in [Families -> BOOLEAN]
        /\ status \in [Families -> {"unknown", "connected", "disconnected"}]
        /\ signals \in Seq(Signos) /\ events \in Seq(TriggerEvents)
    BY <1>1, <1>2
  <2>4. \A f \in Families \ Enabled : address[f] = NoAddress
    BY <1>1, <1>2
  <2>5. s_link \in (SUBSET Enabled) \cup {{0}}
    BY <1>1, Zenon
  <2>6. /\ ready \subseteq {"signal", "event"}
        /\ blind \in BOOLEAN /\ again \in BOOLEAN /\ pc \in PCs
        /\ stop \in {"none", "sent", "seen", "cut"}
    BY <1>1 DEF PCs
  <2> QED BY <2>1, <2>2, <2>3, <2>4, <2>5, <2>6
          DEF TypeOK, PCs, BackoffType, LeftType, ModemType, CallType
<1>4. ReadyInv
  BY <1>1 DEF ReadyInv
<1>5. LinkInv
  BY <1>1, FamilyFacts DEF LinkInv, Checking
<1>6. StopInv /\ FirstInv /\ AddressInv
  <2>1. \A f \in Families : status[f] = "unknown"
    BY <1>1
  <2>2. 4 \in Families /\ Enabled \subseteq Families /\ backoff.alarm = 0
    BY <1>1, FamilyFacts
  <2> QED BY <1>1, <1>2, <2>1, <2>2 DEF StopInv, FirstInv, AddressInv
<1>7. HungInv
  BY <1>1, <1>2 DEF HungInv, CallUp
<1> QED BY <1>3, <1>4, <1>5, <1>6, <1>7 DEF Inv

LEMMA NextInv == Inv /\ [Next]_vars => Inv'
<1> SUFFICES ASSUME Inv, [Next]_vars PROVE Inv'
  OBVIOUS
<1>1. CASE MainLoop
  <2>1. CASE requestGetSIMStatus \/ requestGetProfile \/ EnterLoop \/ CheckAttached
             \/ OnNetworkState
    BY <2>1, AskStep
  <2>2. CASE Poll \/ PollTimeout
    BY <2>2, PollStep
  <2>3. CASE OnStart \/ OnCheck \/ OnStop
    BY <2>3, SignalStep
  <2>4. CASE OnDisconnected \/ OnCallList \/ OnReset
    BY <2>4, EventStep
  <2>5. CASE quectel_CM \/ Setup \/ GetAddress \/ Dialled
    BY <2>5, OpenStep, SetupStep, GetAddressStep, DialledStep
  <2>6. CASE Query4 \/ Learn \/ check_ipv4_address \/ Renew \/ Query6 \/ Checked
    BY <2>6, QueryIPv4Step, LearnStep, CompareStep, RenewStep, QueryIPv6Step, CheckedStep
  <2>7. CASE Deactivate \/ Quit \/ main
    BY <2>7, DeactivateStep, QuitStep, MainStep
  <2> QED BY <1>1, <2>1, <2>2, <2>3, <2>4, <2>5, <2>6, <2>7 DEF MainLoop
<1>2. CASE Tick
  BY <1>2, TickStep
<1>3. CASE ql_sigaction \/ NothingToCut
  BY <1>3, InterruptStep
<1>4. CASE ModemReady \/ Attach
  BY <1>4, ArriveStep
<1>5. CASE Detach \/ CallDrops \/ CallMoves \/ ModemResets
  BY <1>5, ChangeStep
<1>6. CASE UNCHANGED vars
  BY <1>6 DEF vars, Inv, TypeOK, ReadyInv, LinkInv, StopInv, FirstInv, AddressInv, HungInv,
              Connected, Clean, CallUp
<1> QED BY <1>1, <1>2, <1>3, <1>4, <1>5, <1>6 DEF Next

\* The invariant of the dialer holds whatever is lost, refused, cut or changed.
THEOREM Invariance == Spec => []Inv
BY InitInv, NextInv, PTL DEF Spec

\* Every variable of the dialer keeps its type; the sockets hold only what the code
\* writes to them, and the address of a family that is not dialled stays unknown.
THEOREM TypeCorrect == Spec => []TypeOK
<1>1. Inv => TypeOK
  BY DEF Inv
<1> QED BY <1>1, Invariance, PTL

\* Between two events the link carries only families whose call is taken for up, but
\* after a check that did not hear of a family; a link that is down has no address.
THEOREM LinkFollowsCalls == Spec => []LinkHasCall
<1>1. Inv => LinkHasCall
  BY DEF Inv, LinkInv, LinkHasCall, Checking
<1> QED BY <1>1, Invariance, PTL

\* Until it is interrupted, the IPv4 address on a link that is up is the one the
\* modem gave last.
THEOREM InterfaceFollows == Spec => []InterfaceCurrent
<1>1. Inv => InterfaceCurrent
  BY DEF Inv, AddressInv, InterfaceCurrent
<1> QED BY <1>1, Invariance, PTL

\* A dialer interrupted at any moment leaves no call up and no address on the
\* interface, if its requests were answered and nothing changed in the modem.
THEOREM LeavesNoCall == Spec => []HungUp
<1>1. Inv => HungUp
  BY DEF Inv, HungInv, HungUp, Clean
<1> QED BY <1>1, Invariance, PTL
=============================================================================
