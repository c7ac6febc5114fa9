------------------------ MODULE QmiTransport_proofs ------------------------
(***************************************************************************)
(* TypeOK, PendingIsLive, AnsweredIsFreed and the refinement of QmiCall,   *)
(* for any number of identifiers and of calls.                             *)
(*                                                                         *)
(* The argument: a request's identifier is the counter of its kind set     *)
(* back by the request's age, modulo MaxTid (NumberedInv); so of the       *)
(* requests the modem may still answer no two of a kind share one, and an  *)
(* answer that matches s_pRequest is the answer to it.  While the caller   *)
(* waits, s_pRequest is its own request or nothing (WaitInv), whatever     *)
(* earlier calls left behind.                                              *)
(***************************************************************************)
EXTENDS QmiTransport, TLAPS

\* The identifier given out a requests before the one T.
Back(T, a) == IF T > a THEN T - a ELSE (T - a) + MaxTid

\* How many requests of its kind came after this one.
Age(m) == count[m.kind] - m.n

\* A request was made before now; until its identifier is given out again it is
\* the one its age says.
Numbered(m) ==
  /\ m.n <= count[m.kind]
  /\ Age(m) < MaxTid => m.tid = Back(TransactionId[m.kind], Age(m))

NumberedInv ==
  /\ \A m \in asked : Numbered(m)
  /\ request # NULL => Numbered(request)

CountInv == \A k \in Kinds : count[k] <= MaxCalls

\* The request of the call in progress is the last one of its kind.
CallInv ==
  pc # "idle" => /\ request # NULL
                 /\ request.n = count[request.kind]
                 /\ ret = NULL

\* While the caller waits the reader looks for its request or for nothing, and
\* once an answer is stored the request's buffer is gone.
WaitInv ==
  /\ pc \in {"wait", "expired"} => s_pRequest \in {NULL, request}
  /\ pc = "wait" => s_pResponse \in {NULL, request}
  /\ pc = "wait" /\ s_pResponse # NULL => request \notin heap

Inv ==
  /\ TypeOK
  /\ NumberedInv
  /\ CountInv
  /\ CallInv
  /\ WaitInv
  /\ PendingIsLive
  /\ AnsweredIsFreed

-----------------------------------------------------------------------------
(* Identifiers                                                             *)

\* Making one more request gives every earlier one a greater age and the same place.
LEMMA BackShifts ==
  ASSUME NEW T \in 0..MaxTid, NEW a \in Nat, a + 1 < MaxTid
  PROVE  Back(GetQMUXTransactionId(T), a + 1) = Back(T, a)
<1>1. MaxTid \in Nat /\ T \in Nat /\ T <= MaxTid
  BY MaxTidAssumption
<1>2. CASE T + 1 > MaxTid
  BY <1>1, <1>2 DEF Back, GetQMUXTransactionId
<1>3. CASE ~(T + 1 > MaxTid)
  BY <1>1, <1>3 DEF Back, GetQMUXTransactionId
<1> QED BY <1>2, <1>3

\* Within one turn of the counter no identifier comes twice.
LEMMA BackInjective ==
  ASSUME NEW T \in 0..MaxTid, NEW a \in Nat, NEW b \in Nat,
         a < MaxTid, b < MaxTid, Back(T, a) = Back(T, b)
  PROVE  a = b
BY MaxTidAssumption DEF Back

\* The identifier just given out is in range and is the one of age 0.
LEMMA NextTid ==
  ASSUME NEW T \in 0..MaxTid
  PROVE  /\ GetQMUXTransactionId(T) \in 1..MaxTid
         /\ Back(GetQMUXTransactionId(T), 0) = GetQMUXTransactionId(T)
BY MaxTidAssumption DEF Back, GetQMUXTransactionId

LEMMA NullIsNoRequest == NULL \notin Requests
BY DEF NULL, Requests, Kinds

\* Two requests young enough to be answered, of one kind and identifier, are one.
LEMMA SameRequest ==
  ASSUME TypeOK,
         NEW m \in Requests, NEW r \in Requests,
         Numbered(m), Numbered(r), Age(m) < MaxTid, Age(r) < MaxTid,
         is_response(r, m)
  PROVE  m = r
<1>1. m.kind \in Kinds /\ m.kind = r.kind /\ m.tid = r.tid
  BY DEF is_response, Requests
<1> DEFINE c == count[m.kind]
           T == TransactionId[m.kind]
<1>2. c \in Nat /\ T \in 0..MaxTid /\ m.n \in Nat /\ r.n \in Nat
  BY <1>1 DEF TypeOK, Requests
<1>3. m.n <= c /\ r.n <= c
  BY <1>1 DEF Numbered
<1>4. Age(m) = c - m.n /\ Age(r) = c - r.n
  BY <1>1 DEF Age
<1>5. Age(m) \in Nat /\ Age(r) \in Nat
  BY <1>2, <1>3, <1>4
<1>6. Back(T, Age(m)) = Back(T, Age(r))
  BY <1>1 DEF Numbered
<1>7. Age(m) = Age(r)
  BY <1>2, <1>5, <1>6, BackInjective
<1>8. m.n = r.n
  BY <1>2, <1>4, <1>7
<1> QED BY <1>1, <1>8 DEF Requests

-----------------------------------------------------------------------------
(* Init and the steps                                                      *)

LEMMA InitInv == Init => Inv
<1> SUFFICES ASSUME Init PROVE Inv
  OBVIOUS
<1>1. TypeOK
  <2>1. 0 \in 0..MaxTid
    BY MaxTidAssumption
  <2>2. TransactionId \in [Kinds -> 0..MaxTid] /\ count \in [Kinds -> Nat]
    BY <2>1 DEF Init
  <2> QED BY <2>2 DEF Init, TypeOK
<1>2. NumberedInv /\ CountInv /\ CallInv /\ WaitInv
  BY MaxCallsAssumption DEF Init, NumberedInv, CountInv, CallInv, WaitInv
<1>3. PendingIsLive /\ AnsweredIsFreed
  BY DEF Init, PendingIsLive, AnsweredIsFreed
<1> QED BY <1>1, <1>2, <1>3 DEF Inv

\* A new request leaves the numbering of every earlier one as it was.
LEMMA ComposeNumbers ==
  ASSUME Inv, NEW k \in Kinds, ComposeQMUXMsg(k),
         NEW m \in Requests, Numbered(m)
  PROVE  Numbered(m)'
<1>1. m.kind \in Kinds /\ m.n \in Nat /\ count[m.kind] \in Nat
  BY DEF Requests, Inv, TypeOK
<1>2. CASE m.kind # k
  <2>1. count'[m.kind] = count[m.kind] /\ TransactionId'[m.kind] = TransactionId[m.kind]
    BY <1>1, <1>2 DEF ComposeQMUXMsg, Inv, TypeOK
  <2> QED BY <2>1 DEF Numbered, Age
<1>3. CASE m.kind = k
  <2> DEFINE T == TransactionId[k]
             a == Age(m)
  <2>1. /\ count'[m.kind] = count[m.kind] + 1
        /\ TransactionId'[m.kind] = GetQMUXTransactionId(T)
    BY <1>3 DEF ComposeQMUXMsg, Inv, TypeOK
  <2>2. m.n <= count[m.kind]
    BY DEF Numbered
  <2>3. a \in Nat /\ Age(m)' = a + 1
    BY <1>1, <2>1, <2>2 DEF Age
  <2>4. T \in 0..MaxTid
    BY DEF Inv, TypeOK
  <2>5. ASSUME a + 1 < MaxTid
        PROVE  m.tid = Back(TransactionId'[m.kind], Age(m)')
    <3>1. a < MaxTid
      BY <2>3, <2>5, MaxTidAssumption
    <3>2. m.tid = Back(T, a)
      BY <3>1, <1>3 DEF Numbered
    <3>3. Back(GetQMUXTransactionId(T), a + 1) = Back(T, a)
      BY <2>3, <2>4, <2>5, BackShifts
    <3> QED BY <2>1, <2>3, <3>2, <3>3
  <2>6. m.n <= count'[m.kind]
    BY <1>1, <2>1, <2>2
  <2> HIDE DEF a
  <2> QED BY <2>3, <2>5, <2>6 DEF Numbered
<1> QED BY <1>2, <1>3

LEMMA ComposeStep ==
  ASSUME Inv, NEW k \in Kinds, ComposeQMUXMsg(k)
  PROVE  Inv'
<1> DEFINE T == TransactionId[k]
           r == [kind |-> k, tid |-> GetQMUXTransactionId(T), n |-> count[k] + 1]
<1>1. T \in 0..MaxTid /\ count[k] \in Nat /\ count[k] < MaxCalls
  BY DEF Inv, TypeOK, ComposeQMUXMsg
<1>2. GetQMUXTransactionId(T) \in 1..MaxTid
  BY <1>1, NextTid
<1>3. request' = r /\ r \in Requests /\ pc' = "send" /\ ret' = NULL
  BY <1>1, <1>2 DEF ComposeQMUXMsg, Requests
<1>4. /\ count' = [count EXCEPT ![k] = count[k] + 1]
      /\ TransactionId' = [TransactionId EXCEPT ![k] = GetQMUXTransactionId(T)]
  BY DEF ComposeQMUXMsg
<1>5. count'[k] = count[k] + 1 /\ TransactionId'[k] = GetQMUXTransactionId(T)
  BY <1>4 DEF Inv, TypeOK
<1>6. TypeOK'
  <2>1. count' \in [Kinds -> Nat]
    BY <1>1, <1>4 DEF Inv, TypeOK
  <2>2. TransactionId' \in [Kinds -> 0..MaxTid]
    <3>1. GetQMUXTransactionId(T) \in 0..MaxTid
      BY <1>2, MaxTidAssumption
    <3> QED BY <3>1, <1>4 DEF Inv, TypeOK
  <2>3. heap' \subseteq Requests
    BY <1>3 DEF ComposeQMUXMsg, Inv, TypeOK
  <2> QED BY <2>1, <2>2, <2>3, <1>3 DEF ComposeQMUXMsg, Inv, TypeOK
<1>7. NumberedInv'
  <2>1. \A m \in asked' : Numbered(m)'
    BY ComposeNumbers DEF ComposeQMUXMsg, Inv, TypeOK, NumberedInv
  <2>2. Numbered(request)'
    <3>1. /\ request'.n = count'[request'.kind]
          /\ request'.tid = TransactionId'[request'.kind]
          /\ request'.kind = k
      BY <1>3, <1>5
    <3>2. count'[k] \in Nat
      BY <1>1, <1>5
    <3>3. Age(request)' = 0
      BY <3>1, <3>2 DEF Age
    <3>4. request'.tid = Back(TransactionId'[request'.kind], 0)
      BY <3>1, <1>1, <1>5, NextTid
    <3>5. request'.n <= count'[request'.kind]
      BY <3>1, <3>2
    <3> QED BY <3>3, <3>4, <3>5 DEF Numbered
  <2> QED BY <2>1, <2>2 DEF NumberedInv
<1>8. CountInv'
  BY <1>1, <1>4, MaxCallsAssumption DEF Inv, TypeOK, CountInv
<1>9. CallInv'
  BY <1>3, <1>5, NullIsNoRequest DEF CallInv
<1>10. WaitInv' /\ AnsweredIsFreed'
  BY <1>3 DEF WaitInv, AnsweredIsFreed
<1>11. PendingIsLive'
  BY DEF ComposeQMUXMsg, Inv, PendingIsLive
<1> QED BY <1>6, <1>7, <1>8, <1>9, <1>10, <1>11 DEF Inv

\* A step that leaves the counters and the request leaves the numbers.
LEMMA SameNumbers ==
  ASSUME Inv, UNCHANGED <<TransactionId, count, request>>,
         asked' \subseteq asked \cup {request}, request = NULL => asked' \subseteq asked
  PROVE  NumberedInv' /\ CountInv'
<1>1. \A m : Numbered(m)' <=> Numbered(m)
  BY DEF Numbered, Age
<1> QED BY <1>1 DEF Inv, NumberedInv, CountInv

LEMMA CallerStep ==
  ASSUME Inv,
         RefuseNullRequest \/ WaitExpires \/ ReturnTimeout
  PROVE  Inv'
<1>1. UNCHANGED <<TransactionId, count, request, s_pRequest, s_pResponse,
                  signalled, ret, asked, heap>>
  BY DEF RefuseNullRequest, WaitExpires, ReturnTimeout
<1>2. TypeOK'
  BY <1>1 DEF Inv, TypeOK, RefuseNullRequest, WaitExpires, ReturnTimeout
<1>3. NumberedInv' /\ CountInv'
  BY <1>1, SameNumbers
<1>4. CallInv'
  BY <1>1 DEF Inv, CallInv, RefuseNullRequest, WaitExpires, ReturnTimeout
<1>5. WaitInv'
  BY <1>1 DEF Inv, WaitInv, RefuseNullRequest, WaitExpires, ReturnTimeout
<1>6. PendingIsLive'
  BY <1>1 DEF Inv, PendingIsLive
<1>7. AnsweredIsFreed'
  BY <1>1 DEF Inv, AnsweredIsFreed, CallInv, RefuseNullRequest, WaitExpires, ReturnTimeout
<1> QED BY <1>2, <1>3, <1>4, <1>5, <1>6, <1>7 DEF Inv

LEMMA PublishStep ==
  ASSUME Inv, Send \/ SendFails
  PROVE  Inv'
<1>1. /\ Publish
      /\ pc' \in {"wait", "idle"}
      /\ asked' \subseteq asked \cup {request}
  BY DEF Send, SendFails
<1>2. request \in Requests /\ ret = NULL /\ request \in heap
  BY <1>1 DEF Inv, CallInv, TypeOK, Publish
<1>3. TypeOK'
  BY <1>1, <1>2 DEF Publish, Inv, TypeOK
<1>4. NumberedInv' /\ CountInv'
  BY <1>1, <1>2, SameNumbers, NullIsNoRequest DEF Publish
<1>5. CallInv'
  BY <1>1 DEF Publish, Inv, CallInv
<1>6. WaitInv' /\ PendingIsLive' /\ AnsweredIsFreed'
  BY <1>1, <1>2 DEF Publish, WaitInv, PendingIsLive, AnsweredIsFreed
<1> QED BY <1>3, <1>4, <1>5, <1>6 DEF Inv

LEMMA ReturnStep ==
  ASSUME Inv, ReturnAnswer
  PROVE  Inv'
<1>1. TypeOK'
  BY DEF ReturnAnswer, Inv, TypeOK
<1>2. NumberedInv' /\ CountInv'
  BY SameNumbers DEF ReturnAnswer
<1>3. CallInv' /\ WaitInv'
  BY DEF ReturnAnswer, CallInv, WaitInv
<1>4. PendingIsLive'
  BY DEF ReturnAnswer, Inv, PendingIsLive
<1>5. AnsweredIsFreed'
  BY DEF ReturnAnswer, Inv, WaitInv, AnsweredIsFreed
<1> QED BY <1>1, <1>2, <1>3, <1>4, <1>5 DEF Inv

\* The reader stores nothing, or what a waiting caller may be handed.
LEMMA SettleStep ==
  ASSUME Inv, s_pRequest # NULL,
         NEW answer \in Requests \cup Indications \cup {NULL}, Settle(answer),
         pc = "wait" => answer \in {NULL, s_pRequest},
         asked' \subseteq asked,
         UNCHANGED <<pc, count, TransactionId, request, ret>>
  PROVE  Inv'
<1>1. TypeOK'
  BY DEF Settle, Signal, Inv, TypeOK
<1>2. NumberedInv' /\ CountInv'
  BY SameNumbers
<1>3. CallInv'
  BY DEF Inv, CallInv
<1>4. WaitInv'
  BY DEF Settle, Inv, WaitInv
<1>5. PendingIsLive' /\ AnsweredIsFreed'
  BY DEF Settle, Inv, PendingIsLive, AnsweredIsFreed
<1> QED BY <1>1, <1>2, <1>3, <1>4, <1>5 DEF Inv

\* What arrives and is no answer changes nothing the caller sees.
LEMMA IgnoredStep ==
  ASSUME Inv, asked' \subseteq asked,
         UNCHANGED <<pc, count, TransactionId, request, ret, heap,
                     s_pRequest, s_pResponse, signalled>>
  PROVE  Inv'
<1>1. TypeOK'
  BY DEF Inv, TypeOK
<1>2. NumberedInv' /\ CountInv'
  BY SameNumbers
<1> QED BY <1>1, <1>2 DEF Inv, CallInv, WaitInv, PendingIsLive, AnsweredIsFreed

\* Either kind of arrival, if what matches a waiting caller's request answers it.
LEMMA RecvStep ==
  ASSUME Inv, NEW m \in Requests \cup Indications, QmiThreadRecvQMI(m),
         asked' \subseteq asked,
         pc = "wait" /\ s_pRequest # NULL /\ is_response(s_pRequest, m)
           => m = s_pRequest
  PROVE  Inv'
<1>1. UNCHANGED <<pc, count, TransactionId, request, ret>>
  BY DEF QmiThreadRecvQMI
<1>2. CASE s_pRequest # NULL /\ is_response(s_pRequest, m)
  <2>1. Settle(m) \/ Settle(NULL)
    BY <1>2 DEF QmiThreadRecvQMI
  <2>2. CASE Settle(m)
    BY <1>1, <1>2, <2>2, SettleStep
  <2>3. CASE Settle(NULL)
    BY <1>1, <1>2, <2>3, SettleStep
  <2> QED BY <2>1, <2>2, <2>3
<1>3. CASE ~(s_pRequest # NULL /\ is_response(s_pRequest, m))
  <2>1. UNCHANGED <<heap, s_pRequest, s_pResponse, signalled>>
    BY <1>3 DEF QmiThreadRecvQMI
  <2> QED BY <1>1, <2>1, IgnoredStep
<1> QED BY <1>2, <1>3

LEMMA AnswerStep ==
  ASSUME Inv, NEW m \in asked, Answer(m)
  PROVE  Inv'
<1>1. m \in Requests /\ Numbered(m) /\ Age(m) < MaxTid
  BY DEF Inv, TypeOK, NumberedInv, Answer, Age
<1>2. ASSUME pc = "wait", s_pRequest # NULL, is_response(s_pRequest, m)
      PROVE  m = s_pRequest
  <2>1. s_pRequest = request /\ request \in Requests
    BY <1>2 DEF Inv, WaitInv, TypeOK
  <2>2. request.n = count[request.kind] /\ Numbered(request)
    BY <1>2, <2>1 DEF Inv, CallInv, NumberedInv
  <2>3. request.n \in Nat /\ MaxTid \in Nat \ {0}
    BY <2>1, MaxTidAssumption DEF Requests
  <2>4. Age(request) < MaxTid
    BY <2>2, <2>3 DEF Age
  <2>5. TypeOK
    BY DEF Inv
  <2> QED BY <1>1, <1>2, <2>1, <2>2, <2>4, <2>5, SameRequest
<1>3. QmiThreadRecvQMI(m) /\ asked' \subseteq asked
  BY DEF Answer
<1> QED BY <1>1, <1>2, <1>3, RecvStep

LEMMA IndicateStep ==
  ASSUME Inv, NEW m \in Indications, Indicate(m)
  PROVE  Inv'
<1>1. ASSUME s_pRequest # NULL PROVE ~is_response(s_pRequest, m)
  <2>1. s_pRequest \in Requests
    BY <1>1 DEF Inv, TypeOK
  <2>2. s_pRequest.tid \in 1..MaxTid /\ m.tid = 0
    BY <2>1 DEF Requests, Indications
  <2>3. s_pRequest.tid # m.tid
    BY <2>2, MaxTidAssumption
  <2> QED BY <2>3 DEF is_response
<1> QED BY <1>1, RecvStep DEF Indicate

LEMMA HangUpStep ==
  ASSUME Inv, HangUp
  PROVE  Inv'
BY SettleStep DEF HangUp

LEMMA NextInv == Inv /\ [Next]_vars => Inv'
<1> SUFFICES ASSUME Inv, [Next]_vars PROVE Inv'
  OBVIOUS
<1>1. CASE \E k \in Kinds : ComposeQMUXMsg(k)
  BY <1>1, ComposeStep
<1>2. CASE RefuseNullRequest \/ WaitExpires \/ ReturnTimeout
  BY <1>2, CallerStep
<1>3. CASE Send \/ SendFails
  BY <1>3, PublishStep
<1>4. CASE ReturnAnswer
  BY <1>4, ReturnStep
<1>5. CASE \E m \in asked : Answer(m)
  BY <1>5, AnswerStep
<1>6. CASE \E m \in Indications : Indicate(m)
  BY <1>6, IndicateStep
<1>7. CASE HangUp
  BY <1>7, HangUpStep
<1>8. CASE UNCHANGED vars
  BY <1>8, IgnoredStep DEF vars
<1> QED BY <1>1, <1>2, <1>3, <1>4, <1>5, <1>6, <1>7, <1>8 DEF Next

LEMMA Invariance == Spec => []Inv
<1> QED BY InitInv, NextInv, PTL DEF Spec

-----------------------------------------------------------------------------
(* The theorems                                                            *)

\* Every variable keeps its type.
THEOREM TypeCorrect == Spec => []TypeOK
<1>1. Inv => TypeOK
  BY DEF Inv
<1> QED BY <1>1, Invariance, PTL

\* The pointer the reader follows is never to a buffer that was freed
\* (QMIThread.c:652, 661).
THEOREM PointerLive == Spec => []PendingIsLive
<1>1. Inv => PendingIsLive
  BY DEF Inv
<1> QED BY <1>1, Invariance, PTL

\* A call that was handed its answer leaves no buffer behind (QMIThread.c:661).
THEOREM BufferFreed == Spec => []AnsweredIsFreed
<1>1. Inv => AnsweredIsFreed
  BY DEF Inv
<1> QED BY <1>1, Invariance, PTL

-----------------------------------------------------------------------------
(* The refinement of QmiCall                                               *)

LEMMA CallInit == Init => Call!Init
BY DEF Init, Call!Init, CallIds, NULL

\* What the abstract specification sees does not change.
LEMMA CallStutters ==
  ASSUME UNCHANGED <<count, request, ret>>, pc' # "idle" <=> pc # "idle"
  PROVE  UNCHANGED Call!callVars
BY DEF Call!callVars

LEMMA CallBegins ==
  ASSUME Inv, NEW k \in Kinds, ComposeQMUXMsg(k)
  PROVE  Call!Next
<1> DEFINE c == [kind |-> k, n |-> count[k] + 1]
           begun == {d \in CallIds : d.n <= count[d.kind]}
<1>1. count[k] \in Nat /\ count[k] < MaxCalls
  BY DEF Inv, TypeOK, ComposeQMUXMsg
<1>2. c \in CallIds /\ c \notin begun
  BY <1>1, MaxCallsAssumption DEF CallIds
<1>3. begun' = begun \cup {c}
  <2>1. count' = [count EXCEPT ![k] = count[k] + 1]
    BY DEF ComposeQMUXMsg
  <2>2. ASSUME NEW d \in CallIds
        PROVE  d.n <= count'[d.kind] <=> (d.n <= count[d.kind] \/ d = c)
    <3>1. d.kind \in Kinds /\ d.n \in Nat /\ count[d.kind] \in Nat
      BY DEF CallIds, Inv, TypeOK
    <3>2. CASE d.kind # k
      <4>1. count'[d.kind] = count[d.kind] /\ d # c
        BY <2>1, <3>1, <3>2 DEF Inv, TypeOK
      <4> QED BY <4>1
    <3>3. CASE d.kind = k
      <4>1. count'[d.kind] = count[k] + 1
        BY <2>1, <3>3 DEF Inv, TypeOK
      <4>2. d = c <=> d.n = count[k] + 1
        BY <3>3 DEF CallIds
      <4> QED BY <1>1, <3>1, <3>3, <4>1, <4>2
    <3> QED BY <3>2, <3>3
  <2> QED BY <1>2, <2>2
<1>4. [kind |-> request'.kind, n |-> request'.n] = c
  BY DEF ComposeQMUXMsg
<1>5. pc = "idle" /\ pc' # "idle" /\ ret' = NULL
  BY DEF ComposeQMUXMsg
<1>6. \E d \in CallIds : Call!Begin(d)
  <2> HIDE DEF c, begun
  <2>1. PICK d \in CallIds : d = c
    BY <1>2
  <2>2. Call!Begin(d)
    BY <1>2, <1>3, <1>4, <1>5, <2>1 DEF Call!Begin, NULL, begun
  <2> QED BY <2>2
<1> QED BY <1>6 DEF Call!Next

\* A call ends with its answer or with nothing.
LEMMA CallEnds ==
  ASSUME Inv, pc # "idle", pc' = "idle", UNCHANGED <<count, request>>,
         ret' \in {NULL, request}
  PROVE  Call!Next
<1> DEFINE a == [kind |-> ret'.kind, n |-> ret'.n]
           current == [kind |-> request.kind, n |-> request.n]
           none == [kind |-> "none", n |-> 0]
<1>1. a \in {current, none}
  BY DEF NULL
<1>2. current \in CallIds
  <2>1. request \in Requests /\ request.n <= MaxCalls
    BY DEF Inv, CallInv, TypeOK, CountInv, Requests
  <2> QED BY <2>1, MaxCallsAssumption DEF Requests, CallIds
<1>3. Call!End(a)
  BY <1>1 DEF Call!End
<1> QED BY <1>1, <1>2, <1>3 DEF Call!Next

LEMMA CallStep == Inv /\ [Next]_vars => [Call!Next]_(Call!callVars)
<1> SUFFICES ASSUME Inv, [Next]_vars
             PROVE  Call!Next \/ UNCHANGED Call!callVars
  OBVIOUS
<1>1. CASE \E k \in Kinds : ComposeQMUXMsg(k)
  BY <1>1, CallBegins
<1>2. CASE RefuseNullRequest \/ SendFails \/ ReturnTimeout
  <2>1. /\ pc # "idle" /\ pc' = "idle"
        /\ UNCHANGED <<count, request>> /\ ret' = ret
    BY <1>2 DEF RefuseNullRequest, SendFails, Publish, ReturnTimeout
  <2>2. ret = NULL
    BY <2>1 DEF Inv, CallInv
  <2> QED BY <2>1, <2>2, CallEnds
<1>3. CASE ReturnAnswer
  <2>1. /\ pc # "idle" /\ pc' = "idle"
        /\ UNCHANGED <<count, request>> /\ ret' \in {NULL, request}
    BY <1>3 DEF ReturnAnswer, Inv, WaitInv
  <2> QED BY <2>1, CallEnds
<1>4. CASE \/ Send \/ WaitExpires \/ HangUp \/ UNCHANGED vars
           \/ \E m \in asked : Answer(m)
           \/ \E m \in Indications : Indicate(m)
  <2>1. UNCHANGED <<count, request, ret>> /\ (pc' # "idle" <=> pc # "idle")
    BY <1>4 DEF Send, Publish, WaitExpires, HangUp, vars, Answer, Indicate,
                QmiThreadRecvQMI
  <2> QED BY <2>1, CallStutters
<1> QED BY <1>1, <1>2, <1>3, <1>4 DEF Next

\* Whatever arrives, late, on its own or after the identifiers wrapped, the caller
\* is handed the answer to the request it made or nothing (QMIThread.c:589-604,
\* 646-668).
THEOREM AnswersAreOwn == Spec => OwnAnswer
<1> QED BY CallInit, CallStep, Invariance, PTL DEF Spec, OwnAnswer, Call!Spec
=============================================================================
