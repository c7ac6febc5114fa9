---------------------------- MODULE QmiTransport ----------------------------
(***************************************************************************)
(* The request/answer layer of the QMI dialer (quectel-CM, QMIThread.c):   *)
(* one caller, the main thread, puts its request where the thread reading  *)
(* the modem finds it (s_pRequest), sends it and waits on a condition      *)
(* variable; the reader matches what arrives by service and transaction    *)
(* identifier, stores the answer (s_pResponse) and signals.                *)
(*                                                                         *)
(* Everything the two threads do under cm_command_mutex is one step, so    *)
(* the mutex itself is no variable.  A wait gives the mutex up: between    *)
(* the moment it expires and the moment the caller has the mutex again     *)
(* (pc = "expired") the reader may still run.                              *)
(***************************************************************************)
EXTENDS Naturals, FiniteSets

CONSTANTS
  MaxTid,     \* the largest transaction identifier, 0xFFFF in the code
  MaxCalls    \* bound: requests made of each kind

ASSUME MaxTidAssumption == MaxTid \in Nat \ {0}
ASSUME MaxCallsAssumption == MaxCalls \in Nat

(* Control messages (QMUX_TYPE_CTL) carry a transaction identifier counted *)
(* elsewhere; all the other services share one counter.                    *)
Kinds == {"ctl", "mux"}

(* No pointer, and what a request that got no answer hands back.           *)
NULL == [kind |-> "none", tid |-> 0, n |-> 0]

Requests == [kind : Kinds, tid : 1..MaxTid, n : Nat \ {0}]

(* What the modem sends on its own carries no request's identifier.        *)
Indications == [kind : Kinds, tid : {0}, n : {0}]

VARIABLES
  pc,             \* the caller: "idle", "send", "wait" or "expired"
  TransactionId,  \* the identifier used last, for each kind
  count,          \* requests made, for each kind (history)
  request,        \* the caller's request
  s_pRequest,     \* the request the reader looks for, or NULL
  s_pResponse,    \* the answer it stored, named by its request, or NULL
  signalled,      \* the condition variable woke the caller
  ret,            \* what the last call handed back
  asked,          \* requests the modem has and has not answered
  heap            \* request buffers allocated and not freed

vars == <<pc, TransactionId, count, request, s_pRequest, s_pResponse,
          signalled, ret, asked, heap>>

TypeOK ==
  /\ pc \in {"idle", "send", "wait", "expired"}
  /\ TransactionId \in [Kinds -> 0..MaxTid]
  /\ count \in [Kinds -> Nat]
  /\ request \in Requests \cup {NULL}
  /\ s_pRequest \in Requests \cup {NULL}
  /\ s_pResponse \in Requests \cup Indications \cup {NULL}
  /\ signalled \in BOOLEAN
  /\ ret \in Requests \cup Indications \cup {NULL}
  /\ asked \subseteq Requests
  /\ heap \subseteq Requests

Init ==
  /\ pc = "idle"
  /\ TransactionId = [k \in Kinds |-> 0]
  /\ count = [k \in Kinds |-> 0]
  /\ request = NULL
  /\ s_pRequest = NULL
  /\ s_pResponse = NULL
  /\ signalled = FALSE
  /\ ret = NULL
  /\ asked = {}
  /\ heap = {}

-----------------------------------------------------------------------------
(* The caller                                                              *)

\* Mutant: the identifiers start again at zero.
WrapsToZero(last) == IF last + 1 > MaxTid THEN 0 ELSE last + 1

(* Zero is never used: it is what indications carry.                       *)
GetQMUXTransactionId(last) == IF last + 1 > MaxTid THEN 1 ELSE last + 1

(* A request function composes its message; the buffer may not be had, and *)
(* then nothing is sent (-EINVAL), although the identifier is used up.     *)
ComposeQMUXMsg(k) ==
  /\ pc = "idle"
  /\ count[k] < MaxCalls
  /\ TransactionId' = [TransactionId EXCEPT ![k] = GetQMUXTransactionId(@)]
  /\ count' = [count EXCEPT ![k] = @ + 1]
  /\ request' = [kind |-> k, tid |-> GetQMUXTransactionId(TransactionId[k]),
                 n |-> count[k] + 1]
  /\ pc' = "send"
  /\ ret' = NULL
  /\ \/ heap' = heap \cup {request'}
     \/ heap' = heap
  /\ UNCHANGED <<s_pRequest, s_pResponse, signalled, asked>>

RefuseNullRequest ==
  /\ pc = "send"
  /\ request \notin heap
  /\ pc' = "idle"
  /\ UNCHANGED <<TransactionId, count, request, s_pRequest, s_pResponse,
                 signalled, ret, asked, heap>>

(* The request is published, then sent.  When the device refuses it the    *)
(* call ends with the error and s_pRequest stays as it is.                 *)
Publish ==
  /\ pc = "send"
  /\ request \in heap
  /\ s_pRequest' = request
  /\ s_pResponse' = NULL
  /\ signalled' = FALSE
  /\ UNCHANGED <<TransactionId, count, request, ret, heap>>

Send ==
  /\ Publish
  /\ asked' = asked \cup {request}
  /\ pc' = "wait"

SendFails ==
  /\ Publish
  /\ asked' = asked
  /\ pc' = "idle"

\* Mutant: the wait has no deadline.
NoDeadline == FALSE

(* The wait expires; the answer may still come in before the caller has    *)
(* the mutex back, and is then not looked at.                              *)
WaitExpires ==
  /\ pc = "wait"
  /\ ~signalled
  /\ pc' = "expired"
  /\ UNCHANGED <<TransactionId, count, request, s_pRequest, s_pResponse,
                 signalled, ret, asked, heap>>

ReturnTimeout ==
  /\ pc = "expired"
  /\ pc' = "idle"
  /\ UNCHANGED <<TransactionId, count, request, s_pRequest, s_pResponse,
                 signalled, ret, asked, heap>>

(* Woken: the caller is handed s_pResponse, which is NULL when the reader  *)
(* gave up or had no memory for the answer; the code returned is 0 anyway. *)
ReturnAnswer ==
  /\ pc = "wait"
  /\ signalled
  /\ pc' = "idle"
  /\ ret' = s_pResponse
  /\ UNCHANGED <<TransactionId, count, request, s_pRequest, s_pResponse,
                 signalled, asked, heap>>

-----------------------------------------------------------------------------
(* The reader                                                              *)

\* Mutant: only the identifiers are compared.
SameTid(req, resp) == req.tid = resp.tid

is_response(req, resp) == req.kind = resp.kind /\ req.tid = resp.tid

(* A signal nobody waits for is lost.                                      *)
Signal == signalled' = (pc = "wait")

\* Mutants: the pointer stays behind, or the buffer does.
SettleKeepsPointer(answer) ==
  /\ heap' = heap \ {s_pRequest}
  /\ s_pRequest' = s_pRequest
  /\ s_pResponse' = answer
  /\ Signal
SettleKeepsBuffer(answer) ==
  /\ heap' = heap
  /\ s_pRequest' = NULL
  /\ s_pResponse' = answer
  /\ Signal

Settle(answer) ==
  /\ heap' = heap \ {s_pRequest}
  /\ s_pRequest' = NULL
  /\ s_pResponse' = answer
  /\ Signal

(* What is no answer to s_pRequest is an indication, turned into an event  *)
(* for the main loop (module QuectelCM), or nobody cares for it.           *)
QmiThreadRecvQMI(m) ==
  /\ IF s_pRequest # NULL /\ is_response(s_pRequest, m)
     THEN \/ Settle(m)
          \/ Settle(NULL)    \* no memory for the answer
     ELSE UNCHANGED <<heap, s_pRequest, s_pResponse, signalled>>
  /\ UNCHANGED <<pc, TransactionId, count, request, ret>>

(* The modem answers a request once.  It drops one that is MaxTid requests *)
(* old rather than answer it: identifiers are reused after that many.      *)
Answer(m) ==
  /\ m \in asked
  /\ count[m.kind] - m.n < MaxTid
  /\ asked' = asked \ {m}
  /\ QmiThreadRecvQMI(m)

Indicate(m) ==
  /\ asked' = asked
  /\ QmiThreadRecvQMI(m)

(* A stop signal or the end of the reader's loop: whoever waits is let go. *)
HangUp ==
  /\ s_pRequest # NULL
  /\ Settle(NULL)
  /\ UNCHANGED <<pc, TransactionId, count, request, ret, asked>>

-----------------------------------------------------------------------------
Next ==
  \/ \E k \in Kinds : ComposeQMUXMsg(k)
  \/ RefuseNullRequest
  \/ Send
  \/ SendFails
  \/ WaitExpires
  \/ ReturnTimeout
  \/ ReturnAnswer
  \/ \E m \in asked : Answer(m)
  \/ \E m \in Indications : Indicate(m)
  \/ HangUp

(* The caller runs when it can, and a wait ends: pthread_cond_timeout_np   *)
(* has a deadline of 30 s (120 s for a data call).                         *)
Fairness ==
  /\ WF_vars(RefuseNullRequest)
  /\ WF_vars(Send \/ SendFails)
  /\ WF_vars(WaitExpires \/ ReturnAnswer)
  /\ WF_vars(ReturnTimeout)

Spec == Init /\ [][Next]_vars /\ Fairness

-----------------------------------------------------------------------------
(* A caller is only ever handed the answer to the request it made: never a *)
(* late answer to an earlier request that timed out, never an indication,  *)
(* whatever arrives while identifiers wrap (QMIThread.c:589-604, 646-668). *)
CallIds == [kind : Kinds, n : 1..MaxCalls]

Call == INSTANCE QmiCall WITH
  Calls <- CallIds,
  NoAnswer <- [kind |-> "none", n |-> 0],
  begun <- {c \in CallIds : c.n <= count[c.kind]},
  current <- [kind |-> request.kind, n |-> request.n],
  waiting <- pc # "idle",
  outcome <- [kind |-> ret.kind, n |-> ret.n]

OwnAnswer == Call!Spec

(* The reader never follows s_pRequest to a buffer it has already freed,   *)
(* and never frees one twice (QMIThread.c:652, 661).                       *)
PendingIsLive == s_pRequest # NULL => s_pRequest \in heap

(* A request buffer outlives its call only when the call got no answer:    *)
(* the leak of a timeout is one buffer, overwritten by the next request.   *)
AnsweredIsFreed == pc = "idle" /\ ret # NULL => request \notin heap

(* Every call ends, whatever the modem does (QMIThread.c:626).             *)
CallReturns == (pc # "idle") ~> (pc = "idle")
=============================================================================
