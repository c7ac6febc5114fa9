------------------------------ MODULE QmiCall ------------------------------
(***************************************************************************)
(* What the request functions of the QMI dialer expect of a request: it    *)
(* ends, and what it hands back is the modem's answer to this very request *)
(* or nothing.  QmiTransport, which shares two pointers between the caller *)
(* and the thread that reads the modem, is shown to implement it.          *)
(***************************************************************************)
CONSTANTS
  Calls,     \* identities of requests; each is made at most once
  NoAnswer   \* what a request that failed hands back

VARIABLES
  begun,     \* the requests made so far
  current,   \* the request the caller waits for, or made last
  waiting,   \* the caller is inside the request
  outcome    \* the request whose answer the caller was handed, or NoAnswer

callVars == <<begun, current, waiting, outcome>>

Init ==
  /\ begun = {}
  /\ current = NoAnswer
  /\ waiting = FALSE
  /\ outcome = NoAnswer

Begin(c) ==
  /\ ~waiting
  /\ c \notin begun
  /\ begun' = begun \cup {c}
  /\ current' = c
  /\ waiting' = TRUE
  /\ outcome' = NoAnswer

End(answer) ==
  /\ waiting
  /\ answer \in {current, NoAnswer}
  /\ waiting' = FALSE
  /\ outcome' = answer
  /\ UNCHANGED <<begun, current>>

Next ==
  \/ \E c \in Calls : Begin(c)
  \/ \E answer \in Calls \cup {NoAnswer} : End(answer)

Spec == Init /\ [][Next]_callVars
=============================================================================
