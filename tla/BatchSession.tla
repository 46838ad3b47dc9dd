---------------------------- MODULE BatchSession ----------------------------
(***************************************************************************)
(* What a fast publish context promises: messages go out one by one, never *)
(* more than Window beyond what the server confirmed; a commit is one more *)
(* message and ends the batch whatever comes of it; and a batch succeeds   *)
(* at most once, at the end of a commit.                                   *)
(***************************************************************************)
EXTENDS Integers

CONSTANT Window   \* a positive number of messages

VARIABLES
  sent,        \* sequence number of the last message sent
  confirmed,   \* highest sequence number the server confirmed
  state,       \* "open", "sealing" (a commit waits), "over"
  success      \* the commit returned NATS_OK

sessVars == <<sent, confirmed, state, success>>

Init == sent = 0 /\ confirmed = 0 /\ state = "open" /\ success = FALSE

\* A message of an Add; one whose publish fails ends the batch.
Send ==
  /\ state = "open" /\ sent < confirmed + Window
  /\ sent' = sent + 1
  /\ state' \in {"open", "over"}
  /\ UNCHANGED <<confirmed, success>>

\* The final message; its publish may fail too.
Seal ==
  /\ state = "open" /\ sent < confirmed + Window
  /\ sent' = sent + 1
  /\ state' \in {"sealing", "over"}
  /\ UNCHANGED <<confirmed, success>>

Confirm ==
  /\ confirmed' > confirmed /\ confirmed' <= sent
  /\ UNCHANGED <<sent, state, success>>

\* A timeout, a transport error, a fatal control message, a failed commit.
Fail ==
  /\ state # "over" /\ state' = "over"
  /\ UNCHANGED <<sent, confirmed, success>>

Succeed ==
  /\ state = "sealing" /\ state' = "over" /\ success' = TRUE
  /\ UNCHANGED <<sent, confirmed>>

Next == Send \/ Seal \/ Confirm \/ Fail \/ Succeed

Spec == Init /\ [][Next]_sessVars
=============================================================================
