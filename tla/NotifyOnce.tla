----------------------------- MODULE NotifyOnce -----------------------------
(***************************************************************************)
(* What the subscribe-message outbox promises of each message, without     *)
(* attempts, workers, leases or databases.  A queued message is handed to  *)
(* the provider; the call ends with a definite refusal (after which it may *)
(* be queued again or dropped), with an acknowledgement, or with no usable *)
(* answer.  The user receives the message at most once, and only while a   *)
(* call for it is out or its outcome is not known.                         *)
(***************************************************************************)
EXTENDS Naturals

CONSTANT Messages

VARIABLES
  state,     \* "none", "queued", "calling", "unsure", "sent" or "dropped"
  received   \* how many copies the user's phone got

States == {"none", "queued", "calling", "unsure", "sent", "dropped"}

\* A message may be found half-way through a call of an earlier release.
Init ==
  /\ state \in [Messages -> {"none", "calling"}]
  /\ received \in [Messages -> {0, 1}]
  /\ \A m \in Messages : state[m] = "none" => received[m] = 0

Move(m, from, to) ==
  /\ state[m] = from
  /\ state' = [state EXCEPT ![m] = to]
  /\ UNCHANGED received

Queue(m)    == Move(m, "none", "queued")
Call(m)     == Move(m, "queued", "calling")
Requeue(m)  == received[m] = 0 /\ Move(m, "calling", "queued")
Drop(m)     == received[m] = 0 /\ (Move(m, "queued", "dropped") \/ Move(m, "calling", "dropped"))
Confirm(m)  == received[m] = 1 /\ Move(m, "calling", "sent")
GiveUp(m)   == Move(m, "calling", "unsure")

Receive(m) ==
  /\ state[m] \in {"calling", "unsure"}
  /\ received[m] = 0
  /\ received' = [received EXCEPT ![m] = 1]
  /\ UNCHANGED state

Next == \E m \in Messages :
  Queue(m) \/ Call(m) \/ Requeue(m) \/ Drop(m) \/ Confirm(m) \/ GiveUp(m) \/ Receive(m)

Spec == Init /\ [][Next]_<<state, received>>
=============================================================================
