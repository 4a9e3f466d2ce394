------------------------------ MODULE WxOutbox ------------------------------
(***************************************************************************)
(* The outbox of WeChat subscribe messages: rows of wx_subscribe_delivery, *)
(* the goroutines that run processSubscribeDelivery for a row, the sweep   *)
(* of the recovery loop, and the provider's side of a call.                *)
(*                                                                         *)
(* Every SQL statement and every provider call is one action.  Goroutines  *)
(* may be delayed anywhere and vanish in a crash; a goroutine of another   *)
(* server instance is just another worker.                                 *)
(*                                                                         *)
(* Time is kept only as far as two deadlines need it: the context of a     *)
(* worker expires after 20 seconds, and the claim on a row is stale after  *)
(* 2 minutes.  claimed_at is only ever written under a live context, so a  *)
(* claim grows stale only after the context of its writer expired (the     *)
(* clocks of the servers and of the database are assumed to differ by less *)
(* than the 100 seconds in between).                                       *)
(***************************************************************************)
EXTENDS Naturals

CONSTANTS
  Deliveries,   \* rows of wx_subscribe_delivery
  Workers,      \* goroutines running processSubscribeDelivery at once
  MaxMishaps,   \* a bound: crashes, expired contexts and failed statements
  None

ASSUME OutboxConstants ==
  /\ None \notin Deliveries \cup Workers
  /\ MaxMishaps \in Nat

VARIABLES
  status,    \* wx_subscribe_delivery.status, "absent" before the INSERT
  attempts,  \* wx_subscribe_delivery.attempt_count
  holder,    \* the worker that wrote claimed_at last
  worker,    \* the local state of each goroutine
  orphans,   \* deliveries with a request under way that nobody waits for
  received,  \* messages the provider accepted, per delivery
  mishaps    \* mishaps so far

rowVars == <<status, attempts, holder>>
vars == <<status, attempts, holder, worker, orphans, received, mishaps>>

Verdicts == {"SENT", "UNKNOWN", "SKIPPED", "FAILED"}
Statuses == {"absent", "PENDING", "PREPARING", "DISPATCHING", "PROCESSING", "RETRY"} \cup Verdicts
Phases == {"idle", "claimed", "loaded", "dispatched", "posted", "finish"}
\* How deliverSubscribeMsg ended: no error, uncertainSubscribeDeliveryError, the
\* errcode of a user's refusal, an error that is permanent, any other error.
Outcomes == {"ok", "uncertain", "refused", "permanent", "error"}

AttemptLimit == 3

Idle == [pc |-> "idle", id |-> None, attempt |-> 0, outcome |-> None, expired |-> FALSE]
Claimed(d) == [pc |-> "claimed", id |-> d, attempt |-> 0, outcome |-> None, expired |-> FALSE]

WorkerStates ==
  [pc : Phases, id : Deliveries \cup {None}, attempt : Nat,
   outcome : Outcomes \cup {None}, expired : BOOLEAN]

TypeOK ==
  /\ status \in [Deliveries -> Statuses]
  /\ attempts \in [Deliveries -> Nat]
  /\ holder \in [Deliveries -> Workers \cup {None}]
  /\ worker \in [Workers -> WorkerStates]
  /\ \A w \in Workers :
       /\ worker[w].pc # "idle" => worker[w].id \in Deliveries
       /\ worker[w].pc = "finish" => worker[w].outcome \in Outcomes
  /\ orphans \subseteq Deliveries
  /\ received \in [Deliveries -> Nat]
  /\ mishaps \in Nat

\* Rows of an earlier release may still be PROCESSING: their message was accepted,
\* or its request is still under way, or neither.
Init ==
  /\ status \in [Deliveries -> {"absent", "PROCESSING"}]
  /\ attempts = [d \in Deliveries |-> 0]
  /\ holder = [d \in Deliveries |-> None]
  /\ worker = [w \in Workers |-> Idle]
  /\ received \in [Deliveries -> {0, 1}]
  /\ orphans \in SUBSET {d \in Deliveries : received[d] = 0}
  /\ \A d \in Deliveries : status[d] = "absent" => received[d] = 0 /\ d \notin orphans
  /\ mishaps = 0

Mishap == mishaps < MaxMishaps /\ mishaps' = mishaps + 1

\* claimed_at lies more than two minutes back.
Stale(d) ==
  LET w == holder[d] IN
    w # None /\ worker[w].pc # "idle" /\ worker[w].id = d => worker[w].expired

(***************************************************************************)
(* The row.                                                                *)
(***************************************************************************)
\* createWxSubscribeDelivery, in the transaction of the business event or alone.
Enqueue(d) ==
  /\ status[d] = "absent"
  /\ status' = [status EXCEPT ![d] = "PENDING"]
  /\ UNCHANGED <<attempts, holder, worker, orphans, received, mishaps>>

\* (Mutant: a claim that got stale before its call is swept as well.)
SweepStale_Preparing(d) ==
  /\ status[d] \in {"PREPARING", "DISPATCHING", "PROCESSING"}
  /\ Stale(d)
  /\ status' = [status EXCEPT ![d] = "UNKNOWN"]
  /\ UNCHANGED <<attempts, holder, worker, orphans, received, mishaps>>

\* The UPDATE at the head of ListDue.
SweepStale(d) ==
  /\ status[d] \in {"DISPATCHING", "PROCESSING"}
  /\ Stale(d)
  /\ status' = [status EXCEPT ![d] = "UNKNOWN"]
  /\ UNCHANGED <<attempts, holder, worker, orphans, received, mishaps>>

(***************************************************************************)
(* processSubscribeDelivery.  A worker is started after the commit and by  *)
(* every round of the recovery loop; one whose Claim affects no row ends   *)
(* without a trace.  When a retry falls due is left open.                  *)
(***************************************************************************)
\* (Mutants: a claim takes over any stale call, or none at all, or one that is not stale.)
Claimable_AnyStale(d) ==
  status[d] \in {"PENDING", "RETRY"} \/ (status[d] \in {"PREPARING", "DISPATCHING"} /\ Stale(d))
Claimable_Fresh(d) == status[d] \in {"PENDING", "RETRY"}
Claimable_Early(d) == status[d] \in {"PENDING", "RETRY", "PREPARING"}

Claimable(d) == status[d] \in {"PENDING", "RETRY"} \/ (status[d] = "PREPARING" /\ Stale(d))

Claim(w, d) ==
  /\ worker[w].pc = "idle"
  /\ Claimable(d)
  /\ status' = [status EXCEPT ![d] = "PREPARING"]
  /\ attempts' = [attempts EXCEPT ![d] = @ + 1]
  /\ holder' = [holder EXCEPT ![d] = w]
  /\ worker' = [worker EXCEPT ![w] = Claimed(d)]
  /\ UNCHANGED <<orphans, received, mishaps>>

\* GetByID, a second statement: it is here that the worker learns its attempt.
Load(w) ==
  /\ worker[w].pc = "claimed"
  /\ ~worker[w].expired
  /\ worker' = [worker EXCEPT ![w].pc = "loaded", ![w].attempt = attempts[worker[w].id]]
  /\ UNCHANGED <<status, attempts, holder, orphans, received, mishaps>>

\* GetByID fails: the worker ends and leaves the row PREPARING.
LoadFails(w) ==
  /\ worker[w].pc = "claimed"
  /\ \/ worker[w].expired /\ UNCHANGED mishaps
     \/ ~worker[w].expired /\ Mishap
  /\ worker' = [worker EXCEPT ![w] = Idle]
  /\ UNCHANGED <<status, attempts, holder, orphans, received>>

Ends(w, outcome) == worker' = [worker EXCEPT ![w].pc = "finish", ![w].outcome = outcome]

\* Undecodable business data, no such user or no enabled template.
NotDeliverable(w) ==
  /\ worker[w].pc = "loaded"
  /\ Ends(w, "permanent")
  /\ UNCHANGED <<status, attempts, holder, orphans, received, mishaps>>

\* A lookup, or BeginDispatch itself, fails on the database.
PreparationFails(w) ==
  /\ worker[w].pc = "loaded"
  /\ Ends(w, "error")
  /\ UNCHANGED <<status, attempts, holder, orphans, received, mishaps>>

\* The condition of BeginDispatch's UPDATE.  While the worker's context lives it is
\* true (ClaimLastsItsContext), so that no worker meets errSubscribeClaimLost.
OwnsPreparing(w) ==
  LET d == worker[w].id IN status[d] = "PREPARING" /\ attempts[d] = worker[w].attempt

\* The answer to the UPDATE may be lost, which the worker takes for an error.
BeginDispatch(w) ==
  /\ worker[w].pc = "loaded"
  /\ ~worker[w].expired
  /\ OwnsPreparing(w)
  /\ status' = [status EXCEPT ![worker[w].id] = "DISPATCHING"]
  /\ holder' = [holder EXCEPT ![worker[w].id] = w]
  /\ \/ worker' = [worker EXCEPT ![w].pc = "dispatched"]
     \/ Ends(w, "error")
  /\ UNCHANGED <<attempts, orphans, received, mishaps>>

\* SendByConfigContext ends before the POST: the payload does not fit the
\* template, or there is no access token or no time left.
NothingPosted(w) ==
  /\ worker[w].pc = "dispatched"
  /\ \E outcome \in {"permanent", "uncertain"} : Ends(w, outcome)
  /\ UNCHANGED <<status, attempts, holder, orphans, received, mishaps>>

\* The POST leaves.  (Repeated inside the call when the provider definitely
\* refuses the access token, which changes nothing here.)
Post(w) ==
  /\ worker[w].pc = "dispatched"
  /\ ~worker[w].expired
  /\ worker' = [worker EXCEPT ![w].pc = "posted"]
  /\ UNCHANGED <<status, attempts, holder, orphans, received, mishaps>>

\* The provider (external) accepts the message, and its answer arrives, or comes
\* without an errcode, with a bad HTTP status, or not at all.
ProviderAccepts(w) ==
  /\ worker[w].pc = "posted"
  /\ received' = [received EXCEPT ![worker[w].id] = @ + 1]
  /\ \/ ~worker[w].expired /\ Ends(w, "ok")
     \/ Ends(w, "uncertain")
  /\ UNCHANGED <<status, attempts, holder, orphans, mishaps>>

\* It refuses the message: 43101, 40037 or 47003, or another errcode; or the
\* refusal does not arrive.
ProviderRefuses(w) ==
  /\ worker[w].pc = "posted"
  /\ \/ ~worker[w].expired /\ \E outcome \in {"refused", "permanent", "error"} : Ends(w, outcome)
     \/ Ends(w, "uncertain")
  /\ UNCHANGED <<status, attempts, holder, orphans, received, mishaps>>

\* The worker stops waiting while the request is still under way.
PostTimesOut(w) ==
  /\ worker[w].pc = "posted"
  /\ Ends(w, "uncertain")
  /\ orphans' = orphans \cup {worker[w].id}
  /\ UNCHANGED <<status, attempts, holder, received, mishaps>>

OrphanAccepted(d) ==
  /\ d \in orphans
  /\ orphans' = orphans \ {d}
  /\ received' = [received EXCEPT ![d] = @ + 1]
  /\ UNCHANGED <<status, attempts, holder, worker, mishaps>>

\* (Mutant: an uncertain call is retried like any other error.)
FinalStatus_RetriesUncertain(outcome, attempt) ==
  CASE outcome = "ok" -> "SENT"
    [] outcome = "refused" -> "SKIPPED"
    [] outcome = "permanent" -> "FAILED"
    [] OTHER -> IF attempt >= AttemptLimit THEN "FAILED" ELSE "RETRY"

\* finishSubscribeDelivery: what it writes for an outcome ...
FinalStatus(outcome, attempt) ==
  CASE outcome = "ok" -> "SENT"
    [] outcome = "uncertain" -> "UNKNOWN"
    [] outcome = "refused" -> "SKIPPED"
    [] outcome = "permanent" -> "FAILED"
    [] OTHER -> IF attempt >= AttemptLimit THEN "FAILED" ELSE "RETRY"

\* (Mutant: the UPDATE tests the attempt only.)
FinishFence_AnyStatus(w) == attempts[worker[w].id] = worker[w].attempt

\* ... and the condition of the UPDATE that writes it.
FinishFence(w) ==
  LET d == worker[w].id IN
    /\ attempts[d] = worker[w].attempt
    /\ status[d] \in (IF worker[w].outcome = "uncertain" THEN {"DISPATCHING"}
                      ELSE {"PREPARING", "DISPATCHING"})

Finish(w) ==
  /\ worker[w].pc = "finish"
  /\ status' = IF FinishFence(w)
               THEN [status EXCEPT ![worker[w].id] =
                       FinalStatus(worker[w].outcome, worker[w].attempt)]
               ELSE status
  /\ worker' = [worker EXCEPT ![w] = Idle]
  /\ UNCHANGED <<attempts, holder, orphans, received, mishaps>>

FinishFails(w) ==
  /\ worker[w].pc = "finish"
  /\ Mishap
  /\ worker' = [worker EXCEPT ![w] = Idle]
  /\ UNCHANGED <<status, attempts, holder, orphans, received>>

(***************************************************************************)
(* Delays and crashes.                                                     *)
(***************************************************************************)
\* The worker has been at it for more than 20 seconds.
Expire(w) ==
  /\ worker[w].pc # "idle"
  /\ ~worker[w].expired
  /\ Mishap
  /\ worker' = [worker EXCEPT ![w].expired = TRUE]
  /\ UNCHANGED <<status, attempts, holder, orphans, received>>

\* The process stops; a request that left it goes its way.
Crash(w) ==
  /\ worker[w].pc # "idle"
  /\ Mishap
  /\ worker' = [worker EXCEPT ![w] = Idle]
  /\ orphans' = IF worker[w].pc = "posted" THEN orphans \cup {worker[w].id} ELSE orphans
  /\ UNCHANGED <<status, attempts, holder, received>>

WorkerStep(w) ==
  \/ \E d \in Deliveries : Claim(w, d)
  \/ Load(w) \/ LoadFails(w)
  \/ NotDeliverable(w) \/ PreparationFails(w)
  \/ BeginDispatch(w)
  \/ NothingPosted(w) \/ Post(w)
  \/ ProviderAccepts(w) \/ ProviderRefuses(w) \/ PostTimesOut(w)
  \/ Finish(w) \/ FinishFails(w)

DeliveryStep(d) == Enqueue(d) \/ SweepStale(d) \/ OrphanAccepted(d)

Next ==
  \/ \E d \in Deliveries : DeliveryStep(d)
  \/ \E w \in Workers : WorkerStep(w) \/ Expire(w) \/ Crash(w)

Spec == Init /\ [][Next]_vars

(***************************************************************************)
(* Fairness: a worker that runs ends, and the recovery loop, which runs    *)
(* every 30 seconds, sweeps and finds a worker for every row it lists.     *)
(***************************************************************************)
Fairness ==
  /\ \A w \in Workers : WF_vars(worker[w].pc # "idle" /\ WorkerStep(w))
  /\ \A d \in Deliveries :
       /\ WF_vars(SweepStale(d))
       /\ SF_vars(\E w \in Workers : Claim(w, d))

FairSpec == Spec /\ Fairness

(***************************************************************************)
(* Properties.                                                             *)
(***************************************************************************)
\* The user gets a message at most once: whatever the order of crashes, delays,
\* lost answers, late requests, retries and sweeps, no delivery is accepted twice.
AtMostOnce == \A d \in Deliveries : received[d] <= 1

\* A request for the delivery was accepted or may still be.
Exposed(d) ==
  \/ received[d] > 0
  \/ d \in orphans
  \/ \E w \in Workers : worker[w].pc = "posted" /\ worker[w].id = d

\* As long as the row says that the message may be sent (again), or that it was
\* refused, no request for it was accepted nor can one be any more; and a row
\* that says SENT is right.
RowTellsTheTruth ==
  \A d \in Deliveries :
    /\ Exposed(d) => status[d] \in {"DISPATCHING", "PROCESSING", "UNKNOWN", "SENT"}
    /\ status[d] = "SENT" => received[d] = 1

\* The two minutes after which a claim may be taken over outlast the twenty seconds of
\* the worker that holds it: a worker that still has time has its claim, so that the
\* row is as GetByID showed it when the call is about to begin.
ClaimLastsItsContext ==
  \A w \in Workers : worker[w].pc = "loaded" /\ ~worker[w].expired => OwnsPreparing(w)

\* A verdict is never taken back: a delayed worker of an earlier attempt, a sweep
\* or a retry does not overwrite it.  UNKNOWN in particular is never retried.
VerdictsAreFinal ==
  [][\A d \in Deliveries : status[d] \in Verdicts => status'[d] = status[d]]_vars

\* Every queued message gets a verdict in the end.
EveryMessageSettles ==
  \A d \in Deliveries : status[d] = "PENDING" ~> status[d] \in Verdicts

\* What a row means to the one who queued the message.
Meaning(st) ==
  CASE st = "absent" -> "none"
    [] st \in {"PENDING", "PREPARING", "RETRY"} -> "queued"
    [] st \in {"DISPATCHING", "PROCESSING"} -> "calling"
    [] st = "UNKNOWN" -> "unsure"
    [] st = "SENT" -> "sent"
    [] OTHER -> "dropped"

Notify == INSTANCE NotifyOnce WITH
  Messages <- Deliveries,
  state <- [d \in Deliveries |-> Meaning(status[d])]

\* The outbox keeps the promise of NotifyOnce: seen through the status column,
\* every statement, call and crash is a step of it or changes nothing there.
KeepsPromise == Notify!Spec
=============================================================================
