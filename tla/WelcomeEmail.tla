----------------------------- MODULE WelcomeEmail -----------------------------
(***************************************************************************)
(* The welcome email of a new address (Accounts!UpdateCurrentUser).        *)
(*                                                                         *)
(* The row is committed, then a goroutine calls the message center.  Every *)
(* process also looks for rows that were left pending for a minute, claims *)
(* each one and sends it again under the same trace identifier.            *)
(*                                                                         *)
(* A unit of the clock is half a minute; a sender is gone after 25 seconds *)
(* (20 for the call, 5 to record its end).                                 *)
(***************************************************************************)
EXTENDS Naturals, FiniteSets

CONSTANTS
  Deliveries,  \* rows of welcome_email_delivery, which are also the trace identifiers
  Processes,
  MaxTime      \* bound: half minutes

VARIABLES
  status,    \* of the row
  touched,   \* updated_at
  senders,   \* the goroutines that send
  recovery,  \* of each process: the rows still to claim, and the instant before which they are stale
  accepted,  \* the deliveries that the message center has taken
  now

vars == <<status, touched, senders, recovery, accepted, now>>

Senders == [d : Deliveries, p : Processes, began : 0..MaxTime, answer : {"none", "yes", "no"}]
Idle == [todo |-> {}, before |-> 0]

TypeOK ==
  /\ status \in [Deliveries -> {"none", "pending", "sent", "failed"}]
  /\ touched \in [Deliveries -> 0..MaxTime]
  /\ senders \subseteq Senders
  /\ recovery \in [Processes -> [todo : SUBSET Deliveries, before : 0..MaxTime]]
  /\ accepted \subseteq Deliveries
  /\ now \in 0..MaxTime

Init ==
  /\ status = [d \in Deliveries |-> "none"]
  /\ touched = [d \in Deliveries |-> 0]
  /\ senders = {}
  /\ recovery = [p \in Processes |-> Idle]
  /\ accepted = {}
  /\ now = 0

Sender(d, p) == [d |-> d, p |-> p, began |-> now, answer |-> "none"]

\* The goroutine starts, unless the process ends right after the commit.
QueueDelivery(d, p) ==
  /\ status[d] = "none"
  /\ status' = [status EXCEPT ![d] = "pending"]
  /\ touched' = [touched EXCEPT ![d] = now]
  /\ senders' \in {senders, senders \cup {Sender(d, p)}}
  /\ UNCHANGED <<recovery, accepted, now>>

\* The center takes a trace identifier once; a repeated call is answered alike.
SendWelcomeEmail(s) ==
  /\ s.answer = "none"
  /\ \/ /\ accepted' = accepted \cup {s.d}
        /\ senders' = (senders \ {s}) \cup {[s EXCEPT !.answer = "yes"]}
     \/ \* refused, or no answer in time, when it may have been taken
        /\ accepted' \in {accepted, accepted \cup {s.d}}
        /\ senders' = (senders \ {s}) \cup {[s EXCEPT !.answer = "no"]}
  /\ UNCHANGED <<status, touched, recovery, now>>

\* MarkSent and MarkFailed, of a row that is still pending; or neither, when
\* the statement fails.
Mark(s) ==
  /\ s.answer # "none"
  /\ senders' = senders \ {s}
  /\ \/ UNCHANGED <<status, touched>>
     \/ /\ status[s.d] = "pending"
        /\ status' = [status EXCEPT ![s.d] = IF s.answer = "yes" THEN "sent" ELSE "failed"]
        /\ touched' = [touched EXCEPT ![s.d] = now]
  /\ UNCHANGED <<recovery, accepted, now>>

ListPendingBefore(p) ==
  /\ recovery[p].todo = {} /\ now >= 2
  /\ recovery' = [recovery EXCEPT ![p] =
                    [todo |-> {d \in Deliveries : status[d] = "pending" /\ touched[d] <= now - 2},
                     before |-> now - 2]]
  /\ recovery'[p].todo # {}
  /\ UNCHANGED <<status, touched, senders, accepted, now>>

Stale(d, p) == status[d] = "pending" /\ touched[d] <= recovery[p].before

\* A row that another process has claimed or finished is passed over.
ClaimPending(d, p) ==
  /\ d \in recovery[p].todo
  /\ recovery' = [recovery EXCEPT ![p].todo = @ \ {d}]
  /\ IF Stale(d, p)
     THEN touched' = [touched EXCEPT ![d] = now] /\ senders' = senders \cup {Sender(d, p)}
     ELSE UNCHANGED <<touched, senders>>
  /\ UNCHANGED <<status, accepted, now>>

Crash(p) ==
  /\ senders' = {s \in senders : s.p # p}
  /\ recovery' = [recovery EXCEPT ![p] = Idle]
  /\ senders' # senders \/ recovery' # recovery
  /\ UNCHANGED <<status, touched, accepted, now>>

\* No sender outlives the next half minute; a recovery has ten seconds.
Tick ==
  /\ now < MaxTime
  /\ \A s \in senders : s.began = now
  /\ \A p \in Processes : recovery[p].todo # {} => recovery[p].before = now - 2
  /\ now' = now + 1
  /\ UNCHANGED <<status, touched, senders, recovery, accepted>>

Next ==
  \/ \E d \in Deliveries, p \in Processes : QueueDelivery(d, p) \/ ClaimPending(d, p)
  \/ \E s \in senders : SendWelcomeEmail(s) \/ Mark(s)
  \/ \E p \in Processes : ListPendingBefore(p) \/ Crash(p)
  \/ Tick

Spec == Init /\ [][Next]_vars

-----------------------------------------------------------------------------
(* Properties                                                              *)

\* No two goroutines send the same delivery, in whatever processes they run:
\* a claim is good for longer than a sender lives.
OneSender == \A s, t \in senders : s.d = t.d => s = t

=============================================================================
