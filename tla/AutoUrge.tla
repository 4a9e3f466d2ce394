------------------------------ MODULE AutoUrge ------------------------------
(***************************************************************************)
(* The automatic text message that urges a user to deal with pending work: *)
(* the row of auto_urge_sms_state, the workers of the daily scan (one per  *)
(* server instance), the business transactions that change the work, and   *)
(* the message center.                                                     *)
(*                                                                         *)
(* A row goes through cycles.  A cycle has one request key, under which    *)
(* the message center sends at most one message, and a new cycle starts    *)
(* only after a transaction observed that nothing is pending any more      *)
(* (closed_at).  Every statement and every call is one action.  Cycle      *)
(* tracking is enabled in every instance, as the deployment notes demand.  *)
(***************************************************************************)
EXTENDS Naturals, FiniteSets

CONSTANTS
  Users,
  Workers,      \* scans that run at once, on different instances
  MaxCycles,    \* a bound: cycles of one user
  MaxArrivals,  \* a bound: times that new work arrives
  MaxMishaps,   \* a bound: crashes, lost answers and failed statements
  None

Results == {"ready", "sent", "failed", "unknown"}

ASSUME UrgeConstants ==
  /\ None \notin Users \cup Workers \cup Results
  /\ MaxCycles \in Nat \ {0}
  /\ MaxArrivals \in Nat
  /\ MaxMishaps \in Nat

VARIABLES
  row,       \* auto_urge_sms_state, state "absent" before the INSERT
  work,      \* the pending work of each user
  worker,    \* the local state of each scan: the user in hand and its claim
  center,    \* the message center's record of each key
  late,      \* requests under way that nobody waits for
  handled,   \* history: how often the work of a user was emptied
  unseen,    \* history: the work is empty and no transaction observed that
  arrivals, mishaps

vars == <<row, work, worker, center, late, handled, unseen, arrivals, mishaps>>
history == <<handled, unseen, arrivals>>

Cycles == 1 .. MaxCycles
States == {"absent", "ready", "claimed", "sent", "failed", "unknown"}
Phases == {"idle", "listed", "recheck", "snapshot", "mark", "send", "waiting", "reconcile", "finish"}
\* Nothing pending; pending, but not enough or not long enough (or the user is
\* banned or has no phone); pending and due for a message.
Work == {"none", "some", "due"}
Records == {"none", "sending", "sent", "rejected"}

\* due: next_retry_at is NULL or past; stale: claimed, and 30 minutes
\* since last_attempt_at.
NewRow == [state |-> "absent", cycle |-> 1, key |-> 0, token |-> None,
           closed |-> FALSE, due |-> TRUE, stale |-> FALSE]

Idle == [pc |-> "idle", user |-> None, cycle |-> 1, key |-> 0, only |-> FALSE, result |-> None]
Listed(u) == [pc |-> "listed", user |-> u, cycle |-> 1, key |-> 0, only |-> FALSE, result |-> None]

Rows == [state : States, cycle : Cycles, key : Cycles \cup {0}, token : Workers \cup {None},
         closed : BOOLEAN, due : BOOLEAN, stale : BOOLEAN]

WorkerStates == [pc : Phases, user : Users \cup {None}, cycle : Cycles,
                 key : Cycles \cup {0}, only : BOOLEAN, result : Results \cup {None}]

TypeOK ==
  /\ row \in [Users -> Rows]
  /\ work \in [Users -> Work]
  /\ worker \in [Workers -> WorkerStates]
  /\ center \in [Users -> [Cycles -> Records]]
  /\ late \subseteq Users \X Cycles
  /\ handled \in [Users -> Nat]
  /\ unseen \in [Users -> BOOLEAN]
  /\ arrivals \in Nat
  /\ mishaps \in Nat
  /\ \A u \in Users : row[u].key \in {0, row[u].cycle}

Init ==
  /\ row = [u \in Users |-> NewRow]
  /\ work \in [Users -> Work]
  /\ worker = [w \in Workers |-> Idle]
  /\ center = [u \in Users |-> [k \in Cycles |-> "none"]]
  /\ late = {}
  /\ handled = [u \in Users |-> 0]
  /\ unseen = [u \in Users |-> FALSE]
  /\ arrivals = 0
  /\ mishaps = 0

Mishap ==
  /\ mishaps < MaxMishaps
  /\ mishaps' = mishaps + 1

Goto(w, phase) == worker' = [worker EXCEPT ![w].pc = phase]
Conclude(w, result) == worker' = [worker EXCEPT ![w].pc = "finish", ![w].result = result]

-----------------------------------------------------------------------------
(* The claim.                                                              *)

Recovering(r) ==
  /\ r.key # 0
  /\ \/ r.state = "unknown" /\ r.due
     \/ r.state = "claimed" /\ r.stale

Normal(r) ==
  \/ r.state \in {"absent", "ready", "failed"} /\ r.due
  \/ r.state = "sent" /\ r.closed

\* (Mutant: only users with due work are looked at.)
Candidate_OnlyDue(u) == work[u] = "due" /\ (Normal(row[u]) \/ Recovering(row[u]))

Candidate(u) ==
  \/ work[u] = "due" /\ Normal(row[u])
  \/ Recovering(row[u])

\* (Mutant: a failed attempt ends its cycle.)
NewCycle_AfterFailure(r) == (r.closed \/ r.state = "failed") /\ ~Recovering(r)

NewCycle(r) == r.closed /\ ~Recovering(r)

KeyOf(r, cycle) == IF r.key = 0 \/ NewCycle(r) THEN cycle ELSE r.key

\* The list of candidates is read once: a user on it may have changed when its turn comes.
List(w, u) ==
  /\ worker[w].pc = "idle"
  /\ Candidate(u)
  /\ worker' = [worker EXCEPT ![w] = Listed(u)]
  /\ UNCHANGED <<row, work, center, late, history, mishaps>>

Claim(w) ==
  LET u == worker[w].user
      r == row[u]
      cycle == IF NewCycle(r) THEN r.cycle + 1 ELSE r.cycle
      key == KeyOf(r, cycle)
  IN /\ worker[w].pc = "listed"
     /\ Recovering(r) \/ Normal(r)
     /\ cycle \in Cycles
     /\ row' = [row EXCEPT ![u] =
          [state |-> "claimed", cycle |-> cycle, key |-> key, token |-> w,
           closed |-> r.closed /\ ~NewCycle(r), due |-> TRUE, stale |-> FALSE]]
     /\ worker' = [worker EXCEPT ![w].pc = IF Recovering(r) THEN "reconcile" ELSE "recheck",
                                 ![w].cycle = cycle, ![w].key = key, ![w].only = Recovering(r)]
     /\ UNCHANGED <<work, center, late, history, mishaps>>

\* At the bound of the cycles the claim fails.
ClaimNothing(w) ==
  LET r == row[worker[w].user]
  IN /\ worker[w].pc = "listed"
     /\ \/ ~Recovering(r) /\ ~Normal(r)
        \/ NewCycle(r) /\ r.cycle = MaxCycles
     /\ worker' = [worker EXCEPT ![w] = Idle]
     /\ UNCHANGED <<row, work, center, late, history, mishaps>>

-----------------------------------------------------------------------------
(* From the claim to the message center.                                   *)

Owns(w) ==
  LET r == row[worker[w].user]
  IN r.state = "claimed" /\ r.token = w /\ r.cycle = worker[w].cycle

Recheck(w) ==
  /\ worker[w].pc = "recheck"
  /\ \/ work[worker[w].user] = "due" /\ Goto(w, "snapshot")
     \/ work[worker[w].user] # "due" /\ Conclude(w, "ready")
  /\ UNCHANGED <<row, work, center, late, history, mishaps>>

SnapshotFence(w) == Owns(w) /\ ~row[worker[w].user].closed

Snapshot(w) ==
  /\ worker[w].pc = "snapshot"
  /\ \/ SnapshotFence(w) /\ Goto(w, "mark")
     \/ ~SnapshotFence(w) /\ Conclude(w, "failed")
  /\ UNCHANGED <<row, work, center, late, history, mishaps>>

\* (Mutant: the UPDATE does not test closed_at.)
DispatchFence_Open(w) == Owns(w) /\ row[worker[w].user].key = worker[w].key

DispatchFence(w) ==
  LET r == row[worker[w].user]
  IN Owns(w) /\ r.key = worker[w].key /\ ~r.closed

MarkDispatched(w) ==
  /\ worker[w].pc = "mark"
  /\ \/ DispatchFence(w) /\ Goto(w, "send")
     \/ ~DispatchFence(w) /\ Conclude(w, "failed")
  /\ UNCHANGED <<row, work, center, late, history, mishaps>>

\* A statement fails, or the scan's context ends, before the request.
StepFails(w) ==
  /\ worker[w].pc \in {"recheck", "snapshot", "mark"}
  /\ Mishap
  /\ Conclude(w, "failed")
  /\ UNCHANGED <<row, work, center, late, history>>

-----------------------------------------------------------------------------
(* The message center keeps one record per key: a key that is being sent   *)
(* or was sent is not sent again; a rejected one may be.                   *)

Take(u, k) ==
  center' = [center EXCEPT ![u][k] = IF @ \in {"none", "rejected"} THEN "sending" ELSE @]

Send(w) ==
  /\ worker[w].pc = "send"
  /\ Take(worker[w].user, worker[w].key)
  /\ Goto(w, "waiting")
  /\ UNCHANGED <<row, work, late, history, mishaps>>

\* The worker stops waiting for a request that has not arrived yet.
SendTimesOut(w) ==
  /\ worker[w].pc = "send"
  /\ Mishap
  /\ late' = late \cup {<<worker[w].user, worker[w].key>>}
  /\ Conclude(w, "unknown")
  /\ UNCHANGED <<row, work, center, history>>

LateArrival(u, k) ==
  /\ <<u, k>> \in late
  /\ late' = late \ {<<u, k>>}
  /\ Take(u, k)
  /\ UNCHANGED <<row, work, worker, history, mishaps>>

CenterSends(u, k) ==
  /\ center[u][k] = "sending"
  /\ \E record \in {"sent", "rejected"} : center' = [center EXCEPT ![u][k] = record]
  /\ UNCHANGED <<row, work, worker, late, history, mishaps>>

\* (Mutant: a request that was taken counts as sent.)
classifyAutoUrgeResult_Taken(record) ==
  CASE record \in {"sending", "sent"} -> "sent"
    [] record = "rejected" -> "failed"
    [] OTHER -> "unknown"

\* What an answer is taken for.  A provider error that is not an explicit
\* rejection leaves the record "sending" here: nobody knows.
classifyAutoUrgeResult(record) ==
  CASE record = "sent" -> "sent"
    [] record = "rejected" -> "failed"
    [] OTHER -> "unknown"

Answer(w) ==
  /\ worker[w].pc = "waiting"
  /\ Conclude(w, classifyAutoUrgeResult(center[worker[w].user][worker[w].key]))
  /\ UNCHANGED <<row, work, center, late, history, mishaps>>

\* reconcile_only: the center looks its record up and sends nothing; without
\* one it answers NOT_DISPATCHED.
Reconcile(w) ==
  LET record == center[worker[w].user][worker[w].key]
  IN /\ worker[w].pc = "reconcile"
     /\ Conclude(w, IF record = "none" THEN "failed" ELSE classifyAutoUrgeResult(record))
     /\ UNCHANGED <<row, work, center, late, history, mishaps>>

AnswerLost(w) ==
  /\ worker[w].pc \in {"waiting", "reconcile"}
  /\ Mishap
  /\ Conclude(w, "unknown")
  /\ UNCHANGED <<row, work, center, late, history>>

FinishFence(w) == Owns(w) /\ row[worker[w].user].key = worker[w].key

\* An old claim changes nothing.
Finish(w) ==
  LET u == worker[w].user
      result == worker[w].result
  IN /\ worker[w].pc = "finish"
     /\ row' = IF FinishFence(w)
               THEN [row EXCEPT ![u].state = result, ![u].due = (result = "sent"), ![u].stale = FALSE]
               ELSE row
     /\ worker' = [worker EXCEPT ![w] = Idle]
     /\ UNCHANGED <<work, center, late, history, mishaps>>

\* The process stops, or the last statement fails: the row stays as it is.
Crash(w) ==
  /\ worker[w].pc # "idle"
  /\ Mishap
  /\ late' = IF worker[w].pc = "send"
             THEN late \cup {<<worker[w].user, worker[w].key>>} ELSE late
  /\ worker' = [worker EXCEPT ![w] = Idle]
  /\ UNCHANGED <<row, work, center, history>>

\* Midnight passes for a result that waits for the next day.
NextDay(u) ==
  /\ ~row[u].due
  /\ row' = [row EXCEPT ![u].due = TRUE]
  /\ UNCHANGED <<work, worker, center, late, history, mishaps>>

\* A recheck or a snapshot may take as long as the scan, two hours; a lookup and the
\* writing of its result end within 35 seconds, before their claim is stale.
LookupUnderWay(u) ==
  \E w \in Workers : worker[w].user = u /\ worker[w].only /\ row[u].token = w

GrowsStale(u) ==
  /\ row[u].state = "claimed" /\ ~row[u].stale
  /\ ~LookupUnderWay(u)
  /\ row' = [row EXCEPT ![u].stale = TRUE]
  /\ UNCHANGED <<work, worker, center, late, history, mishaps>>

-----------------------------------------------------------------------------
(* The business transactions.  Each of them observes before it adds work   *)
(* or after it removes some; nothing comes between, in one transaction.    *)

ObserveClearanceTx(u) ==
  /\ row' = [row EXCEPT ![u].closed = @ \/ row[u].state # "absent"]
  /\ unseen' = [unseen EXCEPT ![u] = FALSE]

\* Application sent, olive branch sent, member added, project restored.
WorkArrives(u) ==
  /\ arrivals < MaxArrivals
  /\ \/ /\ work[u] = "none"
        /\ ObserveClearanceTx(u)
        /\ \E more \in {"some", "due"} : work' = [work EXCEPT ![u] = more]
     \/ /\ work[u] = "some"
        /\ work' = [work EXCEPT ![u] = "due"]
        /\ UNCHANGED <<row, unseen>>
  /\ arrivals' = arrivals + 1
  /\ UNCHANGED <<worker, center, late, handled, mishaps>>

\* Application reviewed or withdrawn, olive branch answered, member removed, project deleted.
WorkHandled(u) ==
  /\ work[u] # "none"
  /\ work' = [work EXCEPT ![u] = "none"]
  /\ handled' = [handled EXCEPT ![u] = @ + 1]
  /\ ObserveClearanceTx(u)
  /\ UNCHANGED <<worker, center, late, arrivals, mishaps>>

\* A transaction that changes nothing of this user's work observes it too.
WorkTouched(u) ==
  /\ work[u] = "none" /\ row[u].state # "absent" /\ ~row[u].closed
  /\ ObserveClearanceTx(u)
  /\ UNCHANGED <<work, worker, center, late, handled, arrivals, mishaps>>

\* Ending the recruitment of a project rejects its applications and observes nothing.
CompleteRecruit(u) ==
  /\ work[u] # "none"
  /\ work' = [work EXCEPT ![u] = "none"]
  /\ handled' = [handled EXCEPT ![u] = @ + 1]
  /\ unseen' = [unseen EXCEPT ![u] = row[u].state # "absent" /\ ~row[u].closed]
  /\ UNCHANGED <<row, worker, center, late, arrivals, mishaps>>

\* Work grows a week old; a part of it is handled, or the user is banned.
WorkShifts(u) ==
  /\ \/ work[u] = "some" /\ work' = [work EXCEPT ![u] = "due"]
     \/ work[u] = "due" /\ work' = [work EXCEPT ![u] = "some"]
  /\ UNCHANGED <<row, worker, center, late, history, mishaps>>

-----------------------------------------------------------------------------
ClaimStep(w) == Claim(w) \/ ClaimNothing(w)

DispatchStep(w) == Recheck(w) \/ Snapshot(w) \/ MarkDispatched(w) \/ Send(w)

ResultStep(w) == Answer(w) \/ Reconcile(w) \/ Finish(w)

WorkerStep(w) == ClaimStep(w) \/ DispatchStep(w) \/ ResultStep(w)

WorkerMishap(w) == StepFails(w) \/ SendTimesOut(w) \/ AnswerLost(w) \/ Crash(w)

TimePasses(u) == NextDay(u) \/ GrowsStale(u)

Business(u) ==
  WorkArrives(u) \/ WorkHandled(u) \/ WorkTouched(u) \/ CompleteRecruit(u) \/ WorkShifts(u)

CenterStep(u, k) == LateArrival(u, k) \/ CenterSends(u, k)

Next ==
  \/ \E w \in Workers, u \in Users : List(w, u)
  \/ \E w \in Workers : WorkerStep(w) \/ WorkerMishap(w)
  \/ \E u \in Users : TimePasses(u) \/ Business(u)
  \/ \E u \in Users, k \in Cycles : CenterStep(u, k)

Spec == Init /\ [][Next]_vars

\* Scans repeat every day and list every candidate, workers end, time passes.
ListForRecovery(u) == Recovering(row[u]) /\ \E w \in Workers : List(w, u)

FairSpec ==
  /\ Spec
  /\ \A w \in Workers : WF_vars(WorkerStep(w))
  /\ \A u \in Users : WF_vars(TimePasses(u)) /\ SF_vars(ListForRecovery(u))

-----------------------------------------------------------------------------
(* Properties                                                              *)

\* The messages a user got: the center sends one under each key that it has as sent.
MessagesSent(u) == {k \in Cycles : center[u][k] = "sent"}

\* A user is urged at most once until the pending work was emptied: whatever is lost,
\* late, repeated or taken over, there is at most one message more than emptyings.
\* (docs/auto-urge-sms.md: one success per user and cycle, a new cycle only after a clearance.)
OneMessagePerBacklog ==
  \A u \in Users : Cardinality(MessagesSent(u)) <= handled[u] + 1

\* "sent" in the row means that the message center sent this cycle's message, and the
\* worker that is about to write it learned so.  (process, classifyAutoUrgeResult, Finish.)
SentMeansSent ==
  /\ \A u \in Users : row[u].state = "sent" => center[u][row[u].cycle] = "sent"
  /\ \A w \in Workers : worker[w].result = "sent" => center[worker[w].user][worker[w].key] = "sent"

\* No request leaves for a user whose work was emptied between the recheck and the
\* dispatch, as far as a business transaction observed it.  (MarkDispatched.)
NoUrgeOnceHandled ==
  [][\A w \in Workers :
       worker[w].pc # "send" /\ worker'[w].pc = "send" =>
         LET u == worker[w].user IN work[u] # "none" \/ unseen[u]]_vars

\* A claim or an unknown result whose message was in fact sent does not stay unresolved:
\* the daily scan finds it and the lookup of its key settles it.  (Candidates, Claim.)
Unresolved(u) == row[u].state \in {"claimed", "unknown"}

SentMessagesAreResolved ==
  \A u \in Users :
    (Unresolved(u) /\ center[u][row[u].cycle] = "sent") ~> ~Unresolved(u)
=============================================================================
