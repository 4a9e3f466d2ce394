------------------------------- MODULE Feishu -------------------------------
(***************************************************************************)
(* The copy of a school's users in a Feishu table.                         *)
(*                                                                         *)
(* An administrator queues a job for the school; a worker of any instance  *)
(* runs it while its connection holds a named lock.  A node and a table    *)
(* are created once, then one row for each user; a row is known by its     *)
(* mapping.  Feishu may do what it is asked without the answer coming      *)
(* back.  A worker may end between any two steps, or its connection may,   *)
(* which frees the lock while the worker goes on to its next check.        *)
(*                                                                         *)
(* One school: the lock makes the jobs of all schools take turns.          *)
(***************************************************************************)
EXTENDS Naturals, FiniteSets

CONSTANTS
  None,
  Users,
  Rows,      \* record identifiers of Feishu, never used again
  Workers,   \* one in each instance of the administration
  MaxJobs,   \* bound: jobs queued
  MaxMoves   \* bound: users who join or leave the school, rows deleted by hand

VARIABLES
  member,    \* the users of the school
  allowed,   \* whether the administrator may synchronise the school
  job,       \* feishu_user_sync_job: the active one
  target,    \* feishu_user_sync_target: the node and the table
  mapping,   \* feishu_user_sync_record
  row,       \* Feishu: the user of each row of the table
  made,      \* Feishu: how many nodes and tables were created
  lock,      \* the worker whose connection holds the named lock
  lost,      \* whether a worker's connection ended while the worker was running
  worker,
  jobs, moves

vars == <<member, allowed, job, target, mapping, row, made, lock, lost, worker, jobs, moves>>

Parts == {"node", "table"}
Targets == [Parts -> {"no", "started", "known"}]
Mappings == [Users -> {None, "pending"} \cup Rows]
\* n: the job; t, seen: the target and the mappings as they were read; x: the
\* part to create; todo: the users still to visit; u, r: the visited one and its
\* row; last: the second clean-up.
WorkerRecords ==
  [at : {"idle", "start", "mark", "make", "save", "clean", "delete", "drop", "sync", "flush", "look",
         "update", "forget", "create", "call", "confirm"},
   n : Nat, t : Targets, x : Parts, seen : Mappings, todo : SUBSET Users,
   u : Users \cup {None}, r : Rows \cup {None}, last : BOOLEAN]
NoMapping == [u \in Users |-> None]
Idle == [at |-> "idle", n |-> 0, t |-> [x \in Parts |-> "no"], x |-> "node", seen |-> NoMapping,
         todo |-> {}, u |-> None, r |-> None, last |-> FALSE]
NoJob == [n |-> 0, status |-> "none"]

TypeOK ==
  /\ member \subseteq Users
  /\ allowed \in BOOLEAN
  /\ job \in {NoJob} \cup [n : Nat, status : {"queued", "running"}]
  /\ target \in Targets
  /\ mapping \in Mappings
  /\ row \in [Rows -> Users \cup {None, "deleted"}]
  /\ made \in [Parts -> Nat]
  /\ lock \in Workers \cup {None}
  /\ lost \in BOOLEAN
  /\ worker \in [Workers -> WorkerRecords]
  /\ jobs \in Nat
  /\ moves \in Nat

Init ==
  /\ member \in SUBSET Users
  /\ allowed = TRUE
  /\ job = NoJob
  /\ target = [x \in Parts |-> "no"]
  /\ mapping = NoMapping
  /\ row = [r \in Rows |-> None]
  /\ made = [x \in Parts |-> 0]
  /\ lock = None
  /\ lost = FALSE
  /\ worker = [w \in Workers |-> Idle]
  /\ jobs = 0 /\ moves = 0

World == <<member, allowed, lost, jobs, moves>>    \* what no worker writes

-----------------------------------------------------------------------------
(* The queue and the worker.                                               *)

\* A second request finds the active job.
Enqueue ==
  /\ allowed /\ jobs < MaxJobs
  /\ job = NoJob
  /\ jobs' = jobs + 1
  /\ job' = [n |-> jobs + 1, status |-> "queued"]
  /\ UNCHANGED <<member, allowed, target, mapping, row, made, lock, lost, worker, moves>>

At(w, step) == worker[w].at = step
Goes(w, next) == worker' = [worker EXCEPT ![w] = next] /\ UNCHANGED <<job, lock>>

\* Finish writes the row of the worker's own job; then the lock is released,
\* if the connection holds it still.
Finish(w) ==
  /\ worker' = [worker EXCEPT ![w] = Idle]
  /\ job' = IF job.n = worker[w].n THEN NoJob ELSE job
  /\ lock' = IF lock = w THEN None ELSE lock

\* The worker asks before each change whether it may go on.
guard(w) == lock = w /\ allowed
Continue(w, next) == IF guard(w) THEN Goes(w, next) ELSE Finish(w)

\* A job that is found running was left by a worker that ended: it is failed,
\* and never run again.
workOne(w) ==
  /\ At(w, "idle")
  /\ lock = None /\ job # NoJob
  /\ IF job.status = "running"
     THEN job' = NoJob /\ UNCHANGED <<lock, worker>>
     ELSE /\ job' = [job EXCEPT !.status = "running"] /\ lock' = w
          /\ worker' = [worker EXCEPT ![w] = [Idle EXCEPT !.at = "start", !.n = job.n]]
  /\ UNCHANGED <<World, target, mapping, row, made>>

-----------------------------------------------------------------------------
(* The node and the table.                                                 *)

\* (Mutant: what was begun before is begun again.)
Begun_Ignored(t, x) == FALSE

Begun(t, x) == t[x] = "started"

Stale == {u \in Users \ member : mapping[u] # None}
Cleaning(w, t, last) ==
  [worker[w] EXCEPT !.at = "clean", !.t = t, !.seen = mapping, !.todo = Stale, !.last = last]

\* A creation whose result is not known is left to the administrator.
\* The columns may also have been changed by hand, which ends the job.
provision(w, t) ==
  IF t["node"] = "known" /\ t["table"] = "known"
  THEN Goes(w, Cleaning(w, t, FALSE)) \/ Finish(w)
  ELSE LET x == IF t["node"] = "known" THEN "table" ELSE "node"
       IN  IF Begun(t, x) THEN Finish(w)
           ELSE Continue(w, [worker[w] EXCEPT !.at = "mark", !.t = t, !.x = x])

syncSchool(w) ==
  /\ At(w, "start")
  /\ IF guard(w) THEN provision(w, target) ELSE Finish(w)
  /\ UNCHANGED <<World, target, mapping, row, made>>

SaveTarget(w) ==
  LET n == worker[w]
      t == [n.t EXCEPT ![n.x] = IF n.at = "mark" THEN "started" ELSE "known"]
  IN  /\ n.at \in {"mark", "save"}
      /\ target' = t
      /\ IF n.at = "mark" THEN Goes(w, [n EXCEPT !.at = "make", !.t = t]) ELSE provision(w, t)
      /\ UNCHANGED <<World, mapping, row, made>>

\* CreateNode and CreateTable.
CreatePart(w) ==
  LET n == worker[w]
      Created == made' = [made EXCEPT ![n.x] = @ + 1]
  IN  /\ At(w, "make")
      /\ \/ Created /\ Goes(w, [n EXCEPT !.at = "save"])
         \/ (Created \/ UNCHANGED made) /\ Finish(w)
      /\ UNCHANGED <<World, target, mapping, row>>

-----------------------------------------------------------------------------
(* The users.                                                              *)

Unconfirmed(s) == s = "pending"

Visited(n) == [n EXCEPT !.todo = @ \ {n.u}, !.u = None, !.r = None]
Done(w) == Goes(w, [Visited(worker[w]) EXCEPT !.at = IF At(w, "drop") \/ At(w, "delete") THEN "clean" ELSE "sync"])

\* The mappings of users who are not of the school any more.
cleanup(w) ==
  LET n == worker[w] IN
  /\ At(w, "clean")
  /\ IF n.todo # {}
     THEN \E u \in n.todo :
            IF Unconfirmed(n.seen[u]) THEN Finish(w)
            ELSE Continue(w, [n EXCEPT !.at = "delete", !.u = u, !.r = n.seen[u]])
     ELSE IF n.last THEN Finish(w)
     ELSE Continue(w, [n EXCEPT !.at = "sync", !.seen = mapping, !.todo = member])
  /\ UNCHANGED <<World, target, mapping, row, made>>

\* A row that is missing is as good as deleted.
DeleteRecord(w) ==
  LET n == worker[w]
      Deleted == row' = [row EXCEPT ![n.r] = "deleted"]
  IN  /\ At(w, "delete")
      /\ IF n.u \in member THEN UNCHANGED row /\ Done(w)
         ELSE \/ Deleted /\ Goes(w, [n EXCEPT !.at = "drop"])
              \/ (Deleted \/ UNCHANGED row) /\ Finish(w)
      /\ UNCHANGED <<World, target, mapping, made>>

Forget(w) ==
  /\ At(w, "drop") \/ At(w, "forget")
  /\ mapping' = [mapping EXCEPT ![worker[w].u] = None]
  /\ IF At(w, "drop") THEN Done(w) ELSE Continue(w, [worker[w] EXCEPT !.at = "create"])
  /\ UNCHANGED <<World, target, row, made>>

\* Users with a row are brought up to date in batches, the others one by one.
syncPage(w) ==
  LET n == worker[w] IN
  /\ At(w, "sync")
  /\ IF n.todo = {} THEN Goes(w, Cleaning(w, n.t, TRUE))
     ELSE \E u \in n.todo :
            CASE u \notin member -> Goes(w, [n EXCEPT !.todo = @ \ {u}])
              [] u \in member /\ Unconfirmed(n.seen[u]) -> Finish(w)
              [] u \in member /\ ~Unconfirmed(n.seen[u]) ->
                   Continue(w, [n EXCEPT !.u = u, !.at = IF n.seen[u] \in Rows THEN "flush" ELSE "look"])
  /\ UNCHANGED <<World, target, mapping, row, made>>

\* A batch is halved until the missing row is alone.
flushUpdates(w) ==
  LET n == worker[w] IN
  /\ At(w, "flush")
  /\ CASE n.u \notin member -> Done(w)
       [] n.u \in member /\ row[n.seen[n.u]] = "deleted" ->
            Goes(w, [n EXCEPT !.at = "look"]) \/ Finish(w)
       [] n.u \in member /\ row[n.seen[n.u]] # "deleted" -> Done(w) \/ Finish(w)
  /\ UNCHANGED <<World, target, mapping, row, made>>

syncRecord(w) ==
  LET n == worker[w] IN
  /\ At(w, "look")
  /\ IF Unconfirmed(mapping[n.u]) THEN Finish(w)
     ELSE Continue(w, [n EXCEPT !.r = IF mapping[n.u] \in Rows THEN mapping[n.u] ELSE None,
                                !.at = IF mapping[n.u] \in Rows THEN "update" ELSE "create"])
  /\ UNCHANGED <<World, target, mapping, row, made>>

UpdateRecord(w) ==
  LET n == worker[w] IN
  /\ At(w, "update")
  /\ CASE n.u \notin member -> Done(w)
       [] n.u \in member /\ row[n.r] = "deleted" -> Goes(w, [n EXCEPT !.at = "forget"]) \/ Finish(w)
       [] n.u \in member /\ row[n.r] # "deleted" -> Done(w) \/ Finish(w)
  /\ UNCHANGED <<World, target, mapping, row, made>>

\* The mapping has one row for each user: a second insertion fails.
PrepareCreate(w) ==
  LET n == worker[w] IN
  /\ At(w, "create")
  /\ CASE n.u \notin member -> Done(w) /\ UNCHANGED mapping
       [] n.u \in member /\ mapping[n.u] # None -> Finish(w) /\ UNCHANGED mapping
       [] n.u \in member /\ mapping[n.u] = None ->
            /\ mapping' = [mapping EXCEPT ![n.u] = "pending"]
            /\ Goes(w, [n EXCEPT !.at = "call"])
  /\ UNCHANGED <<World, target, row, made>>

CreateRecord(w) ==
  LET n == worker[w] IN
  /\ At(w, "call")
  /\ \/ \E r \in Rows :
          /\ row[r] = None
          /\ row' = [row EXCEPT ![r] = n.u]
          /\ Goes(w, [n EXCEPT !.at = "confirm", !.r = r]) \/ Finish(w)
     \/ UNCHANGED row /\ Finish(w)
  /\ UNCHANGED <<World, target, mapping, made>>

ConfirmCreate(w) ==
  LET n == worker[w] IN
  /\ At(w, "confirm")
  /\ IF mapping[n.u] = "pending"
     THEN mapping' = [mapping EXCEPT ![n.u] = n.r] /\ Done(w)
     ELSE UNCHANGED mapping /\ Finish(w)
  /\ UNCHANGED <<World, target, row, made>>

-----------------------------------------------------------------------------
(* Faults, and what others do.                                             *)

Crash(w) ==
  /\ ~At(w, "idle")
  /\ worker' = [worker EXCEPT ![w] = Idle]
  /\ lock' = IF lock = w THEN None ELSE lock
  /\ UNCHANGED <<World, job, target, mapping, row, made>>

LoseLock(w) ==
  /\ lock = w
  /\ lock' = None /\ lost' = TRUE
  /\ UNCHANGED <<member, allowed, job, target, mapping, row, made, worker, jobs, moves>>

\* The administrator is disabled, or the school is taken from him; or back.
Permission ==
  /\ allowed' = ~allowed
  /\ UNCHANGED <<member, job, target, mapping, row, made, lock, lost, worker, jobs, moves>>

Move ==
  /\ moves < MaxMoves
  /\ moves' = moves + 1
  /\ \/ \E u \in Users :
          /\ member' = IF u \in member THEN member \ {u} ELSE member \cup {u}
          /\ UNCHANGED row
     \/ \E r \in Rows :
          /\ row[r] \in Users
          /\ row' = [row EXCEPT ![r] = "deleted"] /\ UNCHANGED member
  /\ UNCHANGED <<allowed, job, target, mapping, made, lock, lost, worker, jobs>>

Next ==
  \/ Enqueue \/ Permission \/ Move
  \/ \E w \in Workers :
       \/ workOne(w) \/ syncSchool(w) \/ SaveTarget(w) \/ CreatePart(w)
       \/ cleanup(w) \/ DeleteRecord(w) \/ Forget(w)
       \/ syncPage(w) \/ flushUpdates(w) \/ syncRecord(w) \/ UpdateRecord(w)
       \/ PrepareCreate(w) \/ CreateRecord(w) \/ ConfirmCreate(w)
       \/ Crash(w) \/ LoseLock(w)

Spec == Init /\ [][Next]_vars

-----------------------------------------------------------------------------
(* Properties                                                              *)

\* As long as no worker loses its connection while it runs, the school has one
\* node and one table at most, and a user one row, whatever answers are lost
\* and wherever workers end.
CreatedOnce ==
  ~lost =>
    /\ \A x \in Parts : made[x] <= 1
    /\ \A r, q \in Rows : row[r] \in Users /\ row[r] = row[q] => r = q

\* Until then, every row of the table is known by its mapping, or its user is
\* marked for the administrator to look at.
RowsAreManaged ==
  ~lost => \A r \in Rows : row[r] \in Users => mapping[row[r]] \in {r, "pending"}

\* Both: nothing is created twice, and every row is known or marked.
FeishuIsManaged == CreatedOnce /\ RowsAreManaged
=============================================================================
