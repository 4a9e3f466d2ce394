------------------------------- MODULE Events -------------------------------
(***************************************************************************)
(* Competition events, their managers, and the projects that take part.    *)
(*                                                                         *)
(* An update reads the event before its transaction; a removal (deletion   *)
(* or merge) reads the manager in its transaction, without a lock.  What   *)
(* the administrators see follows their schools (Administrators) and, for  *)
(* an event manager, the projects of his event.                            *)
(***************************************************************************)
EXTENDS Naturals, FiniteSets

CONSTANTS
  None,
  EventIds,
  Projects,
  Managers,    \* identifiers of event manager accounts
  Schools,
  Root,        \* a super administrator,
  Dean,        \* a school super administrator
  Clerk,       \* and a school administrator
  Calls,
  MaxRequests  \* bound: requests

VARIABLES
  event,    \* event
  on,       \* project_event: the events of each project
  home,     \* project.school_id
  account,  \* admin_user rows with role 4: their school
  scope,    \* the schools of the other administrators
  call,
  requests

vars == <<event, on, home, account, scope, call, requests>>

Staff == {Root, Dean, Clerk}
Levels == {"school", "regional", "national"}
Rank == [l \in Levels |-> CASE l = "school" -> 1 [] l = "regional" -> 2 [] OTHER -> 3]
EventRows == [level : Levels, school : Schools \cup {None}, manager : Managers \cup {None}, creator : Staff]
NoEvent == [level |-> "none", school |-> None, manager |-> None, creator |-> None]
NoAccount == [row |-> FALSE, school |-> None]
Account(s) == [row |-> TRUE, school |-> s]

\* read: the row of the event as it was read; to: the target of a merge.
NoCall == [op |-> "idle", by |-> None, id |-> None, to |-> None, read |-> NoEvent]
CallRecords ==
  [op : {"idle", "update", "merge", "remove"}, by : Staff \cup {None}, id : EventIds \cup {None},
   to : EventIds \cup {None}, read : EventRows \cup {NoEvent}]

TypeOK ==
  /\ event \in [EventIds -> EventRows \cup {NoEvent}]
  /\ on \in [Projects -> SUBSET EventIds]
  /\ home \in [Projects -> Schools]
  /\ account \in [Managers -> [row : BOOLEAN, school : Schools \cup {None}]]
  /\ scope \in [{Dean, Clerk} -> SUBSET Schools]
  /\ call \in [Calls -> CallRecords]
  /\ requests \in 0..MaxRequests

Init ==
  /\ event = [e \in EventIds |-> NoEvent]
  /\ on = [p \in Projects |-> {}]
  /\ home \in [Projects -> Schools]
  /\ account = [m \in Managers |-> NoAccount]
  /\ scope \in {s \in [{Dean, Clerk} -> SUBSET Schools] : Cardinality(s[Clerk]) <= 1}
  /\ call = [c \in Calls |-> NoCall]
  /\ requests = 0

-----------------------------------------------------------------------------
(* Who sees what.                                                          *)

Exists(e) == event[e] # NoEvent

adminSchoolIDs(by) == IF by = Root THEN Schools ELSE scope[by]
canAccessSchool(by, s) == s \in adminSchoolIDs(by)

\* The rows that EventRepository.List selects for a caller.
ListEvents(by) ==
  {e \in EventIds : Exists(e) /\ (event[e].level = "school" => event[e].school \in adminSchoolIDs(by))}

canViewEventInScope(by, e) == event[e].level = "school" => canAccessSchool(by, event[e].school)

isOwnSchoolEvent(by, row) == row.level = "school" /\ canAccessSchool(by, row.school)

canCreateEventManager(by, row) ==
  \/ by = Root
  \/ by = Clerk /\ isOwnSchoolEvent(by, row)
  \/ by = Dean /\ isOwnSchoolEvent(by, row) /\ row.creator = by

canEditEventManager(by, row) == by = Root \/ (by = Dean /\ isOwnSchoolEvent(by, row) /\ row.creator = by)

ManagerAllowed(by, row) ==
  IF row.manager = None THEN canCreateEventManager(by, row) ELSE canEditEventManager(by, row)

eventsForManager(m) == {e \in EventIds : event[e].manager = m}

\* A school administrator without a school is not filtered at all.
ListProjects(by) ==
  CASE by \in Managers -> {p \in Projects : eventsForManager(by) \cap on[p] # {}}
    [] by = Dean -> {p \in Projects : home[p] \in scope[by]}
    [] by = Clerk /\ scope[by] # {} -> {p \in Projects : home[p] \in scope[by]}
    [] OTHER -> Projects

requireProjectAccess(by, p) ==
  IF by \in Managers THEN eventsForManager(by) \cap on[p] # {} ELSE canAccessSchool(by, home[p])

-----------------------------------------------------------------------------
(* Creation and update.                                                    *)

Take == requests < MaxRequests /\ requests' = requests + 1

\* A school's administrator creates events of his schools only.
buildAdminEventModelForRequest(by, row) ==
  /\ row.level = "school" <=> row.school # None
  /\ by # Root => row.level = "school" /\ canAccessSchool(by, row.school)

\* The account and the link, in the event's transaction.
CreateManager(m, s) == account[m] = NoAccount /\ account' = [account EXCEPT ![m] = Account(s)]

CreateEvent(by, e) ==
  /\ Take
  /\ ~Exists(e)
  /\ \E row \in EventRows :
       /\ row.creator = by
       /\ buildAdminEventModelForRequest(by, row)
       /\ IF row.manager = None THEN UNCHANGED account
          ELSE /\ canCreateEventManager(by, [row EXCEPT !.manager = None])
               /\ CreateManager(row.manager, row.school)
       /\ event' = [event EXCEPT ![e] = row]
  /\ UNCHANGED <<on, home, scope, call>>

Begin(c, r) ==
  /\ call[c] = NoCall
  /\ Take
  /\ call' = [call EXCEPT ![c] = r]
  /\ UNCHANGED <<event, on, home, account, scope>>

Done(c) == call' = [call EXCEPT ![c] = NoCall] /\ UNCHANGED <<home, scope, requests>>

UpdateEvent(c, by, e) ==
  /\ Exists(e) /\ canViewEventInScope(by, e)
  /\ Begin(c, [NoCall EXCEPT !.op = "update", !.by = by, !.id = e, !.read = event[e]])

\* (Mutant: the link is not conditional, and the first manager is left behind.)
LinkFree_Always(e) == TRUE

LinkFree(e) == event[e].manager = None

\* admin_id is set only where there is none.
LinkManager(m, e, s) == LinkFree(e) /\ CreateManager(m, s)

\* The account that was linked when the event was read; one that is gone, or
\* belongs to another school, is left alone.
EditManager(by, read, s) ==
  account' = [account EXCEPT ![read.manager] =
                IF @.row /\ (by = Root \/ @.school = s) THEN Account(s) ELSE @]

\* Level and school are written; the manager and the creator stay, unless a
\* manager is added.
SuperUpdate(c) ==
  LET r == call[c]
  IN /\ r.op = "update" /\ r.by = Root
     /\ Exists(r.id)
     /\ \E level \in Levels, s \in Schools \cup {None}, m \in Managers \cup {None} :
          /\ level = "school" <=> s # None
          /\ event' = [event EXCEPT ![r.id].level = level, ![r.id].school = s,
                                   ![r.id].manager = IF m = None THEN @ ELSE m]
          /\ CASE r.read.manager # None -> m = None /\ EditManager(Root, r.read, s)
               [] r.read.manager = None /\ m # None -> LinkManager(m, r.id, s)
               [] OTHER -> UNCHANGED account
     /\ Done(c)
     /\ UNCHANGED on

\* A school's update of the deadline leaves the model's state alone; of the
\* manager, it creates or edits him.
updateScopedEvent(c) ==
  LET r == call[c]
  IN /\ r.op = "update" /\ r.by # Root
     /\ ManagerAllowed(r.by, r.read)
     /\ IF r.read.manager # None
        THEN EditManager(r.by, r.read, r.read.school) /\ UNCHANGED event
        ELSE /\ Exists(r.id)
             /\ \E m \in Managers : /\ LinkManager(m, r.id, r.read.school)
                                    /\ event' = [event EXCEPT ![r.id].manager = m]
     /\ Done(c)
     /\ UNCHANGED on

-----------------------------------------------------------------------------
(* Deletion and merge.                                                     *)

\* Upwards only: from a school's event to a regional or a national one.
MergeEvent(c, e, to) ==
  /\ Exists(e) /\ Exists(to)
  /\ Rank[event[to].level] > Rank[event[e].level]
  /\ Begin(c, [NoCall EXCEPT !.op = "merge", !.by = Root, !.id = e, !.to = to])

DeleteEvent(c, e) ==
  /\ Exists(e)
  /\ Begin(c, [NoCall EXCEPT !.op = "merge", !.by = Root, !.id = e])

\* The transaction begins: the manager is read without a lock.
ReadManager(c) ==
  /\ call[c].op = "merge"
  /\ call' = [call EXCEPT ![c].op = "remove", ![c].read = event[call[c].id]]
  /\ UNCHANGED <<event, on, home, account, scope, requests>>

MovedTo(r) ==
  [p \in Projects |-> IF r.id \in on[p] THEN (on[p] \ {r.id}) \cup ({r.to} \ {None}) ELSE on[p]]

\* The projects move, the event goes, and the manager that was read with it.
Remove(c) ==
  LET r == call[c]
  IN /\ r.op = "remove"
     /\ r.to # None => Exists(r.id)
     /\ on' = MovedTo(r)
     /\ event' = [event EXCEPT ![r.id] = NoEvent]
     /\ account' = [m \in Managers |-> IF m = r.read.manager THEN NoAccount ELSE account[m]]
     /\ Done(c)

Fails(c) ==
  /\ call[c] # NoCall
  /\ UNCHANGED <<event, on, account>>
  /\ Done(c)

-----------------------------------------------------------------------------
(* Around: projects choose events, accounts are deleted, schools change.   *)

\* The project's row and the rows of the events are locked and must exist.
replaceProjectEventsTx(p, S) ==
  /\ Take
  /\ \A e \in S : Exists(e)
  /\ on' = [on EXCEPT ![p] = S]
  /\ UNCHANGED <<event, home, account, scope, call>>

\* Administrators!Delete; the event's admin_id is set to NULL.
DeleteManager(m) ==
  /\ Take
  /\ account[m].row
  /\ account' = [account EXCEPT ![m] = NoAccount]
  /\ event' = [e \in EventIds |-> IF event[e].manager = m THEN [event[e] EXCEPT !.manager = None] ELSE event[e]]
  /\ UNCHANGED <<on, home, scope, call>>

\* Administrators!DelegateSchool, or an update.
ScopeChanges(S) ==
  /\ Take
  /\ scope' = [scope EXCEPT ![Dean] = S]
  /\ UNCHANGED <<event, on, home, account, call>>

Next ==
  \/ \E by \in Staff, e \in EventIds : CreateEvent(by, e)
  \/ \E c \in Calls :
       \/ \E e \in EventIds :
            \/ \E by \in Staff : UpdateEvent(c, by, e)
            \/ DeleteEvent(c, e)
            \/ \E to \in EventIds : MergeEvent(c, e, to)
       \/ SuperUpdate(c) \/ updateScopedEvent(c) \/ ReadManager(c) \/ Remove(c) \/ Fails(c)
  \/ \E p \in Projects, S \in SUBSET EventIds : replaceProjectEventsTx(p, S)
  \/ \E m \in Managers : DeleteManager(m)
  \/ \E S \in SUBSET Schools : ScopeChanges(S)

Spec == Init /\ [][Next]_vars

-----------------------------------------------------------------------------
(* Properties                                                              *)

\* Lists and detail pages agree, for events and for projects, through changes
\* of schools, levels, managers and events.  (A school administrator without
\* a school is shown every project and admitted to none: he is left out.)
ListedIsAdmitted ==
  /\ \A by \in Staff : {e \in EventIds : Exists(e) /\ canViewEventInScope(by, e)} = ListEvents(by)
  /\ \A by \in Staff \cup {m \in Managers : account[m].row} :
       (by = Clerk => scope[by] # {})
         => {p \in Projects : requireProjectAccess(by, p)} = ListProjects(by)

\* An event keeps its manager while both exist: of two administrators who add
\* one at the same time the second fails, and no update made from an older
\* reading replaces him.
ManagerIsNotReplacedStep ==
  \A e \in EventIds :
     event[e].manager # None /\ event'[e] # NoEvent /\ account'[event[e].manager].row
       => event'[e].manager = event[e].manager

ManagerIsNotReplaced == [][ManagerIsNotReplacedStep]_vars
=============================================================================
