-------------------------- MODULE BackOfficeProofs ----------------------------
(***************************************************************************)
(* Proofs about the back office, second half: the components that keep     *)
(* rows in step with each other, and the theorems about all of them.       *)
(*                                                                         *)
(* A behaviour of BackOffice is one of the component that runs. Each has   *)
(* an inductive invariant XInv with four lemmas: XStarts (the component's  *)
(* initial states have it), XKeeps (its steps and stuttering preserve it), *)
(* XProperties (it implies the component's invariants) and XSteps (under   *)
(* it a step satisfies the component's action properties). BackOfficeInv   *)
(* says that the invariant of the component that runs holds.               *)
(***************************************************************************)
EXTENDS BackOfficeNumbers

-----------------------------------------------------------------------------
(* Events.                                                                 *)
(*                                                                         *)
(* A manager is linked where there is none, and a row keeps its link until *)
(* the event or the account goes.                                          *)

EventInv ==
  /\ Event!TypeOK
  /\ \A c \in Calls : call[c].op # "idle" => call[c].id \in EventIds /\ call[c].by \in Event!Staff

LEMMA EventRecords ==
  /\ Event!NoCall \in Event!CallRecords /\ Event!NoCall.op = "idle"
  /\ \A s \in Schools \cup {None} : Event!Account(s) \in [row : BOOLEAN, school : Schools \cup {None}]
  /\ Event!NoAccount \in [row : BOOLEAN, school : Schools \cup {None}] /\ ~Event!NoAccount.row
  /\ Event!NoEvent.manager = None
  /\ \A line \in Event!EventRows \cup {Event!NoEvent} : line.manager \in Users \cup {None} /\ line.school \in Schools \cup {None}
  /\ \A line \in Event!EventRows, m \in Users \cup {None} : [line EXCEPT !.manager = m] \in Event!EventRows
  BY DEF Event!NoCall, Event!CallRecords, Event!Account, Event!NoAccount, Event!NoEvent,
         Event!EventRows

LEMMA EventStarts == Event!Init => EventInv
<1> SUFFICES ASSUME Event!Init PROVE EventInv
  OBVIOUS
<1>1. /\ account \in [Users -> [row : BOOLEAN, school : Schools \cup {None}]]
      /\ call \in [Calls -> Event!CallRecords] /\ \A c \in Calls : call[c].op = "idle"
  BY EventRecords DEF Event!Init
<1>2. requests \in 0..EventRequests
  BY EventConstants DEF Event!Init
<1> QED
  BY <1>1, <1>2 DEF Event!Init, EventInv, Event!TypeOK

LEMMA EventBegins ==
  ASSUME EventInv, NEW c \in Calls, NEW r \in Event!CallRecords, r.id \in EventIds,
         r.by \in Event!Staff, Event!Begin(c, r)
  PROVE  EventInv'
  BY EventConstants DEF EventInv, Event!TypeOK, Event!Begin, Event!Take

LEMMA EventEnds ==
  ASSUME EventInv, NEW c \in Calls, Event!Done(c),
         event' \in [EventIds -> Event!EventRows \cup {Event!NoEvent}], on' \in [Projects -> SUBSET EventIds],
         account' \in [Users -> [row : BOOLEAN, school : Schools \cup {None}]]
  PROVE  EventInv'
  BY EventRecords DEF EventInv, Event!TypeOK, Event!Done

LEMMA EventUpdates ==
  ASSUME EventInv, NEW c \in Calls, Event!SuperUpdate(c) \/ Event!updateScopedEvent(c)
  PROVE  /\ event' \in [EventIds -> Event!EventRows \cup {Event!NoEvent}]
         /\ account' \in [Users -> [row : BOOLEAN, school : Schools \cup {None}]]
         /\ UNCHANGED on /\ Event!Done(c)
         /\ \A e \in EventIds : \/ event'[e].manager = event[e].manager
                                \/ event[e].manager = None
<1> DEFINE r == call[c]
<1>0. /\ r \in Event!CallRecords /\ r.op = "update" /\ r.id \in EventIds
      /\ r.read \in Event!EventRows \cup {Event!NoEvent}
      /\ event \in [EventIds -> Event!EventRows \cup {Event!NoEvent}]
      /\ account \in [Users -> [row : BOOLEAN, school : Schools \cup {None}]]
  BY DEF EventInv, Event!TypeOK, Event!SuperUpdate, Event!updateScopedEvent, Event!CallRecords
<1>1. ASSUME NEW by, NEW s \in Schools \cup {None}, r.read.manager # None,
             Event!EditManager(by, r.read, s)
      PROVE  account' \in [Users -> [row : BOOLEAN, school : Schools \cup {None}]]
  BY <1>0, <1>1, EventRecords DEF Event!EditManager
<1>2. ASSUME NEW m \in Users, NEW s \in Schools \cup {None}, Event!LinkManager(m, r.id, s)
      PROVE  /\ account' \in [Users -> [row : BOOLEAN, school : Schools \cup {None}]]
             /\ event[r.id].manager = None
  BY <1>0, <1>2, EventRecords DEF Event!LinkManager, Event!CreateManager, Event!LinkFree
<1>3. CASE Event!SuperUpdate(c)
  <2>0. PICK level \in Event!Levels, s \in Schools \cup {None}, m \in Users \cup {None} :
          /\ event' = [event EXCEPT ![r.id].level = level, ![r.id].school = s,
                                   ![r.id].manager = IF m = None THEN @ ELSE m]
          /\ CASE r.read.manager # None -> m = None /\ Event!EditManager(Root, r.read, s)
               [] r.read.manager = None /\ m # None -> Event!LinkManager(m, r.id, s)
               [] OTHER -> UNCHANGED account
    BY <1>3 DEF Event!SuperUpdate
  <2>1. \/ r.read.manager # None /\ m = None /\ Event!EditManager(Root, r.read, s)
        \/ r.read.manager = None /\ m # None /\ Event!LinkManager(m, r.id, s)
        \/ r.read.manager = None /\ m = None /\ UNCHANGED account
    BY SMTT(30), <2>0
  <2>2. Event!Exists(r.id) /\ UNCHANGED on /\ Event!Done(c)
    BY <1>3 DEF Event!SuperUpdate
  <2>3. event[r.id] \in Event!EventRows
    BY <1>0, <2>2 DEF Event!Exists
  <2>4. event' \in [EventIds -> Event!EventRows \cup {Event!NoEvent}]
    BY <1>0, <2>0, <2>3 DEF Event!EventRows
  <2>5. \A e \in EventIds : event'[e].manager = IF e = r.id /\ m # None THEN m ELSE event[e].manager
    BY <1>0, <2>0, <2>3 DEF Event!EventRows
  <2> QED
    BY <1>0, <1>1, <1>2, <2>1, <2>2, <2>4, <2>5
<1>4. CASE Event!updateScopedEvent(c)
  <2>0. UNCHANGED on /\ Event!Done(c) /\ r.read.school \in Schools \cup {None}
    BY <1>0, <1>4, EventRecords DEF Event!updateScopedEvent
  <2>1. CASE r.read.manager # None
    <3>1. Event!EditManager(r.by, r.read, r.read.school) /\ UNCHANGED event
      BY <1>4, <2>1 DEF Event!updateScopedEvent
    <3> QED
      BY <1>0, <1>1, <2>0, <2>1, <3>1
  <2>2. CASE r.read.manager = None
    <3>1. PICK m \in Users : /\ Event!LinkManager(m, r.id, r.read.school)
                             /\ event' = [event EXCEPT ![r.id].manager = m]
                             /\ Event!Exists(r.id)
      BY <1>4, <2>2 DEF Event!updateScopedEvent
    <3>2. event[r.id] \in Event!EventRows
      BY <1>0, <3>1 DEF Event!Exists
    <3>3. event' \in [EventIds -> Event!EventRows \cup {Event!NoEvent}]
      BY <1>0, <3>1, <3>2, EventRecords
    <3>4. \A e \in EventIds : e # r.id => event'[e] = event[e]
      BY <1>0, <3>1
    <3> QED
      BY <1>0, <1>2, <2>0, <3>1, <3>3, <3>4
  <2> QED
    BY <2>1, <2>2
<1> QED
  BY SMTT(30), <1>3, <1>4

LEMMA EventKeeps ==
  ASSUME EventInv, [Event!Next]_Event!vars
  PROVE  EventInv'
<1>0. /\ event \in [EventIds -> Event!EventRows \cup {Event!NoEvent}] /\ on \in [Projects -> SUBSET EventIds]
      /\ account \in [Users -> [row : BOOLEAN, school : Schools \cup {None}]]
      /\ call \in [Calls -> Event!CallRecords] /\ requests \in 0..EventRequests
      /\ Event!NoCall \in Event!CallRecords
  BY EventRecords DEF EventInv, Event!TypeOK
<1>1. CASE UNCHANGED Event!vars
  BY <1>1 DEF Event!vars, EventInv, Event!TypeOK
<1>2. ASSUME NEW by \in Event!Staff, NEW e \in EventIds, Event!CreateEvent(by, e) PROVE EventInv'
  <2>1. PICK line \in Event!EventRows :
          /\ event' = [event EXCEPT ![e] = line]
          /\ \/ UNCHANGED account
             \/ line.manager # None /\ Event!CreateManager(line.manager, line.school)
    BY <1>2 DEF Event!CreateEvent
  <2>2. account' \in [Users -> [row : BOOLEAN, school : Schools \cup {None}]]
    BY <1>0, <2>1, EventRecords DEF Event!CreateManager
  <2>3. UNCHANGED <<on, home, scope, call>> /\ requests' \in 0..EventRequests
    BY <1>0, <1>2, EventConstants DEF Event!CreateEvent, Event!Take
  <2> QED
    BY <1>0, <2>1, <2>2, <2>3 DEF EventInv, Event!TypeOK
<1>3. ASSUME NEW c \in Calls, NEW e \in EventIds, NEW by \in Event!Staff,
             Event!UpdateEvent(c, by, e)
      PROVE  EventInv'
  <2>1. [Event!NoCall EXCEPT !.op = "update", !.by = by, !.id = e, !.read = event[e]] \in Event!CallRecords
    BY <1>0 DEF Event!NoCall, Event!CallRecords
  <2> QED
    BY <1>3, <2>1, EventBegins DEF Event!UpdateEvent, Event!NoCall
<1>4. ASSUME NEW c \in Calls, NEW e \in EventIds, NEW to \in EventIds,
             Event!DeleteEvent(c, e) \/ Event!MergeEvent(c, e, to)
      PROVE  EventInv'
  <2>1. /\ [Event!NoCall EXCEPT !.op = "merge", !.by = Root, !.id = e] \in Event!CallRecords
        /\ [Event!NoCall EXCEPT !.op = "merge", !.by = Root, !.id = e, !.to = to] \in Event!CallRecords
        /\ Root \in Event!Staff
    BY <1>0 DEF Event!NoCall, Event!CallRecords, Event!Staff
  <2> QED
    BY <1>4, <2>1, EventBegins DEF Event!DeleteEvent, Event!MergeEvent, Event!NoCall
<1>5. ASSUME NEW c \in Calls, Event!SuperUpdate(c) \/ Event!updateScopedEvent(c) PROVE EventInv'
  BY <1>0, <1>5, EventUpdates, EventEnds
<1>6. ASSUME NEW c \in Calls, Event!ReadManager(c) PROVE EventInv'
  <2>1. /\ call' = [call EXCEPT ![c].op = "remove", ![c].read = event[call[c].id]]
        /\ call[c].op = "merge" /\ UNCHANGED <<event, on, home, account, scope, requests>>
    BY <1>6 DEF Event!ReadManager
  <2>2. call[c].id \in EventIds /\ call[c].by \in Event!Staff
    BY <2>1 DEF EventInv
  <2>3. [call[c] EXCEPT !.op = "remove", !.read = event[call[c].id]] \in Event!CallRecords
    BY <1>0, <2>2 DEF Event!CallRecords
  <2>4. call' \in [Calls -> Event!CallRecords]
    BY <1>0, <2>1, <2>3
  <2>5. \A d \in Calls : call'[d].op # "idle" => call'[d].id \in EventIds /\ call'[d].by \in Event!Staff
    BY <1>0, <2>1, <2>2 DEF EventInv, Event!CallRecords
  <2> QED
    BY <2>1, <2>4, <2>5 DEF EventInv, Event!TypeOK
<1>7. ASSUME NEW c \in Calls, Event!Remove(c) PROVE EventInv'
  <2>1. /\ on' = Event!MovedTo(call[c]) /\ event' = [event EXCEPT ![call[c].id] = Event!NoEvent] /\ Event!Done(c)
        /\ account' = [m \in Users |-> IF m = call[c].read.manager THEN Event!NoAccount ELSE account[m]]
    BY <1>7 DEF Event!Remove
  <2>2. call[c].to \in EventIds \cup {None}
    BY <1>0 DEF Event!CallRecords
  <2>3. on' \in [Projects -> SUBSET EventIds]
    BY <1>0, <2>1, <2>2 DEF Event!MovedTo
  <2> QED
    BY <1>0, <2>1, <2>3, EventEnds, EventRecords
<1>8. ASSUME NEW c \in Calls, Event!Fails(c) PROVE EventInv'
  BY <1>0, <1>8, EventEnds DEF Event!Fails
<1>9. ASSUME NEW p \in Projects, NEW S \in SUBSET EventIds, Event!replaceProjectEventsTx(p, S)
      PROVE  EventInv'
  BY <1>9, EventConstants DEF EventInv, Event!TypeOK, Event!replaceProjectEventsTx, Event!Take
<1>10. ASSUME NEW m \in Users, Event!DeleteManager(m) PROVE EventInv'
  <2>1. /\ account' = [account EXCEPT ![m] = Event!NoAccount] /\ UNCHANGED <<on, home, scope, call>>
        /\ event' = [e \in EventIds |-> IF event[e].manager = m THEN [event[e] EXCEPT !.manager = None]
                                        ELSE event[e]]
    BY <1>10 DEF Event!DeleteManager
  <2>2. [Event!NoEvent EXCEPT !.manager = None] = Event!NoEvent
    BY DEF Event!NoEvent
  <2>3. event' \in [EventIds -> Event!EventRows \cup {Event!NoEvent}]
    BY <1>0, <2>1, <2>2, EventRecords
  <2>4. requests' \in 0..EventRequests
    BY <1>0, <1>10, EventConstants DEF Event!DeleteManager, Event!Take
  <2> QED
    BY <1>0, <2>1, <2>3, <2>4, EventRecords DEF EventInv, Event!TypeOK
<1>11. ASSUME NEW S \in SUBSET Schools, Event!ScopeChanges(S) PROVE EventInv'
  BY <1>11, EventConstants DEF EventInv, Event!TypeOK, Event!ScopeChanges, Event!Take
<1> QED
  BY <1>1, <1>2, <1>3, <1>4, <1>5, <1>6, <1>7, <1>8, <1>9, <1>10, <1>11 DEF Event!Next

LEMMA EventProperties ==
  ASSUME EventInv
  PROVE  Event!TypeOK /\ Event!ListedIsAdmitted
<1>1. \A by \in Event!Staff : {e \in EventIds : Event!Exists(e) /\ Event!canViewEventInScope(by, e)} = Event!ListEvents(by)
  BY DEF Event!canViewEventInScope, Event!ListEvents, Event!canAccessSchool
<1>2. ASSUME NEW by \in Event!Staff \cup {m \in Users : account[m].row},
             by = Clerk => scope[by] # {}
      PROVE  {p \in Projects : Event!requireProjectAccess(by, p)} = Event!ListProjects(by)
  <2>1. CASE by \in Users
    BY <2>1, EventConstants DEF Event!requireProjectAccess, Event!ListProjects
  <2>2. CASE by \in {Dean, Clerk} /\ by \notin Users
    BY <1>2, <2>2, EventConstants
       DEF Event!requireProjectAccess, Event!ListProjects, Event!canAccessSchool,
           Event!adminSchoolIDs
  <2>3. CASE by = Root /\ by \notin Users
    BY SMTT(30), <1>2, <2>3, EventConstants
       DEF Event!requireProjectAccess, Event!ListProjects, Event!canAccessSchool,
           Event!adminSchoolIDs, EventInv, Event!TypeOK
  <2> QED
    BY <2>1, <2>2, <2>3 DEF Event!Staff
<1> QED
  BY <1>1, <1>2 DEF EventInv, Event!ListedIsAdmitted

LEMMA EventSteps ==
  ASSUME EventInv, [Event!Next]_Event!vars
  PROVE  Event!ManagerIsNotReplacedStep
<1> SUFFICES ASSUME NEW e \in EventIds,
                    event[e].manager # None, event'[e] # Event!NoEvent, account'[event[e].manager].row
             PROVE  event'[e].manager = event[e].manager
  BY DEF Event!ManagerIsNotReplacedStep
<1>0. /\ event \in [EventIds -> Event!EventRows \cup {Event!NoEvent}]
      /\ account \in [Users -> [row : BOOLEAN, school : Schools \cup {None}]]
      /\ event[e].manager \in Users /\ event[e] # Event!NoEvent
  BY EventRecords DEF EventInv, Event!TypeOK
<1>1. ASSUME NEW by \in Event!Staff, NEW f \in EventIds, Event!CreateEvent(by, f)
      PROVE  event'[e] = event[e]
  <2>1. e # f
    BY <1>0, <1>1 DEF Event!CreateEvent, Event!Exists
  <2>2. \E line : event' = [event EXCEPT ![f] = line]
    BY <1>1 DEF Event!CreateEvent
  <2> QED
    BY <1>0, <2>1, <2>2
<1>2. ASSUME NEW c \in Calls, Event!SuperUpdate(c) \/ Event!updateScopedEvent(c)
      PROVE  event'[e].manager = event[e].manager
  BY <1>2, EventUpdates
<1>3. ASSUME NEW c \in Calls, Event!Remove(c) PROVE event'[e] = event[e]
  BY <1>0, <1>3 DEF Event!Remove
<1>4. ASSUME NEW m \in Users, Event!DeleteManager(m) PROVE event'[e] = event[e]
  BY <1>0, <1>4, EventRecords DEF Event!DeleteManager
<1> QED
  BY <1>1, <1>2, <1>3, <1>4
     DEF Event!Next, Event!vars, Event!UpdateEvent, Event!DeleteEvent, Event!MergeEvent,
         Event!Begin, Event!ReadManager, Event!Fails, Event!replaceProjectEventsTx,
         Event!ScopeChanges

-----------------------------------------------------------------------------
(* Accounts.                                                               *)
(*                                                                         *)
(* Who updates a profile has the row to himself, so that it is still the   *)
(* row he read; and the key of an uploaded image is in nobody's hands but  *)
(* the request's own until the row names it.                               *)

AccountTypes == Account!TypeOK /\ Account!WelcomedOnce

\* Of the requests, each by what it has read.
AccountReads ==
  \A c \in Calls :
    /\ call[c] # Account!NoCall => call[c].op # "idle" /\ call[c].u \in Users
    /\ call[c].op \notin {"idle", "register"} => Account!Exists(call[c].u)
    /\ call[c].op = "register" /\ call[c].read.auth # "absent" => Account!Exists(call[c].u)

\* The holder of a row's lock still counts as one that may welcome the user.
AccountLocks ==
  /\ \A c \in Calls : call[c].op = "profile" => call[c].read = user[call[c].u]
  /\ \A c, d \in Calls : call[c].op = "profile" /\ call[d].op = "profile" /\ call[c].u = call[d].u => c = d
  /\ \A u \in Users : /\ welcomes[u] <= requests
                      /\ ~Account!RowFree(u) => welcomes[u] < requests

AccountImages ==
  /\ \A u, v \in Users : u # v => user[u].img = None \/ user[v].img # user[u].img
  /\ \A c \in Calls, v \in Users : call[c].u # v => call[c].read.img = None \/ user[v].img # call[c].read.img
  /\ \A c \in Calls : call[c].op = "swap" => /\ call[c].key \in stored
                                             /\ \A v \in Users : user[v].img # call[c].key
                                             /\ \A d \in Calls : call[d].read.img # call[c].key
  /\ \A c, d \in Calls : call[c].op = "swap" /\ call[d].op = "swap" /\ c # d => call[c].key # call[d].key
  /\ Account!ImageIsThere

AccountInv == AccountTypes /\ AccountReads /\ AccountLocks /\ AccountImages

LEMMA AccountRecords ==
  /\ Account!NoCall \in Account!CallRecords /\ Account!NoCall.op = "idle" /\ Account!NoCall.read = Account!NoRow /\ Account!NoCall.read.img = None
  /\ Account!NewRow \in Account!Rows /\ Account!NoRow \in Account!ReadRows /\ Account!NoRow.img = None /\ Account!NewRow.img = None /\ Account!NoRow.auth = "absent"
  /\ \A line \in Account!Rows : line # Account!NoRow /\ line \in Account!ReadRows
  /\ \A line \in Account!Rows, p \in Phones \cup {None} : [line EXCEPT !.phone = p] \in Account!Rows
  BY DEF Account!NoCall, Account!CallRecords, Account!NewRow, Account!NoRow, Account!Rows,
         Account!ReadRows, Account!AuthStatuses

LEMMA AccountStarts == Account!Init => AccountInv
<1> SUFFICES ASSUME Account!Init PROVE AccountInv
  OBVIOUS
<1>1. /\ call \in [Calls -> Account!CallRecords] /\ \A c \in Calls : call[c] = Account!NoCall
      /\ user \in [Users -> Account!Rows \cup {Account!NoRow}] /\ \A u \in Users : user[u].img = None
      /\ stored = {} /\ lost = {} /\ \A u \in Users : welcomes[u] = 0 /\ arrivals[u] = 0
      /\ requests = 0
  BY AccountRecords DEF Account!Init
<1>2. AccountTypes
  BY <1>1, AccountConstants DEF Account!Init, Account!TypeOK, AccountTypes, Account!WelcomedOnce
<1>3. AccountReads
  BY <1>1, AccountRecords DEF AccountReads
<1>4. AccountLocks
  BY <1>1, AccountRecords DEF AccountLocks, Account!RowFree
<1>5. AccountImages
  BY <1>1, AccountRecords DEF AccountImages, Account!ImageIsThere
<1> QED
  BY <1>2, <1>3, <1>4, <1>5 DEF AccountInv

LEMMA AccountFacts ==
  ASSUME AccountInv
  PROVE  /\ user \in [Users -> Account!Rows \cup {Account!NoRow}] /\ stored \subseteq Keys /\ lost \subseteq Keys
         /\ welcomes \in [Users -> 0..AccountRequests] /\ arrivals \in [Users -> 0..AccountRequests]
         /\ scope \in [{Dean, Clerk} -> SUBSET Schools]
         /\ call \in [Calls -> Account!CallRecords] /\ requests \in 0..AccountRequests
         /\ Account!WelcomedOnce
         /\ \A c \in Calls : call[c].read \in Account!ReadRows /\ call[c].u \in Users \cup {None}
  BY DEF AccountInv, AccountTypes, Account!TypeOK, Account!CallRecords

\* A request that begins has read the row of its user.
LEMMA AccountBegins ==
  ASSUME AccountInv, NEW c \in Calls, NEW u \in Users, NEW r \in Account!CallRecords,
         Account!Begin(c, r),
         r.u = u, r.op \in {"register", "profile", "submit", "review"}, r.read.img = user[u].img,
         r.op = "register" => r.read.auth = user[u].auth,
         r.op # "register" => Account!Exists(u),
         r.op = "profile" => Account!RowFree(u) /\ r.read = user[u]
  PROVE  AccountInv'
<1>0. /\ call[c] = Account!NoCall /\ requests' = requests + 1 /\ requests' \in 0..AccountRequests
      /\ call' = [call EXCEPT ![c] = r]
      /\ UNCHANGED <<user, stored, welcomes, scope, arrivals, lost>>
  BY AccountFacts, AccountConstants DEF Account!Begin
<1>1. /\ call' \in [Calls -> Account!CallRecords] /\ call'[c] = r
      /\ \A d \in Calls : d # c => call'[d] = call[d]
  BY <1>0, AccountFacts
<1>2. AccountTypes'
  BY <1>0, <1>1 DEF AccountInv, AccountTypes, Account!TypeOK, Account!WelcomedOnce
<1>3. AccountReads'
  <2>1. r.op = "register" /\ r.read.auth # "absent" => Account!Exists(u)
    BY AccountRecords DEF Account!Exists
  <2> QED
    BY <1>0, <1>1, <2>1 DEF AccountInv, AccountReads, Account!Exists
<1>4. AccountLocks'
  <2>1. \A d \in Calls : call'[d].op = "profile" => call'[d].read = user'[call'[d].u]
    BY <1>0, <1>1 DEF AccountInv, AccountLocks
  <2>2. \A d, e \in Calls : call'[d].op = "profile" /\ call'[e].op = "profile" /\ call'[d].u = call'[e].u
                              => d = e
    BY <1>0, <1>1 DEF AccountInv, AccountLocks, Account!RowFree
  <2>3. \A v \in Users : welcomes'[v] < requests'
    BY <1>0, AccountFacts DEF AccountInv, AccountLocks
  <2> QED
    BY <1>0, <2>1, <2>2, <2>3, AccountFacts DEF AccountLocks
<1>5. AccountImages'
  <2>1. \A v \in Users : r.u # v => r.read.img = None \/ user[v].img # r.read.img
    BY DEF AccountInv, AccountImages
  <2>2. \A d \in Calls : call[d].op = "swap" => r.read.img # call[d].key
    BY DEF AccountInv, AccountImages
  <2>3. {call[d].read.img : d \in {d \in Calls : call[d].op = "swap"}}
           \subseteq {call'[d].read.img : d \in {d \in Calls : call'[d].op = "swap"}}
    BY <1>0, <1>1, AccountRecords
  <2>4. Account!ImageIsThere'
    BY <1>0, <2>3 DEF AccountInv, AccountImages, Account!ImageIsThere
  <2> QED
    BY <1>0, <1>1, <2>1, <2>2, <2>4 DEF AccountInv, AccountImages
<1> QED
  BY <1>2, <1>3, <1>4, <1>5 DEF AccountInv

\* What remains when a request is done and wrote nothing but its user's row.
LEMMA AccountEnds ==
  ASSUME AccountInv, NEW c \in Calls, call[c] # Account!NoCall, Account!Done(c), UNCHANGED stored,
         NEW u \in Users, u = call[c].u, NEW line \in Account!Rows \cup {Account!NoRow},
         user' = [user EXCEPT ![u] = line],
         user[u] # Account!NoRow => line # Account!NoRow,
         \/ line.img = user[u].img
         \/ call[c].op = "swap" /\ line.img = call[c].key,
         \/ line = user[u]
         \/ call[c].op = "profile"
         \/ Account!RowFree(u),
         \/ /\ line.img # user[u].img \/ call[c].op # "swap"
            /\ UNCHANGED lost
         \/ lost' = lost \cup ({call[c].read.img} \ (stored \cup {None})),
         Account!WelcomedOnce', arrivals' \in [Users -> Nat], welcomes' \in [Users -> Nat],
         \A v \in Users : \/ welcomes'[v] = welcomes[v]
                          \/ v = u /\ call[c].op = "profile" /\ welcomes'[v] = welcomes[v] + 1
  PROVE  AccountInv'
<1>0. /\ UNCHANGED <<scope, requests, stored>> /\ call' = [call EXCEPT ![c] = Account!NoCall]
      /\ call' \in [Calls -> Account!CallRecords] /\ call'[c] = Account!NoCall
      /\ \A d \in Calls : d # c => call'[d] = call[d]
      /\ user' \in [Users -> Account!Rows \cup {Account!NoRow}] /\ user'[u] = line
      /\ \A v \in Users : v # u => user'[v] = user[v]
      /\ call[c].read.img \in Keys \cup {None}
  BY AccountFacts, AccountRecords DEF Account!Done, Account!ReadRows
<1>1. \A d \in Calls : call'[d].op # "idle" => d # c /\ call'[d] = call[d]
  BY <1>0, AccountRecords
<1>2. AccountLocks'
  <2>1. \A v \in Users : ~Account!RowFree(v)' => ~Account!RowFree(v)
    BY <1>0, <1>1 DEF Account!RowFree
  <2>2. call[c].op = "profile" => Account!RowFree(u)'
    BY <1>0, <1>1 DEF AccountInv, AccountLocks, Account!RowFree
  <2>3. call[c].op = "profile" => ~Account!RowFree(u)
    BY DEF Account!RowFree
  <2>4. \A v \in Users : /\ welcomes'[v] <= requests'
                         /\ ~Account!RowFree(v)' => welcomes'[v] < requests'
    <3> SUFFICES ASSUME NEW v \in Users
                 PROVE  /\ welcomes'[v] <= requests'
                        /\ ~Account!RowFree(v)' => welcomes'[v] < requests'
      OBVIOUS
    <3>1. /\ welcomes[v] <= requests /\ (~Account!RowFree(v) => welcomes[v] < requests)
          /\ welcomes[v] \in Nat /\ requests \in Nat
      BY AccountFacts DEF AccountInv, AccountLocks
    <3>0. requests' = requests
      BY <1>0
    <3>2. CASE welcomes'[v] = welcomes[v]
      <4>1. welcomes'[v] <= requests' /\ (~Account!RowFree(v) => welcomes'[v] < requests')
        BY <3>0, <3>1, <3>2
      <4> QED
        BY <2>1, <4>1
    <3>3. CASE v = u /\ call[c].op = "profile" /\ welcomes'[v] = welcomes[v] + 1
      <4>1. ~Account!RowFree(v) /\ Account!RowFree(v)'
        BY <2>2, <2>3, <3>3
      <4>2. welcomes'[v] <= requests'
        <5>1. welcomes[v] < requests
          BY <3>1, <4>1
        <5> QED
          BY <3>0, <3>1, <3>3, <5>1
      <4> QED
        BY <4>1, <4>2
    <3> QED
      BY <3>2, <3>3
  <2>5. \A d \in Calls : call'[d].op = "profile" => call'[d].read = user'[call'[d].u]
    <3> SUFFICES ASSUME NEW d \in Calls, call'[d].op = "profile"
                 PROVE  call'[d].read = user'[call'[d].u]
      OBVIOUS
    <3>1. d # c /\ call'[d] = call[d] /\ call[d].read = user[call[d].u]
      BY <1>1 DEF AccountInv, AccountLocks
    <3>2. call[d] # Account!NoCall
      BY <1>1, AccountRecords
    <3>3. call[d].u \in Users
      BY <3>2 DEF AccountInv, AccountReads
    <3>4. CASE call[d].u = u
      <4>1. ~Account!RowFree(u) /\ call[c].op # "profile"
        BY <1>1, <3>1, <3>4 DEF Account!RowFree, AccountInv, AccountLocks
      <4> QED
        BY <1>0, <3>1, <3>4, <4>1
    <3> QED
      BY <1>0, <3>1, <3>3, <3>4
  <2> QED
    BY <1>1, <2>4, <2>5 DEF AccountInv, AccountLocks
<1>3. AccountTypes'
  <2>1. lost' \subseteq Keys
    BY <1>0, AccountFacts
  <2>2. welcomes' \in [Users -> 0..AccountRequests] /\ arrivals' \in [Users -> 0..AccountRequests]
    <3>1. \A v \in Users : welcomes'[v] <= requests /\ requests <= AccountRequests /\ arrivals'[v] = welcomes'[v]
      BY <1>0, <1>2, AccountFacts, AccountConstants DEF AccountLocks, Account!WelcomedOnce
    <3>2. \A v \in Users : welcomes'[v] \in 0..AccountRequests /\ arrivals'[v] \in 0..AccountRequests
      BY <3>1, AccountFacts, AccountConstants
    <3> QED
      BY <3>2
  <2> QED
    BY <1>0, <2>1, <2>2, AccountFacts DEF AccountTypes, Account!TypeOK
<1>4. AccountReads'
  BY <1>0, <1>1 DEF AccountInv, AccountReads, Account!Exists
<1>5. AccountImages'
  <2>0. /\ \A v \in Users : v # u => user[v].img = None \/ user[v].img # line.img
        /\ \A d \in Calls : d # c /\ call[d].u # u => call[d].read.img = None \/ line.img # call[d].read.img
        /\ \A d \in Calls : d # c /\ call[d].op = "swap" => line.img # call[d].key
    <3>1. CASE line.img = user[u].img
      BY <3>1 DEF AccountInv, AccountImages
    <3>2. CASE call[c].op = "swap" /\ line.img = call[c].key
      BY <3>2 DEF AccountInv, AccountImages
    <3> QED
      BY <3>1, <3>2
  <2>1. \A v, w \in Users : v # w => user'[v].img = None \/ user'[w].img # user'[v].img
    BY <1>0, <2>0 DEF AccountInv, AccountImages
  <2>2. \A d \in Calls, v \in Users : call'[d].u # v => call'[d].read.img = None
                                                       \/ user'[v].img # call'[d].read.img
    BY <1>0, <2>0, AccountRecords DEF AccountInv, AccountImages
  <2>3. \A d \in Calls : call'[d].op = "swap" => /\ call'[d].key \in stored'
                                                 /\ \A v \in Users : user'[v].img # call'[d].key
                                                 /\ \A e \in Calls : call'[e].read.img # call'[d].key
    <3> SUFFICES ASSUME NEW d \in Calls, call'[d].op = "swap"
                 PROVE  /\ call'[d].key \in stored'
                        /\ \A v \in Users : user'[v].img # call'[d].key
                        /\ \A e \in Calls : call'[e].read.img # call'[d].key
      OBVIOUS
    <3>1. call'[d] = call[d] /\ d # c /\ call[d].key \in stored
      BY <1>1 DEF AccountInv, AccountImages
    <3>2. call[d].key # None
      BY <3>1, AccountFacts, AccountConstants
    <3> QED
      BY <1>0, <2>0, <3>1, <3>2, AccountRecords DEF AccountInv, AccountImages
  <2>4. \A d, e \in Calls : call'[d].op = "swap" /\ call'[e].op = "swap" /\ d # e => call'[d].key # call'[e].key
    BY <1>1 DEF AccountInv, AccountImages
  <2>5. Account!ImageIsThere'
    <3> SUFFICES ASSUME NEW v \in Users
                 PROVE  \/ user'[v].img \in stored' \cup lost' \cup {None}
                        \/ \E d \in Calls : call'[d].op = "swap" /\ user'[v].img = call'[d].read.img
      BY DEF Account!ImageIsThere
    <3>1. \/ user[v].img \in stored \cup lost \cup {None}
          \/ \E d \in Calls : call[d].op = "swap" /\ user[v].img = call[d].read.img
      BY DEF AccountInv, AccountImages, Account!ImageIsThere
    <3>2. lost \subseteq lost'
      OBVIOUS
    <3>3. ASSUME NEW d \in Calls, d # c, call[d].op = "swap", user[v].img = call[d].read.img,
                 user'[v].img = user[v].img
          PROVE  \E e \in Calls : call'[e].op = "swap" /\ user'[v].img = call'[e].read.img
      BY <1>0, <3>3
    <3>4. CASE user'[v].img = user[v].img
      <4>1. CASE call[c].op = "swap" /\ user[v].img = call[c].read.img
        <5>1. CASE v = u
          BY <1>0, <3>4, <4>1, <5>1
        <5>2. CASE v # u
          BY <1>0, <3>4, <4>1, <5>2 DEF AccountInv, AccountImages
        <5> QED
          BY <5>1, <5>2
      <4> QED
        BY <1>0, <3>1, <3>2, <3>3, <3>4, <4>1
    <3>5. CASE user'[v].img # user[v].img
      BY <1>0, <3>5 DEF AccountInv, AccountImages
    <3> QED
      BY <3>4, <3>5
  <2> QED
    BY <2>1, <2>2, <2>3, <2>4, <2>5 DEF AccountImages
<1> QED
  BY <1>2, <1>3, <1>4, <1>5 DEF AccountInv

LEMMA AccountKeeps ==
  ASSUME AccountInv, [Account!Next]_Account!vars
  PROVE  AccountInv'
<1>0. /\ \A u \in Users : user[u] \in Account!Rows \cup {Account!NoRow} /\ user[u] \in Account!ReadRows
      /\ \A line \in Account!Rows \cup {Account!NoRow} : line # Account!NoRow => line \in Account!Rows
      /\ \A f : f \in [Users -> 0..AccountRequests] => f \in [Users -> Nat]
  BY AccountFacts, AccountRecords, AccountConstants
<1>1. CASE UNCHANGED Account!vars
  BY <1>1
     DEF Account!vars, AccountInv, AccountTypes, Account!TypeOK, Account!WelcomedOnce, AccountReads,
         Account!Exists, AccountLocks, Account!RowFree,
         AccountImages, Account!ImageIsThere
<1>2. ASSUME NEW c \in Calls, NEW u \in Users, NEW p \in Phones, Account!RegisterWithPhone(c, u, p)
      PROVE  AccountInv'
  <2> DEFINE r == [Account!NoCall EXCEPT !.op = "register", !.u = u, !.read = [user[u] EXCEPT !.phone = p]]
  <2>1. [user[u] EXCEPT !.phone = p] \in Account!ReadRows /\ [user[u] EXCEPT !.phone = p].auth = user[u].auth
        /\ [user[u] EXCEPT !.phone = p].img = user[u].img
    BY <1>0 DEF Account!ReadRows
  <2>2. r \in Account!CallRecords /\ r.u = u /\ r.op = "register" /\ r.read = [user[u] EXCEPT !.phone = p]
    BY <2>1 DEF Account!NoCall, Account!CallRecords
  <2>3. Account!Begin(c, r)
    BY <1>2 DEF Account!RegisterWithPhone
  <2> QED
    BY <2>1, <2>2, <2>3, AccountBegins
<1>3. ASSUME NEW c \in Calls, NEW u \in Users,
             Account!GetByIDForUpdateTx(c, u) \/ Account!SubmitCertification(c, u) \/ Account!BeginReview(c, u)
      PROVE  AccountInv'
  <2>1. PICK op \in {"profile", "submit", "review"} :
          /\ Account!Exists(u)
          /\ op = "profile" => Account!RowFree(u)
          /\ Account!Begin(c, [Account!NoCall EXCEPT !.op = op, !.u = u, !.read = user[u]])
    BY <1>3 DEF Account!GetByIDForUpdateTx, Account!SubmitCertification, Account!BeginReview
  <2> DEFINE r == [Account!NoCall EXCEPT !.op = op, !.u = u, !.read = user[u]]
  <2>2. r \in Account!CallRecords /\ r.u = u /\ r.op = op /\ r.read = user[u]
    BY <1>0 DEF Account!NoCall, Account!CallRecords
  <2> QED
    BY <2>1, <2>2, AccountBegins
<1>4. ASSUME NEW c \in Calls, NEW line \in Account!Rows, call[c] # Account!NoCall,
             Account!Write(call[c].u, line), Account!Done(c),
             UNCHANGED <<stored, lost>>,
             \/ call[c].op # "swap" /\ line.img = user[call[c].u].img
             \/ call[c].op = "swap" /\ line.img = call[c].key
      PROVE  AccountInv'
  <2> DEFINE u == call[c].u
  <2>1. u \in Users
    BY <1>4 DEF AccountInv, AccountReads
  <2>2. /\ Account!RowFree(u) /\ user' = [user EXCEPT ![u] = line] /\ UNCHANGED <<welcomes, arrivals, stored, lost>>
        /\ line # Account!NoRow /\ line \in Account!Rows \cup {Account!NoRow}
    BY <1>4, AccountRecords DEF Account!Write
  <2>3. Account!WelcomedOnce' /\ arrivals' \in [Users -> Nat] /\ welcomes' \in [Users -> Nat]
    BY <1>0, <2>2, AccountFacts DEF Account!WelcomedOnce
  <2>4. call[c].op = "swap" => line.img # user[u].img
    BY <1>4, <2>1 DEF AccountInv, AccountImages
  <2> QED
    BY <1>4, <2>1, <2>2, <2>3, <2>4, AccountEnds
<1>5. ASSUME NEW c \in Calls, Account!CreateWithPhone(c) \/ Account!UpdatePhone(c) PROVE AccountInv'
  <2>0. call[c].op = "register" /\ Account!Done(c) /\ UNCHANGED <<stored, lost>> /\ call[c] # Account!NoCall
    BY <1>5, AccountRecords DEF Account!CreateWithPhone, Account!UpdatePhone
  <2>1. call[c].u \in Users /\ call[c].read.phone \in Phones \cup {None}
    BY <2>0, AccountFacts DEF AccountInv, AccountReads, Account!ReadRows
  <2>2. CASE Account!CreateWithPhone(c)
    <3>1. user[call[c].u].img = None /\ Account!Write(call[c].u, [Account!NewRow EXCEPT !.phone = call[c].read.phone])
      BY <2>1, <2>2, AccountRecords DEF Account!CreateWithPhone, Account!Exists
    <3>2. /\ [Account!NewRow EXCEPT !.phone = call[c].read.phone] \in Account!Rows
          /\ [Account!NewRow EXCEPT !.phone = call[c].read.phone].img = None
      BY <2>1, AccountRecords DEF Account!NewRow
    <3> QED
      BY <1>4, <2>0, <3>1, <3>2
  <2>3. CASE Account!UpdatePhone(c)
    <3>1. Account!Exists(call[c].u) /\ Account!Write(call[c].u, [user[call[c].u] EXCEPT !.phone = call[c].read.phone])
      BY <2>0, <2>3 DEF Account!UpdatePhone, AccountInv, AccountReads
    <3>2. user[call[c].u] \in Account!Rows
      BY <1>0, <2>1, <3>1 DEF Account!Exists
    <3>3. /\ [user[call[c].u] EXCEPT !.phone = call[c].read.phone] \in Account!Rows
          /\ [user[call[c].u] EXCEPT !.phone = call[c].read.phone].img = user[call[c].u].img
      BY <2>1, <3>2, AccountRecords DEF Account!Rows, Account!ReadRows
    <3> QED
      BY <1>4, <2>0, <3>1, <3>3
  <2> QED
    BY <1>5, <2>2, <2>3
<1>6. ASSUME NEW c \in Calls, Account!UpdateCurrentUser(c) PROVE AccountInv'
  <2> DEFINE u == call[c].u
             old == call[c].read
  <2>0. /\ call[c].op = "profile" /\ Account!Done(c) /\ UNCHANGED <<stored, lost>> /\ call[c] # Account!NoCall
        /\ u \in Users /\ old = user[u] /\ user[u] \in Account!Rows
    BY SMTT(30), <1>0, <1>6, AccountRecords
       DEF Account!UpdateCurrentUser, AccountInv, AccountReads, AccountLocks, Account!Exists
  <2>1. PICK p \in Phones \cup {None}, e \in Emails \cup {None}, s \in {old.school} \cup Schools :
          /\ user' = [user EXCEPT ![u] = [old EXCEPT !.phone = p, !.email = e, !.school = s, !.img = @]]
          /\ welcomes' = IF e \notin {None, old.email} THEN [welcomes EXCEPT ![u] = @ + 1] ELSE welcomes
          /\ arrivals' = IF e \notin {None, user[u].email} THEN [arrivals EXCEPT ![u] = @ + 1] ELSE arrivals
    BY <1>6 DEF Account!UpdateCurrentUser
  <2> DEFINE line == [old EXCEPT !.phone = p, !.email = e, !.school = s, !.img = @]
  <2>2. line \in Account!Rows /\ line.img = user[u].img /\ line # Account!NoRow
    <3>1. /\ old.auth \in Account!AuthStatuses /\ old.auth # "absent" /\ old.img = user[u].img /\ old \in Account!ReadRows
          /\ s \in Schools \cup {None}
      BY <2>0, AccountRecords DEF Account!Rows, Account!ReadRows
    <3>2. line \in Account!ReadRows /\ line.auth = old.auth /\ line.img = old.img
      BY <3>1 DEF Account!ReadRows
    <3> HIDE DEF line
    <3> QED
      BY <3>1, <3>2, AccountRecords DEF Account!Rows
  <2>3. /\ Account!WelcomedOnce' /\ arrivals' \in [Users -> Nat] /\ welcomes' \in [Users -> Nat]
        /\ \A v \in Users : welcomes'[v] = welcomes[v] \/ (v = u /\ welcomes'[v] = welcomes[v] + 1)
    BY <1>0, <2>0, <2>1, AccountFacts DEF Account!WelcomedOnce
  <2>4. u = call[c].u /\ user' = [user EXCEPT ![u] = line]
    BY <2>1
  <2> HIDE DEF u, line
  <2> QED
    BY <2>0, <2>2, <2>3, <2>4, AccountEnds
<1>7. ASSUME NEW c \in Calls, NEW k \in Keys, NEW deleted \in BOOLEAN,
             Account!UploadFile(c, k, deleted)
      PROVE  AccountInv'
  <2>0. /\ call[c].op = "submit" /\ k \notin stored \cup lost /\ \A u \in Users : user[u].img # k
        /\ \A d \in Calls : k # call[d].key /\ k # call[d].read.img
        /\ stored \ {call[c].read.img} \subseteq stored' /\ k \in stored' /\ stored' \subseteq stored \cup {k}
        /\ call' = [call EXCEPT ![c].op = "swap", ![c].key = k]
        /\ UNCHANGED <<user, welcomes, scope, arrivals, lost, requests>>
    BY <1>7 DEF Account!UploadFile, Account!OldKey
  <2>1. /\ call'[c] = [call[c] EXCEPT !.op = "swap", !.key = k] /\ call'[c] \in Account!CallRecords
        /\ call'[c].op = "swap" /\ call'[c].key = k
        /\ \A d \in Calls : d # c => call'[d] = call[d]
        /\ \A d \in Calls : call'[d].u = call[d].u /\ call'[d].read = call[d].read
        /\ call' \in [Calls -> Account!CallRecords]
    BY <2>0, AccountFacts DEF Account!CallRecords
  <2>2. AccountTypes'
    BY <2>0, <2>1, AccountFacts DEF AccountTypes, Account!TypeOK, Account!WelcomedOnce
  <2>3. AccountReads'
    <3>1. call[c] # Account!NoCall
      BY <2>0, AccountRecords
    <3>2. call[c].u \in Users /\ Account!Exists(call[c].u)
      BY <2>0, <3>1 DEF AccountInv, AccountReads
    <3> QED
      BY <2>0, <2>1, <3>2 DEF AccountInv, AccountReads, Account!Exists
  <2>4. AccountLocks'
    <3>1. \A d \in Calls : call'[d].op = "profile" => d # c /\ call'[d] = call[d]
      BY <2>1
    <3>2. \A u \in Users : ~Account!RowFree(u)' => ~Account!RowFree(u)
      BY <3>1 DEF Account!RowFree
    <3>3. \A d \in Calls : call'[d].op = "profile" => call'[d].read = user'[call'[d].u]
      BY <2>0, <3>1 DEF AccountInv, AccountLocks
    <3>4. \A d, e \in Calls : call'[d].op = "profile" /\ call'[e].op = "profile" /\ call'[d].u = call'[e].u
                                => d = e
      BY <3>1 DEF AccountInv, AccountLocks
    <3>5. \A v \in Users : welcomes'[v] <= requests' /\ (~Account!RowFree(v)' => welcomes'[v] < requests')
      BY <2>0, <3>2 DEF AccountInv, AccountLocks
    <3> QED
      BY <3>3, <3>4, <3>5 DEF AccountLocks
  <2>5. AccountImages'
    <3>1. \A d \in Calls : call'[d].op = "swap" /\ d # c =>
            /\ call[d].op = "swap" /\ call'[d].key = call[d].key
            /\ call[d].key \in stored'
      BY <2>0, <2>1 DEF AccountInv, AccountImages
    <3>2. Account!ImageIsThere'
      <4> SUFFICES ASSUME NEW v \in Users
                   PROVE  \/ user'[v].img \in stored' \cup lost' \cup {None}
                          \/ \E d \in Calls : call'[d].op = "swap" /\ user'[v].img = call'[d].read.img
        BY DEF Account!ImageIsThere
      <4>1. \/ user[v].img \in stored \cup lost \cup {None}
            \/ \E d \in Calls : call[d].op = "swap" /\ user[v].img = call[d].read.img
        BY DEF AccountInv, AccountImages, Account!ImageIsThere
      <4> QED
        BY <2>0, <2>1, <4>1
    <3>3. \A d \in Calls : call'[d].op = "swap" => /\ call'[d].key \in stored'
                                                   /\ \A v \in Users : user'[v].img # call'[d].key
                                                   /\ \A e \in Calls : call'[e].read.img # call'[d].key
      BY <2>0, <2>1, <3>1 DEF AccountInv, AccountImages
    <3>4. \A d, e \in Calls : call'[d].op = "swap" /\ call'[e].op = "swap" /\ d # e => call'[d].key # call'[e].key
      BY <2>0, <2>1, <3>1 DEF AccountInv, AccountImages
    <3> QED
      BY <2>0, <2>1, <3>2, <3>3, <3>4 DEF AccountInv, AccountImages
  <2> QED
    BY <2>2, <2>3, <2>4, <2>5 DEF AccountInv
<1>8. ASSUME NEW c \in Calls, Account!ResubmitCertification(c) PROVE AccountInv'
  <2> DEFINE line == [user[call[c].u] EXCEPT !.img = call[c].key, !.auth = IF @ = "failed" THEN "none" ELSE @]
  <2>0. /\ call[c].op = "swap" /\ Account!Done(c) /\ UNCHANGED <<stored, lost>> /\ call[c] # Account!NoCall
        /\ Account!Write(call[c].u, line)
    BY <1>8, AccountRecords DEF Account!ResubmitCertification
  <2>1. call[c].u \in Users /\ user[call[c].u] \in Account!Rows /\ call[c].key \in Keys
    BY <1>0, <2>0, AccountFacts DEF AccountInv, AccountReads, Account!Exists, AccountImages
  <2>2. line \in Account!Rows /\ line.img = call[c].key
    BY <2>1 DEF Account!Rows, Account!ReadRows, Account!AuthStatuses
  <2> QED
    BY <1>4, <2>0, <2>2
<1>9. ASSUME NEW c \in Calls, NEW verdict \in {"passed", "failed"},
             Account!ReviewUserAuth(c, verdict)
      PROVE  AccountInv'
  <2> DEFINE line == [user[call[c].u] EXCEPT !.auth = verdict]
  <2>0. /\ call[c].op = "review" /\ Account!Done(c) /\ UNCHANGED <<stored, lost>> /\ call[c] # Account!NoCall
        /\ Account!Write(call[c].u, line)
    BY <1>9, AccountRecords DEF Account!ReviewUserAuth
  <2>1. call[c].u \in Users /\ user[call[c].u] \in Account!Rows
    BY <1>0, <2>0 DEF AccountInv, AccountReads, Account!Exists
  <2>2. line \in Account!Rows /\ line.img = user[call[c].u].img
    BY <2>1 DEF Account!Rows, Account!ReadRows, Account!AuthStatuses
  <2> QED
    BY <1>4, <2>0, <2>2
<1>10. ASSUME NEW c \in Calls, Account!CallFails(c) PROVE AccountInv'
  <2>0. /\ call[c] # Account!NoCall /\ Account!Done(c) /\ UNCHANGED <<user, stored, welcomes, arrivals>>
        /\ lost' = lost \cup (IF call[c].op = "swap" THEN {call[c].read.img} \ (stored \cup {None}) ELSE {})
    BY <1>10 DEF Account!CallFails, Account!OldKey
  <2> DEFINE u == call[c].u
             line == user[u]
  <2>1. u \in Users /\ line \in Account!Rows \cup {Account!NoRow} /\ user' = [user EXCEPT ![u] = line] /\ u = call[c].u
    BY <1>0, <2>0, AccountFacts DEF AccountInv, AccountReads
  <2>2. \/ call[c].op # "swap" /\ UNCHANGED lost
        \/ lost' = lost \cup ({call[c].read.img} \ (stored \cup {None}))
    BY <2>0
  <2>3. Account!WelcomedOnce' /\ arrivals' \in [Users -> Nat] /\ welcomes' \in [Users -> Nat]
    BY <1>0, <2>0, AccountFacts DEF Account!WelcomedOnce
  <2>4. line = user[u]
    OBVIOUS
  <2> HIDE DEF u, line
  <2> QED
    BY <2>0, <2>1, <2>2, <2>3, <2>4, AccountEnds
<1>11. ASSUME NEW S \in SUBSET Schools, Account!ScopeChanges(S) PROVE AccountInv'
  <2>1. /\ requests' = requests + 1 /\ requests' \in 0..AccountRequests
        /\ scope' \in [{Dean, Clerk} -> SUBSET Schools]
        /\ UNCHANGED <<user, stored, welcomes, call, arrivals, lost>>
    BY <1>11, AccountFacts, AccountConstants DEF Account!ScopeChanges
  <2>2. \A u \in Users : welcomes[u] <= requests => welcomes[u] < requests'
    BY <2>1, AccountFacts
  <2>3. AccountTypes'
    BY <2>1 DEF AccountInv, AccountTypes, Account!TypeOK, Account!WelcomedOnce
  <2>4. AccountLocks'
    BY <2>1, <2>2, AccountFacts DEF AccountInv, AccountLocks, Account!RowFree
  <2>5. AccountReads' /\ AccountImages'
    BY <2>1 DEF AccountInv, AccountReads, Account!Exists, AccountImages, Account!ImageIsThere
  <2> QED
    BY <2>3, <2>4, <2>5 DEF AccountInv
<1> QED
  BY <1>1, <1>2, <1>3, <1>5, <1>6, <1>7, <1>8, <1>9, <1>10, <1>11 DEF Account!Next

LEMMA AccountProperties ==
  ASSUME AccountInv
  PROVE  Account!TypeOK /\ Account!ListedIsAdmitted /\ Account!WelcomedOnce /\ Account!ImageIsThere
<1>1. \A u \in Users : Account!Exists(u) => user[u].school \in Schools \cup {None}
  BY AccountFacts, AccountRecords DEF Account!Exists, Account!ReadRows
<1>2. Account!ListedIsAdmitted
  BY SMTT(30), <1>1, AccountConstants
     DEF Account!ListedIsAdmitted, Account!ListUsers, Account!requireUserSchoolAccess,
         Account!adminSchoolIDs
<1> QED
  BY <1>2 DEF AccountInv, AccountTypes, AccountImages

LEMMA AccountSteps ==
  ASSUME AccountInv, [Account!Next]_Account!vars
  PROVE  Account!VerdictStandsStep
<1> SUFFICES ASSUME NEW u \in Users, user[u].auth \in {"passed", "failed"},
                    user'[u].auth # user[u].auth
             PROVE  \E c \in Calls : call[c].u = u /\ call[c].op \in {"review", "swap"} /\ call'[c] = Account!NoCall
  BY DEF Account!VerdictStandsStep
<1>0. /\ user \in [Users -> Account!Rows \cup {Account!NoRow}] /\ call \in [Calls -> Account!CallRecords]
      /\ user[u] \in Account!Rows
  BY AccountFacts, AccountRecords
<1>1. ASSUME NEW c \in Calls, Account!CreateWithPhone(c) \/ Account!UpdatePhone(c)
      PROVE  user'[u].auth = user[u].auth
  <2>1. CASE Account!CreateWithPhone(c)
    BY <1>0, <2>1, AccountRecords DEF Account!CreateWithPhone, Account!Exists, Account!Write
  <2>2. CASE Account!UpdatePhone(c)
    BY <1>0, <2>2 DEF Account!UpdatePhone, Account!Write, Account!Rows, Account!ReadRows
  <2> QED
    BY <1>1, <2>1, <2>2
<1>2. ASSUME NEW c \in Calls, Account!UpdateCurrentUser(c) PROVE user'[u].auth = user[u].auth
  <2>1. call[c].op = "profile" /\ call[c].read = user[call[c].u]
    BY <1>2 DEF Account!UpdateCurrentUser, AccountInv, AccountLocks
  <2>2. PICK p \in Phones \cup {None}, e \in Emails \cup {None}, s \in {call[c].read.school} \cup Schools :
          user' = [user EXCEPT ![call[c].u] =
                     [call[c].read EXCEPT !.phone = p, !.email = e, !.school = s, !.img = @]]
    BY <1>2 DEF Account!UpdateCurrentUser
  <2> QED
    BY <1>0, <2>1, <2>2 DEF Account!Rows, Account!ReadRows
<1>3. ASSUME NEW c \in Calls,
             Account!ResubmitCertification(c) \/ \E verdict \in {"passed", "failed"} : Account!ReviewUserAuth(c, verdict)
      PROVE  call[c].op \in {"swap", "review"} /\ call[c].u = u /\ call'[c] = Account!NoCall
  <2>1. /\ \E line : user' = [user EXCEPT ![call[c].u] = line]
        /\ call[c].op \in {"swap", "review"} /\ call' = [call EXCEPT ![c] = Account!NoCall]
    BY <1>3 DEF Account!ResubmitCertification, Account!ReviewUserAuth, Account!Write, Account!Done
  <2> QED
    BY <1>0, <2>1
<1> QED
  BY <1>1, <1>2, <1>3
     DEF Account!Next, Account!vars, Account!RegisterWithPhone, Account!GetByIDForUpdateTx,
         Account!SubmitCertification, Account!BeginReview, Account!Begin, Account!UploadFile,
         Account!CallFails, Account!ScopeChanges

-----------------------------------------------------------------------------
(* Welcome emails.                                                         *)
(*                                                                         *)
(* A sender lives for the half minute it began in and the next one, and    *)
(* its row was touched when it began; a recovery claims what was not       *)
(* touched for longer than that.                                           *)

WelcomeInv ==
  /\ Welcome!TypeOK
  /\ Welcome!OneSender
  /\ \A s \in senders : s.began + 1 >= now /\ touched[s.d] >= s.began /\ status[s.d] # "none"
  /\ \A p \in Calls : recovery[p].todo # {} => recovery[p].before + 2 <= now

LEMMA WelcomeStarts == Welcome!Init => WelcomeInv
<1> SUFFICES ASSUME Welcome!Init PROVE WelcomeInv
  OBVIOUS
<1>1. recovery \in [Calls -> [todo : SUBSET Deliveries, before : 0..WelcomeTime]]
  BY WelcomeConstants DEF Welcome!Init, Welcome!Idle
<1>2. touched \in [Deliveries -> 0..WelcomeTime] /\ now \in 0..WelcomeTime
  BY WelcomeConstants DEF Welcome!Init
<1> QED
  BY <1>1, <1>2 DEF Welcome!Init, WelcomeInv, Welcome!TypeOK, Welcome!OneSender, Welcome!Idle

LEMMA WelcomeSenderFits ==
  ASSUME WelcomeInv, NEW d \in Deliveries, NEW p \in Calls
  PROVE  /\ Welcome!Sender(d, p) \in Welcome!Senders
         /\ Welcome!Sender(d, p).d = d /\ Welcome!Sender(d, p).began = now
  BY DEF WelcomeInv, Welcome!TypeOK, Welcome!Sender, Welcome!Senders

LEMMA WelcomeSendKeepsWelcome ==
  ASSUME WelcomeInv, NEW s \in senders, Welcome!SendWelcomeEmail(s)
  PROVE  WelcomeInv'
<1> USE DEF WelcomeInv, Welcome!TypeOK
<1>1. PICK t : /\ t \in {[s EXCEPT !.answer = "yes"], [s EXCEPT !.answer = "no"]}
               /\ senders' = (senders \ {s}) \cup {t}
  BY DEF Welcome!SendWelcomeEmail
<1>2. t \in Welcome!Senders /\ t.d = s.d /\ t.began = s.began
  BY <1>1 DEF Welcome!Senders
<1>3. UNCHANGED <<status, touched, recovery, now>> /\ accepted' \subseteq Deliveries
  BY DEF Welcome!SendWelcomeEmail, Welcome!Senders
<1>4. Welcome!OneSender'
  BY <1>1, <1>2 DEF Welcome!OneSender
<1> QED
  BY <1>1, <1>2, <1>3, <1>4

LEMMA WelcomeKeeps ==
  ASSUME WelcomeInv, [Welcome!Next]_Welcome!vars
  PROVE  WelcomeInv'
<1> USE WelcomeConstants DEF WelcomeInv, Welcome!TypeOK
<1>1. CASE UNCHANGED Welcome!vars
  BY <1>1 DEF Welcome!vars, Welcome!OneSender
<1>2. ASSUME NEW d \in Deliveries, NEW p \in Calls, Welcome!QueueDelivery(d, p) PROVE WelcomeInv'
  <2>1. \A s \in senders' : (s \in senders /\ s.d # d) \/ s = Welcome!Sender(d, p)
    BY <1>2 DEF Welcome!QueueDelivery
  <2>2. senders' \subseteq Welcome!Senders
    BY <2>1, WelcomeSenderFits
  <2>3. /\ status' = [status EXCEPT ![d] = "pending"] /\ touched' = [touched EXCEPT ![d] = now]
        /\ UNCHANGED <<recovery, accepted, now>>
    BY <1>2 DEF Welcome!QueueDelivery
  <2>4. Welcome!OneSender'
    BY <2>1, WelcomeSenderFits DEF Welcome!OneSender
  <2>5. \A s \in senders' : s.began + 1 >= now /\ touched'[s.d] >= s.began /\ status'[s.d] # "none"
    <3> SUFFICES ASSUME NEW s \in senders'
                 PROVE  s.began + 1 >= now /\ touched'[s.d] >= s.began /\ status'[s.d] # "none"
      OBVIOUS
    <3>1. s.d \in Deliveries
      BY <2>2 DEF Welcome!Senders
    <3> QED
      BY <2>1, <2>3, <3>1, WelcomeSenderFits
  <2> QED
    BY <2>2, <2>3, <2>4, <2>5
<1>3. ASSUME NEW d \in Deliveries, NEW p \in Calls, Welcome!ClaimPending(d, p) PROVE WelcomeInv'
  <2>1. /\ recovery' = [recovery EXCEPT ![p].todo = @ \ {d}]
        /\ recovery[p].before + 2 <= now
        /\ UNCHANGED <<status, accepted, now>>
    BY <1>3 DEF Welcome!ClaimPending
  <2>2. /\ recovery' \in [Calls -> [todo : SUBSET Deliveries, before : 0..WelcomeTime]]
        /\ \A q \in Calls : recovery'[q].todo # {} => recovery'[q].before + 2 <= now
    BY <2>1
  <2>3. CASE UNCHANGED <<touched, senders>>
    BY <2>1, <2>2, <2>3 DEF Welcome!OneSender
  <2>4. CASE /\ Welcome!Stale(d, p)
             /\ touched' = [touched EXCEPT ![d] = now] /\ senders' = senders \cup {Welcome!Sender(d, p)}
    <3>1. \A s \in senders : s.d # d
      BY <2>1, <2>4 DEF Welcome!Stale, Welcome!Senders
    <3>2. senders' \subseteq Welcome!Senders
      BY <2>4, WelcomeSenderFits
    <3>3. Welcome!OneSender'
      BY <2>4, <3>1, WelcomeSenderFits DEF Welcome!OneSender
    <3>4. \A s \in senders' : s.began + 1 >= now /\ touched'[s.d] >= s.began /\ status'[s.d] # "none"
      BY <2>1, <2>4, <3>1, WelcomeSenderFits DEF Welcome!Stale, Welcome!Senders
    <3> QED
      BY <2>1, <2>2, <2>4, <3>2, <3>3, <3>4
  <2> QED
    BY <1>3, <2>3, <2>4 DEF Welcome!ClaimPending
<1>4. ASSUME NEW s \in senders, Welcome!Mark(s) PROVE WelcomeInv'
  <2>1. /\ senders' = senders \ {s} /\ UNCHANGED <<recovery, accepted, now>>
        /\ s.d \in Deliveries /\ s.answer \in {"yes", "no"}
    BY <1>4 DEF Welcome!Mark, Welcome!Senders
  <2>2. \A t \in senders' : t.d # s.d
    BY <2>1 DEF Welcome!OneSender
  <2>3. CASE UNCHANGED <<status, touched>>
    BY <2>1, <2>3 DEF Welcome!OneSender
  <2>4. CASE /\ status' = [status EXCEPT ![s.d] = IF s.answer = "yes" THEN "sent" ELSE "failed"]
             /\ touched' = [touched EXCEPT ![s.d] = now]
    BY <2>1, <2>2, <2>4 DEF Welcome!OneSender, Welcome!Senders
  <2> QED
    BY <1>4, <2>3, <2>4 DEF Welcome!Mark
<1>5. ASSUME NEW p \in Calls, Welcome!ListPendingBefore(p) PROVE WelcomeInv'
  <2>1. now - 2 \in 0..WelcomeTime /\ now - 2 + 2 <= now
    BY <1>5 DEF Welcome!ListPendingBefore
  <2> QED
    BY <1>5, <2>1 DEF Welcome!ListPendingBefore, Welcome!OneSender
<1>6. ASSUME NEW p \in Calls, Welcome!Crash(p) PROVE WelcomeInv'
  BY <1>6 DEF Welcome!Crash, Welcome!OneSender, Welcome!Idle
<1>7. CASE Welcome!Tick
  BY <1>7 DEF Welcome!Tick, Welcome!OneSender, Welcome!Senders
<1> QED
  BY <1>1, <1>2, <1>3, <1>4, <1>5, <1>6, <1>7, WelcomeSendKeepsWelcome DEF Welcome!Next

LEMMA WelcomeProperties ==
  ASSUME WelcomeInv
  PROVE  Welcome!TypeOK /\ Welcome!OneSender
  BY DEF WelcomeInv

-----------------------------------------------------------------------------
(* Talent cards.                                                           *)
(*                                                                         *)
(* A card that waits for its review was submitted since it was last hidden *)
(* or refused, and a verdict that puts a card online was decided on a      *)
(* reading that waited for it: when it finds what it read, the card is     *)
(* still wanted, whatever happened in between.                             *)

\* A card that waits, or is online, is wanted; the verdict "online" was given
\* to a card that waited; hiding a card writes "private".
TalentInv ==
  /\ TalentM!TypeOK
  /\ \A u \in Users : card[u] \in {"reviewing", "online"} => wanted[u]
  /\ archived = entries
  /\ \A c \in Calls :
       LET r == call[c]
       IN /\ r.op # "idle" => r.u \in Users
          /\ r.op = "hide" => r.as = "private"
          /\ r.op = "review" => \/ r.as = "private"
                                \/ r.as = "online" /\ r.read = "reviewing"

LEMMA TalentBeginKeepsInv ==
  ASSUME TalentInv, NEW c \in Calls, NEW r \in TalentM!CallRecords, TalentM!Begin(c, r),
         r.u \in Users,
         r.op = "hide" => r.as = "private",
         r.op = "review" => r.as = "private" \/ (r.as = "online" /\ r.read = "reviewing")
  PROVE  TalentInv'
  BY DEF TalentInv, TalentM!TypeOK, TalentM!Begin, TalentM!Take

LEMMA TalentOwnerKeepsInv ==
  ASSUME TalentInv, NEW c \in Calls, NEW u \in Users,
         NEW requested \in TalentM!Statuses \cup {"none"},
         TalentM!UpsertTalentProfile(c, u, requested) \/ TalentM!SetTalentProfilePrivate(c, u, requested)
  PROVE  TalentInv'
<1>0. card[u] \in TalentM!Cards
  BY DEF TalentInv, TalentM!TypeOK
<1>1. CASE TalentM!UpsertTalentProfile(c, u, requested)
  BY <1>0, <1>1, TalentBeginKeepsInv DEF TalentM!UpsertTalentProfile, TalentM!CallRecords
<1>2. CASE TalentM!SetTalentProfilePrivate(c, u, requested)
  BY <1>0, <1>2, TalentBeginKeepsInv
     DEF TalentM!SetTalentProfilePrivate, TalentM!CallRecords, TalentM!Statuses
<1> QED
  BY <1>1, <1>2

LEMMA TalentAdminKeepsInv ==
  ASSUME TalentInv, NEW c \in Calls, NEW u \in Users, NEW by \in TalentM!Staff,
         NEW verdict \in {"online", "private"},
         TalentM!TakedownTalentProfile(c, by, u) \/ TalentM!ReviewTalentProfile(c, by, u, verdict)
  PROVE  TalentInv'
<1>0. card[u] \in TalentM!Cards
  BY DEF TalentInv, TalentM!TypeOK
<1>1. CASE TalentM!TakedownTalentProfile(c, by, u)
  BY <1>0, <1>1, TalentBeginKeepsInv
     DEF TalentM!TakedownTalentProfile, TalentM!Judge, TalentM!CallRecords, TalentM!Statuses
<1>2. CASE TalentM!ReviewTalentProfile(c, by, u, verdict)
  BY <1>0, <1>2, TalentBeginKeepsInv
     DEF TalentM!ReviewTalentProfile, TalentM!Judge, TalentM!CallRecords, TalentM!Statuses
<1> QED
  BY <1>1, <1>2

LEMMA TalentWritesKeepInv ==
  ASSUME TalentInv, NEW c \in Calls,
         TalentM!upsertTalentProfileTx(c) \/ TalentM!updateTalentStatusIfCurrent(c) \/ TalentM!CallFails(c)
  PROVE  TalentInv'
<1> DEFINE r == call[c]
           u == r.u
<1>0. /\ TalentM!NoCall \in TalentM!CallRecords /\ TalentM!NoCall.op = "idle"
      /\ r \in TalentM!CallRecords
  BY DEF TalentInv, TalentM!TypeOK, TalentM!NoCall, TalentM!CallRecords, TalentM!Cards
<1>1. CASE TalentM!CallFails(c)
  BY <1>0, <1>1 DEF TalentM!CallFails, TalentM!Done, TalentInv, TalentM!TypeOK
<1>2. CASE TalentM!upsertTalentProfileTx(c)
  <2>1. u \in Users
    BY <1>2 DEF TalentM!upsertTalentProfileTx, TalentInv
  <2>2. TalentM!resolveUpsertStatus(r.as, r.read) \in {"private", "reviewing"}
    BY DEF TalentM!resolveUpsertStatus
  <2> DEFINE new == TalentM!resolveUpsertStatus(r.as, r.read)
  <2>3. /\ card' = [card EXCEPT ![u] = new]
        /\ wanted' = [wanted EXCEPT ![u] = new = "reviewing"]
        /\ archived' = IF new = "reviewing" /\ card[u] # "reviewing"
                       THEN [archived EXCEPT ![u] = @ + 1] ELSE archived
        /\ entries' = IF new = "reviewing" /\ card[u] # "reviewing"
                      THEN [entries EXCEPT ![u] = @ + 1] ELSE entries
        /\ TalentM!Done(c)
    BY <1>2 DEF TalentM!upsertTalentProfileTx, TalentM!WasReviewing
  <2> HIDE DEF u, new
  <2>4. card' \in [Users -> TalentM!Cards] /\ wanted' \in [Users -> BOOLEAN]
    BY <2>1, <2>2, <2>3 DEF TalentInv, TalentM!TypeOK, TalentM!Cards, TalentM!Statuses, new
  <2>5. \A v \in Users : card'[v] \in {"reviewing", "online"} => wanted'[v]
    BY <2>1, <2>2, <2>3 DEF TalentInv, TalentM!TypeOK, new
  <2>6. archived' \in [Users -> Nat] /\ archived' = entries'
    BY <2>1, <2>3 DEF TalentInv, TalentM!TypeOK
  <2> QED
    BY <1>0, <2>3, <2>4, <2>5, <2>6 DEF TalentM!Done, TalentInv, TalentM!TypeOK
<1>3. CASE TalentM!updateTalentStatusIfCurrent(c)
  <2>1. /\ u \in Users
        /\ \/ r.as = "private"
           \/ r.as = "online" /\ card[u] = "reviewing"
    BY <1>3 DEF TalentM!updateTalentStatusIfCurrent, TalentM!IfCurrent, TalentInv
  <2>2. /\ card' = [card EXCEPT ![u] = r.as]
        /\ wanted' = [wanted EXCEPT ![u] = @ /\ r.as = "online"]
        /\ UNCHANGED <<archived, entries>> /\ TalentM!Done(c)
    BY <1>3 DEF TalentM!updateTalentStatusIfCurrent
  <2> HIDE DEF u
  <2>3. card' \in [Users -> TalentM!Cards] /\ wanted' \in [Users -> BOOLEAN]
    BY <2>1, <2>2 DEF TalentInv, TalentM!TypeOK, TalentM!Cards, TalentM!Statuses
  <2>4. \A v \in Users : card'[v] \in {"reviewing", "online"} => wanted'[v]
    BY <2>1, <2>2 DEF TalentInv, TalentM!TypeOK
  <2> QED
    BY <1>0, <2>2, <2>3, <2>4 DEF TalentM!Done, TalentInv, TalentM!TypeOK
<1> QED
  BY <1>1, <1>2, <1>3

LEMMA TalentStarts == TalentM!Init => TalentInv
  BY DEF TalentM!Init, TalentInv, TalentM!TypeOK, TalentM!Cards, TalentM!Statuses, TalentM!NoCall,
         TalentM!CallRecords

\* Whoever writes, the invariant of the cards is kept.
LEMMA TalentKeeps == TalentInv /\ [TalentM!Next]_TalentM!vars => TalentInv'
<1> SUFFICES ASSUME TalentInv, [TalentM!Next]_TalentM!vars PROVE TalentInv'
  OBVIOUS
<1>1. CASE UNCHANGED TalentM!vars
  BY <1>1 DEF TalentM!vars, TalentInv, TalentM!TypeOK
<1>2. ASSUME NEW u \in Users, NEW s \in Schools, TalentM!EnsureReviewingTalentProfileTx(u, s)
      PROVE  TalentInv'
  <2>1. /\ school' \in [Users -> Schools \cup {None}] /\ requests' \in Nat
        /\ UNCHANGED <<scope, archived, call, entries>>
    BY <1>2 DEF TalentM!EnsureReviewingTalentProfileTx, TalentM!Take, TalentInv, TalentM!TypeOK
  <2>2. \/ UNCHANGED <<card, wanted>>
        \/ card' = [card EXCEPT ![u] = "reviewing"] /\ wanted' = [wanted EXCEPT ![u] = TRUE]
    BY <1>2 DEF TalentM!EnsureReviewingTalentProfileTx
  <2>3. card' \in [Users -> TalentM!Cards] /\ wanted' \in [Users -> BOOLEAN]
    BY <2>2 DEF TalentInv, TalentM!TypeOK, TalentM!Cards, TalentM!Statuses
  <2>4. \A v \in Users : card'[v] \in {"reviewing", "online"} => wanted'[v]
    BY <2>2 DEF TalentInv, TalentM!TypeOK
  <2> QED
    BY <2>1, <2>3, <2>4 DEF TalentInv, TalentM!TypeOK
<1>3. ASSUME NEW by \in TalentM!Staff, NEW us \in SUBSET Users,
             TalentM!BatchApproveUsers(by, us)
      PROVE  TalentInv'
  BY <1>3
     DEF TalentM!BatchApproveUsers, TalentM!Take, TalentInv, TalentM!TypeOK, TalentM!Cards,
         TalentM!Statuses
<1>4. ASSUME NEW S \in SUBSET Schools, TalentM!ScopeChanges(S)
      PROVE  TalentInv'
  <2>1. scope' \in [{Dean, Clerk} -> SUBSET Schools] /\ requests' \in Nat
    BY <1>4 DEF TalentM!ScopeChanges, TalentM!Take, TalentInv, TalentM!TypeOK
  <2> QED
    BY <1>4, <2>1 DEF TalentM!ScopeChanges, TalentInv, TalentM!TypeOK
<1> QED
  BY <1>1, <1>2, <1>3, <1>4, TalentOwnerKeepsInv, TalentAdminKeepsInv, TalentWritesKeepInv
     DEF TalentM!Next

LEMMA TalentProperties ==
  ASSUME TalentInv
  PROVE  TalentM!TypeOK /\ TalentM!OnlineIsWanted /\ TalentM!MessagePerSubmission /\ TalentM!ListedIsAdmitted
<1>1. TalentM!TypeOK /\ TalentM!OnlineIsWanted /\ TalentM!MessagePerSubmission
  BY DEF TalentInv, TalentM!OnlineIsWanted, TalentM!MessagePerSubmission
<1>2. TalentM!ListedIsAdmitted
  <2>1. {u \in Users : TalentM!AuthorizeProfileRead(u, FALSE, FALSE)} = TalentM!ListTalentProfiles
    BY DEF TalentM!AuthorizeProfileRead, TalentM!ListTalentProfiles, TalentM!Exists
  <2>2. ASSUME NEW by \in TalentM!Staff, by = Clerk => scope[by] # {}, NEW u \in Users
        PROVE  TalentM!InBatchScope(by, u) <=> TalentM!checkTalentProfileSchool(by, u)
    BY <2>2
       DEF TalentInv, TalentM!TypeOK, TalentM!InBatchScope, TalentM!checkTalentProfileSchool,
           TalentM!adminSchoolIDs, TalentM!Staff
  <2> QED
    BY <2>1, <2>2 DEF TalentM!ListedIsAdmitted
<1> QED
  BY <1>1, <1>2

-----------------------------------------------------------------------------
(* Media.                                                                  *)
(*                                                                         *)
(* An image is where its row of media_upload says, and what a request has  *)
(* read or is about to delete can only have been taken away since.         *)

MediaAttached(k) == upload[k].at \in {None} \cup MediaM!Holders

\* The images S are at h from now on, and those of gone are to be deleted.
MediaMarked(h, S, gone) ==
  /\ \A k \in gone : upload'[k].at \in {"cleanup", "absent"}
  /\ \A k \in S : upload[k].at \in {None, h} /\ upload'[k].at = h
  /\ \A k \in Keys \ S : upload'[k] = upload[k] \/ (upload[k] # MediaM!NoUpload /\ upload'[k].at = "cleanup")

MediaNoMoreAttached == \A k \in Keys : MediaAttached(k)' => MediaAttached(k)
MediaShownIsAttached == \A h \in MediaM!Holders : \A k \in images[h] : upload[k].at = h
MediaAttachedIsStored == \A k \in Keys : MediaAttached(k) => k \in stored

MediaInv ==
  /\ MediaM!TypeOK
  /\ MediaShownIsAttached /\ MediaAttachedIsStored
  /\ \A c \in Calls : \A k \in call[c].keys :
       /\ call[c].op = "submit" => upload[k].at \in {call[c].m, "cleanup", "absent"}
       /\ call[c].op = "delete" => upload[k].at \in {"cleanup", "absent"}
       /\ call[c].op = "register" => /\ upload[k] = MediaM!NoUpload /\ k \in stored
                                     /\ \A d \in Calls \ {c} : k \notin call[d].keys
  /\ \A c \in Calls : /\ call[c].keys # {} => call[c].op \in {"submit", "delete", "register"}
                      /\ call[c].op = "submit" => call[c].m \in Milestones
  /\ MediaM!PendingHasEvidence

\* What a step may do to the images that other requests than c have in hand, and
\* what r, which becomes the request of c, may have in hand.
MediaOthersKeep(c, r) ==
  \A d \in Calls \ {c}, k \in Keys : k \in call[d].keys =>
    /\ \/ upload'[k] = upload[k]
       \/ upload'[k].at \in {"cleanup", "absent", upload[k].at} /\ call[d].op # "register"
    /\ call[d].op = "register" => k \notin r.keys /\ k \in stored'

MediaTakes(c, r) ==
  /\ r.keys # {} => r.op \in {"submit", "delete", "register"}
  /\ r.op = "submit" => r.m \in Milestones
  /\ \A k \in r.keys :
       /\ r.op = "submit" => upload'[k].at \in {r.m, "cleanup", "absent"}
       /\ r.op = "delete" => upload'[k].at \in {"cleanup", "absent"}
       /\ r.op = "register" => /\ upload'[k] = MediaM!NoUpload /\ k \in stored'
                               /\ \A d \in Calls \ {c} : k \notin call[d].keys

LEMMA MediaRecords ==
  /\ MediaM!NoCall \in MediaM!CallRecords /\ MediaM!NoCall.op = "idle" /\ MediaM!NoCall.keys = {} /\ MediaM!NoUpload.at = "absent"
  /\ \A S \in SUBSET Keys : /\ MediaM!Deletion(S) \in MediaM!CallRecords /\ MediaM!Deletion(S).keys = S
                            /\ MediaM!Deletion(S).op \in {"idle", "delete"} /\ (S # {} => MediaM!Deletion(S).op = "delete")
  /\ \A r \in MediaM!Uploads, h \in MediaM!Holders \cup {None, "cleanup"}, old \in BOOLEAN :
       /\ [r EXCEPT !.at = h, !.old = old] \in MediaM!Uploads
       /\ [r EXCEPT !.at = h, !.old = old].at = h
       /\ [r EXCEPT !.old = old] \in MediaM!Uploads /\ [r EXCEPT !.old = old].at = r.at
  /\ \A r \in MediaM!Uploads : r # MediaM!NoUpload /\ r.at \in {None, "cleanup"} \cup MediaM!Holders /\ r.at # "absent"
  /\ \A r \in MediaM!Uploads \cup {MediaM!NoUpload} : r.at # "absent" => r \in MediaM!Uploads
<1>1. /\ MediaM!NoCall \in MediaM!CallRecords /\ MediaM!NoCall.op = "idle" /\ MediaM!NoCall.keys = {} /\ MediaM!NoUpload.at = "absent"
      /\ \A S \in SUBSET Keys : S # {} => /\ [MediaM!NoCall EXCEPT !.op = "delete", !.keys = S] \in MediaM!CallRecords
                                         /\ [MediaM!NoCall EXCEPT !.op = "delete", !.keys = S].keys = S
                                         /\ [MediaM!NoCall EXCEPT !.op = "delete", !.keys = S].op = "delete"
  BY DEF MediaM!NoCall, MediaM!CallRecords, MediaM!NoUpload, MediaM!Certifications
<1>2. \A S \in SUBSET Keys : /\ MediaM!Deletion(S) \in MediaM!CallRecords /\ MediaM!Deletion(S).keys = S
                            /\ MediaM!Deletion(S).op \in {"idle", "delete"} /\ (S # {} => MediaM!Deletion(S).op = "delete")
  BY <1>1 DEF MediaM!Deletion
<1>3. \A r \in MediaM!Uploads, h \in MediaM!Holders \cup {None, "cleanup"}, old \in BOOLEAN :
       /\ [r EXCEPT !.at = h, !.old = old] \in MediaM!Uploads
       /\ [r EXCEPT !.at = h, !.old = old].at = h
       /\ [r EXCEPT !.old = old] \in MediaM!Uploads /\ [r EXCEPT !.old = old].at = r.at
  BY DEF MediaM!Uploads
<1>4. /\ \A r \in MediaM!Uploads : r # MediaM!NoUpload /\ r.at \in {None, "cleanup"} \cup MediaM!Holders /\ r.at # "absent"
      /\ \A r \in MediaM!Uploads \cup {MediaM!NoUpload} : r.at # "absent" => r \in MediaM!Uploads
  BY MediaConstants DEF MediaM!NoUpload, MediaM!Uploads, MediaM!Holders
<1> QED
  BY <1>1, <1>2, <1>3, <1>4

LEMMA MediaStarts == MediaM!Init => MediaInv
<1> SUFFICES ASSUME MediaM!Init PROVE MediaInv
  OBVIOUS
<1>1. /\ call \in [Calls -> MediaM!CallRecords] /\ \A c \in Calls : call[c] = MediaM!NoCall
      /\ upload \in [Keys -> MediaM!Uploads \cup {MediaM!NoUpload}] /\ \A k \in Keys : upload[k].at = "absent"
      /\ images \in [MediaM!Holders -> SUBSET Keys] /\ \A h \in MediaM!Holders : images[h] = {}
      /\ stored = {}
  BY MediaRecords DEF MediaM!Init
<1>2. MediaM!TypeOK
  BY <1>1, MediaConstants DEF MediaM!Init, MediaM!TypeOK, MediaM!Certifications
<1>3. MediaM!PendingHasEvidence
  BY DEF MediaM!Init, MediaM!PendingHasEvidence
<1>4. "absent" \notin {None} \cup MediaM!Holders
  BY MediaConstants DEF MediaM!Holders
<1> QED
  BY <1>1, <1>2, <1>3, <1>4, MediaRecords
     DEF MediaInv, MediaShownIsAttached, MediaAttachedIsStored, MediaAttached

LEMMA MediaFacts ==
  ASSUME MediaInv
  PROVE  /\ upload \in [Keys -> MediaM!Uploads \cup {MediaM!NoUpload}] /\ images \in [MediaM!Holders -> SUBSET Keys]
         /\ stored \subseteq Keys /\ cert \in [Milestones -> MediaM!Certifications]
         /\ call \in [Calls -> MediaM!CallRecords] /\ requests \in 0..MediaRequests
         /\ \A c \in Calls : call[c].keys \subseteq Keys
         /\ \A k \in Keys : \A h \in MediaM!Holders : upload[k].at \in {None, "cleanup", "absent"} => k \notin images[h]
         /\ \A h \in MediaM!Holders : h \notin {None, "cleanup", "absent"}
         /\ \A m \in Milestones : m \in MediaM!Holders
         /\ \A h \in CardIds : h \in MediaM!Holders /\ h \notin Milestones
         /\ MediaM!PendingHasEvidence
  BY MediaConstants
     DEF MediaInv, MediaShownIsAttached, MediaM!TypeOK, MediaM!CallRecords, MediaM!Holders

\* What a step does that changes the row of one request, and the rows of
\* uploads only towards their end.
LEMMA MediaBegins ==
  ASSUME MediaInv, NEW c \in Calls, NEW r, MediaM!Begin(c, r)
  PROVE  requests' \in 0..MediaRequests /\ call' = [call EXCEPT ![c] = r]
  BY MediaFacts, MediaConstants DEF MediaM!Begin

LEMMA MediaMoves ==
  ASSUME MediaInv, NEW c \in Calls, NEW r \in MediaM!CallRecords,
         call' = [call EXCEPT ![c] = r], requests' \in 0..MediaRequests,
         upload' \in [Keys -> MediaM!Uploads \cup {MediaM!NoUpload}], images' \in [MediaM!Holders -> SUBSET Keys],
         stored' \subseteq Keys, cert' \in [Milestones -> MediaM!Certifications],
         MediaShownIsAttached', MediaAttachedIsStored', MediaOthersKeep(c, r), MediaTakes(c, r), MediaM!PendingHasEvidence'
  PROVE  MediaInv'
<1>1. /\ call' \in [Calls -> MediaM!CallRecords] /\ call'[c] = r
      /\ \A d \in Calls \ {c} : call'[d] = call[d]
  BY MediaFacts
<1>2. MediaM!TypeOK'
  BY <1>1 DEF MediaM!TypeOK
<1>3. ASSUME NEW d \in Calls, d # c, NEW k \in call[d].keys
      PROVE  /\ call[d].op = "submit" => upload'[k].at \in {call[d].m, "cleanup", "absent"}
             /\ call[d].op = "delete" => upload'[k].at \in {"cleanup", "absent"}
             /\ call[d].op = "register" => /\ upload'[k] = MediaM!NoUpload /\ k \in stored'
                                           /\ \A e \in Calls \ {d} : k \notin call'[e].keys
  <2>1. k \in Keys
    BY MediaFacts
  <2>2. /\ call[d].op = "submit" => upload[k].at \in {call[d].m, "cleanup", "absent"}
        /\ call[d].op = "delete" => upload[k].at \in {"cleanup", "absent"}
        /\ call[d].op = "register" => upload[k] = MediaM!NoUpload /\ \A e \in Calls \ {d} : k \notin call[e].keys
    BY DEF MediaInv
  <2>3. /\ \/ upload'[k] = upload[k]
           \/ upload'[k].at \in {"cleanup", "absent", upload[k].at} /\ call[d].op # "register"
        /\ call[d].op = "register" => k \notin r.keys /\ k \in stored'
    BY <1>3, <2>1 DEF MediaOthersKeep
  <2> QED
    BY <1>1, <1>3, <2>2, <2>3
<1>4. \A d \in Calls : \A k \in call'[d].keys :
        /\ call'[d].op = "submit" => upload'[k].at \in {call'[d].m, "cleanup", "absent"}
        /\ call'[d].op = "delete" => upload'[k].at \in {"cleanup", "absent"}
        /\ call'[d].op = "register" => /\ upload'[k] = MediaM!NoUpload /\ k \in stored'
                                       /\ \A e \in Calls \ {d} : k \notin call'[e].keys
  BY <1>1, <1>3 DEF MediaTakes
<1>5. \A d \in Calls : /\ call'[d].keys # {} => call'[d].op \in {"submit", "delete", "register"}
                       /\ call'[d].op = "submit" => call'[d].m \in Milestones
  BY <1>1 DEF MediaInv, MediaTakes
<1> QED
  BY <1>2, <1>4, <1>5 DEF MediaInv

\* Attaching the images S to h, where those of gone were seen at h.
LEMMA MediaReplaces ==
  ASSUME MediaInv, NEW h \in MediaM!Holders, NEW S \in SUBSET Keys, NEW gone \in SUBSET Keys,
         gone \cap S = {},
         \A k \in gone : upload[k].at \in {h, "cleanup", "absent"},
         MediaM!Replace(h, S, gone)
  PROVE  /\ upload' \in [Keys -> MediaM!Uploads \cup {MediaM!NoUpload}] /\ images' \in [MediaM!Holders -> SUBSET Keys]
         /\ images' = [images EXCEPT ![h] = S]
         /\ MediaShownIsAttached'
         /\ MediaNoMoreAttached
         /\ MediaMarked(h, S, gone)
<1>1. /\ \A k \in S : upload[k].at \in {None, h} /\ upload[k] \in MediaM!Uploads
      /\ images' = [images EXCEPT ![h] = S] /\ images' \in [MediaM!Holders -> SUBSET Keys]
  BY ZenonT(30), MediaFacts, MediaRecords, MediaConstants DEF MediaM!Replace, MediaM!Attachable
<1>2. /\ upload' = [k \in Keys |->
           CASE k \in S -> [upload[k] EXCEPT !.at = h, !.old = FALSE]
             [] k \in gone /\ upload[k] # MediaM!NoUpload -> [upload[k] EXCEPT !.at = "cleanup", !.old = FALSE]
             [] OTHER -> upload[k]]
  BY DEF MediaM!Replace
<1>3. /\ \A k \in S : upload'[k] = [upload[k] EXCEPT !.at = h, !.old = FALSE]
      /\ \A k \in gone : IF upload[k] # MediaM!NoUpload THEN upload'[k] = [upload[k] EXCEPT !.at = "cleanup", !.old = FALSE]
                         ELSE upload'[k] = upload[k]
      /\ \A k \in Keys \ (S \cup gone) : upload'[k] = upload[k]
  BY <1>2
<1>4. /\ \A k \in S : upload'[k] \in MediaM!Uploads /\ upload'[k].at = h
      /\ \A k \in gone : /\ upload'[k] \in MediaM!Uploads \cup {MediaM!NoUpload}
                         /\ upload'[k].at \in {"cleanup", "absent"}
                         /\ upload'[k] = upload[k] \/ (upload[k] # MediaM!NoUpload /\ upload'[k].at = "cleanup")
  <2>1. \A k \in S : upload'[k] \in MediaM!Uploads /\ upload'[k].at = h
    <3> SUFFICES ASSUME NEW k \in S PROVE upload'[k] \in MediaM!Uploads /\ upload'[k].at = h
      OBVIOUS
    <3>1. upload[k] \in MediaM!Uploads /\ upload'[k] = [upload[k] EXCEPT !.at = h, !.old = FALSE]
      BY <1>1, <1>3
    <3> QED
      BY <3>1 DEF MediaM!Uploads
  <2>2. \A k \in gone : upload[k] # MediaM!NoUpload => upload'[k] \in MediaM!Uploads /\ upload'[k].at = "cleanup"
    <3>1. \A k \in gone : upload[k] # MediaM!NoUpload => upload[k] \in MediaM!Uploads
      BY MediaFacts
    <3> QED
      BY ZenonT(30), <1>3, <3>1 DEF MediaM!Uploads
  <2>3. \A k \in gone : upload[k] = MediaM!NoUpload => upload'[k] = MediaM!NoUpload /\ upload'[k].at = "absent"
    BY <1>3, MediaRecords
  <2> QED
    BY <2>1, <2>2, <2>3
<1>5. upload' \in [Keys -> MediaM!Uploads \cup {MediaM!NoUpload}]
  <2>1. \A k \in Keys : upload'[k] \in MediaM!Uploads \cup {MediaM!NoUpload}
    BY <1>3, <1>4, MediaFacts
  <2> QED
    BY <1>2, <2>1
<1>6. ASSUME NEW g \in MediaM!Holders, NEW k \in images'[g] PROVE upload'[k].at = g
  <2>1. CASE g = h
    BY <1>1, <1>4, <2>1, MediaFacts
  <2>2. CASE g # h
    <3>1. k \in images[g] /\ k \in Keys /\ upload[k].at = g
      BY <1>1, <2>2, MediaFacts DEF MediaInv, MediaShownIsAttached
    <3>2. k \notin S /\ k \notin gone
      BY <1>1, <2>2, <3>1, MediaFacts
    <3> QED
      BY <1>3, <3>1, <3>2
  <2> QED
    BY <2>1, <2>2
<1>7. \A k \in Keys : MediaAttached(k)' => MediaAttached(k)
  <2>1. \A k \in gone : ~MediaAttached(k)'
    BY <1>4, MediaConstants DEF MediaAttached, MediaM!Holders
  <2> QED
    BY <1>1, <1>3, <2>1 DEF MediaAttached
<1> QED
  BY ZenonT(30), <1>1, <1>3, <1>4, <1>5, <1>6, <1>7
     DEF MediaShownIsAttached, MediaNoMoreAttached, MediaMarked
LEMMA MediaRows ==
  ASSUME MediaInv
  PROVE  /\ \A k \in Keys : MediaAttached(k) => k \in stored
         /\ \A h \in MediaM!Holders : \A k \in images[h] : k \in Keys /\ upload[k].at = h /\ upload[k] \in MediaM!Uploads
         /\ \A k \in Keys : upload[k].at \in {"absent", "cleanup"} => ~MediaAttached(k)
         /\ \A k \in Keys : upload[k] # MediaM!NoUpload => upload[k] \in MediaM!Uploads
         /\ \A k \in Keys : upload[k].at # "absent" => upload[k] \in MediaM!Uploads
         /\ \A k \in Keys : upload[k] = MediaM!NoUpload => upload[k].at = "absent" /\ ~MediaAttached(k)
<1>1. \A k \in Keys : /\ upload[k] # MediaM!NoUpload => upload[k] \in MediaM!Uploads
                      /\ upload[k] = MediaM!NoUpload => upload[k].at = "absent"
  BY MediaFacts DEF MediaM!NoUpload
<1>2. \A k \in Keys : upload[k].at \in {"absent", "cleanup"} => ~MediaAttached(k)
  BY MediaConstants DEF MediaAttached, MediaM!Holders
<1>3. \A h \in MediaM!Holders : \A k \in images[h] : k \in Keys /\ upload[k].at = h /\ h # "absent"
  BY MediaFacts DEF MediaInv, MediaShownIsAttached
<1> QED
  BY <1>1, <1>2, <1>3 DEF MediaInv, MediaAttachedIsStored

LEMMA MediaHands ==
  ASSUME MediaInv, NEW d \in Calls, NEW k \in call[d].keys
  PROVE  /\ k \in Keys /\ call[d].op \in {"submit", "delete", "register"}
         /\ call[d].op = "submit" => upload[k].at \in {call[d].m, "cleanup", "absent"} /\ call[d].m \in Milestones
         /\ call[d].op = "delete" => upload[k].at \in {"cleanup", "absent"}
         /\ call[d].op = "register" => /\ upload[k] = MediaM!NoUpload /\ k \in stored
                                       /\ \A e \in Calls \ {d} : k \notin call[e].keys
         /\ call[d].op = "register" => \A h \in MediaM!Holders : k \notin images[h]
         /\ upload[k].at # None
<1>1. k \in Keys
  BY MediaFacts
<1>2. call[d].m # None \/ call[d].op # "submit"
  BY MediaFacts DEF MediaInv
<1>3. /\ call[d].op \in {"submit", "delete", "register"}
      /\ call[d].op = "submit" => upload[k].at \in {call[d].m, "cleanup", "absent"} /\ call[d].m \in Milestones
      /\ call[d].op = "delete" => upload[k].at \in {"cleanup", "absent"}
      /\ call[d].op = "register" => /\ upload[k] = MediaM!NoUpload /\ k \in stored
                                    /\ \A e \in Calls \ {d} : k \notin call[e].keys
  BY DEF MediaInv
<1>4. call[d].op = "register" => /\ upload[k].at = "absent"
                                 /\ \A h \in MediaM!Holders : k \notin images[h]
  BY <1>1, <1>3, MediaRows, MediaFacts
<1> QED
  BY <1>1, <1>2, <1>3, <1>4, MediaConstants

LEMMA MediaUploads ==
  ASSUME MediaInv, NEW c \in Calls, NEW k \in Keys, MediaM!UploadBusinessImage(c, k)
  PROVE  MediaInv'
<1> DEFINE r == [MediaM!NoCall EXCEPT !.op = "register", !.keys = {k}]
<1>1. /\ upload[k] = MediaM!NoUpload /\ \A d \in Calls : k \notin call[d].keys
      /\ stored' = stored \cup {k} /\ UNCHANGED <<upload, images, cert>> /\ MediaM!Begin(c, r)
  BY DEF MediaM!UploadBusinessImage
<1>2. r \in MediaM!CallRecords /\ r.op = "register" /\ r.keys = {k}
  BY DEF MediaM!NoCall, MediaM!CallRecords, MediaM!Certifications
<1> HIDE DEF r
<1>3. MediaTakes(c, r)
  BY <1>1, <1>2 DEF MediaTakes
<1>4. MediaOthersKeep(c, r)
  <2>1. \A d \in Calls, l \in Keys : l \in call[d].keys /\ call[d].op = "register" => l \in stored
    BY MediaHands
  <2> QED
    BY <1>1, <1>2, <2>1 DEF MediaOthersKeep
<1>5. MediaAttachedIsStored' /\ MediaShownIsAttached' /\ MediaM!PendingHasEvidence'
  BY <1>1, MediaFacts
     DEF MediaInv, MediaAttachedIsStored, MediaAttached, MediaShownIsAttached,
         MediaM!PendingHasEvidence
<1>6. /\ upload' \in [Keys -> MediaM!Uploads \cup {MediaM!NoUpload}] /\ images' \in [MediaM!Holders -> SUBSET Keys]
      /\ stored' \subseteq Keys /\ cert' \in [Milestones -> MediaM!Certifications]
  BY <1>1, MediaFacts
<1> QED
  BY <1>1, <1>2, <1>3, <1>4, <1>5, <1>6, MediaBegins, MediaMoves

LEMMA MediaRegisters ==
  ASSUME MediaInv, NEW c \in Calls, MediaM!RegisterUpload(c)
  PROVE  MediaInv'
<1>1. PICK k \in call[c].keys :
        \/ \E e \in BOOLEAN : /\ upload' = [upload EXCEPT ![k] = [at |-> None, evidence |-> e, old |-> FALSE]]
                              /\ UNCHANGED stored
        \/ UNCHANGED upload /\ stored' = stored \ {k}
  BY DEF MediaM!RegisterUpload
<1>2. /\ call[c].op = "register" /\ call' = [call EXCEPT ![c] = MediaM!NoCall] /\ UNCHANGED <<images, cert, requests>>
  BY DEF MediaM!RegisterUpload, MediaM!Goes
<1>3. /\ k \in Keys /\ upload[k] = MediaM!NoUpload /\ upload[k].at = "absent" /\ k \in stored
      /\ \A h \in MediaM!Holders : k \notin images[h]
      /\ \A d \in Calls \ {c} : k \notin call[d].keys
  BY <1>2, MediaHands, MediaRows
<1>4. /\ upload' \in [Keys -> MediaM!Uploads \cup {MediaM!NoUpload}] /\ stored' \subseteq Keys
      /\ \A l \in Keys : l # k => upload'[l] = upload[l] /\ (l \in stored => l \in stored')
      /\ upload'[k].at = "absent" \/ k \in stored'
  <2>1. \A e \in BOOLEAN : [at |-> None, evidence |-> e, old |-> FALSE] \in MediaM!Uploads
    BY DEF MediaM!Uploads
  <2> QED
    BY <1>1, <1>3, <2>1, MediaFacts
<1>5. MediaAttachedIsStored'
  <2>1. upload'[k].at = "absent" => ~MediaAttached(k)'
    BY MediaConstants DEF MediaAttached, MediaM!Holders
  <2>2. \A l \in Keys : l # k => (MediaAttached(l)' <=> MediaAttached(l))
    BY <1>4 DEF MediaAttached
  <2> QED
    BY <1>4, <2>1, <2>2 DEF MediaInv, MediaAttachedIsStored
<1>6. MediaShownIsAttached'
  BY <1>2, <1>3, <1>4, MediaRows DEF MediaShownIsAttached
<1>7. MediaM!PendingHasEvidence'
  BY <1>2, MediaFacts DEF MediaM!PendingHasEvidence
<1>8. MediaOthersKeep(c, MediaM!NoCall)
  <2>1. \A d \in Calls \ {c}, l \in Keys : l \in call[d].keys => l # k /\ (call[d].op = "register" => l \in stored)
    BY <1>3, MediaHands
  <2> QED
    BY <1>4, <2>1 DEF MediaOthersKeep, MediaM!NoCall
<1>9. MediaTakes(c, MediaM!NoCall)
  BY DEF MediaTakes, MediaM!NoCall
<1> QED
  BY <1>2, <1>4, <1>5, <1>6, <1>7, <1>8, <1>9, MediaFacts, MediaRecords, MediaMoves

\* The images S take their place at h, and c is to delete those of gone.
LEMMA MediaAttaches ==
  ASSUME MediaInv, NEW c \in Calls, NEW h \in MediaM!Holders, NEW S \in SUBSET Keys,
         NEW gone \in SUBSET Keys,
         gone \cap S = {}, \A k \in gone : upload[k].at \in {h, "cleanup", "absent"},
         gone \subseteq images[h] \/ gone \subseteq call[c].keys,
         MediaM!Replace(h, S, gone), call' = [call EXCEPT ![c] = MediaM!Deletion(gone)], requests' \in 0..MediaRequests,
         UNCHANGED stored, cert' \in [Milestones -> MediaM!Certifications], MediaM!PendingHasEvidence'
  PROVE  MediaInv'
<1>1. /\ upload' \in [Keys -> MediaM!Uploads \cup {MediaM!NoUpload}] /\ images' \in [MediaM!Holders -> SUBSET Keys]
      /\ MediaShownIsAttached' /\ MediaNoMoreAttached
      /\ \A k \in gone : upload'[k].at \in {"cleanup", "absent"}
      /\ \A k \in S : upload[k].at \in {None, h} /\ upload'[k].at = h
      /\ \A k \in Keys \ S : upload'[k] = upload[k] \/ (upload[k] # MediaM!NoUpload /\ upload'[k].at = "cleanup")
  <2>1. /\ MediaShownIsAttached' /\ MediaNoMoreAttached
        /\ upload' \in [Keys -> MediaM!Uploads \cup {MediaM!NoUpload}] /\ images' \in [MediaM!Holders -> SUBSET Keys]
    BY MediaReplaces
  <2>2. MediaMarked(h, S, gone)
    BY MediaReplaces
  <2> QED
    BY <2>1, <2>2 DEF MediaMarked
<1>2. /\ MediaM!Deletion(gone) \in MediaM!CallRecords /\ MediaM!Deletion(gone).keys = gone
      /\ MediaM!Deletion(gone).op \in {"idle", "delete"} /\ (gone # {} => MediaM!Deletion(gone).op = "delete")
  BY MediaRecords
<1>3. ASSUME NEW d \in Calls \ {c}, NEW k \in Keys, k \in call[d].keys
      PROVE  /\ \/ upload'[k] = upload[k]
                \/ upload'[k].at \in {"cleanup", "absent", upload[k].at} /\ call[d].op # "register"
             /\ call[d].op = "register" => k \notin gone /\ k \in stored'
  <2>1. CASE call[d].op = "register"
    <3>1. upload[k] = MediaM!NoUpload /\ upload[k].at = "absent" /\ k \in stored /\ k \notin call[c].keys /\ k \notin images[h]
      BY <1>3, <2>1, MediaHands, MediaRows
    <3>2. k \notin S
      BY <1>1, <3>1, MediaFacts, MediaConstants
    <3> QED
      BY <1>1, <3>1, <3>2
  <2>2. CASE call[d].op # "register"
    <3>1. upload[k].at # None
      BY <1>3, MediaHands
    <3> QED
      BY <1>1, <2>2, <3>1
  <2> QED
    BY <2>1, <2>2
<1>4. MediaOthersKeep(c, MediaM!Deletion(gone))
  BY <1>2, <1>3 DEF MediaOthersKeep
<1>5. MediaTakes(c, MediaM!Deletion(gone))
  BY <1>1, <1>2 DEF MediaTakes
<1>6. MediaAttachedIsStored'
  BY <1>1 DEF MediaInv, MediaAttachedIsStored, MediaNoMoreAttached
<1> QED
  BY <1>1, <1>2, <1>4, <1>5, <1>6, MediaFacts, MediaMoves

\* Only the request changes, and the certifications.
LEMMA MediaGoesOn ==
  ASSUME MediaInv, NEW c \in Calls, NEW r \in MediaM!CallRecords, call' = [call EXCEPT ![c] = r],
         requests' \in 0..MediaRequests, UNCHANGED <<upload, images, stored>>,
         cert' \in [Milestones -> MediaM!Certifications], MediaM!PendingHasEvidence',
         \/ r.keys = {} /\ r.op # "submit"
         \/ r.op = "submit" /\ r.m \in Milestones /\ r.keys = images[r.m]
  PROVE  MediaInv'
<1>1. MediaTakes(c, r)
  BY MediaRows, MediaFacts DEF MediaTakes
<1>2. MediaOthersKeep(c, r)
  <2>1. \A d \in Calls \ {c}, k \in Keys : k \in call[d].keys /\ call[d].op = "register" => k \notin r.keys /\ k \in stored
    BY MediaHands, MediaFacts
  <2> QED
    BY <2>1 DEF MediaOthersKeep
<1>3. MediaAttachedIsStored' /\ MediaShownIsAttached'
  BY DEF MediaInv, MediaAttachedIsStored, MediaAttached, MediaShownIsAttached
<1> QED
  BY <1>1, <1>2, <1>3, MediaFacts, MediaMoves

LEMMA MediaReviews ==
  ASSUME MediaInv, NEW c \in Calls, NEW m \in Milestones, NEW verdict \in {"certified", "rejected"},
         MediaM!FinalizeMilestoneReview(c, m, verdict)
  PROVE  MediaInv'
<1>0. MediaM!Begin(c, MediaM!Deletion(images[m])) /\ UNCHANGED stored
  BY DEF MediaM!FinalizeMilestoneReview
<1>1. cert' = [cert EXCEPT ![m] = verdict] /\ images' = [images EXCEPT ![m] = {}]
  BY DEF MediaM!FinalizeMilestoneReview
<1>2. \A k \in Keys : upload'[k] = IF k \in images[m] THEN [upload[k] EXCEPT !.at = "cleanup", !.old = FALSE]
                                   ELSE upload[k]
  BY DEF MediaM!FinalizeMilestoneReview
<1>3. m \in MediaM!Holders /\ images[m] \in SUBSET Keys /\ \A k \in images[m] : upload[k].at = m /\ upload[k] \in MediaM!Uploads
  BY MediaFacts, MediaRows
<1>4. /\ \A k \in images[m] : upload'[k] \in MediaM!Uploads /\ upload'[k].at = "cleanup"
      /\ \A k \in Keys \ images[m] : upload'[k] = upload[k]
  BY <1>2, <1>3 DEF MediaM!Uploads
<1>5. upload' \in [Keys -> MediaM!Uploads \cup {MediaM!NoUpload}]
  <2>1. \A k \in Keys : upload'[k] \in MediaM!Uploads \cup {MediaM!NoUpload}
    BY <1>4, MediaFacts
  <2>2. upload' = [k \in Keys |-> upload'[k]]
    BY DEF MediaM!FinalizeMilestoneReview
  <2> QED
    BY <2>1, <2>2
<1>6. /\ images' \in [MediaM!Holders -> SUBSET Keys] /\ cert' \in [Milestones -> MediaM!Certifications] /\ MediaM!PendingHasEvidence'
  BY <1>1, <1>3, MediaFacts DEF MediaM!PendingHasEvidence, MediaM!Certifications
<1>7. MediaShownIsAttached'
  <2> SUFFICES ASSUME NEW h \in MediaM!Holders, NEW k \in images'[h] PROVE upload'[k].at = h
    BY DEF MediaShownIsAttached
  <2>1. h # m /\ k \in images[h]
    BY <1>1, MediaFacts
  <2>2. k \in Keys /\ upload[k].at = h
    BY <2>1, MediaRows
  <2>3. k \notin images[m]
    BY <1>3, <2>1, <2>2
  <2> QED
    BY <1>4, <2>2, <2>3
<1>8. MediaAttachedIsStored'
  <2>1. \A k \in images[m] : ~MediaAttached(k)'
    BY <1>4, MediaConstants DEF MediaAttached, MediaM!Holders
  <2>2. \A k \in Keys \ images[m] : MediaAttached(k)' <=> MediaAttached(k)
    BY <1>4 DEF MediaAttached
  <2> QED
    BY <1>0, <2>1, <2>2 DEF MediaInv, MediaAttachedIsStored
<1>9. /\ MediaM!Deletion(images[m]) \in MediaM!CallRecords /\ MediaM!Deletion(images[m]).keys = images[m]
      /\ MediaM!Deletion(images[m]).op \in {"idle", "delete"} /\ (images[m] # {} => MediaM!Deletion(images[m]).op = "delete")
  BY <1>3, MediaRecords
<1>10. MediaOthersKeep(c, MediaM!Deletion(images[m]))
  <2>1. \A d \in Calls \ {c}, k \in Keys : k \in call[d].keys /\ call[d].op = "register" => k \notin images[m] /\ k \in stored
    BY <1>3, MediaHands
  <2> QED
    BY <1>0, <1>4, <1>9, <2>1 DEF MediaOthersKeep
<1>11. MediaTakes(c, MediaM!Deletion(images[m]))
  BY <1>4, <1>9 DEF MediaTakes
<1>12. call' = [call EXCEPT ![c] = MediaM!Deletion(images[m])] /\ requests' \in 0..MediaRequests
  BY <1>0, MediaBegins
<1> QED
  BY <1>0, <1>5, <1>6, <1>7, <1>8, <1>9, <1>10, <1>11, <1>12, MediaFacts, MediaMoves

LEMMA MediaDeletes ==
  ASSUME MediaInv, NEW c \in Calls, NEW k \in Keys, MediaM!DeleteFile(c, k)
  PROVE  MediaInv'
<1> DEFINE rest == call[c].keys \ {k}
<1>1. /\ call[c].op = "delete" /\ k \in call[c].keys /\ stored' \in {stored, stored \ {k}}
      /\ \/ UNCHANGED upload
         \/ upload' = [upload EXCEPT ![k] = IF @.at = "cleanup" THEN MediaM!NoUpload ELSE @]
      /\ call' = [call EXCEPT ![c] = MediaM!Deletion(rest)] /\ UNCHANGED <<images, cert, requests>>
  BY DEF MediaM!DeleteFile, MediaM!Deleted, MediaM!Goes
<1>2. /\ upload[k].at \in {"cleanup", "absent"} /\ rest \in SUBSET Keys /\ rest \subseteq call[c].keys /\ k \notin rest
      /\ \A l \in rest : upload[l].at \in {"cleanup", "absent"}
      /\ \A h \in MediaM!Holders : k \notin images[h]
  BY <1>1, MediaHands, MediaFacts
<1> HIDE DEF rest
<1>3. /\ upload' \in [Keys -> MediaM!Uploads \cup {MediaM!NoUpload}]
      /\ \A l \in Keys : l # k => upload'[l] = upload[l]
      /\ upload'[k] = upload[k] \/ upload'[k] = MediaM!NoUpload
  BY <1>1, MediaFacts
<1>4. upload'[k].at \in {"cleanup", "absent"}
  BY <1>2, <1>3 DEF MediaM!NoUpload
<1>5. MediaAttachedIsStored'
  <2>1. ~MediaAttached(k)'
    BY <1>4, MediaConstants DEF MediaAttached, MediaM!Holders
  <2>2. \A l \in Keys : l # k => (MediaAttached(l)' <=> MediaAttached(l))
    BY <1>3 DEF MediaAttached
  <2> QED
    BY <1>1, <2>1, <2>2 DEF MediaInv, MediaAttachedIsStored
<1>6. MediaShownIsAttached'
  BY <1>1, <1>2, <1>3, MediaRows DEF MediaShownIsAttached
<1>7. MediaM!PendingHasEvidence' /\ stored' \subseteq Keys
  BY <1>1, MediaFacts DEF MediaM!PendingHasEvidence
<1>8. /\ MediaM!Deletion(rest) \in MediaM!CallRecords /\ MediaM!Deletion(rest).keys = rest
      /\ MediaM!Deletion(rest).op \in {"idle", "delete"} /\ (rest # {} => MediaM!Deletion(rest).op = "delete")
  BY <1>2, MediaRecords
<1>9. MediaOthersKeep(c, MediaM!Deletion(rest))
  <2>1. \A d \in Calls \ {c}, l \in Keys : l \in call[d].keys /\ call[d].op = "register" =>
          l \notin rest /\ l # k /\ l \in stored
    BY <1>1, <1>2, MediaHands
  <2> QED
    BY <1>1, <1>3, <1>4, <1>8, <2>1 DEF MediaOthersKeep
<1>10. MediaTakes(c, MediaM!Deletion(rest))
  BY <1>2, <1>3, <1>8 DEF MediaTakes
<1> QED
  BY <1>1, <1>3, <1>5, <1>6, <1>7, <1>8, <1>9, <1>10, MediaFacts, MediaMoves

LEMMA MediaClaims ==
  ASSUME MediaInv, NEW c \in Calls, MediaM!ClaimCleanupBatch(c)
  PROVE  MediaInv'
<1> DEFINE stale == {k \in Keys : /\ upload[k].at \in {None, "cleanup"} /\ upload[k].old
                                /\ \A h \in MediaM!Holders : k \notin images[h]}
<1>1. MediaM!Begin(c, MediaM!Deletion(stale)) /\ UNCHANGED <<images, stored, cert>>
  BY DEF MediaM!ClaimCleanupBatch
<1>2. upload' = [k \in Keys |-> IF k \in stale THEN [upload[k] EXCEPT !.at = "cleanup", !.old = FALSE] ELSE upload[k]]
  BY DEF MediaM!ClaimCleanupBatch
<1>3. /\ stale \in SUBSET Keys
      /\ \A k \in stale : /\ upload[k] \in MediaM!Uploads /\ upload[k].at \in {None, "cleanup"}
                        /\ \A h \in MediaM!Holders : k \notin images[h]
  BY MediaRows, MediaConstants
<1> HIDE DEF stale
<1>4. /\ \A k \in stale : upload'[k] \in MediaM!Uploads /\ upload'[k].at = "cleanup"
      /\ \A k \in Keys \ stale : upload'[k] = upload[k]
  BY <1>2, <1>3 DEF MediaM!Uploads
<1>5. upload' \in [Keys -> MediaM!Uploads \cup {MediaM!NoUpload}]
  <2>1. \A k \in Keys : upload'[k] \in MediaM!Uploads \cup {MediaM!NoUpload}
    BY <1>4, MediaFacts
  <2> QED
    BY <1>2, <2>1
<1>6. MediaM!PendingHasEvidence'
  BY <1>1, MediaFacts DEF MediaM!PendingHasEvidence
<1>7. MediaShownIsAttached'
  BY <1>1, <1>3, <1>4, MediaRows DEF MediaShownIsAttached
<1>8. MediaAttachedIsStored'
  <2>1. \A k \in stale : ~MediaAttached(k)'
    BY <1>4, MediaConstants DEF MediaAttached, MediaM!Holders
  <2>2. \A k \in Keys \ stale : MediaAttached(k)' <=> MediaAttached(k)
    BY <1>4 DEF MediaAttached
  <2> QED
    BY <1>1, <2>1, <2>2 DEF MediaInv, MediaAttachedIsStored
<1>9. /\ MediaM!Deletion(stale) \in MediaM!CallRecords /\ MediaM!Deletion(stale).keys = stale
      /\ MediaM!Deletion(stale).op \in {"idle", "delete"} /\ (stale # {} => MediaM!Deletion(stale).op = "delete")
  BY <1>3, MediaRecords
<1>10. MediaOthersKeep(c, MediaM!Deletion(stale))
  <2>1. \A d \in Calls \ {c}, k \in Keys : k \in call[d].keys /\ call[d].op = "register" => k \notin stale /\ k \in stored
    <3> SUFFICES ASSUME NEW d \in Calls \ {c}, NEW k \in call[d].keys, call[d].op = "register"
                 PROVE  k \notin stale /\ k \in stored
      OBVIOUS
    <3>1. k \in Keys /\ upload[k] = MediaM!NoUpload /\ k \in stored
      BY MediaHands
    <3>2. upload[k].at = "absent"
      BY <3>1, MediaRows
    <3> QED
      BY <1>3, <3>1, <3>2, MediaConstants
  <2> QED
    BY <1>1, <1>4, <1>9, <2>1 DEF MediaOthersKeep
<1>11. MediaTakes(c, MediaM!Deletion(stale))
  BY <1>4, <1>9 DEF MediaTakes
<1>12. call' = [call EXCEPT ![c] = MediaM!Deletion(stale)] /\ requests' \in 0..MediaRequests
  BY <1>1, MediaBegins
<1> QED
  BY <1>1, <1>5, <1>6, <1>7, <1>8, <1>9, <1>10, <1>11, <1>12, MediaFacts, MediaMoves

LEMMA MediaKeeps ==
  ASSUME MediaInv, [MediaM!Next]_MediaM!vars
  PROVE  MediaInv'
<1>1. CASE UNCHANGED MediaM!vars
  BY <1>1
     DEF MediaM!vars, MediaInv, MediaShownIsAttached, MediaAttachedIsStored, MediaM!TypeOK,
         MediaAttached, MediaM!PendingHasEvidence
<1>2. ASSUME NEW c \in Calls, NEW h \in CardIds, NEW S \in SUBSET Keys,
             MediaM!replaceImagesTx(c, h, S)
      PROVE  MediaInv'
  <2> DEFINE gone == images[h] \ S
  <2>1. MediaM!Replace(h, S, gone) /\ MediaM!Begin(c, MediaM!Deletion(gone)) /\ UNCHANGED <<stored, cert>>
    BY <1>2 DEF MediaM!replaceImagesTx
  <2>2. /\ h \in MediaM!Holders /\ h \notin Milestones /\ gone \in SUBSET Keys /\ gone \cap S = {} /\ gone \subseteq images[h]
        /\ \A k \in gone : upload[k].at = h
    BY SMTT(30), MediaFacts, MediaRows
  <2> HIDE DEF gone
  <2>3. images' = [images EXCEPT ![h] = S]
    BY <2>1 DEF MediaM!Replace
  <2>4. MediaM!PendingHasEvidence'
    BY <2>1, <2>2, <2>3, MediaFacts DEF MediaM!PendingHasEvidence
  <2> QED
    BY <2>1, <2>2, <2>4, MediaFacts, MediaBegins, MediaAttaches
<1>3. ASSUME NEW c \in Calls, MediaM!SubmitMilestoneEvidence(c) PROVE MediaInv'
  <2> DEFINE m == call[c].m
  <2>1. /\ call[c].op = "submit" /\ UNCHANGED stored
        /\ cert' = [cert EXCEPT ![m] = IF @ = "absent" THEN @ ELSE "pending"]
    BY <1>3 DEF MediaM!SubmitMilestoneEvidence
  <2>2. PICK S \in MediaM!Evidence : MediaM!Replace(m, S, call[c].keys \ S) /\ MediaM!Goes(c, MediaM!Deletion(call[c].keys \ S))
    BY <1>3 DEF MediaM!SubmitMilestoneEvidence
  <2>0. m \in Milestones
    BY <2>1 DEF MediaInv
  <2>3. m \in Milestones /\ m \in MediaM!Holders /\ S \in SUBSET Keys /\ S # {}
    BY <2>0, <2>2, MediaFacts DEF MediaM!Evidence
  <2> DEFINE gone == call[c].keys \ S
  <2>4. /\ gone \in SUBSET Keys /\ gone \cap S = {} /\ gone \subseteq call[c].keys
        /\ \A k \in gone : upload[k].at \in {m, "cleanup", "absent"}
    BY SMTT(30), <2>1, MediaFacts, MediaHands
  <2>5. images' = [images EXCEPT ![m] = S] /\ MediaM!Replace(m, S, gone)
    BY <2>2 DEF MediaM!Replace
  <2>6. call' = [call EXCEPT ![c] = MediaM!Deletion(gone)] /\ requests' \in 0..MediaRequests
    BY <2>2, MediaFacts DEF MediaM!Goes
  <2> HIDE DEF gone, m
  <2>7. cert' \in [Milestones -> MediaM!Certifications] /\ MediaM!PendingHasEvidence'
    BY <2>1, <2>3, <2>5, MediaFacts DEF MediaM!PendingHasEvidence, MediaM!Certifications
  <2> QED
    BY <2>1, <2>3, <2>4, <2>5, <2>6, <2>7, MediaAttaches
<1>4. ASSUME NEW c \in Calls, NEW m \in Milestones, MediaM!SubmitMilestoneCertification(c, m)
      PROVE  MediaInv'
  <2> DEFINE r == [op |-> "submit", m |-> m, keys |-> images[m], seen |-> cert[m]]
  <2>1. MediaM!Begin(c, r) /\ UNCHANGED <<upload, images, stored, cert>>
    BY <1>4 DEF MediaM!SubmitMilestoneCertification
  <2>2. r \in MediaM!CallRecords /\ r.op = "submit" /\ r.m = m /\ r.keys = images[m]
    BY MediaFacts DEF MediaM!CallRecords
  <2> HIDE DEF r
  <2>3. MediaM!PendingHasEvidence' /\ cert' \in [Milestones -> MediaM!Certifications]
    BY <2>1, MediaFacts DEF MediaM!PendingHasEvidence
  <2> QED
    BY <2>1, <2>2, <2>3, MediaBegins, MediaGoesOn
<1>5. ASSUME NEW c \in Calls, NEW m \in Milestones, MediaM!BeginUpdateProject(c, m) PROVE MediaInv'
  <2> DEFINE r == [MediaM!NoCall EXCEPT !.op = "edit", !.m = m, !.seen = cert[m]]
  <2>1. MediaM!Begin(c, r) /\ UNCHANGED <<upload, images, stored, cert>>
    BY <1>5 DEF MediaM!BeginUpdateProject
  <2>2. r \in MediaM!CallRecords /\ r.op = "edit" /\ r.keys = {}
    BY MediaFacts DEF MediaM!NoCall, MediaM!CallRecords
  <2> HIDE DEF r
  <2>3. MediaM!PendingHasEvidence' /\ cert' \in [Milestones -> MediaM!Certifications]
    BY <2>1, MediaFacts DEF MediaM!PendingHasEvidence
  <2> QED
    BY <2>1, <2>2, <2>3, MediaBegins, MediaGoesOn
<1>6. ASSUME NEW m \in Milestones, MediaM!CreateProjectMilestone(m) PROVE MediaInv'
  <2>1. /\ requests' \in 0..MediaRequests /\ cert' = [cert EXCEPT ![m] = "open"]
        /\ UNCHANGED <<upload, images, stored, call>>
    BY <1>6, MediaFacts, MediaConstants DEF MediaM!CreateProjectMilestone
  <2>2. cert' \in [Milestones -> MediaM!Certifications] /\ MediaM!PendingHasEvidence'
    BY <2>1, MediaFacts DEF MediaM!PendingHasEvidence, MediaM!Certifications
  <2> QED
    BY <2>1, <2>2
       DEF MediaInv, MediaShownIsAttached, MediaAttachedIsStored, MediaM!TypeOK, MediaAttached
<1>7. ASSUME NEW c \in Calls, MediaM!saveProjectMetadataTx(c) PROVE MediaInv'
  <2>1. /\ cert' \in {[cert EXCEPT ![call[c].m] = "absent"],
                      [cert EXCEPT ![call[c].m] = IF @ = "absent" THEN @ ELSE "open"]}
        /\ call' = [call EXCEPT ![c] = MediaM!NoCall] /\ UNCHANGED <<upload, images, stored, requests>>
    BY <1>7 DEF MediaM!saveProjectMetadataTx, MediaM!Goes
  <2>2. \A m \in Milestones : cert'[m] \in {cert[m], "absent", "open"}
    BY <2>1, MediaFacts
  <2>3. cert' \in [Milestones -> MediaM!Certifications] /\ MediaM!PendingHasEvidence'
    BY <2>1, <2>2, MediaFacts DEF MediaM!PendingHasEvidence, MediaM!Certifications
  <2> QED
    BY <2>1, <2>3, MediaFacts, MediaRecords, MediaGoesOn
<1>8. ASSUME NEW k \in Keys, MediaM!Age(k) PROVE MediaInv'
  <2>1. /\ upload[k].at \in {None, "cleanup"} /\ upload' = [upload EXCEPT ![k].old = TRUE]
        /\ UNCHANGED <<images, stored, cert, call, requests>>
    BY <1>8 DEF MediaM!Age
  <2>2. upload[k] \in MediaM!Uploads
    BY <2>1, MediaRows, MediaConstants
  <2>3. upload'[k] \in MediaM!Uploads /\ upload'[k].at = upload[k].at
    BY <2>1, <2>2, MediaFacts DEF MediaM!Uploads
  <2>4. upload[k] # MediaM!NoUpload
    BY <2>2, MediaRecords
  <2>5. /\ upload' \in [Keys -> MediaM!Uploads \cup {MediaM!NoUpload}]
        /\ \A l \in Keys : upload'[l].at = upload[l].at
        /\ \A l \in Keys : upload[l] = MediaM!NoUpload => upload'[l] = MediaM!NoUpload
    BY <2>1, <2>3, <2>4, MediaFacts
  <2>6. MediaAttachedIsStored'
    BY <2>1, <2>5 DEF MediaInv, MediaAttachedIsStored, MediaAttached
  <2>7. MediaM!TypeOK' /\ MediaM!PendingHasEvidence'
    BY <2>1, <2>5 DEF MediaInv, MediaM!TypeOK, MediaM!PendingHasEvidence
  <2>8. MediaShownIsAttached'
    BY <2>1, <2>5, MediaFacts DEF MediaInv, MediaShownIsAttached
  <2>9. \A d \in Calls : call[d].keys \subseteq Keys
    BY MediaFacts
  <2> QED
    BY <2>1, <2>5, <2>6, <2>7, <2>8, <2>9 DEF MediaInv
<1>9. ASSUME NEW c \in Calls, MediaM!CallEnds(c) PROVE MediaInv'
  <2>1. call' = [call EXCEPT ![c] = MediaM!NoCall] /\ UNCHANGED <<upload, images, stored, cert, requests>>
    BY <1>9 DEF MediaM!CallEnds, MediaM!Goes
  <2>2. MediaM!PendingHasEvidence'
    BY <2>1, MediaFacts DEF MediaM!PendingHasEvidence
  <2> QED
    BY <2>1, <2>2, MediaFacts, MediaRecords, MediaGoesOn
<1> QED
  BY <1>1, <1>2, <1>3, <1>4, <1>5, <1>6, <1>7, <1>8, <1>9, MediaUploads, MediaRegisters,
     MediaReviews,
     MediaDeletes, MediaClaims DEF MediaM!Next

LEMMA MediaProperties ==
  ASSUME MediaInv
  PROVE  MediaM!TypeOK /\ MediaM!ImageIsThere /\ MediaM!PendingHasEvidence
  BY MediaFacts
     DEF MediaInv, MediaShownIsAttached, MediaAttachedIsStored, MediaM!ImageIsThere, MediaAttached

LEMMA MediaSteps ==
  ASSUME MediaInv, [MediaM!Next]_MediaM!vars
  PROVE  MediaM!DeletedWithItsObjectStep
<1> SUFFICES ASSUME NEW k \in Keys, upload[k] # MediaM!NoUpload, upload'[k] = MediaM!NoUpload
             PROVE  k \notin stored'
  BY DEF MediaM!DeletedWithItsObjectStep
<1>0. upload[k] \in MediaM!Uploads /\ upload \in [Keys -> MediaM!Uploads \cup {MediaM!NoUpload}] /\ upload'[k].at = "absent"
  BY MediaFacts DEF MediaM!NoUpload
<1>1. ASSUME NEW c \in Calls, MediaM!RegisterUpload(c) PROVE FALSE
  <2>1. PICK l \in call[c].keys :
          \/ \E e \in BOOLEAN : upload' = [upload EXCEPT ![l] = [at |-> None, evidence |-> e, old |-> FALSE]]
          \/ UNCHANGED upload
    BY <1>1 DEF MediaM!RegisterUpload
  <2> QED
    BY <1>0, <2>1, MediaFacts, MediaConstants DEF MediaM!NoUpload
<1>2. ASSUME NEW h \in MediaM!Holders, NEW S \in SUBSET Keys, NEW gone \in SUBSET Keys,
             MediaM!Replace(h, S, gone)
      PROVE  FALSE
  <2>1. /\ upload'[k] = CASE k \in S -> [upload[k] EXCEPT !.at = h, !.old = FALSE]
                          [] k \in gone /\ upload[k] # MediaM!NoUpload -> [upload[k] EXCEPT !.at = "cleanup", !.old = FALSE]
                          [] OTHER -> upload[k]
    BY <1>2 DEF MediaM!Replace
  <2>2. upload'[k] \in {[upload[k] EXCEPT !.at = h, !.old = FALSE], upload[k],
                        [upload[k] EXCEPT !.at = "cleanup", !.old = FALSE]}
    BY <2>1
  <2> QED
    BY <1>0, <2>2, MediaRecords
<1>3. ASSUME NEW c \in Calls, NEW h \in CardIds, NEW S \in SUBSET Keys,
             MediaM!replaceImagesTx(c, h, S)
      PROVE  FALSE
  BY <1>2, <1>3, MediaFacts DEF MediaM!replaceImagesTx
<1>4. ASSUME NEW c \in Calls, MediaM!SubmitMilestoneEvidence(c) PROVE FALSE
  <2>1. call[c].m \in MediaM!Holders /\ call[c].keys \subseteq Keys
    BY <1>4, MediaFacts DEF MediaM!SubmitMilestoneEvidence, MediaInv
  <2> QED
    BY <1>2, <1>4, <2>1 DEF MediaM!SubmitMilestoneEvidence, MediaM!Evidence
<1>5. ASSUME NEW c \in Calls, NEW m \in Milestones, NEW verdict \in {"certified", "rejected"},
             MediaM!FinalizeMilestoneReview(c, m, verdict)
      PROVE  FALSE
  <2>1. upload'[k] \in {upload[k], [upload[k] EXCEPT !.at = "cleanup", !.old = FALSE]}
    BY <1>5 DEF MediaM!FinalizeMilestoneReview
  <2> QED
    BY <1>0, <2>1, MediaRecords
<1>6. ASSUME NEW c \in Calls, NEW l \in Keys, MediaM!DeleteFile(c, l) PROVE k \notin stored'
  <2>1. upload'[l] = MediaM!NoUpload /\ upload[l] # MediaM!NoUpload => MediaM!Deleted(l)
    BY <1>6, MediaFacts DEF MediaM!DeleteFile
  <2>2. k = l
    BY <1>6, MediaFacts DEF MediaM!DeleteFile
  <2> QED
    BY <2>1, <2>2 DEF MediaM!Deleted
<1>7. ASSUME NEW l \in Keys, MediaM!Age(l) PROVE FALSE
  BY <1>0, <1>7, MediaRecords DEF MediaM!Age
<1>8. ASSUME NEW c \in Calls, MediaM!ClaimCleanupBatch(c) PROVE FALSE
  <2>1. upload'[k] \in {upload[k], [upload[k] EXCEPT !.at = "cleanup", !.old = FALSE]}
    BY <1>8 DEF MediaM!ClaimCleanupBatch
  <2> QED
    BY <1>0, <2>1, MediaRecords
<1> QED
  BY <1>1, <1>3, <1>4, <1>5, <1>6, <1>7, <1>8
     DEF MediaM!Next, MediaM!vars, MediaM!UploadBusinessImage, MediaM!SubmitMilestoneCertification,
         MediaM!BeginUpdateProject, MediaM!saveProjectMetadataTx,
         MediaM!CallEnds, MediaM!CreateProjectMilestone

-----------------------------------------------------------------------------
(* The synchronisation with Feishu.                                        *)
(*                                                                         *)
(* Until a connection is lost the named lock lets one worker run           *)
(* (FeishuExclusive), so that what it has read of the target and of the    *)
(* mappings stays true (FeishuProvisions, FeishuKeepsUp).  A part is       *)
(* created after its mark and only if it was unmarked; a row is created    *)
(* only after "pending" was written for a user without a mapping, and a    *)
(* mapping is dropped only when its row is deleted.  So the mappings cover *)
(* the rows (FeishuManaged) wherever a worker ends.                        *)

\* The values that the code tells apart: NULL is no identifier.
FeishuDistinct ==
  /\ None \notin Users \cup Keys \cup Calls
  /\ "pending" \notin Keys /\ None # "pending"
  /\ "deleted" \notin Users /\ None # "deleted"

FeishuWithUser == {"delete", "drop", "flush", "look", "update", "forget", "create", "call", "confirm"}
FeishuWithRow == {"delete", "drop", "update", "forget", "confirm"}

FeishuShape(n) ==
  /\ n \in FeishuM!WorkerRecords
  /\ n.at \in FeishuWithUser => n.u \in Users
  /\ n.at \in FeishuWithRow => n.r \in Keys
  /\ n.at \in {"clean", "delete", "drop"} => \A u \in n.todo : n.seen[u] # None

FeishuTyped ==
  /\ member \subseteq Users
  /\ allowed \in BOOLEAN
  /\ target \in FeishuM!Targets
  /\ mapping \in FeishuM!Mappings
  /\ row \in [Keys -> Users \cup {None, "deleted"}]
  /\ made \in [FeishuM!Parts -> Nat]
  /\ lost \in BOOLEAN
  /\ jobs \in Nat /\ moves \in Nat

FeishuRunning ==
  /\ job \in {FeishuM!NoJob} \cup [n : Nat, status : {"queued", "running"}]
  /\ lock \in Calls \cup {None}
  /\ worker \in [Calls -> FeishuM!WorkerRecords]
  /\ \A w \in Calls : FeishuShape(worker[w])

FeishuExclusive == \A w \in Calls : worker[w].at # "idle" => lock = w

FeishuManaged ==
  /\ \A x \in FeishuM!Parts : made[x] <= 1 /\ (target[x] = "no" => made[x] = 0)
  /\ \A r, q \in Keys : row[r] \in Users /\ row[r] = row[q] => r = q
  /\ \A r \in Keys : row[r] \in Users => mapping[row[r]] \in {r, "pending"}

\* What a worker knows of the target.
FeishuProvisions(n) ==
  /\ n.at \in {"mark", "make", "save"} => n.t = target
  /\ n.at = "mark" => target[n.x] = "no"
  /\ n.at \in {"make", "save"} => target[n.x] = "started"
  /\ n.at = "make" => made[n.x] = 0

\* What a worker knows of the mappings and the rows.
FeishuKeepsUp(n) ==
  /\ n.at \in {"clean", "delete", "drop"} =>
       \A u \in n.todo : mapping[u] = n.seen[u]
  /\ n.at \in {"delete", "drop", "update", "forget"} => mapping[n.u] = n.r
  /\ n.at \in {"drop", "forget"} => row[n.r] = "deleted"
  /\ n.at = "call" => mapping[n.u] = "pending" /\ \A r \in Keys : row[r] # n.u
  /\ n.at = "confirm" => mapping[n.u] = "pending" /\ \A r \in Keys : row[r] = n.u => r = n.r

FeishuInv ==
  /\ FeishuTyped
  /\ FeishuRunning
  /\ ~lost => /\ FeishuExclusive
              /\ FeishuManaged
              /\ \A w \in Calls : FeishuProvisions(worker[w]) /\ FeishuKeepsUp(worker[w])

-----------------------------------------------------------------------------
(* How a worker's step ends.                                               *)

LEMMA FeishuIdleFits == FeishuShape(FeishuM!Idle) /\ FeishuM!Idle.at = "idle"
<1>1. FeishuM!NoMapping \in FeishuM!Mappings
  BY DEF FeishuM!NoMapping, FeishuM!Mappings
<1>2. [x \in FeishuM!Parts |-> "no"] \in FeishuM!Targets
  BY DEF FeishuM!Targets
<1>3. FeishuM!Idle \in FeishuM!WorkerRecords /\ FeishuM!Idle.at = "idle"
  BY <1>1, <1>2 DEF FeishuM!Idle, FeishuM!WorkerRecords, FeishuM!Parts
<1> QED
  BY <1>3 DEF FeishuShape, FeishuWithUser, FeishuWithRow

\* The worker goes on to n, which it knows to be right.
LEMMA FeishuGoesKeepsInv ==
  ASSUME FeishuInv, NEW w \in Calls, worker[w].at # "idle",
         NEW n, FeishuShape(n), FeishuM!Goes(w, n),
         FeishuTyped', UNCHANGED lost,
         ~lost => FeishuManaged' /\ FeishuProvisions(worker[w])' /\ FeishuKeepsUp(worker[w])'
  PROVE  FeishuInv'
<1>1. n \in FeishuM!WorkerRecords
  BY DEF FeishuShape
<1>2. /\ worker' = [worker EXCEPT ![w] = n] /\ UNCHANGED <<job, lock>>
      /\ worker \in [Calls -> FeishuM!WorkerRecords]
  BY DEF FeishuM!Goes, FeishuInv, FeishuRunning
<1>3. \A v \in Calls : worker'[v] = IF v = w THEN n ELSE worker[v]
  BY <1>2
<1>4. FeishuRunning'
  BY <1>1, <1>2, <1>3 DEF FeishuInv, FeishuRunning
<1>5. ASSUME ~lost, NEW v \in Calls, v # w
      PROVE  worker'[v].at = "idle"
  BY <1>3, <1>5 DEF FeishuInv, FeishuExclusive
<1>6. ~lost => FeishuExclusive'
  BY <1>2, <1>5 DEF FeishuInv, FeishuExclusive
<1>7. ~lost => \A v \in Calls : FeishuProvisions(worker[v])' /\ FeishuKeepsUp(worker[v])'
  BY <1>5 DEF FeishuProvisions, FeishuKeepsUp
<1> QED
  BY <1>4, <1>6, <1>7 DEF FeishuInv

\* The job ends.
LEMMA FeishuFinishKeepsInv ==
  ASSUME FeishuInv, NEW w \in Calls, worker[w].at # "idle", FeishuM!Finish(w),
         FeishuTyped', UNCHANGED lost,
         ~lost => FeishuManaged'
  PROVE  FeishuInv'
<1>1. FeishuM!Idle \in FeishuM!WorkerRecords
  BY FeishuIdleFits DEF FeishuShape
<1>2. /\ worker' = [worker EXCEPT ![w] = FeishuM!Idle]
      /\ job' \in {FeishuM!NoJob, job}
      /\ lock' = IF lock = w THEN None ELSE lock
      /\ worker \in [Calls -> FeishuM!WorkerRecords]
  BY DEF FeishuM!Finish, FeishuInv, FeishuRunning
<1>3. \A v \in Calls : worker'[v] = IF v = w THEN FeishuM!Idle ELSE worker[v]
  BY <1>2
<1>4. FeishuRunning'
  BY <1>1, <1>2, <1>3, FeishuIdleFits DEF FeishuInv, FeishuRunning
<1>5. ASSUME ~lost, NEW v \in Calls
      PROVE  worker'[v].at = "idle"
  BY <1>3, <1>5, FeishuIdleFits DEF FeishuInv, FeishuExclusive
<1>6. ~lost => FeishuExclusive'
  BY <1>5 DEF FeishuExclusive
<1>7. ~lost => \A v \in Calls : FeishuProvisions(worker[v])' /\ FeishuKeepsUp(worker[v])'
  BY <1>5 DEF FeishuProvisions, FeishuKeepsUp
<1> QED
  BY <1>4, <1>6, <1>7 DEF FeishuInv

\* What the step of worker w, which runs, may use.
LEMMA FeishuFacts ==
  ASSUME FeishuInv, NEW w \in Calls
  PROVE  /\ FeishuShape(worker[w]) /\ worker[w] \in FeishuM!WorkerRecords
         /\ FeishuTyped
         /\ worker \in [Calls -> FeishuM!WorkerRecords]
         /\ ~lost => FeishuManaged /\ FeishuProvisions(worker[w]) /\ FeishuKeepsUp(worker[w])
  BY DEF FeishuInv, FeishuRunning, FeishuShape

LEMMA FeishuCleaningFits ==
  ASSUME FeishuInv, NEW w \in Calls, NEW t \in FeishuM!Targets, NEW last \in BOOLEAN
  PROVE  /\ FeishuShape(FeishuM!Cleaning(w, t, last))
         /\ FeishuM!Cleaning(w, t, last).at = "clean"
         /\ FeishuM!Cleaning(w, t, last).seen = mapping
         /\ \A u \in FeishuM!Cleaning(w, t, last).todo : u \in Users /\ mapping[u] # None
<1> DEFINE n == worker[w]
           a == [n EXCEPT !.at = "clean", !.t = t]
           b == [a EXCEPT !.seen = mapping, !.todo = FeishuM!Stale]
           z == [b EXCEPT !.last = last]
<1>1. n \in FeishuM!WorkerRecords /\ mapping \in FeishuM!Mappings /\ FeishuM!Stale \in SUBSET Users
  BY DEF FeishuInv, FeishuTyped, FeishuRunning, FeishuM!Stale
<1>2. a \in FeishuM!WorkerRecords /\ a.at = "clean"
  BY <1>1 DEF FeishuM!WorkerRecords
<1> HIDE DEF n, a
<1>3. b \in FeishuM!WorkerRecords /\ b.at = "clean" /\ b.seen = mapping /\ b.todo = FeishuM!Stale
  BY <1>1, <1>2 DEF FeishuM!WorkerRecords
<1> HIDE DEF b
<1>4. z \in FeishuM!WorkerRecords /\ z.at = "clean" /\ z.seen = mapping /\ z.todo = FeishuM!Stale
  BY <1>1, <1>3 DEF FeishuM!WorkerRecords
<1>5. FeishuM!Cleaning(w, t, last) = z
  BY DEF FeishuM!Cleaning, z, b, a, n
<1> HIDE DEF z
<1> QED
  BY <1>4, <1>5 DEF FeishuShape, FeishuWithUser, FeishuWithRow, FeishuM!Stale

-----------------------------------------------------------------------------
(* The node and the table.                                                 *)

\* After the target was read or written, as t.
LEMMA FeishuProvisionKeepsInv ==
  ASSUME FeishuInv, NEW w \in Calls, worker[w].at # "idle", NEW t \in FeishuM!Targets,
         FeishuM!provision(w, t), t = target', FeishuTyped', UNCHANGED <<lost, mapping, row>>,
         ~lost => FeishuManaged'
  PROVE  FeishuInv'
<1> USE FeishuFacts
<1>1. CASE FeishuM!Finish(w)
  BY <1>1, FeishuFinishKeepsInv
<1>2. CASE FeishuM!Goes(w, FeishuM!Cleaning(w, t, FALSE))
  <2> DEFINE z == FeishuM!Cleaning(w, t, FALSE)
  <2>1. /\ FeishuShape(z) /\ z.at = "clean" /\ z.seen = mapping
        /\ \A u \in z.todo : u \in Users /\ mapping[u] # None
    BY FeishuCleaningFits
  <2> HIDE DEF z
  <2>2. worker'[w] = z
    BY <1>2 DEF FeishuM!Goes, z
  <2>3. FeishuProvisions(worker[w])' /\ FeishuKeepsUp(worker[w])'
    BY <2>1, <2>2 DEF FeishuProvisions, FeishuKeepsUp
  <2> QED
    BY <1>2, <2>1, <2>3, FeishuGoesKeepsInv DEF z
<1>3. ASSUME NEW x \in FeishuM!Parts, t[x] # "known", ~FeishuM!Begun(t, x),
             FeishuM!Continue(w, [worker[w] EXCEPT !.at = "mark", !.t = t, !.x = x])
      PROVE  FeishuInv'
  <2> DEFINE n == [worker[w] EXCEPT !.at = "mark", !.t = t, !.x = x]
  <2>1. /\ n \in FeishuM!WorkerRecords /\ n.at = "mark" /\ n.t = t /\ n.x = x
    BY ZenonT(30) DEF FeishuM!WorkerRecords
  <2>2. t[x] = "no"
    BY <1>3 DEF FeishuM!Begun, FeishuM!Targets
  <2>3. CASE FeishuM!Finish(w)
    BY <2>3, FeishuFinishKeepsInv
  <2>4. CASE FeishuM!Goes(w, n)
    <3> HIDE DEF n
    <3>1. worker'[w] = n
      BY <2>4 DEF FeishuM!Goes
    <3>2. FeishuShape(n)
      BY <2>1 DEF FeishuShape, FeishuWithUser, FeishuWithRow
    <3>3. FeishuProvisions(worker[w])' /\ FeishuKeepsUp(worker[w])'
      BY <2>1, <2>2, <3>1 DEF FeishuProvisions, FeishuKeepsUp
    <3> QED
      BY <2>4, <3>2, <3>3, FeishuGoesKeepsInv
  <2> QED
    BY <1>3, <2>3, <2>4 DEF FeishuM!Continue
<1> QED
  BY <1>1, <1>2, <1>3 DEF FeishuM!provision, FeishuM!Parts

LEMMA FeishuPartsKeepInv ==
  ASSUME FeishuInv, NEW w \in Calls,
         FeishuM!syncSchool(w) \/ FeishuM!SaveTarget(w) \/ FeishuM!CreatePart(w)
  PROVE  FeishuInv'
<1> USE FeishuFacts
<1>1. CASE FeishuM!syncSchool(w)
  <2>1. /\ worker[w].at # "idle" /\ FeishuTyped' /\ UNCHANGED <<target, mapping, row, made, lost>>
        /\ target \in FeishuM!Targets
    BY <1>1 DEF FeishuM!syncSchool, FeishuM!At, FeishuM!World, FeishuTyped
  <2>2. ~lost => FeishuManaged'
    BY <2>1 DEF FeishuManaged
  <2> QED
    BY <1>1, <2>1, <2>2, FeishuProvisionKeepsInv, FeishuFinishKeepsInv DEF FeishuM!syncSchool
<1>2. CASE FeishuM!SaveTarget(w)
  <2> DEFINE n == worker[w]
             t == [n.t EXCEPT ![n.x] = IF n.at = "mark" THEN "started" ELSE "known"]
  <2>1. /\ n.at \in {"mark", "save"} /\ target' = t
        /\ UNCHANGED <<member, allowed, lost, jobs, moves, mapping, row, made>>
        /\ IF n.at = "mark" THEN FeishuM!Goes(w, [n EXCEPT !.at = "make", !.t = t]) ELSE FeishuM!provision(w, t)
    BY <1>2 DEF FeishuM!SaveTarget, FeishuM!World
  <2>2. n.t \in FeishuM!Targets /\ n.x \in FeishuM!Parts
    BY DEF FeishuM!WorkerRecords
  <2>3. t \in FeishuM!Targets
    BY <2>2 DEF FeishuM!Targets
  <2>4. FeishuTyped'
    BY <2>1, <2>3 DEF FeishuTyped
  <2>5. ~lost => /\ n.t = target
                 /\ target' = [target EXCEPT ![n.x] = IF n.at = "mark" THEN "started" ELSE "known"]
    BY <2>1 DEF FeishuProvisions
  <2>6. ~lost => FeishuManaged'
    BY <2>1, <2>2, <2>5 DEF FeishuManaged, FeishuTyped, FeishuM!Targets
  <2>7. CASE n.at = "mark"
    <3> DEFINE z == [n EXCEPT !.at = "make", !.t = t]
    <3>1. z \in FeishuM!WorkerRecords /\ z.at = "make" /\ z.t = t /\ z.x = n.x
      BY ZenonT(30), <2>3 DEF FeishuM!WorkerRecords
    <3>2. FeishuM!Goes(w, z)
      BY <2>1, <2>7
    <3>3. ~lost => made[n.x] = 0
      BY <2>2, <2>7 DEF FeishuProvisions, FeishuManaged
    <3>4. t[n.x] = "started"
      BY <2>2, <2>7 DEF FeishuM!Targets
    <3> HIDE DEF z, t
    <3>5. worker'[w] = z
      BY <3>2 DEF FeishuM!Goes
    <3>6. FeishuShape(z)
      BY <3>1 DEF FeishuShape, FeishuWithUser, FeishuWithRow
    <3>7. ~lost => FeishuProvisions(worker[w])' /\ FeishuKeepsUp(worker[w])'
      BY <2>1, <3>1, <3>3, <3>4, <3>5 DEF FeishuProvisions, FeishuKeepsUp
    <3> QED
      BY <2>1, <2>4, <2>6, <3>2, <3>6, <3>7, FeishuGoesKeepsInv
  <2>8. CASE n.at = "save"
    BY <2>1, <2>3, <2>4, <2>6, <2>8, FeishuProvisionKeepsInv
  <2> QED
    BY <2>1, <2>7, <2>8
<1>3. CASE FeishuM!CreatePart(w)
  <2> DEFINE n == worker[w]
             z == [n EXCEPT !.at = "save"]
  <2>1. /\ n.at = "make" /\ n.x \in FeishuM!Parts
        /\ UNCHANGED <<member, allowed, lost, jobs, moves, target, mapping, row>>
        /\ \/ made' = [made EXCEPT ![n.x] = @ + 1] /\ FeishuM!Goes(w, z)
           \/ made' \in {made, [made EXCEPT ![n.x] = @ + 1]} /\ FeishuM!Finish(w)
    BY <1>3 DEF FeishuM!CreatePart, FeishuM!World, FeishuM!At, FeishuM!WorkerRecords
  <2>2. made \in [FeishuM!Parts -> Nat]
    BY DEF FeishuTyped
  <2>3. FeishuTyped'
    BY <2>1, <2>2 DEF FeishuTyped
  <2>4. ~lost => FeishuManaged'
    BY <2>1, <2>2 DEF FeishuManaged, FeishuProvisions
  <2>5. z \in FeishuM!WorkerRecords /\ z.at = "save" /\ z.t = n.t /\ z.x = n.x
    BY DEF FeishuM!WorkerRecords
  <2>6. FeishuM!Goes(w, z) => worker'[w] = z
    BY DEF FeishuM!Goes
  <2> HIDE DEF z
  <2>7. FeishuShape(z)
    BY <2>5 DEF FeishuShape, FeishuWithUser, FeishuWithRow
  <2>8. FeishuM!Goes(w, z) /\ ~lost => FeishuProvisions(worker[w])' /\ FeishuKeepsUp(worker[w])'
    BY <2>1, <2>5, <2>6 DEF FeishuProvisions, FeishuKeepsUp
  <2> QED
    BY <2>1, <2>3, <2>4, <2>7, <2>8, FeishuGoesKeepsInv, FeishuFinishKeepsInv
<1> QED
  BY <1>1, <1>2, <1>3

-----------------------------------------------------------------------------
(* The users.                                                              *)

\* A step that writes nothing outside of the worker.
LEMMA FeishuReadingGoes ==
  ASSUME FeishuInv, NEW w \in Calls, worker[w].at # "idle",
         UNCHANGED <<FeishuM!World, target, mapping, row, made>>,
         NEW n, FeishuShape(n), FeishuM!Goes(w, n),
         ~lost => FeishuProvisions(worker[w])' /\ FeishuKeepsUp(worker[w])'
  PROVE  FeishuInv'
<1>1. FeishuTyped' /\ UNCHANGED lost
  BY DEF FeishuM!World, FeishuInv, FeishuTyped
<1>2. ~lost => FeishuManaged'
  BY DEF FeishuInv, FeishuManaged
<1> QED
  BY <1>1, <1>2, FeishuGoesKeepsInv

LEMMA FeishuReadingFinishes ==
  ASSUME FeishuInv, NEW w \in Calls, worker[w].at # "idle",
         UNCHANGED <<FeishuM!World, target, mapping, row, made>>, FeishuM!Finish(w)
  PROVE  FeishuInv'
<1>1. FeishuTyped' /\ UNCHANGED lost
  BY DEF FeishuM!World, FeishuInv, FeishuTyped
<1>2. ~lost => FeishuManaged'
  BY DEF FeishuInv, FeishuManaged
<1> QED
  BY <1>1, <1>2, FeishuFinishKeepsInv

\* The record of a worker that is through with a user.
FeishuDoneWith(w) ==
  [FeishuM!Visited(worker[w]) EXCEPT !.at = IF FeishuM!At(w, "drop") \/ FeishuM!At(w, "delete") THEN "clean" ELSE "sync"]

LEMMA FeishuDoneFits ==
  ASSUME FeishuInv, NEW w \in Calls
  PROVE  /\ FeishuShape(FeishuDoneWith(w))
         /\ FeishuDoneWith(w).at = IF worker[w].at \in {"drop", "delete"} THEN "clean" ELSE "sync"
         /\ FeishuDoneWith(w).seen = worker[w].seen
         /\ FeishuDoneWith(w).todo = worker[w].todo \ {worker[w].u}
<1> DEFINE n == worker[w]
           v == [n EXCEPT !.todo = @ \ {n.u}, !.u = None, !.r = None]
<1>1. n \in FeishuM!WorkerRecords
  BY FeishuFacts
<1>2. v \in FeishuM!WorkerRecords /\ v.seen = n.seen /\ v.todo = n.todo \ {n.u}
  BY <1>1 DEF FeishuM!WorkerRecords
<1>3. v = FeishuM!Visited(n)
  BY DEF FeishuM!Visited
<1> HIDE DEF v
<1> DEFINE z == [v EXCEPT !.at = IF FeishuM!At(w, "drop") \/ FeishuM!At(w, "delete") THEN "clean" ELSE "sync"]
<1>4. /\ z \in FeishuM!WorkerRecords /\ z.seen = v.seen /\ z.todo = v.todo
      /\ z.at = IF n.at \in {"drop", "delete"} THEN "clean" ELSE "sync"
  BY <1>2 DEF FeishuM!WorkerRecords, FeishuM!At
<1>5. FeishuDoneWith(w) = z
  BY <1>3 DEF FeishuDoneWith
<1>6. z.at = "clean" => \A u \in z.todo : z.seen[u] # None
  BY <1>2, <1>4, FeishuFacts DEF FeishuShape
<1> HIDE DEF z
<1>7. FeishuShape(z)
  BY <1>4, <1>6 DEF FeishuShape, FeishuWithUser, FeishuWithRow
<1> QED
  BY <1>2, <1>4, <1>5, <1>7

\* Being through with a user is right when the mappings of the others are as
\* they were.
LEMMA FeishuDoneKeepsInv ==
  ASSUME FeishuInv, NEW w \in Calls, worker[w].at # "idle", FeishuM!Done(w),
         FeishuTyped', UNCHANGED lost,
         \A u \in Users : u # worker[w].u => mapping'[u] = mapping[u],
         ~lost => FeishuManaged'
  PROVE  FeishuInv'
<1> USE FeishuFacts
<1>1. FeishuM!Goes(w, FeishuDoneWith(w))
  BY DEF FeishuM!Done, FeishuDoneWith
<1> DEFINE z == FeishuDoneWith(w)
<1>2. worker'[w] = z
  BY <1>1 DEF FeishuM!Goes
<1>3. /\ FeishuShape(z) /\ z.at \in {"clean", "sync"} /\ z.seen = worker[w].seen
      /\ z.todo = worker[w].todo \ {worker[w].u}
      /\ z.at = "clean" => worker[w].at \in {"drop", "delete"}
  BY FeishuDoneFits
<1>4. worker[w].todo \subseteq Users
  BY DEF FeishuM!WorkerRecords
<1> HIDE DEF z
<1>5. ~lost => FeishuProvisions(worker[w])' /\ FeishuKeepsUp(worker[w])'
  BY <1>2, <1>3, <1>4 DEF FeishuProvisions, FeishuKeepsUp
<1> QED
  BY <1>1, <1>3, <1>5, FeishuGoesKeepsInv DEF z

LEMMA FeishuReadingIsDone ==
  ASSUME FeishuInv, NEW w \in Calls, worker[w].at # "idle",
         UNCHANGED <<FeishuM!World, target, mapping, row, made>>, FeishuM!Done(w)
  PROVE  FeishuInv'
<1>1. FeishuTyped' /\ UNCHANGED lost
  BY DEF FeishuM!World, FeishuInv, FeishuTyped
<1>2. ~lost => FeishuManaged'
  BY DEF FeishuInv, FeishuManaged
<1> QED
  BY <1>1, <1>2, FeishuDoneKeepsInv

\* The steps that only read.
LEMMA FeishuCleanupKeepsInv ==
  ASSUME FeishuInv, NEW w \in Calls, FeishuM!cleanup(w)
  PROVE  FeishuInv'
<1> USE FeishuFacts
<1> DEFINE n == worker[w]
<1>1. n.at = "clean" /\ UNCHANGED <<FeishuM!World, target, mapping, row, made>>
  BY DEF FeishuM!cleanup, FeishuM!At
<1>2. CASE FeishuM!Finish(w)
  BY <1>1, <1>2, FeishuReadingFinishes
<1>3. ASSUME NEW u \in n.todo, ~FeishuM!Unconfirmed(n.seen[u]),
             FeishuM!Goes(w, [n EXCEPT !.at = "delete", !.u = u, !.r = n.seen[u]])
      PROVE  FeishuInv'
  <2> DEFINE z == [n EXCEPT !.at = "delete", !.u = u, !.r = n.seen[u]]
  <2>1. n \in FeishuM!WorkerRecords /\ u \in Users /\ n.seen[u] \in Keys
    BY <1>1, <1>3 DEF FeishuM!WorkerRecords, FeishuM!Mappings, FeishuShape, FeishuM!Unconfirmed
  <2>2. /\ z \in FeishuM!WorkerRecords /\ z.at = "delete" /\ z.u = u /\ z.r = n.seen[u]
        /\ z.seen = n.seen /\ z.todo = n.todo
    BY <2>1 DEF FeishuM!WorkerRecords
  <2>3. worker'[w] = z
    BY <1>3 DEF FeishuM!Goes
  <2> HIDE DEF z
  <2>4. FeishuShape(z)
    BY <1>1, <2>1, <2>2 DEF FeishuShape, FeishuWithUser, FeishuWithRow
  <2>5. ~lost => FeishuProvisions(worker[w])' /\ FeishuKeepsUp(worker[w])'
    BY <1>1, <2>2, <2>3 DEF FeishuProvisions, FeishuKeepsUp
  <2> QED
    BY <1>1, <1>3, <2>4, <2>5, FeishuReadingGoes DEF z
<1>4. CASE FeishuM!Goes(w, [n EXCEPT !.at = "sync", !.seen = mapping, !.todo = member])
  <2> DEFINE z == [n EXCEPT !.at = "sync", !.seen = mapping, !.todo = member]
  <2>1. z \in FeishuM!WorkerRecords /\ z.at = "sync"
    BY ZenonT(30) DEF FeishuM!WorkerRecords, FeishuTyped
  <2>2. worker'[w] = z
    BY <1>4 DEF FeishuM!Goes
  <2> HIDE DEF z
  <2>3. FeishuShape(z)
    BY <2>1 DEF FeishuShape, FeishuWithUser, FeishuWithRow
  <2>4. ~lost => FeishuProvisions(worker[w])' /\ FeishuKeepsUp(worker[w])'
    BY <2>1, <2>2 DEF FeishuProvisions, FeishuKeepsUp
  <2> QED
    BY <1>1, <1>4, <2>3, <2>4, FeishuReadingGoes DEF z
<1> QED
  BY <1>1, <1>2, <1>3, <1>4 DEF FeishuM!cleanup, FeishuM!Continue

LEMMA FeishuSyncPageKeepsInv ==
  ASSUME FeishuInv, NEW w \in Calls, FeishuM!syncPage(w)
  PROVE  FeishuInv'
<1> USE FeishuFacts
<1> DEFINE n == worker[w]
<1>1. n.at = "sync" /\ UNCHANGED <<FeishuM!World, target, mapping, row, made>>
  BY DEF FeishuM!syncPage, FeishuM!At
<1>2. CASE FeishuM!Finish(w)
  BY <1>1, <1>2, FeishuReadingFinishes
<1>3. CASE FeishuM!Goes(w, FeishuM!Cleaning(w, n.t, TRUE))
  <2> DEFINE z == FeishuM!Cleaning(w, n.t, TRUE)
  <2>1. n.t \in FeishuM!Targets
    BY DEF FeishuM!WorkerRecords
  <2>2. FeishuShape(z) /\ z.at = "clean" /\ z.seen = mapping
    BY <2>1, FeishuCleaningFits
  <2>3. worker'[w] = z
    BY <1>3 DEF FeishuM!Goes
  <2> HIDE DEF z
  <2>4. ~lost => FeishuProvisions(worker[w])' /\ FeishuKeepsUp(worker[w])'
    BY <1>1, <2>2, <2>3 DEF FeishuProvisions, FeishuKeepsUp
  <2> QED
    BY <1>1, <1>3, <2>2, <2>4, FeishuReadingGoes DEF z
<1>4. ASSUME NEW u \in n.todo, FeishuM!Goes(w, [n EXCEPT !.todo = @ \ {u}])
      PROVE  FeishuInv'
  <2> DEFINE z == [n EXCEPT !.todo = @ \ {u}]
  <2>1. z \in FeishuM!WorkerRecords /\ z.at = "sync"
    BY <1>1 DEF FeishuM!WorkerRecords
  <2>2. worker'[w] = z
    BY <1>4 DEF FeishuM!Goes
  <2> HIDE DEF z
  <2>3. FeishuShape(z)
    BY <2>1 DEF FeishuShape, FeishuWithUser, FeishuWithRow
  <2>4. ~lost => FeishuProvisions(worker[w])' /\ FeishuKeepsUp(worker[w])'
    BY <2>1, <2>2 DEF FeishuProvisions, FeishuKeepsUp
  <2> QED
    BY <1>1, <1>4, <2>3, <2>4, FeishuReadingGoes DEF z
<1>5. ASSUME NEW u \in n.todo, NEW next \in {"flush", "look"},
             FeishuM!Goes(w, [n EXCEPT !.u = u, !.at = next])
      PROVE  FeishuInv'
  <2> DEFINE z == [n EXCEPT !.u = u, !.at = next]
  <2>1. z \in FeishuM!WorkerRecords /\ z.at = next /\ z.u = u /\ u \in Users
    BY ZenonT(30) DEF FeishuM!WorkerRecords
  <2>2. worker'[w] = z
    BY <1>5 DEF FeishuM!Goes
  <2> HIDE DEF z
  <2>3. FeishuShape(z)
    BY <2>1 DEF FeishuShape, FeishuWithRow
  <2>4. ~lost => FeishuProvisions(worker[w])' /\ FeishuKeepsUp(worker[w])'
    BY <2>1, <2>2 DEF FeishuProvisions, FeishuKeepsUp
  <2> QED
    BY <1>1, <1>5, <2>3, <2>4, FeishuReadingGoes DEF z
<1> QED
  BY <1>2, <1>3, <1>4, <1>5 DEF FeishuM!syncPage, FeishuM!Continue

LEMMA FeishuLookingKeepsInv ==
  ASSUME FeishuInv, FeishuDistinct, NEW w \in Calls,
         FeishuM!flushUpdates(w) \/ FeishuM!syncRecord(w) \/ FeishuM!UpdateRecord(w)
  PROVE  FeishuInv'
<1> USE FeishuFacts
<1> DEFINE n == worker[w]
<1>1. n.at \in {"flush", "look", "update"} /\ UNCHANGED <<FeishuM!World, target, mapping, row, made>>
  BY DEF FeishuM!flushUpdates, FeishuM!syncRecord, FeishuM!UpdateRecord, FeishuM!At
<1>2. CASE FeishuM!Finish(w)
  BY <1>1, <1>2, FeishuReadingFinishes
<1>3. CASE FeishuM!Done(w)
  BY <1>1, <1>3, FeishuReadingIsDone
<1>4. CASE FeishuM!Goes(w, [n EXCEPT !.at = "look"])
  <2> DEFINE z == [n EXCEPT !.at = "look"]
  <2>1. z \in FeishuM!WorkerRecords /\ z.at = "look" /\ z.u \in Users
    BY <1>1 DEF FeishuM!WorkerRecords, FeishuShape, FeishuWithUser
  <2>2. worker'[w] = z
    BY <1>4 DEF FeishuM!Goes
  <2> HIDE DEF z
  <2>3. FeishuShape(z)
    BY <2>1 DEF FeishuShape, FeishuWithRow
  <2>4. ~lost => FeishuProvisions(worker[w])' /\ FeishuKeepsUp(worker[w])'
    BY <2>1, <2>2 DEF FeishuProvisions, FeishuKeepsUp
  <2> QED
    BY <1>1, <1>4, <2>3, <2>4, FeishuReadingGoes DEF z
<1>5. CASE /\ mapping[n.u] \in Keys
           /\ FeishuM!Goes(w, [n EXCEPT !.r = mapping[n.u], !.at = "update"])
  <2> DEFINE z == [n EXCEPT !.r = mapping[n.u], !.at = "update"]
  <2>1. z \in FeishuM!WorkerRecords /\ z.at = "update" /\ z.u = n.u /\ n.u \in Users /\ z.r = mapping[n.u]
    BY ZenonT(30), <1>1, <1>5 DEF FeishuM!WorkerRecords, FeishuShape, FeishuWithUser
  <2>2. worker'[w] = z
    BY <1>5 DEF FeishuM!Goes
  <2> HIDE DEF z
  <2>3. FeishuShape(z)
    BY <1>5, <2>1 DEF FeishuShape
  <2>4. ~lost => FeishuProvisions(worker[w])' /\ FeishuKeepsUp(worker[w])'
    BY <1>1, <2>1, <2>2 DEF FeishuProvisions, FeishuKeepsUp
  <2> QED
    BY <1>1, <1>5, <2>3, <2>4, FeishuReadingGoes DEF z
<1>6. CASE FeishuM!Goes(w, [n EXCEPT !.r = None, !.at = "create"])
  <2> DEFINE z == [n EXCEPT !.r = None, !.at = "create"]
  <2>1. z \in FeishuM!WorkerRecords /\ z.at = "create" /\ z.u \in Users
    BY ZenonT(30), <1>1 DEF FeishuM!WorkerRecords, FeishuShape, FeishuWithUser
  <2>2. worker'[w] = z
    BY <1>6 DEF FeishuM!Goes
  <2> HIDE DEF z
  <2>3. FeishuShape(z)
    BY <2>1 DEF FeishuShape, FeishuWithRow
  <2>4. ~lost => FeishuProvisions(worker[w])' /\ FeishuKeepsUp(worker[w])'
    BY <2>1, <2>2 DEF FeishuProvisions, FeishuKeepsUp
  <2> QED
    BY <1>1, <1>6, <2>3, <2>4, FeishuReadingGoes DEF z
<1>7. CASE /\ n.at = "update" /\ row[n.r] = "deleted"
           /\ FeishuM!Goes(w, [n EXCEPT !.at = "forget"])
  <2> DEFINE z == [n EXCEPT !.at = "forget"]
  <2>1. z \in FeishuM!WorkerRecords /\ z.at = "forget" /\ z.u = n.u /\ z.r = n.r /\ n.u \in Users /\ n.r \in Keys
    BY <1>7 DEF FeishuM!WorkerRecords, FeishuShape, FeishuWithUser, FeishuWithRow
  <2>2. worker'[w] = z
    BY <1>7 DEF FeishuM!Goes
  <2> HIDE DEF z
  <2>3. FeishuShape(z)
    BY <2>1 DEF FeishuShape
  <2>4. ~lost => FeishuProvisions(worker[w])' /\ FeishuKeepsUp(worker[w])'
    BY <1>1, <1>7, <2>1, <2>2 DEF FeishuProvisions, FeishuKeepsUp
  <2> QED
    BY <1>1, <1>7, <2>3, <2>4, FeishuReadingGoes DEF z
<1>8. CASE FeishuM!flushUpdates(w)
  BY <1>2, <1>3, <1>4, <1>8 DEF FeishuM!flushUpdates
<1>9. CASE FeishuM!syncRecord(w)
  BY <1>2, <1>5, <1>6, <1>9 DEF FeishuM!syncRecord, FeishuM!Continue
<1>10. CASE FeishuM!UpdateRecord(w)
  BY <1>2, <1>3, <1>7, <1>10 DEF FeishuM!UpdateRecord, FeishuM!At
<1> QED
  BY <1>8, <1>9, <1>10

\* A row is deleted in Feishu before its mapping is dropped.
LEMMA FeishuDeleteKeepsInv ==
  ASSUME FeishuInv, FeishuDistinct, NEW w \in Calls, FeishuM!DeleteRecord(w) \/ FeishuM!Forget(w)
  PROVE  FeishuInv'
<1> USE FeishuFacts
<1> DEFINE n == worker[w]
<1>0. /\ n.at \in {"delete", "drop", "forget"} /\ n.u \in Users /\ n.r \in Keys
      /\ row \in [Keys -> Users \cup {None, "deleted"}] /\ mapping \in FeishuM!Mappings
      /\ UNCHANGED <<member, allowed, lost, jobs, moves, target, made>>
  BY DEF FeishuM!DeleteRecord, FeishuM!Forget, FeishuM!At, FeishuM!World, FeishuShape,
         FeishuWithUser, FeishuWithRow, FeishuTyped
<1>1. CASE FeishuM!DeleteRecord(w)
  <2> DEFINE z == [n EXCEPT !.at = "drop"]
  <2>1. /\ n.at = "delete" /\ UNCHANGED mapping
        /\ \/ UNCHANGED row /\ FeishuM!Done(w)
           \/ row' = [row EXCEPT ![n.r] = "deleted"] /\ FeishuM!Goes(w, z)
           \/ row' \in {row, [row EXCEPT ![n.r] = "deleted"]} /\ FeishuM!Finish(w)
    BY <1>1 DEF FeishuM!DeleteRecord, FeishuM!At
  <2>2. FeishuTyped'
    BY <1>0, <2>1 DEF FeishuTyped
  <2>3. ~lost => FeishuManaged'
    BY <1>0, <2>1 DEF FeishuManaged, FeishuDistinct
  <2>4. /\ z \in FeishuM!WorkerRecords /\ z.at = "drop" /\ z.u = n.u /\ z.r = n.r
        /\ z.seen = n.seen /\ z.todo = n.todo
    BY DEF FeishuM!WorkerRecords
  <2>5. FeishuM!Goes(w, z) => worker'[w] = z
    BY DEF FeishuM!Goes
  <2> HIDE DEF z
  <2>6. FeishuShape(z)
    BY <1>0, <2>1, <2>4 DEF FeishuShape
  <2>7. ~lost /\ row' = [row EXCEPT ![n.r] = "deleted"] /\ FeishuM!Goes(w, z)
          => FeishuProvisions(worker[w])' /\ FeishuKeepsUp(worker[w])'
    BY <1>0, <2>1, <2>4, <2>5 DEF FeishuProvisions, FeishuKeepsUp
  <2> QED
    BY <1>0, <2>1, <2>2, <2>3, <2>6, <2>7, FeishuDoneKeepsInv, FeishuGoesKeepsInv,
       FeishuFinishKeepsInv
<1>2. CASE FeishuM!Forget(w)
  <2>1. /\ n.at \in {"drop", "forget"} /\ UNCHANGED row
        /\ mapping' = [mapping EXCEPT ![n.u] = None]
        /\ IF n.at = "drop" THEN FeishuM!Done(w) ELSE FeishuM!Continue(w, [n EXCEPT !.at = "create"])
    BY <1>2 DEF FeishuM!Forget, FeishuM!At
  <2>2. FeishuTyped' /\ \A u \in Users : u # n.u => mapping'[u] = mapping[u]
    BY <1>0, <2>1 DEF FeishuTyped, FeishuM!Mappings
  <2>3. ~lost => \A r \in Keys : row[r] # n.u
    BY <1>0, <2>1 DEF FeishuKeepsUp, FeishuManaged, FeishuDistinct
  <2>4. ~lost => FeishuManaged'
    BY <1>0, <2>1, <2>2, <2>3 DEF FeishuManaged
  <2> DEFINE z == [n EXCEPT !.at = "create"]
  <2>5. z \in FeishuM!WorkerRecords /\ z.at = "create" /\ z.u = n.u
    BY DEF FeishuM!WorkerRecords
  <2>6. FeishuM!Goes(w, z) => worker'[w] = z
    BY DEF FeishuM!Goes
  <2> HIDE DEF z
  <2>7. FeishuShape(z)
    BY <1>0, <2>5 DEF FeishuShape, FeishuWithRow
  <2>8. FeishuM!Goes(w, z) => FeishuProvisions(worker[w])' /\ FeishuKeepsUp(worker[w])'
    BY <2>5, <2>6 DEF FeishuProvisions, FeishuKeepsUp
  <2>9. FeishuM!Done(w) \/ FeishuM!Goes(w, z) \/ FeishuM!Finish(w)
    BY SMTT(30), <2>1 DEF FeishuM!Continue, z
  <2> QED
    BY <1>0, <2>2, <2>4, <2>7, <2>8, <2>9, FeishuDoneKeepsInv, FeishuGoesKeepsInv,
       FeishuFinishKeepsInv
<1> QED
  BY <1>1, <1>2

\* A row is created after its user was marked, and known afterwards.
LEMMA FeishuCreateKeepsInv ==
  ASSUME FeishuInv, FeishuDistinct, NEW w \in Calls,
         FeishuM!PrepareCreate(w) \/ FeishuM!CreateRecord(w) \/ FeishuM!ConfirmCreate(w)
  PROVE  FeishuInv'
<1> USE FeishuFacts
<1> DEFINE n == worker[w]
<1>0. /\ n.at \in {"create", "call", "confirm"} /\ n.u \in Users
      /\ row \in [Keys -> Users \cup {None, "deleted"}] /\ mapping \in FeishuM!Mappings
      /\ UNCHANGED <<member, allowed, lost, jobs, moves, target, made>>
  BY DEF FeishuM!PrepareCreate, FeishuM!CreateRecord, FeishuM!ConfirmCreate, FeishuM!At,
         FeishuM!World, FeishuShape, FeishuWithUser, FeishuTyped
<1>1. CASE FeishuM!PrepareCreate(w)
  <2> DEFINE z == [n EXCEPT !.at = "call"]
  <2>1. /\ n.at = "create" /\ UNCHANGED row
        /\ \/ UNCHANGED mapping /\ FeishuM!Done(w)
           \/ UNCHANGED mapping /\ FeishuM!Finish(w)
           \/ /\ mapping[n.u] = None
              /\ mapping' = [mapping EXCEPT ![n.u] = "pending"] /\ FeishuM!Goes(w, z)
    BY <1>1 DEF FeishuM!PrepareCreate, FeishuM!At
  <2>2. FeishuTyped'
    BY <1>0, <2>1 DEF FeishuTyped, FeishuM!Mappings
  <2>3. ~lost /\ mapping[n.u] = None => \A r \in Keys : row[r] # n.u
    BY <1>0 DEF FeishuManaged, FeishuDistinct
  <2>4. ~lost => FeishuManaged'
    BY <1>0, <2>1 DEF FeishuManaged, FeishuM!Mappings
  <2>5. z \in FeishuM!WorkerRecords /\ z.at = "call" /\ z.u = n.u
    BY DEF FeishuM!WorkerRecords
  <2>6. FeishuM!Goes(w, z) => worker'[w] = z
    BY DEF FeishuM!Goes
  <2> HIDE DEF z
  <2>7. FeishuShape(z)
    BY <1>0, <2>5 DEF FeishuShape, FeishuWithRow
  <2>8. ASSUME ~lost, mapping[n.u] = None,
               mapping' = [mapping EXCEPT ![n.u] = "pending"], FeishuM!Goes(w, z)
        PROVE  FeishuProvisions(worker[w])' /\ FeishuKeepsUp(worker[w])'
    <3>1. mapping'[z.u] = "pending"
      BY <1>0, <2>5, <2>8 DEF FeishuM!Mappings
    <3>2. \A r \in Keys : row'[r] # z.u
      BY <2>1, <2>3, <2>5, <2>8
    <3>3. worker'[w] = z
      BY <2>6, <2>8
    <3> QED
      BY <2>5, <3>1, <3>2, <3>3 DEF FeishuProvisions, FeishuKeepsUp
  <2> QED
    BY <1>0, <2>1, <2>2, <2>4, <2>7, <2>8, FeishuDoneKeepsInv, FeishuGoesKeepsInv,
       FeishuFinishKeepsInv
<1>2. CASE FeishuM!CreateRecord(w)
  <2>1. /\ n.at = "call" /\ UNCHANGED mapping
        /\ \/ \E r \in Keys : /\ row[r] = None
                              /\ row' = [row EXCEPT ![r] = n.u]
                              /\ FeishuM!Goes(w, [n EXCEPT !.at = "confirm", !.r = r]) \/ FeishuM!Finish(w)
           \/ UNCHANGED row /\ FeishuM!Finish(w)
    BY <1>2 DEF FeishuM!CreateRecord, FeishuM!At
  <2>2. CASE UNCHANGED row /\ FeishuM!Finish(w)
    <3>1. FeishuTyped' /\ (~lost => FeishuManaged')
      BY <1>0, <2>1, <2>2 DEF FeishuTyped, FeishuManaged
    <3> QED
      BY <1>0, <2>2, <3>1, FeishuFinishKeepsInv
  <2>3. ASSUME NEW r \in Keys, row[r] = None, row' = [row EXCEPT ![r] = n.u],
               FeishuM!Goes(w, [n EXCEPT !.at = "confirm", !.r = r]) \/ FeishuM!Finish(w)
        PROVE  FeishuInv'
    <3> DEFINE z == [n EXCEPT !.at = "confirm", !.r = r]
    <3>1. FeishuTyped'
      BY <1>0, <2>1, <2>3 DEF FeishuTyped
    <3>2. ~lost => mapping[n.u] = "pending" /\ \A q \in Keys : row[q] # n.u
      BY <2>1 DEF FeishuKeepsUp
    <3>3. ~lost => FeishuManaged'
      BY <1>0, <2>1, <2>3, <3>2 DEF FeishuManaged
    <3>4. z \in FeishuM!WorkerRecords /\ z.at = "confirm" /\ z.u = n.u /\ z.r = r
      BY ZenonT(30) DEF FeishuM!WorkerRecords
    <3>5. FeishuM!Goes(w, z) => worker'[w] = z
      BY DEF FeishuM!Goes
    <3> HIDE DEF z
    <3>6. FeishuShape(z)
      BY <1>0, <3>4 DEF FeishuShape
    <3>7. ASSUME ~lost, FeishuM!Goes(w, z)
          PROVE  FeishuProvisions(worker[w])' /\ FeishuKeepsUp(worker[w])'
      <4>1. mapping'[z.u] = "pending"
        BY <2>1, <3>2, <3>4, <3>7
      <4>2. \A q \in Keys : row'[q] = z.u => q = z.r
        BY <1>0, <2>3, <3>2, <3>4, <3>7
      <4>3. worker'[w] = z
        BY <3>5, <3>7
      <4> QED
        BY <3>4, <4>1, <4>2, <4>3 DEF FeishuProvisions, FeishuKeepsUp
    <3>8. FeishuM!Goes(w, z) \/ FeishuM!Finish(w)
      BY <2>3 DEF z
    <3> QED
      BY <1>0, <2>1, <3>1, <3>3, <3>6, <3>7, <3>8, FeishuGoesKeepsInv, FeishuFinishKeepsInv
  <2> QED
    BY <2>1, <2>2, <2>3
<1>3. CASE FeishuM!ConfirmCreate(w)
  <2>1. /\ n.at = "confirm" /\ n.r \in Keys /\ UNCHANGED row
        /\ \/ mapping[n.u] = "pending" /\ mapping' = [mapping EXCEPT ![n.u] = n.r] /\ FeishuM!Done(w)
           \/ UNCHANGED mapping /\ FeishuM!Finish(w)
    BY <1>3 DEF FeishuM!ConfirmCreate, FeishuM!At, FeishuShape, FeishuWithRow
  <2>2. FeishuTyped'
    BY <1>0, <2>1 DEF FeishuTyped, FeishuM!Mappings
  <2>3. ~lost => \A r \in Keys : row[r] = n.u => r = n.r
    BY <2>1 DEF FeishuKeepsUp
  <2>4. ~lost => FeishuManaged'
    BY <1>0, <2>1, <2>3 DEF FeishuManaged, FeishuM!Mappings
  <2>5. \A u \in Users : u # n.u => mapping'[u] = mapping[u]
    BY <1>0, <2>1 DEF FeishuM!Mappings
  <2> QED
    BY <1>0, <2>1, <2>2, <2>4, <2>5, FeishuDoneKeepsInv, FeishuFinishKeepsInv
<1> QED
  BY <1>1, <1>2, <1>3

-----------------------------------------------------------------------------
(* The queue, the faults, and what others do.                              *)

\* The lock is free: no worker runs.
LEMMA FeishuQueueKeepsInv ==
  ASSUME FeishuInv, FeishuDistinct, NEW w \in Calls, FeishuM!workOne(w)
  PROVE  FeishuInv'
<1> USE FeishuFacts
<1>0. /\ worker[w].at = "idle" /\ lock = None /\ job # FeishuM!NoJob
      /\ UNCHANGED <<member, allowed, lost, jobs, moves, target, mapping, row, made>>
  BY DEF FeishuM!workOne, FeishuM!At, FeishuM!World
<1>1. FeishuTyped' /\ (~lost => FeishuManaged')
  BY <1>0 DEF FeishuTyped, FeishuManaged
<1>2. CASE job' = FeishuM!NoJob /\ UNCHANGED <<lock, worker>>
  BY <1>0, <1>1, <1>2 DEF FeishuInv, FeishuRunning, FeishuExclusive, FeishuProvisions, FeishuKeepsUp
<1>3. CASE /\ job' = [job EXCEPT !.status = "running"] /\ lock' = w
           /\ worker' = [worker EXCEPT ![w] = [FeishuM!Idle EXCEPT !.at = "start", !.n = job.n]]
  <2> DEFINE z == [FeishuM!Idle EXCEPT !.at = "start", !.n = job.n]
  <2>1. job \in [n : Nat, status : {"queued", "running"}] /\ FeishuM!Idle \in FeishuM!WorkerRecords
    BY <1>0, FeishuIdleFits DEF FeishuInv, FeishuRunning, FeishuShape
  <2>2. z \in FeishuM!WorkerRecords /\ z.at = "start"
    BY <2>1 DEF FeishuM!WorkerRecords
  <2>3. job' \in [n : Nat, status : {"queued", "running"}]
    BY <1>3, <2>1
  <2>4. worker' = [worker EXCEPT ![w] = z]
    BY <1>3
  <2> HIDE DEF z
  <2>5. \A v \in Calls : worker'[v] = IF v = w THEN z ELSE worker[v]
    BY <2>4
  <2>6. FeishuShape(z)
    BY <2>2 DEF FeishuShape, FeishuWithUser, FeishuWithRow
  <2>7. FeishuRunning'
    BY <1>3, <2>2, <2>3, <2>4, <2>5, <2>6 DEF FeishuInv, FeishuRunning
  <2>8. ASSUME ~lost, NEW v \in Calls, v # w
        PROVE  worker'[v].at = "idle"
    BY <1>0, <2>5, <2>8 DEF FeishuInv, FeishuExclusive, FeishuDistinct
  <2>9. ~lost => FeishuExclusive'
    BY <1>3, <2>8 DEF FeishuExclusive
  <2>10. ~lost => \A v \in Calls : FeishuProvisions(worker[v])' /\ FeishuKeepsUp(worker[v])'
    BY <2>2, <2>5, <2>8 DEF FeishuProvisions, FeishuKeepsUp
  <2> QED
    BY <1>0, <1>1, <2>7, <2>9, <2>10 DEF FeishuInv
<1> QED
  BY <1>2, <1>3 DEF FeishuM!workOne

\* A worker ends wherever it is; its connection frees the lock.
LEMMA FeishuCrashKeepsInv ==
  ASSUME FeishuInv, NEW w \in Calls, FeishuM!Crash(w)
  PROVE  FeishuInv'
<1> USE FeishuFacts
<1>0. /\ worker' = [worker EXCEPT ![w] = FeishuM!Idle] /\ UNCHANGED job
      /\ lock' = IF lock = w THEN None ELSE lock
      /\ worker[w].at # "idle"
      /\ UNCHANGED <<member, allowed, lost, jobs, moves, target, mapping, row, made>>
  BY DEF FeishuM!Crash, FeishuM!At, FeishuM!World
<1>1. FeishuTyped' /\ (~lost => FeishuManaged')
  BY <1>0 DEF FeishuTyped, FeishuManaged
<1>2. \A v \in Calls : worker'[v] = IF v = w THEN FeishuM!Idle ELSE worker[v]
  BY <1>0
<1>3. FeishuRunning'
  BY <1>0, <1>2, FeishuIdleFits DEF FeishuInv, FeishuRunning, FeishuShape
<1>4. ASSUME ~lost, NEW v \in Calls
      PROVE  worker'[v].at = "idle"
  BY <1>0, <1>2, <1>4, FeishuIdleFits DEF FeishuInv, FeishuExclusive
<1>5. ~lost => FeishuExclusive'
  BY <1>4 DEF FeishuExclusive
<1>6. ~lost => \A v \in Calls : FeishuProvisions(worker[v])' /\ FeishuKeepsUp(worker[v])'
  BY <1>4 DEF FeishuProvisions, FeishuKeepsUp
<1> QED
  BY <1>0, <1>1, <1>3, <1>5, <1>6 DEF FeishuInv

LEMMA FeishuOthersKeepInv ==
  ASSUME FeishuInv, FeishuDistinct,
         FeishuM!Enqueue \/ FeishuM!Permission \/ FeishuM!Move \/ \E w \in Calls : FeishuM!LoseLock(w)
  PROVE  FeishuInv'
<1>1. CASE FeishuM!Enqueue
  BY <1>1
     DEF FeishuM!Enqueue, FeishuInv, FeishuTyped, FeishuRunning, FeishuExclusive, FeishuManaged,
         FeishuProvisions, FeishuKeepsUp
<1>2. CASE FeishuM!Permission
  BY <1>2
     DEF FeishuM!Permission, FeishuInv, FeishuTyped, FeishuRunning, FeishuExclusive, FeishuManaged,
         FeishuProvisions, FeishuKeepsUp
<1>3. ASSUME NEW w \in Calls, FeishuM!LoseLock(w) PROVE FeishuInv'
  BY <1>3 DEF FeishuM!LoseLock, FeishuInv, FeishuTyped, FeishuRunning
<1>4. CASE FeishuM!Move
  <2>1. /\ UNCHANGED <<allowed, job, target, mapping, made, lock, lost, worker, jobs>>
        /\ moves' = moves + 1
        /\ \/ UNCHANGED row /\ \E u \in Users : member' \in {member \ {u}, member \cup {u}}
           \/ UNCHANGED member /\ \E r \in Keys : row[r] \in Users /\ row' = [row EXCEPT ![r] = "deleted"]
    BY <1>4 DEF FeishuM!Move
  <2>2. FeishuTyped /\ row \in [Keys -> Users \cup {None, "deleted"}]
    BY DEF FeishuInv, FeishuTyped
  <2>3. FeishuTyped'
    BY <2>1, <2>2 DEF FeishuTyped
  <2>4. \A r \in Keys : row'[r] \in Users => row'[r] = row[r]
    BY <2>1, <2>2 DEF FeishuDistinct
  <2>5. \A r \in Keys : row[r] = "deleted" => row'[r] = "deleted"
    BY <2>1, <2>2
  <2>6. ~lost => FeishuManaged'
    BY <2>1, <2>4 DEF FeishuInv, FeishuManaged
  <2>7. ~lost => \A w \in Calls : FeishuProvisions(worker[w])' /\ FeishuKeepsUp(worker[w])'
    <3> SUFFICES ASSUME ~lost, NEW w \in Calls
                 PROVE  FeishuProvisions(worker[w])' /\ FeishuKeepsUp(worker[w])'
      OBVIOUS
    <3>1. /\ FeishuProvisions(worker[w]) /\ FeishuKeepsUp(worker[w]) /\ worker'[w] = worker[w]
          /\ FeishuShape(worker[w])
      BY <2>1 DEF FeishuInv, FeishuRunning
    <3>2. worker[w].at \in FeishuWithRow => worker[w].r \in Keys
      BY <3>1 DEF FeishuShape
    <3>3. worker[w].at \in FeishuWithUser => worker[w].u \in Users
      BY <3>1 DEF FeishuShape
    <3> QED
      BY <2>1, <2>4, <2>5, <3>1, <3>2, <3>3
         DEF FeishuProvisions, FeishuKeepsUp, FeishuWithRow, FeishuWithUser
  <2> QED
    BY <2>1, <2>3, <2>6, <2>7 DEF FeishuInv, FeishuRunning, FeishuExclusive
<1> QED
  BY <1>1, <1>2, <1>3, <1>4

\* At the start, and whatever step a worker, an operator or a user takes.
LEMMA FeishuStarts ==
  ASSUME FeishuDistinct
  PROVE  FeishuM!Init => FeishuInv
<1> SUFFICES ASSUME FeishuM!Init PROVE FeishuInv
  OBVIOUS
<1> USE DEF FeishuM!Init
<1>1. FeishuM!NoMapping \in FeishuM!Mappings /\ [x \in FeishuM!Parts |-> "no"] \in FeishuM!Targets
  BY DEF FeishuM!NoMapping, FeishuM!Mappings, FeishuM!Targets
<1>2. FeishuTyped
  BY <1>1 DEF FeishuTyped
<1>3. FeishuRunning
  BY FeishuIdleFits DEF FeishuRunning, FeishuShape
<1>4. FeishuExclusive /\ \A w \in Calls : FeishuProvisions(worker[w]) /\ FeishuKeepsUp(worker[w])
  BY FeishuIdleFits DEF FeishuExclusive, FeishuProvisions, FeishuKeepsUp
<1>5. FeishuManaged
  BY DEF FeishuManaged, FeishuDistinct
<1> QED
  BY <1>2, <1>3, <1>4, <1>5 DEF FeishuInv

LEMMA FeishuKeeps ==
  ASSUME FeishuDistinct
  PROVE  FeishuInv /\ [FeishuM!Next]_FeishuM!vars => FeishuInv'
<1> SUFFICES ASSUME FeishuInv, [FeishuM!Next]_FeishuM!vars PROVE FeishuInv'
  OBVIOUS
<1>1. CASE UNCHANGED FeishuM!vars
  BY <1>1
     DEF FeishuM!vars, FeishuInv, FeishuTyped, FeishuRunning, FeishuExclusive, FeishuManaged,
         FeishuProvisions, FeishuKeepsUp
<1>2. CASE FeishuM!Next
  BY <1>2, FeishuPartsKeepInv, FeishuCleanupKeepsInv, FeishuSyncPageKeepsInv, FeishuLookingKeepsInv,
     FeishuDeleteKeepsInv,
     FeishuCreateKeepsInv, FeishuQueueKeepsInv, FeishuCrashKeepsInv, FeishuOthersKeepInv DEF FeishuM!Next
<1> QED
  BY <1>1, <1>2

LEMMA FeishuProperties ==
  ASSUME FeishuInv
  PROVE  FeishuM!TypeOK /\ FeishuM!FeishuIsManaged
<1>1. FeishuM!TypeOK
  BY DEF FeishuInv, FeishuTyped, FeishuRunning, FeishuM!TypeOK
<1>2. FeishuM!FeishuIsManaged
  BY DEF FeishuInv, FeishuManaged, FeishuM!FeishuIsManaged, FeishuM!CreatedOnce,
         FeishuM!RowsAreManaged
<1> QED
  BY <1>1, <1>2

-----------------------------------------------------------------------------
(* Cooperation.                                                            *)
(*                                                                         *)
(* Only the last application to a page can be undecided or approved, and   *)
(* what a reader has read of a page that was open stays as open as it was. *)

CoopCalls ==
  [op : {"idle", "upload", "detail"}, by : Coop!Admins \cup Student \cup {None},
   s : Campus \cup {None}, k : Photo \cup {None}, seen : Coop!Coops]

CoopAnswers ==
  /\ attempts \in [Campus -> [Student -> Seq(Coop!Statuses)]]
  /\ results \in [Campus -> [Student -> Seq(0..CoopRequests)]]
  /\ \A s \in Campus, u \in Student : Len(results[s][u]) = Len(attempts[s][u])
  /\ \A s \in Campus, u \in Student : \A i \in 1..Len(attempts[s][u]) :
       /\ attempts[s][u][i] # "rejected" => i = Len(attempts[s][u])
       /\ results[s][u][i] = IF attempts[s][u][i] = "pending" THEN 0 ELSE 1

CoopApproved(s, u) == \E i \in 1..Len(attempts[s][u]) : attempts[s][u][i] = "approved"

CoopOpen ==
  /\ \A s \in Campus : coop[s].state = "published" /\ ~coop[s].required => s \in open
  /\ \A c \in Request : call[c].op = "detail" => /\ call[c].s \in Campus /\ call[c].by \in Student
                                                 /\ ~call[c].seen.required => call[c].s \in open
  /\ \A u \in Student : \A s \in shown[u] : s \in open \/ CoopApproved(s, u)

CoopPlain ==
  /\ owner \in [Campus -> Deans \cup {None}] /\ clerkOf \in Campus \cup {None}
  /\ belongs \in [Student -> Campus \cup {None}] /\ order \in {"absent", "available", "closed"}
  /\ coop \in [Campus -> Coop!Coops] /\ image \in [Photo -> Campus \cup {None}] /\ stored \subseteq Photo
  /\ open \subseteq Campus /\ shown \in [Student -> SUBSET Campus] /\ call \in [Request -> CoopCalls]
  /\ requests \in 0..CoopRequests

CoopInv == CoopPlain /\ CoopAnswers /\ CoopOpen

LEMMA CoopRecords ==
  /\ Coop!NoCoop \in Coop!Coops /\ Coop!NoCoop.state = "absent" /\ Coop!NoCall \in CoopCalls /\ Coop!NoCall.op = "idle"
  /\ \A r \in Coop!Coops : [r EXCEPT !.state = "draft"] \in Coop!Coops /\ [r EXCEPT !.state = "draft"].state = "draft"
  BY DEF Coop!NoCoop, Coop!Coops, Coop!NoCall, CoopCalls

LEMMA CoopStarts == Coop!Init => CoopInv
<1> SUFFICES ASSUME Coop!Init PROVE CoopInv
  OBVIOUS
<1>1. CoopPlain
  BY CoopRecords, CoopConstants DEF Coop!Init, CoopPlain
<1>2. CoopAnswers
  <2>1. /\ attempts = [s \in Campus |-> [u \in Student |-> << >>]]
        /\ results = [s \in Campus |-> [u \in Student |-> << >>]]
    BY DEF Coop!Init
  <2>2. << >> \in Seq(Coop!Statuses) /\ << >> \in Seq(0..CoopRequests) /\ Len(<< >>) = 0
    BY EmptySeq
  <2>3. 1..0 = {}
    OBVIOUS
  <2> QED
    BY <2>1, <2>2, <2>3 DEF CoopAnswers
<1>3. CoopOpen
  BY CoopRecords DEF Coop!Init, CoopOpen
<1> QED
  BY <1>1, <1>2, <1>3 DEF CoopInv

\* What is left of an attempt when the answers are not touched, or only grow.
LEMMA CoopQuiet ==
  ASSUME CoopAnswers, UNCHANGED <<attempts, results>>
  PROVE  CoopAnswers' /\ \A s, u : CoopApproved(s, u)' <=> CoopApproved(s, u)
  BY DEF CoopAnswers, CoopApproved

LEMMA CoopApplies ==
  ASSUME CoopAnswers, NEW s \in Campus, NEW u \in Student, ~Coop!Live(s, u), CoopRequests \in Nat,
         attempts' = [attempts EXCEPT ![s][u] = Append(@, "pending")],
         results' = [results EXCEPT ![s][u] = Append(@, 0)]
  PROVE  CoopAnswers' /\ \A t \in Campus, v \in Student : CoopApproved(t, v) => CoopApproved(t, v)'
<1> DEFINE a == attempts[s][u]
           r == results[s][u]
<1>0. a \in Seq(Coop!Statuses) /\ r \in Seq(0..CoopRequests) /\ Len(a) = Len(r) /\ Len(a) \in Nat
  BY LenProperties DEF CoopAnswers
<1>1. \A i \in 1..Len(a) : a[i] = "rejected"
  <2>1. CASE a = << >>
    BY <2>1, EmptySeq
  <2>2. CASE a # << >>
    <3>1. a[Len(a)] \notin {"pending", "approved"}
      BY <2>2 DEF Coop!Live, Coop!Last
    <3>2. Len(a) \in 1..Len(a)
      BY <1>0, <2>2, EmptySeq
    <3>3. a[Len(a)] \in Coop!Statuses
      BY <1>0, <3>2, ElementOfSeq
    <3> QED
      BY <3>1, <3>3 DEF CoopAnswers, Coop!Statuses
  <2> QED
    BY <2>1, <2>2
<1> DEFINE a2 == Append(a, "pending")
           r2 == Append(r, 0)
<1>2. /\ a2 \in Seq(Coop!Statuses) /\ Len(a2) = Len(a) + 1 /\ a2[Len(a) + 1] = "pending"
      /\ \A i \in 1..Len(a) : a2[i] = a[i]
  <2> HIDE DEF a
  <2>1. "pending" \in Coop!Statuses
    BY DEF Coop!Statuses
  <2>2. /\ a2 \in Seq(Coop!Statuses) /\ Len(a2) = Len(a) + 1
        /\ \A i \in 1..Len(a) : a2[i] = a[i]
    BY <1>0, <2>1, AppendProperties
  <2>3. a2[Len(a) + 1] = "pending"
    BY <1>0, <2>1, AppendProperties
  <2> QED
    BY <2>2, <2>3
<1>3. /\ r2 \in Seq(0..CoopRequests) /\ Len(r2) = Len(r) + 1 /\ r2[Len(r) + 1] = 0
      /\ \A i \in 1..Len(r) : r2[i] = r[i]
  <2>1. 0 \in 0..CoopRequests
    OBVIOUS
  <2> QED
    BY <1>0, <2>1, AppendProperties
<1>4. \A t \in Campus, v \in Student : /\ attempts'[t][v] = IF t = s /\ v = u THEN a2 ELSE attempts[t][v]
                                       /\ results'[t][v] = IF t = s /\ v = u THEN r2 ELSE results[t][v]
  BY DEF CoopAnswers
<1>5. /\ attempts' \in [Campus -> [Student -> Seq(Coop!Statuses)]]
      /\ results' \in [Campus -> [Student -> Seq(0..CoopRequests)]]
  BY <1>2, <1>3 DEF CoopAnswers
<1>6. \A i \in 1..Len(a2) : i = Len(a2) \/ i \in 1..Len(a)
  BY <1>0, <1>2
<1>7. \A i \in 1..Len(a) : r[i] = IF a[i] = "pending" THEN 0 ELSE 1
  BY DEF CoopAnswers
<1> HIDE DEF a, r, a2, r2
<1>8. \A i \in 1..Len(a2) : /\ a2[i] # "rejected" => i = Len(a2)
                            /\ r2[i] = IF a2[i] = "pending" THEN 0 ELSE 1
  BY <1>0, <1>1, <1>2, <1>3, <1>6, <1>7
<1>9. CoopAnswers'
  <2> SUFFICES ASSUME NEW t \in Campus, NEW v \in Student
               PROVE  /\ Len(results'[t][v]) = Len(attempts'[t][v])
                      /\ \A j \in 1..Len(attempts'[t][v]) :
                           /\ attempts'[t][v][j] # "rejected" => j = Len(attempts'[t][v])
                           /\ results'[t][v][j] = IF attempts'[t][v][j] = "pending" THEN 0 ELSE 1
    BY <1>5 DEF CoopAnswers
  <2>1. CASE t = s /\ v = u
    <3>1. attempts'[t][v] = a2 /\ results'[t][v] = r2
      BY <1>4, <2>1
    <3>2. Len(r2) = Len(a2)
      BY <1>0, <1>2, <1>3
    <3> QED
      BY <1>8, <3>1, <3>2
  <2>2. CASE ~(t = s /\ v = u)
    BY <1>4, <2>2 DEF CoopAnswers
  <2> QED
    BY <2>1, <2>2
<1>10. CoopApproved(s, u) => CoopApproved(s, u)'
  BY <1>1 DEF CoopApproved, a
<1> QED
  BY <1>4, <1>9, <1>10 DEF CoopApproved

LEMMA CoopReviews ==
  ASSUME CoopAnswers, NEW s \in Campus, NEW u \in Student, NEW i \in DOMAIN attempts[s][u],
         NEW verdict \in {"approved", "rejected"}, attempts[s][u][i] = "pending", CoopRequests \in Nat, CoopRequests > 0,
         attempts' = [attempts EXCEPT ![s][u][i] = verdict],
         results' = [results EXCEPT ![s][u][i] = @ + 1]
  PROVE  CoopAnswers' /\ \A t \in Campus, v \in Student : CoopApproved(t, v) => CoopApproved(t, v)'
<1> DEFINE a == attempts[s][u]
           r == results[s][u]
           a2 == [a EXCEPT ![i] = verdict]
           r2 == [r EXCEPT ![i] = 1]
<1>0. a \in Seq(Coop!Statuses) /\ r \in Seq(0..CoopRequests) /\ Len(a) = Len(r) /\ Len(a) \in Nat /\ i \in 1..Len(a)
  BY LenProperties DEF CoopAnswers
<1>1. r[i] = 0 /\ i = Len(a)
  BY <1>0 DEF CoopAnswers
<1>2. /\ a2 \in Seq(Coop!Statuses) /\ Len(a2) = Len(a) /\ a2[i] = verdict
      /\ \A j \in 1..Len(a) : j # i => a2[j] = a[j]
  BY <1>0, ExceptSeq DEF Coop!Statuses
<1>3. /\ r2 \in Seq(0..CoopRequests) /\ Len(r2) = Len(r) /\ r2[i] = 1
      /\ \A j \in 1..Len(r) : j # i => r2[j] = r[j]
  <2>1. 1 \in 0..CoopRequests
    OBVIOUS
  <2> QED
    BY <1>0, <2>1, ExceptSeq
<1>4. r2 = [r EXCEPT ![i] = @ + 1]
  BY <1>1
<1>5. \A t \in Campus, v \in Student : /\ attempts'[t][v] = IF t = s /\ v = u THEN a2 ELSE attempts[t][v]
                                       /\ results'[t][v] = IF t = s /\ v = u THEN r2 ELSE results[t][v]
  BY <1>4 DEF CoopAnswers
<1>6. /\ attempts' \in [Campus -> [Student -> Seq(Coop!Statuses)]]
      /\ results' \in [Campus -> [Student -> Seq(0..CoopRequests)]]
  <2>1. /\ attempts' = [attempts EXCEPT ![s] = [@ EXCEPT ![u] = a2]]
        /\ results' = [results EXCEPT ![s] = [@ EXCEPT ![u] = r2]]
    BY <1>4
  <2> HIDE DEF a2, r2
  <2> QED
    BY <1>2, <1>3, <2>1 DEF CoopAnswers
<1>7. \A j \in 1..Len(a) : /\ r[j] = IF a[j] = "pending" THEN 0 ELSE 1
                           /\ a[j] # "rejected" => j = Len(a)
  BY DEF CoopAnswers
<1> HIDE DEF a, r, a2, r2
<1>8. \A j \in 1..Len(a2) : /\ a2[j] # "rejected" => j = Len(a2)
                            /\ r2[j] = IF a2[j] = "pending" THEN 0 ELSE 1
  BY <1>0, <1>1, <1>2, <1>3, <1>7
<1>9. CoopAnswers'
  <2> SUFFICES ASSUME NEW t \in Campus, NEW v \in Student
               PROVE  /\ Len(results'[t][v]) = Len(attempts'[t][v])
                      /\ \A j \in 1..Len(attempts'[t][v]) :
                           /\ attempts'[t][v][j] # "rejected" => j = Len(attempts'[t][v])
                           /\ results'[t][v][j] = IF attempts'[t][v][j] = "pending" THEN 0 ELSE 1
    BY SMTT(30), <1>6 DEF CoopAnswers
  <2>1. CASE t = s /\ v = u
    BY <1>0, <1>2, <1>3, <1>5, <1>8, <2>1
  <2>2. CASE ~(t = s /\ v = u)
    BY SMTT(30), <1>5, <2>2 DEF CoopAnswers
  <2> QED
    BY <2>1, <2>2
<1>10. CoopApproved(s, u) => CoopApproved(s, u)'
  <2>1. \A j \in 1..Len(a) : a[j] = "approved" => a2[j] = "approved"
    BY <1>2 DEF a
  <2> QED
    BY <1>2, <1>5, <2>1 DEF CoopApproved, a
<1> QED
  BY <1>5, <1>9, <1>10 DEF CoopApproved
\* A step that leaves the applications alone, and the pages as open as they were.
LEMMA CoopStays ==
  ASSUME CoopInv, UNCHANGED <<attempts, results>>, CoopPlain', open \subseteq open',
         \A s \in Campus : coop'[s].state = "published" /\ ~coop'[s].required => s \in open',
         \A c \in Request : call'[c].op = "detail" =>
           \/ call'[c] = call[c]
           \/ /\ call'[c].s \in Campus /\ call'[c].by \in Student
              /\ ~call'[c].seen.required => call'[c].s \in open',
         \A u \in Student : \A s \in shown'[u] : s \in shown[u] \/ s \in open \/ CoopApproved(s, u)
  PROVE  CoopInv'
<1>1. CoopAnswers' /\ \A s, u : CoopApproved(s, u)' <=> CoopApproved(s, u)
  BY CoopQuiet DEF CoopInv
<1>2. \A u \in Student : \A s \in shown'[u] : s \in open' \/ CoopApproved(s, u)'
  BY <1>1 DEF CoopInv, CoopOpen
<1>3. \A c \in Request : call'[c].op = "detail" => /\ call'[c].s \in Campus /\ call'[c].by \in Student
                                                   /\ ~call'[c].seen.required => call'[c].s \in open'
  BY DEF CoopInv, CoopOpen
<1> QED
  BY <1>1, <1>2, <1>3 DEF CoopInv, CoopOpen

LEMMA CoopKeeps ==
  ASSUME CoopInv, [Coop!Next]_Coop!vars
  PROVE  CoopInv'
<1>0. /\ CoopPlain /\ CoopAnswers
      /\ \A s \in Campus : coop[s].state = "published" /\ ~coop[s].required => s \in open
      /\ \A s \in Campus : coop[s] \in Coop!Coops
      /\ Coop!Count => requests' \in 0..CoopRequests /\ CoopRequests > 0
  BY CoopConstants DEF CoopInv, CoopOpen, CoopPlain, Coop!Count
<1>1. CASE UNCHANGED Coop!vars
  <2>1. UNCHANGED <<attempts, results, coop, open, call, shown>> /\ CoopPlain'
    BY <1>0, <1>1 DEF Coop!vars, CoopPlain
  <2> QED
    BY <1>0, <2>1, CoopStays
<1>2. CASE Coop!Reassign
  <2>1. UNCHANGED <<attempts, results, coop, open, call, shown, order, image, stored>> /\ requests' \in 0..CoopRequests
    BY <1>0, <1>2 DEF Coop!Reassign, Coop!Content, Coop!Answers
  <2>2. /\ owner' \in [Campus -> Deans \cup {None}] /\ clerkOf' \in Campus \cup {None}
        /\ belongs' \in [Student -> Campus \cup {None}]
    BY <1>0, <1>2 DEF Coop!Reassign, CoopPlain
  <2>3. CoopPlain'
    BY <1>0, <2>1, <2>2 DEF CoopPlain
  <2> QED
    BY <1>0, <2>1, <2>3, CoopStays
<1>3. ASSUME NEW opens \in {"available", "closed"}, Coop!SaveOrder(opens) PROVE CoopInv'
  <2>1. UNCHANGED <<attempts, results, coop, open, call, shown>>
    BY <1>3 DEF Coop!SaveOrder, Coop!Answers
  <2>2. CoopPlain'
    BY <1>0, <1>3 DEF Coop!SaveOrder, Coop!People, Coop!Answers, CoopPlain
  <2> QED
    BY <1>0, <2>1, <2>2, CoopStays
<1>4. ASSUME NEW a \in Coop!Admins, NEW s \in Campus, Coop!Claim(a, s) PROVE CoopInv'
  <2>1. UNCHANGED <<attempts, results, open, call, shown>> /\ coop' = [coop EXCEPT ![s].state = "draft"]
    BY <1>4 DEF Coop!Claim, Coop!Answers
  <2>2. [coop[s] EXCEPT !.state = "draft"] \in Coop!Coops /\ [coop[s] EXCEPT !.state = "draft"].state = "draft"
    BY <1>0, CoopRecords
  <2>3. coop' \in [Campus -> Coop!Coops] /\ coop'[s].state = "draft" /\ \A t \in Campus : t # s => coop'[t] = coop[t]
    BY <1>0, <2>1, <2>2 DEF CoopPlain
  <2>4. CoopPlain'
    BY <1>0, <1>4, <2>3 DEF Coop!Claim, Coop!People, Coop!Answers, CoopPlain
  <2>5. \A t \in Campus : coop'[t].state = "published" /\ ~coop'[t].required => t \in open'
    BY <1>0, <2>1, <2>3
  <2> QED
    BY <2>1, <2>4, <2>5, CoopStays
<1>5. ASSUME NEW a \in Coop!Admins, NEW s \in Campus, NEW p \in BOOLEAN, NEW r \in BOOLEAN,
             NEW S \in SUBSET Photo,
             Coop!SaveContent(a, s, p, r, S)
      PROVE  CoopInv'
  <2> DEFINE line == [state |-> IF p THEN "published" ELSE "draft", required |-> r, images |-> S]
  <2>1. /\ UNCHANGED <<attempts, results, call, shown>> /\ coop' = [coop EXCEPT ![s] = line]
        /\ open' = IF p /\ ~r THEN open \cup {s} ELSE open
    BY <1>5 DEF Coop!SaveContent, Coop!Answers
  <2>2. line \in Coop!Coops /\ (line.state = "published" => p) /\ line.required = r
    BY DEF Coop!Coops
  <2> HIDE DEF line
  <2>3. coop' \in [Campus -> Coop!Coops] /\ coop'[s] = line /\ \A t \in Campus : t # s => coop'[t] = coop[t]
    BY <1>0, <2>1, <2>2 DEF CoopPlain
  <2>4. open \subseteq open' /\ open' \subseteq Campus
    BY <1>0, <2>1 DEF CoopPlain
  <2>5. CoopPlain'
    BY <1>0, <1>5, <2>3, <2>4 DEF Coop!SaveContent, Coop!People, Coop!Answers, CoopPlain
  <2>6. \A t \in Campus : coop'[t].state = "published" /\ ~coop'[t].required => t \in open'
    BY <1>0, <2>1, <2>2, <2>3
  <2> QED
    BY <2>1, <2>4, <2>5, <2>6, CoopStays
<1>6. ASSUME NEW c \in Request, NEW k \in Photo, NEW a \in Coop!Admins, NEW s \in Campus,
             Coop!BeginUpload(c, a, s, k)
      PROVE  CoopInv'
  <2> DEFINE r == [Coop!NoCall EXCEPT !.op = "upload", !.by = a, !.s = s, !.k = k]
  <2>1. /\ UNCHANGED <<attempts, results, coop, open, shown>> /\ stored' = stored \cup {k}
        /\ call' = [call EXCEPT ![c] = r]
    BY <1>6 DEF Coop!BeginUpload, Coop!Answers
  <2>2. r \in CoopCalls /\ r.op = "upload"
    BY CoopRecords DEF CoopCalls, Coop!NoCall
  <2> HIDE DEF r
  <2>3. call' \in [Request -> CoopCalls] /\ call'[c] = r /\ \A d \in Request : d # c => call'[d] = call[d]
    BY <1>0, <2>1, <2>2 DEF CoopPlain
  <2>4. CoopPlain'
    BY <1>0, <1>6, <2>1, <2>3 DEF Coop!BeginUpload, Coop!People, Coop!Answers, CoopPlain
  <2>5. \A d \in Request : call'[d].op = "detail" => call'[d] = call[d]
    BY <2>2, <2>3
  <2> QED
    BY <1>0, <2>1, <2>4, <2>5, CoopStays
<1>7. ASSUME NEW c \in Request, NEW u \in Student, NEW s \in Campus, Coop!BeginDetail(c, u, s)
      PROVE  CoopInv'
  <2> DEFINE r == [Coop!NoCall EXCEPT !.op = "detail", !.by = u, !.s = s, !.seen = coop[s]]
  <2>1. /\ UNCHANGED <<attempts, results, coop, open, shown>> /\ coop[s].state = "published"
        /\ call' = [call EXCEPT ![c] = r]
    BY <1>7 DEF Coop!BeginDetail, Coop!Answers, Coop!Content
  <2>2. r \in CoopCalls /\ r.s = s /\ r.by = u /\ r.seen = coop[s]
    BY <1>0 DEF CoopCalls, Coop!NoCall
  <2> HIDE DEF r
  <2>3. call' \in [Request -> CoopCalls] /\ call'[c] = r /\ \A d \in Request : d # c => call'[d] = call[d]
    BY <1>0, <2>1, <2>2 DEF CoopPlain
  <2>4. CoopPlain'
    BY <1>0, <1>7, <2>1, <2>3
       DEF Coop!BeginDetail, Coop!People, Coop!Content, Coop!Answers, CoopPlain
  <2>5. ~r.seen.required => s \in open'
    BY <1>0, <2>1, <2>2
  <2>6. \A d \in Request : call'[d].op = "detail" =>
           \/ call'[d] = call[d]
           \/ /\ call'[d].s \in Campus /\ call'[d].by \in Student
              /\ ~call'[d].seen.required => call'[d].s \in open'
    BY <2>2, <2>3, <2>5
  <2> QED
    BY <1>0, <2>1, <2>4, <2>6, CoopStays
<1>8. ASSUME NEW c \in Request, Coop!UploadImage(c) PROVE CoopInv'
  <2>1. /\ UNCHANGED <<attempts, results, coop, open, shown>> /\ call' = [call EXCEPT ![c] = Coop!NoCall]
    BY <1>8 DEF Coop!UploadImage, Coop!Answers
  <2>2. call' \in [Request -> CoopCalls] /\ \A d \in Request : call'[d].op = "detail" => call'[d] = call[d]
    BY <1>0, <2>1, CoopRecords DEF CoopPlain
  <2>3. image' \in [Photo -> Campus \cup {None}] /\ stored' \subseteq Photo
    <3>1. call[c].s \in Campus \cup {None}
      BY <1>0 DEF CoopPlain, CoopCalls
    <3> QED
      BY <1>0, <1>8, <3>1 DEF Coop!UploadImage, CoopPlain
  <2>4. CoopPlain'
    BY <1>0, <1>8, <2>1, <2>2, <2>3 DEF Coop!UploadImage, Coop!People, Coop!Answers, CoopPlain
  <2> QED
    BY <1>0, <2>1, <2>2, <2>4, CoopStays
<1>9. ASSUME NEW c \in Request, Coop!ClientDetail(c) PROVE CoopInv'
  <2> DEFINE u == call[c].by
             s == call[c].s
  <2>1. /\ call[c].op = "detail" /\ UNCHANGED <<attempts, results, coop, open>>
        /\ call' = [call EXCEPT ![c] = Coop!NoCall]
        /\ shown' = [shown EXCEPT ![u] = IF ~call[c].seen.required \/ Coop!Approved(s, u) THEN @ \cup {s} ELSE @]
    BY <1>9 DEF Coop!ClientDetail, Coop!Content, Coop!Answers
  <2>2. u \in Student /\ s \in Campus /\ (~call[c].seen.required => s \in open)
    BY <2>1 DEF CoopInv, CoopOpen
  <2>3. Coop!Approved(s, u) => CoopApproved(s, u)
    <3> SUFFICES ASSUME Coop!Approved(s, u) PROVE CoopApproved(s, u)
      OBVIOUS
    <3>1. attempts[s][u] \in Seq(Coop!Statuses)
      BY <1>0, <2>2 DEF CoopAnswers
    <3>2. attempts[s][u] # << >> /\ attempts[s][u][Len(attempts[s][u])] = "approved"
      BY DEF Coop!Approved, Coop!Last
    <3>3. Len(attempts[s][u]) \in 1..Len(attempts[s][u])
      BY <3>1, <3>2, EmptySeq
    <3> QED
      BY <3>2, <3>3 DEF CoopApproved
  <2> HIDE DEF u, s
  <2>4. call' \in [Request -> CoopCalls] /\ \A d \in Request : call'[d].op = "detail" => call'[d] = call[d]
    BY <1>0, <2>1, CoopRecords DEF CoopPlain
  <2>5. /\ shown' \in [Student -> SUBSET Campus]
        /\ \A v \in Student : \A t \in shown'[v] : t \in shown[v] \/ t \in open \/ CoopApproved(t, v)
    BY <1>0, <2>1, <2>2, <2>3 DEF CoopPlain
  <2>6. CoopPlain'
    BY <1>0, <1>9, <2>4, <2>5
       DEF Coop!ClientDetail, Coop!People, Coop!Content, Coop!Answers, CoopPlain
  <2> QED
    BY <1>0, <2>1, <2>4, <2>5, <2>6, CoopStays
\* An application is made or decided.
<1>10. ASSUME CoopAnswers', \A t \in Campus,
              v \in Student : CoopApproved(t, v) => CoopApproved(t, v)',
              Coop!Count, UNCHANGED <<Coop!People, Coop!Content, shown, call>>
       PROVE  CoopInv'
  <2>1. UNCHANGED <<coop, open, shown, call>> /\ CoopPlain'
    BY <1>0, <1>10 DEF Coop!People, Coop!Content, CoopPlain
  <2>2. \A u \in Student : \A s \in shown'[u] : s \in open' \/ CoopApproved(s, u)'
    BY <1>0, <1>10, <2>1 DEF CoopInv, CoopOpen, CoopPlain
  <2>3. CoopOpen'
    BY <2>1, <2>2 DEF CoopInv, CoopOpen
  <2> QED
    BY <1>10, <2>1, <2>3 DEF CoopInv
<1>11. ASSUME NEW u \in Student, NEW s \in Campus, Coop!Apply(u, s) PROVE CoopInv'
  <2>1. /\ Coop!Count /\ ~Coop!Live(s, u) /\ UNCHANGED <<Coop!People, Coop!Content, shown, call>>
        /\ attempts' = [attempts EXCEPT ![s][u] = Append(@, "pending")]
        /\ results' = [results EXCEPT ![s][u] = Append(@, 0)]
    BY <1>11 DEF Coop!Apply
  <2>2. CoopAnswers' /\ \A t \in Campus, v \in Student : CoopApproved(t, v) => CoopApproved(t, v)'
    BY <1>0, <2>1, CoopConstants, CoopApplies
  <2> QED
    BY <1>10, <2>1, <2>2
<1>12. ASSUME NEW a \in Coop!Admins, NEW s \in Campus, NEW u \in Student,
              NEW i \in DOMAIN attempts[s][u],
              NEW v \in {"approved", "rejected"}, Coop!Review(a, s, u, i, v)
       PROVE  CoopInv'
  <2>1. /\ Coop!Count /\ attempts[s][u][i] = "pending" /\ UNCHANGED <<Coop!People, Coop!Content, shown, call>>
        /\ attempts' = [attempts EXCEPT ![s][u][i] = v]
        /\ results' = [results EXCEPT ![s][u][i] = @ + 1]
    BY <1>12 DEF Coop!Review, Coop!Decidable, Coop!CooperationResultTx
  <2>2. CoopAnswers' /\ \A t \in Campus, w \in Student : CoopApproved(t, w) => CoopApproved(t, w)'
    BY <1>0, <2>1, CoopConstants, CoopReviews
  <2> QED
    BY <1>10, <2>1, <2>2
<1> QED
  BY <1>1, <1>2, <1>3, <1>4, <1>5, <1>6, <1>7, <1>8, <1>9, <1>11, <1>12 DEF Coop!Next

LEMMA CoopProperties ==
  ASSUME CoopInv
  PROVE  Coop!TypeOK /\ Coop!AnsweredOnce /\ Coop!ContactsAreMeant
<1>1. \A s \in Campus, u \in Student : /\ attempts[s][u] \in Seq(Coop!Statuses) /\ results[s][u] \in Seq(0..CoopRequests)
                                       /\ DOMAIN attempts[s][u] = 1..Len(attempts[s][u])
  BY LenProperties DEF CoopInv, CoopAnswers
<1>2. Coop!TypeOK
  BY <1>1 DEF Coop!TypeOK, CoopInv, CoopPlain, CoopCalls
<1>3. Coop!AnsweredOnce
  BY <1>1 DEF Coop!AnsweredOnce, CoopInv, CoopAnswers
<1>4. Coop!ContactsAreMeant
  <2>1. \A u \in Student : shown[u] \subseteq Campus
    BY DEF CoopInv, CoopPlain
  <2> QED
    BY <1>1, <2>1 DEF Coop!ContactsAreMeant, CoopInv, CoopOpen, CoopApproved
<1> QED
  BY <1>2, <1>3, <1>4

LEMMA CoopSteps ==
  ASSUME CoopInv, [Coop!Next]_Coop!vars
  PROVE  Coop!OwnerUploadsStep
<1> SUFFICES ASSUME NEW k \in Photo, image'[k] # image[k]
             PROVE  \E c \in Request : call[c].k = k /\ Coop!CanAccess(call[c].by, image'[k], TRUE)
  BY DEF Coop!OwnerUploadsStep
<1>1. ASSUME NEW c \in Request, Coop!UploadImage(c)
      PROVE  call[c].k = k /\ Coop!CanAccess(call[c].by, image'[k], TRUE)
  <2>1. Coop!StillAllowed(call[c].by, call[c].s) /\ image' = [image EXCEPT ![call[c].k] = call[c].s]
    BY <1>1 DEF Coop!UploadImage
  <2>2. call[c].k = k /\ image'[k] = call[c].s
    BY <2>1 DEF CoopInv, CoopPlain
  <2> QED
    BY <2>1, <2>2 DEF Coop!StillAllowed
<1>2. \E c \in Request : Coop!UploadImage(c)
  <2> SUFFICES ASSUME ~(\E c \in Request : Coop!UploadImage(c)) PROVE UNCHANGED image
    OBVIOUS
  <2>1. Coop!Reassign \/ (\E opens \in {"available", "closed"} : Coop!SaveOrder(opens)) \/ UNCHANGED Coop!vars => UNCHANGED image
    BY SMTT(30) DEF Coop!Reassign, Coop!SaveOrder, Coop!Content, Coop!vars
  <2>2. ASSUME NEW a \in Coop!Admins, NEW s \in Campus,
               \/ Coop!Claim(a, s)
               \/ \E p, r \in BOOLEAN, S \in SUBSET Photo : Coop!SaveContent(a, s, p, r, S)
               \/ \E c \in Request, l \in Photo : Coop!BeginUpload(c, a, s, l)
               \/ \E u \in Student : \E i \in DOMAIN attempts[s][u], v \in {"approved", "rejected"} : Coop!Review(a, s, u, i, v)
        PROVE  UNCHANGED image
    BY <2>2 DEF Coop!Claim, Coop!SaveContent, Coop!BeginUpload, Coop!Review, Coop!Content
  <2>3. ASSUME NEW u \in Student, NEW s \in Campus,
               Coop!Apply(u, s) \/ \E c \in Request : Coop!BeginDetail(c, u, s)
        PROVE  UNCHANGED image
    BY <2>3 DEF Coop!Apply, Coop!BeginDetail, Coop!Content
  <2>4. ASSUME NEW c \in Request, Coop!ClientDetail(c) PROVE UNCHANGED image
    BY <2>4 DEF Coop!ClientDetail, Coop!Content
  <2> QED
    BY <2>1, <2>2, <2>3, <2>4 DEF Coop!Next
<1> QED
  BY <1>1, <1>2

-----------------------------------------------------------------------------
(* Messages about results.                                                 *)
(*                                                                         *)
(* Every notification has its message, and a message that counts as read   *)
(* was opened.  What was selected for a client goes before what was        *)
(* pending then and still is.                                              *)

StatusNotes == [kind : {"project", "cooperation"}, priority : Priorities, displayed : BOOLEAN]
StatusMessages == [of : {0} \cup Status!Ids, read : BOOLEAN, shown : BOOLEAN]
StatusQuestions ==
  [op : {"idle", "gate", "suppress"}, coop : BOOLEAN, top : {0} \cup Status!Ids, n : {0} \cup Status!Ids]

StatusInv ==
  /\ Status!TypeOK
  /\ Len(note) <= MaxNotes
  /\ \A i \in DOMAIN note : \E j \in DOMAIN message : message[j].of = i
  /\ \A j \in DOMAIN message : message[j].read => j \in opened
  /\ \A c \in Calls : call[c].op = "suppress" =>
       /\ call[c].top \in DOMAIN note
       /\ \A i \in Status!Pending(call[c].coop) \ {call[c].top} : i > call[c].n \/ Status!Before(call[c].top, i)
       /\ call[c].n <= Len(note)

\* What a step leaves of the notifications that were there: only displayed changes.
StatusLaterNotes ==
  /\ Len(note) <= Len(note')
  /\ \A i \in DOMAIN note : /\ note'[i].priority = note[i].priority /\ note'[i].kind = note[i].kind
                            /\ note[i].displayed => note'[i].displayed

LEMMA StatusLaterCalls ==
  ASSUME StatusInv, StatusLaterNotes, note' \in Seq(StatusNotes), NEW c \in Calls,
         call[c].op = "suppress", call'[c] = call[c]
  PROVE  /\ call[c].top \in DOMAIN note'
         /\ (\A i \in Status!Pending(call[c].coop) \ {call[c].top} : i > call[c].n \/ Status!Before(call[c].top, i))'
         /\ call[c].n <= Len(note')
<1> DEFINE r == call[c]
<1> USE DEF StatusInv, Status!TypeOK
<1>0. r.top \in DOMAIN note /\ r.top \in 1..Len(note) /\ r.n \in 0..Len(note) /\ DOMAIN note' = 1..Len(note')
  BY DEF Status!Ids
<1>1. r.top \in DOMAIN note' /\ r.n <= Len(note')
  BY <1>0 DEF StatusLaterNotes
<1>2. ASSUME NEW i \in Status!Pending(r.coop)', i # r.top PROVE i > r.n \/ Status!Before(r.top, i)'
  <2>1. i \in 1..Len(note')
    BY <1>2 DEF Status!Pending
  <2>2. CASE i > Len(note)
    BY <1>0, <2>1, <2>2
  <2>3. CASE i <= Len(note)
    <3>1. i \in DOMAIN note
      BY <2>1, <2>3
    <3>2. i \in Status!Pending(r.coop)
      BY <1>2, <3>1 DEF Status!Pending, StatusLaterNotes
    <3>3. i > r.n \/ Status!Before(r.top, i)
      BY <1>2, <3>2
    <3> QED
      BY <1>0, <3>1, <3>3 DEF Status!Before, StatusLaterNotes
  <2> QED
    BY <1>0, <2>1, <2>2, <2>3
<1> QED
  BY <1>1, <1>2

LEMMA StatusStarts == Status!Init => StatusInv
<1> SUFFICES ASSUME Status!Init PROVE StatusInv
  OBVIOUS
<1>1. call \in [Calls -> StatusQuestions]
  BY DEF Status!Init, Status!NoCall, StatusQuestions
<1>2. note \in Seq(StatusNotes) /\ message \in Seq(StatusMessages) /\ DOMAIN note = {} /\ DOMAIN message = {} /\ Len(note) = 0
  BY DEF Status!Init
<1>3. acts \in 0..MaxActs /\ 0 <= MaxNotes
  BY StatusConstants DEF Status!Init
<1> QED
  BY <1>1, <1>2, <1>3
     DEF Status!Init, StatusInv, Status!TypeOK, Status!NoCall, StatusNotes, StatusMessages,
         StatusQuestions

LEMMA StatusFunctionIsSeq ==
  ASSUME NEW T, NEW n \in Nat, NEW f, f = [i \in 1..n |-> f[i]], \A i \in 1..n : f[i] \in T
  PROVE  f \in Seq(T) /\ Len(f) = n /\ DOMAIN f = 1..n
<1>1. f \in [1..n -> T]
  OBVIOUS
<1>2. f \in Seq(T) /\ DOMAIN f = 1..n
  BY <1>1, SeqDef
<1> QED
  BY <1>2, LenProperties

\* Steps that change notifications only by showing them, and calls only by
\* ending them.
LEMMA StatusShowingKeepsStatus ==
  ASSUME StatusInv, NEW S,
         note' = Status!Displayed(S) \/ UNCHANGED note,
         \A c \in Calls : call'[c] = call[c] \/ call'[c] = Status!NoCall,
         call' \in [Calls -> StatusQuestions],
         message' \in Seq(StatusMessages), Len(message') = Len(message),
         \A j \in DOMAIN message : /\ message'[j].of = message[j].of
                                   /\ message'[j].read => j \in opened',
         opened \subseteq opened', opened' \subseteq DOMAIN message,
         invited' \in BOOLEAN, told' \subseteq DOMAIN note, acts' \in 0..MaxActs
  PROVE  StatusInv'
<1> USE DEF StatusInv, Status!TypeOK
<1>0. /\ note \in Seq(StatusNotes) /\ DOMAIN note = 1..Len(note)
      /\ message \in Seq(StatusMessages) /\ DOMAIN message = 1..Len(message) /\ DOMAIN message' = 1..Len(message')
  BY DEF StatusNotes, StatusMessages
<1>1. /\ note' \in Seq(StatusNotes) /\ Len(note') = Len(note) /\ StatusLaterNotes
  <2>1. CASE UNCHANGED note
    BY <1>0, <2>1 DEF StatusLaterNotes
  <2>2. CASE note' = Status!Displayed(S)
    <3>1. ASSUME NEW i \in 1..Len(note)
          PROVE  /\ note'[i] \in StatusNotes
                 /\ note'[i].priority = note[i].priority /\ note'[i].kind = note[i].kind
                 /\ note[i].displayed => note'[i].displayed
      <4>1. note[i] \in StatusNotes
        BY <1>0, ElementOfSeq
      <4>2. note'[i] \in {note[i], [note[i] EXCEPT !.displayed = TRUE]}
        BY <1>0, <2>2 DEF Status!Displayed
      <4> HIDE DEF StatusInv, Status!TypeOK
      <4> QED
        BY <4>1, <4>2 DEF StatusNotes
    <3>2. note' = [i \in 1..Len(note) |-> note'[i]]
      BY <1>0, <2>2 DEF Status!Displayed
    <3>3. note' \in Seq(StatusNotes) /\ Len(note') = Len(note)
      <4>1. Len(note) \in Nat
        BY <1>0, LenProperties
      <4> HIDE DEF StatusInv, Status!TypeOK
      <4> QED
        BY <3>1, <3>2, <4>1, StatusFunctionIsSeq
    <3> QED
      BY <1>0, <3>1, <3>3 DEF StatusLaterNotes
  <2> QED
    BY <2>1, <2>2
<1>2. \A c \in Calls : call'[c].op = "suppress" => call[c].op = "suppress" /\ call'[c] = call[c]
  BY DEF Status!NoCall
<1>3. \A c \in Calls : call'[c].op = "suppress" =>
        /\ call'[c].top \in DOMAIN note'
        /\ (\A i \in Status!Pending(call[c].coop) \ {call[c].top} : i > call[c].n \/ Status!Before(call[c].top, i))'
        /\ call'[c].n <= Len(note')
  BY <1>1, <1>2, StatusLaterCalls
<1>4. \A i \in DOMAIN note' : \E j \in DOMAIN message' : message'[j].of = i
  <2>1. DOMAIN note' = DOMAIN note /\ DOMAIN message' = DOMAIN message
    BY <1>0, <1>1, LenProperties
  <2> QED
    BY <2>1
<1>5. \A j \in DOMAIN message' : message'[j].read => j \in opened'
  BY <1>0
<1>6. Status!TypeOK'
  BY <1>0, <1>1 DEF StatusNotes, StatusMessages, StatusQuestions
<1> QED
  BY <1>1, <1>3, <1>4, <1>5, <1>6

StatusAdded(i) ==
  \/ i = 0 /\ UNCHANGED note
  \/ i = Len(note) + 1 /\ Len(note) < MaxNotes /\ \E n \in StatusNotes : note' = Append(note, n)

LEMMA StatusNotesGrow ==
  ASSUME note \in Seq(StatusNotes), Len(note) <= MaxNotes, NEW i, StatusAdded(i)
  PROVE  /\ note' \in Seq(StatusNotes) /\ Len(note') <= MaxNotes /\ StatusLaterNotes /\ Len(note') <= Len(note) + 1
         /\ Len(note') = Len(note) + 1 => i = Len(note')
<1>0. Len(note) \in Nat /\ DOMAIN note = 1..Len(note)
  BY LenProperties
<1>1. CASE UNCHANGED note
  <2>1. StatusLaterNotes /\ Len(note') = Len(note)
    BY <1>0, <1>1 DEF StatusLaterNotes
  <2>2. Len(note) \in Nat
    BY LenProperties
  <2>3. Len(note) + 1 # Len(note) /\ Len(note) <= Len(note) + 1
    BY <2>2
  <2> QED
    BY <1>1, <2>1, <2>3
<1>2. ASSUME NEW n \in StatusNotes, note' = Append(note, n)
      PROVE  note' \in Seq(StatusNotes) /\ Len(note') = Len(note) + 1 /\ StatusLaterNotes
  <2>1. note' \in Seq(StatusNotes) /\ Len(note') = Len(note) + 1
    BY <1>0, <1>2
  <2>2. \A k \in 1..Len(note) : note'[k] = note[k]
    BY <1>0, <1>2
  <2> QED
    BY <1>0, <2>1, <2>2 DEF StatusLaterNotes
<1> QED
  BY <1>0, <1>1, <1>2, StatusConstants DEF StatusAdded

\* Steps that add a message, and perhaps its notification.
LEMMA StatusAddingKeepsStatus ==
  ASSUME StatusInv, NEW i, message' = Status!archived(i),
         StatusAdded(i),
         UNCHANGED <<invited, call, told, opened, acts>>
  PROVE  StatusInv'
<1> USE StatusConstants DEF StatusInv, Status!TypeOK
<1>0. /\ note \in Seq(StatusNotes) /\ DOMAIN note = 1..Len(note)
      /\ message \in Seq(StatusMessages) /\ DOMAIN message = 1..Len(message)
      /\ Len(note) \in Nat /\ Len(message) \in Nat /\ Len(note) <= MaxNotes
  BY LenProperties DEF StatusNotes, StatusMessages
<1>1. /\ note' \in Seq(StatusNotes) /\ Len(note') <= MaxNotes /\ StatusLaterNotes /\ Len(note') <= Len(note) + 1
      /\ Len(note') = Len(note) + 1 => i = Len(note')
  BY <1>0, StatusNotesGrow DEF StatusAdded
<1>2. /\ [of |-> i, read |-> FALSE, shown |-> FALSE] \in StatusMessages
  BY <1>0 DEF StatusAdded, StatusMessages, Status!Ids
<1>3. /\ message' \in Seq(StatusMessages) /\ Len(message') = Len(message) + 1
      /\ message'[Len(message')].of = i /\ ~message'[Len(message')].read
      /\ \A j \in 1..Len(message) : message'[j] = message[j]
  BY <1>0, <1>2 DEF Status!archived
<1>4. \A c \in Calls : call[c].op = "suppress" =>
        /\ call[c].top \in DOMAIN note'
        /\ (\A k \in Status!Pending(call[c].coop) \ {call[c].top} : k > call[c].n \/ Status!Before(call[c].top, k))'
        /\ call[c].n <= Len(note')
  BY <1>1, StatusLaterCalls
<1>5. \A k \in DOMAIN note' : \E j \in DOMAIN message' : message'[j].of = k
  <2> SUFFICES ASSUME NEW k \in DOMAIN note' PROVE \E j \in DOMAIN message' : message'[j].of = k
    OBVIOUS
  <2>1. CASE k \in DOMAIN note
    BY <1>0, <1>3, <2>1
  <2>2. CASE k \notin DOMAIN note
    <3>1. k = i
      BY <1>0, <1>1, <2>2
    <3> QED
      BY <1>0, <1>3, <3>1
  <2> QED
    BY <2>1, <2>2
<1>6. \A j \in DOMAIN message' : message'[j].read => j \in opened
  BY <1>0, <1>3
<1>7. opened \subseteq DOMAIN message' /\ told \subseteq DOMAIN note'
  BY <1>0, <1>1, <1>3 DEF StatusLaterNotes
<1>8. Status!TypeOK'
  BY <1>1, <1>3, <1>7 DEF StatusNotes, StatusMessages
<1> QED
  BY <1>1, <1>4, <1>5, <1>6, <1>8

\* What is selected goes before whatever else is pending.
LEMMA StatusAskingKeepsStatus ==
  ASSUME StatusInv, NEW c \in Calls, NEW ofCoop \in BOOLEAN,
         Status!GetMyPendingStatusNotification(c, ofCoop)
  PROVE  StatusInv'
<1> USE StatusConstants DEF StatusInv, Status!TypeOK
<1>1. PICK r : /\ Status!Begins(c, r)
               /\ r \in StatusQuestions
               /\ r.op = "suppress" => /\ r.top \in DOMAIN note /\ r.n = Len(note)
                                       /\ \A i \in Status!Pending(r.coop) \ {r.top} : Status!Before(r.top, i)
  <2>1. CASE invited
    <3> DEFINE r == [Status!NoCall EXCEPT !.op = "gate", !.coop = ofCoop]
    <3>1. r \in StatusQuestions /\ r.op = "gate"
      BY DEF StatusQuestions, Status!NoCall
    <3> QED
      BY <2>1, <3>1 DEF Status!GetMyPendingStatusNotification
  <2>2. CASE ~invited
    <3>1. PICK i \in Status!Pending(ofCoop) :
            /\ Status!First(Status!Pending(ofCoop), i)
            /\ Status!Begins(c, [op |-> "suppress", coop |-> ofCoop, top |-> i, n |-> Len(note)])
      BY <2>2 DEF Status!GetMyPendingStatusNotification
    <3> DEFINE r == [op |-> "suppress", coop |-> ofCoop, top |-> i, n |-> Len(note)]
    <3>2. i \in DOMAIN note /\ i \in Status!Ids /\ Len(note) \in Status!Ids
      BY DEF Status!Pending, Status!Ids
    <3>3. r \in StatusQuestions
      BY <3>2 DEF StatusQuestions
    <3> QED
      BY <3>1, <3>2, <3>3 DEF Status!First
  <2> QED
    BY <2>1, <2>2
<1>2. UNCHANGED <<note, message, invited, told, opened>> /\ acts' \in 0..MaxActs
  BY <1>1 DEF Status!Begins, Status!Act
<1>3. call' = [call EXCEPT ![c] = r] /\ call \in [Calls -> StatusQuestions]
  BY <1>1 DEF Status!Begins, StatusQuestions
<1>4. \A d \in Calls : call'[d].op = "suppress" =>
        /\ call'[d].top \in DOMAIN note
        /\ \A i \in Status!Pending(call'[d].coop) \ {call'[d].top} : i > call'[d].n \/ Status!Before(call'[d].top, i)
        /\ call'[d].n <= Len(note)
  BY <1>1, <1>3
<1> QED
  BY <1>1, <1>2, <1>3, <1>4 DEF StatusQuestions, Status!Pending, Status!Before

LEMMA StatusKeeps ==
  ASSUME StatusInv, [Status!Next]_Status!vars
  PROVE  StatusInv'
<1> DEFINE Kept == /\ message' = message /\ opened' = opened
           Same == /\ \A c \in Calls : call'[c] = call[c] \/ call'[c] = Status!NoCall
                   /\ call' \in [Calls -> StatusQuestions]
<1>0. /\ call \in [Calls -> StatusQuestions] /\ message \in Seq(StatusMessages) /\ note \in Seq(StatusNotes)
      /\ opened \subseteq DOMAIN message /\ told \subseteq DOMAIN note /\ invited \in BOOLEAN /\ acts \in 0..MaxActs
      /\ \A j \in DOMAIN message : message[j].read => j \in opened
      /\ Status!NoCall \in StatusQuestions
  BY DEF StatusInv, Status!TypeOK, StatusQuestions, StatusMessages, StatusNotes, Status!NoCall
<1>1. CASE UNCHANGED Status!vars
  BY <1>1, <1>0, StatusShowingKeepsStatus DEF Status!vars
<1>2. ASSUME NEW kind \in {"project", "cooperation"}, NEW priority \in Priorities,
             Status!CreateTx(kind, priority)
      PROVE  StatusInv'
  <2>1. [kind |-> kind, priority |-> priority, displayed |-> FALSE] \in StatusNotes
    BY DEF StatusNotes
  <2>2. StatusAdded(Len(note) + 1)
    BY <1>2, <2>1 DEF Status!CreateTx, StatusAdded
  <2> QED
    BY <1>2, <2>2, StatusAddingKeepsStatus DEF Status!CreateTx
<1>3. CASE Status!ArchiveProjectStatusTx
  <2>1. StatusAdded(0)
    BY <1>3 DEF Status!ArchiveProjectStatusTx, StatusAdded
  <2> QED
    BY <1>3, <2>1, StatusAddingKeepsStatus DEF Status!ArchiveProjectStatusTx
<1>4. CASE Status!Invitation
  <2>1. invited' \in BOOLEAN /\ acts' \in 0..MaxActs
    BY <1>0, <1>4, StatusConstants DEF Status!Invitation, Status!Act
  <2> QED
    BY <1>0, <1>4, <2>1, StatusShowingKeepsStatus DEF Status!Invitation
<1>5. ASSUME NEW c \in Calls,
             Status!MarkAllPendingDisplayed(c) \/ Status!GetPending(c) \/ Status!CallFails(c)
      PROVE  StatusInv'
  <2>1. /\ Status!Ends(c)
        /\ \/ UNCHANGED note
           \/ note' = Status!Displayed(DOMAIN note)
           \/ note' = Status!Displayed(Status!Pending(call[c].coop) \ {call[c].top})
    BY <1>5 DEF Status!MarkAllPendingDisplayed, Status!GetPending, Status!CallFails
  <2>2. told' \subseteq DOMAIN note
    BY <1>0, <1>5 DEF Status!MarkAllPendingDisplayed, Status!GetPending, Status!CallFails, StatusInv
  <2>3. Same /\ UNCHANGED <<message, invited, opened, acts>>
    BY <1>0, <2>1 DEF Status!Ends
  <2> QED
    BY <1>0, <2>1, <2>2, <2>3, StatusShowingKeepsStatus
<1>6. ASSUME NEW i \in DOMAIN note, Status!MarkDisplayed(i) PROVE StatusInv'
  <2>1. /\ acts' \in 0..MaxActs /\ note' = Status!Displayed({i}) /\ UNCHANGED <<invited, call, told>>
        /\ opened' = opened \cup {j \in DOMAIN message : message[j].of = i}
    BY <1>0, <1>6, StatusConstants DEF Status!MarkDisplayed, Status!Act
  <2>2. i \in {0} \cup Status!Ids
    <3>1. DOMAIN note = 1..Len(note) /\ Len(note) \in Nat /\ Len(note) <= MaxNotes
      BY <1>0, LenProperties DEF StatusInv
    <3> QED
      BY <3>1, StatusConstants DEF Status!Ids
  <2>3. ASSUME NEW j \in 1..Len(message)
        PROVE  /\ message'[j] \in StatusMessages /\ message'[j].of = message[j].of
               /\ message'[j].read => j \in opened'
    <3>1. message[j] \in StatusMessages /\ j \in DOMAIN message
      BY <1>0, LenProperties
    <3>2. message'[j] = IF message[j].of = i THEN [of |-> i, read |-> TRUE, shown |-> TRUE] ELSE message[j]
      BY <1>6, <3>1 DEF Status!MarkDisplayed
    <3>3. [of |-> i, read |-> TRUE, shown |-> TRUE] \in StatusMessages
      BY <2>2 DEF StatusMessages
    <3> QED
      BY <1>0, <2>1, <3>1, <3>2, <3>3
  <2>4. message' = [j \in 1..Len(message) |-> message'[j]]
    BY <1>0, <1>6, LenProperties DEF Status!MarkDisplayed
  <2>5. message' \in Seq(StatusMessages) /\ Len(message') = Len(message) /\ DOMAIN message = 1..Len(message)
    BY <1>0, <2>3, <2>4, StatusFunctionIsSeq, LenProperties
  <2>6. opened \subseteq opened' /\ opened' \subseteq DOMAIN message
    BY <1>0, <2>1
  <2> QED
    BY <1>0, <2>1, <2>3, <2>5, <2>6, StatusShowingKeepsStatus
<1>7. ASSUME NEW j \in DOMAIN message, NEW displayed \in BOOLEAN, NEW read \in BOOLEAN,
             Status!MarkMessage(j, displayed, read)
      PROVE  StatusInv'
  <2> DEFINE m == message[j]
             new == [m EXCEPT !.read = @ \/ read, !.shown = @ \/ displayed]
  <2>0. m \in StatusMessages /\ DOMAIN message = 1..Len(message) /\ Len(message) \in Nat
    BY <1>0, LenProperties
  <2>1. /\ acts' \in 0..MaxActs /\ UNCHANGED <<note, invited, call, told>>
        /\ opened' = IF read THEN opened \cup {j} ELSE opened
    BY <1>0, <1>7, StatusConstants DEF Status!MarkMessage, Status!Act
  <2>2. message' = [message EXCEPT ![j] = new]
    BY <1>0, <1>7, <2>0 DEF Status!MarkMessage, StatusMessages
  <2>3. new \in StatusMessages /\ new.of = m.of /\ (new.read => m.read \/ read)
    BY <2>0 DEF StatusMessages
  <2> HIDE DEF new
  <2>4. message' \in Seq(StatusMessages) /\ Len(message') = Len(message)
    BY <1>0, <2>0, <2>2, <2>3, ExceptSeq
  <2>5. \A k \in DOMAIN message : message'[k].of = message[k].of /\ (message'[k].read => k \in opened')
    BY <1>0, <2>1, <2>2, <2>3
  <2>6. opened \subseteq opened' /\ opened' \subseteq DOMAIN message
    BY <1>0, <2>1
  <2> QED
    BY <1>0, <2>1, <2>4, <2>5, <2>6, StatusShowingKeepsStatus
<1> QED
  BY <1>1, <1>2, <1>3, <1>4, <1>5, <1>6, <1>7, StatusAskingKeepsStatus DEF Status!Next

LEMMA StatusProperties ==
  ASSUME StatusInv
  PROVE  Status!TypeOK /\ Status!NothingIsLost
  BY SMTT(30) DEF StatusInv, Status!NothingIsLost

\* Showing one notification opens its message; a question that takes the
\* screen lets none show; a selection passes over what it goes before.
LEMMA StatusSteps ==
  ASSUME StatusInv, [Status!Next]_Status!vars
  PROVE  Status!SkippedForABetterOneStep
<1> SUFFICES ASSUME NEW i \in DOMAIN note, note'[i].displayed, ~note[i].displayed
             PROVE  \/ \E j \in opened' : message'[j].of = i
                    \/ \E c \in Calls :
                         \/ call[c].op = "gate"
                         \/ /\ call[c].op = "suppress"
                            /\ i > call[c].n \/ Status!Before(call[c].top, i)
                            /\ call[c].coop \/ note[i].kind = "project"
  BY DEF Status!SkippedForABetterOneStep
<1>0. note'[i] # note[i]
  OBVIOUS
<1>1. ASSUME NEW kind \in {"project", "cooperation"}, NEW priority \in Priorities,
             Status!CreateTx(kind, priority)
      PROVE  FALSE
  <2>1. note \in Seq(StatusNotes) /\ DOMAIN note = 1..Len(note) /\ Len(note) \in Nat
    BY LenProperties DEF StatusInv, Status!TypeOK, StatusNotes
  <2>2. note' = Append(note, [kind |-> kind, priority |-> priority, displayed |-> FALSE])
    BY <1>1 DEF Status!CreateTx
  <2> QED
    BY <1>0, <2>1, <2>2
<1>2. ASSUME NEW c \in Calls, Status!GetPending(c)
      PROVE  /\ call[c].op = "suppress"
             /\ i > call[c].n \/ Status!Before(call[c].top, i)
             /\ call[c].coop \/ note[i].kind = "project"
  <2>1. i \in Status!Pending(call[c].coop) \ {call[c].top} /\ call[c].op = "suppress"
    BY <1>0, <1>2 DEF Status!GetPending, Status!Displayed
  <2> QED
    BY <2>1 DEF StatusInv, Status!Pending
<1>3. ASSUME NEW k \in DOMAIN note, Status!MarkDisplayed(k)
      PROVE  \E j \in opened' : message'[j].of = i
  <2>1. i = k
    BY <1>0, <1>3 DEF Status!MarkDisplayed, Status!Displayed
  <2>2. PICK j \in DOMAIN message : message[j].of = i
    BY DEF StatusInv
  <2> QED
    BY <1>3, <2>1, <2>2 DEF Status!MarkDisplayed
<1>4. ASSUME NEW c \in Calls, NEW ofCoop \in BOOLEAN,
             Status!GetMyPendingStatusNotification(c, ofCoop)
      PROVE  FALSE
  BY <1>0, <1>4 DEF Status!GetMyPendingStatusNotification, Status!Begins
<1>5. ASSUME NEW c \in Calls, Status!MarkAllPendingDisplayed(c) PROVE call[c].op = "gate"
  BY <1>5 DEF Status!MarkAllPendingDisplayed
<1> QED
  BY <1>0, <1>1, <1>2, <1>3, <1>4, <1>5
     DEF Status!Next, Status!vars, Status!ArchiveProjectStatusTx, Status!Invitation,
         Status!CallFails, Status!MarkMessage

-----------------------------------------------------------------------------
(* Invitations to register.                                                *)
(*                                                                         *)
(* A record says SENT, or was joined, only for an SMS that was taken; and  *)
(* so does each copy of a record that a request holds.                     *)

InviteHonest(p, r) == r.status \in {"SENT", "JOINED"} \/ r.joined => p \in taken

InviteInv ==
  /\ Invite!TypeOK
  /\ \A p \in EventIds : InviteHonest(p, record[p])
  /\ attached \subseteq taken
  /\ \A c \in Calls :
       /\ call[c].at # "idle" => call[c].p \in EventIds
       /\ InviteHonest(call[c].p, call[c].rec)
       /\ call[c].at = "sent" => call[c].p \in taken

LEMMA InviteRecords ==
  /\ Invite!NoRecord \in Invite!Records /\ Invite!NoRecord.status = "absent" /\ ~Invite!NoRecord.joined
  /\ Invite!NoCall \in Invite!CallRecords /\ Invite!NoCall.at = "idle" /\ Invite!NoCall.rec = Invite!NoRecord
  /\ \A r \in Invite!Records, s \in Invite!Statuses : /\ [r EXCEPT !.status = s] \in Invite!Records
                                                      /\ [r EXCEPT !.status = s].status = s
                                                      /\ [r EXCEPT !.status = s].joined = r.joined
  BY DEF Invite!NoRecord, Invite!Records, Invite!Statuses, Invite!NoCall, Invite!CallRecords

LEMMA InviteStarts == Invite!Init => InviteInv
<1> SUFFICES ASSUME Invite!Init PROVE InviteInv
  OBVIOUS
<1>1. call \in [Calls -> Invite!CallRecords] /\ record \in [EventIds -> Invite!Records]
  BY InviteRecords DEF Invite!Init
<1>2. {attached, taken} \subseteq SUBSET EventIds
  BY DEF Invite!Init
<1>3. requests \in 0..InviteRequests
  BY InviteConstants DEF Invite!Init
<1>5. registered \in BOOLEAN
  BY DEF Invite!Init
<1>4. Invite!TypeOK
  BY <1>1, <1>2, <1>3, <1>5 DEF Invite!TypeOK
<1> QED
  BY <1>4, InviteRecords DEF Invite!Init, InviteInv, InviteHonest

LEMMA InviteKeeps ==
  ASSUME InviteInv, [Invite!Next]_Invite!vars
  PROVE  InviteInv'
<1> USE InviteConstants, InviteRecords DEF InviteInv, Invite!TypeOK
<1>1. CASE UNCHANGED Invite!vars
  BY <1>1 DEF Invite!vars, InviteHonest
<1>2. ASSUME NEW c \in Calls, NEW p \in EventIds, Invite!Invite(c, p) PROVE InviteInv'
  <2>1. [Invite!NoCall EXCEPT !.at = "read", !.p = p] \in Invite!CallRecords
    BY DEF Invite!NoCall, Invite!CallRecords
  <2> QED
    BY <1>2, <2>1 DEF Invite!Invite, InviteHonest, Invite!NoCall
<1>3. ASSUME NEW c \in Calls, Invite!ReadRecord(c) PROVE InviteInv'
  <2>1. CASE Invite!Returns(c)
    BY <1>3, <2>1 DEF Invite!ReadRecord, Invite!Returns, InviteHonest
  <2>2. CASE call' = [call EXCEPT ![c].at = "write", ![c].rec = record[call[c].p]]
    BY ZenonT(30), <1>3, <2>2 DEF Invite!ReadRecord, InviteHonest, Invite!CallRecords
  <2> QED
    BY <1>3, <2>1, <2>2 DEF Invite!ReadRecord
<1>4. ASSUME NEW c \in Calls, Invite!WriteRecord(c) PROVE InviteInv'
  <2> DEFINE p == call[c].p
             old == call[c].rec
             new == [old EXCEPT !.status = Invite!Before]
  <2>1. p \in EventIds /\ old \in Invite!Records /\ new \in Invite!Records /\ InviteHonest(p, new) /\ UNCHANGED <<taken, attached>>
    BY <1>4 DEF Invite!WriteRecord, InviteHonest, Invite!CallRecords, Invite!Statuses, Invite!Before
  <2>2. \/ /\ record' = record
           /\ call' = [call EXCEPT ![c].at = "send", ![c].rec = record[p]]
        \/ /\ record' = [record EXCEPT ![p] = new]
           /\ call' = [call EXCEPT ![c].at = "send", ![c].rec = new]
    BY <1>4 DEF Invite!WriteRecord
  <2>3. Invite!TypeOK'
    BY <1>4, <2>1, <2>2 DEF Invite!WriteRecord, Invite!CallRecords
  <2> HIDE DEF p, old, new
  <2>4. \A q \in EventIds : InviteHonest(q, record'[q])
    BY <2>1, <2>2
  <2>5. /\ call'[c].at = "send" /\ call'[c].p = p /\ InviteHonest(p, call'[c].rec)
        /\ \A d \in Calls \ {c} : call'[d] = call[d]
    BY <2>1, <2>2 DEF p, Invite!CallRecords
  <2> QED
    BY <2>1, <2>3, <2>4, <2>5 DEF InviteHonest
<1>5. ASSUME NEW c \in Calls, Invite!SendRegisterInviteSms(c) PROVE InviteInv'
  BY <1>5 DEF Invite!SendRegisterInviteSms, Invite!Goes, InviteHonest, Invite!CallRecords
<1>6. ASSUME NEW c \in Calls, Invite!WriteResult(c) PROVE InviteInv'
  <2> DEFINE p == call[c].p
             new == [call[c].rec EXCEPT !.status = IF call[c].at = "sent" THEN "SENT" ELSE "FAILED"]
  <2>1. /\ record' = [record EXCEPT ![p] = new] /\ call' = [call EXCEPT ![c] = Invite!NoCall]
        /\ UNCHANGED <<registered, attached, taken, requests>>
    BY <1>6 DEF Invite!WriteResult, Invite!Returns
  <2>2. p \in EventIds /\ call[c].rec \in Invite!Records /\ InviteHonest(p, call[c].rec)
    BY <1>6 DEF Invite!WriteResult, Invite!CallRecords
  <2>3. new \in Invite!Records /\ InviteHonest(p, new)
    <3>1. p \in taken \/ new = [call[c].rec EXCEPT !.status = "FAILED"]
      BY <1>6 DEF Invite!WriteResult
    <3>2. new \in Invite!Records /\ new.joined = call[c].rec.joined
      BY <2>2 DEF Invite!Records, Invite!Statuses
    <3>3. new = [call[c].rec EXCEPT !.status = "FAILED"] => new.status = "FAILED"
      BY <2>2 DEF Invite!Records
    <3> HIDE DEF new, InviteInv, Invite!TypeOK
    <3> QED
      BY <2>2, <3>1, <3>2, <3>3 DEF InviteHonest
  <2> HIDE DEF new
  <2> QED
    BY <2>1, <2>2, <2>3 DEF InviteHonest
<1>7. ASSUME NEW c \in Calls, Invite!Abort(c) PROVE InviteInv'
  BY <1>7 DEF Invite!Abort, Invite!Returns, InviteHonest
<1>8. CASE Invite!Register
  BY <1>8 DEF Invite!Register, InviteHonest
<1>9. CASE Invite!AttachPendingJoinsByPhone
  BY <1>9 DEF Invite!AttachPendingJoinsByPhone, InviteHonest, Invite!Records, Invite!Statuses
<1> QED
  BY <1>1, <1>2, <1>3, <1>4, <1>5, <1>6, <1>7, <1>8, <1>9 DEF Invite!Next

LEMMA InviteProperties ==
  ASSUME InviteInv
  PROVE  Invite!TypeOK /\ Invite!InvitedForReal
  BY DEF InviteInv, Invite!InvitedForReal, Invite!CheckByPhone, InviteHonest

-----------------------------------------------------------------------------
(* Invitations that are answered.                                          *)
(*                                                                         *)
(* Who is not asked has answered or was never invited: then no invitation  *)
(* is there, and none is on its way.  A request that has not seen one      *)
(* during its life runs while nothing is asked, and what it finds active   *)
(* was asked.                                                              *)

AnswerNoneOnItsWay == expires = None /\ \A d \in Calls : call[d].at # "upsert"

AnswerInv ==
  /\ Answer!TypeOK
  /\ ~asked /\ ~Answer!Answered => AnswerNoneOnItsWay
  /\ \A c \in Calls :
       /\ call[c].op = "page" /\ ~call[c].asked => ~asked
       /\ call[c].op = "page" /\ call[c].at = "active" /\ ~call[c].asked => AnswerNoneOnItsWay
       /\ call[c].at = "upsert" => call[c].op = "invite"

LEMMA AnswerCalls ==
  /\ Answer!NoCall \in Answer!CallRecords
  /\ Answer!NoCall.op = "idle" /\ Answer!NoCall.at = "begin" /\ Answer!NoCall.asked = FALSE
  /\ \A r \in Answer!CallRecords : /\ r.asked \in BOOLEAN
                                   /\ \A at \in {"begin", "clear", "upsert", "active"} :
                                        [r EXCEPT !.at = at] \in Answer!CallRecords
                                   /\ \A b \in BOOLEAN : [r EXCEPT !.asked = b] \in Answer!CallRecords
  BY DEF Answer!NoCall, Answer!CallRecords

LEMMA AnswerStarts == Answer!Init => AnswerInv
<1> SUFFICES ASSUME Answer!Init PROVE AnswerInv
  OBVIOUS
<1>a. feedback \in Answer!Feedback BY DEF Answer!Init, Answer!Feedback, Answer!Answers
<1>b. call \in [Calls -> Answer!CallRecords] BY AnswerCalls DEF Answer!Init
<1>c. now \in 0..AnswerTime /\ requests \in 0..AnswerRequests BY AnswerConstants DEF Answer!Init
<1>d. expires \in Nat \cup {None} /\ asked \in BOOLEAN BY DEF Answer!Init
<1>1. Answer!TypeOK
  BY <1>a, <1>b, <1>c, <1>d DEF Answer!TypeOK
<1> QED
  BY <1>1, AnswerCalls DEF Answer!Init, AnswerInv, AnswerNoneOnItsWay

LEMMA AnswerTypes ==
  ASSUME Answer!TypeOK, [Answer!Next]_Answer!vars
  PROVE  Answer!TypeOK'
<1> USE AnswerConstants DEF Answer!TypeOK
<1>1. CASE UNCHANGED Answer!vars
  BY <1>1 DEF Answer!vars
<1>2. ASSUME NEW c \in Calls, NEW op \in {"feedback", "invite", "page"}, Answer!Begin(c, op)
      PROVE  Answer!TypeOK'
  <2>1. [op |-> op, at |-> "begin", asked |-> asked] \in Answer!CallRecords
    BY DEF Answer!CallRecords
  <2> QED
    BY <1>2, <2>1 DEF Answer!Begin
<1>3. ASSUME NEW c \in Calls, NEW s \in Answer!Conversations, Answer!SetConversationStatus(c, s)
      PROVE  Answer!TypeOK'
  <2>1. feedback' \in Answer!Feedback
    BY <1>3
       DEF Answer!SetConversationStatus, Answer!UpsertConversationStatus, Answer!Feedback,
           Answer!Answers
  <2>2. call' \in [Calls -> Answer!CallRecords]
    <3>1. CASE call' = [d \in Calls |-> IF d = c THEN [call[c] EXCEPT !.at = "upsert"]
                                       ELSE [call[d] EXCEPT !.asked = @ \/ call[d].op # "idle"]]
      BY <3>1, AnswerCalls
    <3>2. CASE Answer!Returns(c)
      BY <3>2, AnswerCalls DEF Answer!Returns
    <3> QED
      BY <1>3, <3>1, <3>2 DEF Answer!SetConversationStatus
  <2> QED
    BY <1>3, <2>1, <2>2 DEF Answer!SetConversationStatus
<1>4. ASSUME NEW c \in Calls, NEW s \in {"interested", "not_interested"},
             Answer!SubmitFeedback(c, s)
      PROVE  Answer!TypeOK'
  <2>1. call' \in [Calls -> Answer!CallRecords]
    BY <1>4, AnswerCalls DEF Answer!SubmitFeedback, Answer!Goes
  <2> QED
    BY <1>4, <2>1 DEF Answer!SubmitFeedback, Answer!UpsertFeedback, Answer!Feedback, Answer!Answers
<1>5. ASSUME NEW c \in Calls,
             Answer!CreatePendingSuperAdminInvitation(c) \/ Answer!GetPendingInvitation(c) \/ Answer!ShowPage(c)
                              \/ Answer!ClearAnswered(c) \/ Answer!Abort(c)
      PROVE  Answer!TypeOK'
  <2>0. Answer!Returns(c) \/ \E at \in {"clear", "active"} : Answer!Goes(c, at)
    BY <1>5
       DEF Answer!CreatePendingSuperAdminInvitation, Answer!GetPendingInvitation, Answer!ShowPage,
           Answer!ClearAnswered, Answer!Abort
  <2>1. call' \in [Calls -> Answer!CallRecords]
    <3>1. CASE Answer!Returns(c)
      BY <3>1, AnswerCalls DEF Answer!Returns
    <3>2. ASSUME NEW at \in {"clear", "active"}, Answer!Goes(c, at)
          PROVE  call' \in [Calls -> Answer!CallRecords]
      <4>1. [call[c] EXCEPT !.at = at] \in Answer!CallRecords
        BY AnswerCalls
      <4> QED
        BY <3>2, <4>1 DEF Answer!Goes
    <3> QED
      BY <2>0, <3>1, <3>2
  <2> QED
    BY <1>5, <2>1, AnswerConstants
       DEF Answer!CreatePendingSuperAdminInvitation, Answer!GetPendingInvitation, Answer!ShowPage,
           Answer!ClearAnswered, Answer!Abort,
           Answer!ClearByUserID
<1>6. CASE Answer!ClearPendingInvitation \/ Answer!DeleteExpired
  BY <1>6 DEF Answer!ClearPendingInvitation, Answer!DeleteExpired, Answer!ClearByUserID
<1>7. CASE Answer!Tick
  BY <1>7, AnswerConstants DEF Answer!Tick
<1> QED
  BY <1>1, <1>2, <1>3, <1>4, <1>5, <1>6, <1>7 DEF Answer!Next

LEMMA AnswerKeeps ==
  ASSUME AnswerInv, [Answer!Next]_Answer!vars
  PROVE  AnswerInv'
<1>0. Answer!TypeOK' /\ Answer!TypeOK
  BY AnswerTypes DEF AnswerInv
<1> USE <1>0, AnswerConstants DEF AnswerInv, Answer!TypeOK
<1>1. CASE UNCHANGED Answer!vars
  BY <1>1 DEF Answer!vars, AnswerNoneOnItsWay, Answer!Answered
<1>2. ASSUME NEW c \in Calls, NEW op \in {"feedback", "invite", "page"}, Answer!Begin(c, op)
      PROVE  AnswerInv'
  BY <1>2 DEF Answer!Begin, AnswerNoneOnItsWay, Answer!Answered
<1>3. ASSUME NEW c \in Calls, NEW s \in Answer!Conversations, Answer!SetConversationStatus(c, s)
      PROVE  AnswerInv'
  <2>1. CASE s = "in_progress"
    <3>1. /\ asked' = TRUE
          /\ call' = [d \in Calls |-> IF d = c THEN [call[c] EXCEPT !.at = "upsert"]
                                      ELSE [call[d] EXCEPT !.asked = @ \/ call[d].op # "idle"]]
          /\ call[c].op = "invite"
      BY <1>3, <2>1 DEF Answer!SetConversationStatus
    <3>2. \A d \in Calls : /\ call'[d].op = call[d].op
                           /\ call[d].op = "page" => call'[d].asked
                           /\ call'[d].at = "upsert" => d = c \/ call[d].at = "upsert"
      BY <3>1 DEF Answer!CallRecords
    <3> QED
      BY <3>1, <3>2
  <2>2. CASE s # "in_progress"
    BY <1>3, <2>2
       DEF Answer!SetConversationStatus, Answer!UpsertConversationStatus, Answer!Returns,
           Answer!NoCall, AnswerNoneOnItsWay, Answer!Answered
  <2> QED
    BY <2>1, <2>2
<1>4. ASSUME NEW c \in Calls, NEW s \in {"interested", "not_interested"},
             Answer!SubmitFeedback(c, s)
      PROVE  AnswerInv'
  BY <1>4
     DEF Answer!SubmitFeedback, Answer!UpsertFeedback, Answer!Goes, AnswerNoneOnItsWay,
         Answer!Answered, Answer!CallRecords
<1>5. ASSUME NEW c \in Calls, Answer!CreatePendingSuperAdminInvitation(c) PROVE AnswerInv'
  BY <1>5
     DEF Answer!CreatePendingSuperAdminInvitation, Answer!Returns, Answer!NoCall,
         AnswerNoneOnItsWay, Answer!Answered
<1>6. ASSUME NEW c \in Calls, Answer!GetPendingInvitation(c) PROVE AnswerInv'
  BY <1>6
     DEF Answer!GetPendingInvitation, Answer!Goes, AnswerNoneOnItsWay, Answer!Answered,
         Answer!CallRecords
<1>7. ASSUME NEW c \in Calls, Answer!ShowPage(c) \/ Answer!ClearAnswered(c) \/ Answer!Abort(c)
      PROVE  AnswerInv'
  BY <1>7
     DEF Answer!ShowPage, Answer!ClearAnswered, Answer!Abort, Answer!Returns, Answer!ClearByUserID,
         Answer!NoCall, AnswerNoneOnItsWay, Answer!Answered
<1>8. CASE Answer!ClearPendingInvitation \/ Answer!DeleteExpired \/ Answer!Tick
  BY <1>8
     DEF Answer!ClearPendingInvitation, Answer!DeleteExpired, Answer!Tick, Answer!ClearByUserID,
         AnswerNoneOnItsWay, Answer!Answered
<1> QED
  BY <1>1, <1>2, <1>3, <1>4, <1>5, <1>6, <1>7, <1>8 DEF Answer!Next

\* A page that is shown found an active invitation, so that it was asked for.
LEMMA AnswerSteps ==
  ASSUME AnswerInv
  PROVE  Answer!AnsweredIsNotAskedStep
  BY DEF AnswerInv, Answer!TypeOK, Answer!AnsweredIsNotAskedStep, Answer!ShowPage,
         Answer!GetActiveByUserID, AnswerNoneOnItsWay, Answer!CallRecords

LEMMA AnswerProperties ==
  ASSUME AnswerInv
  PROVE  Answer!TypeOK
  BY DEF AnswerInv

-----------------------------------------------------------------------------
(* The components side by side.                                            *)

\* What holds of the component that runs.
BackOfficeInv ==
  /\ which = "administrators" => Admin!TypeOK
  /\ which = "events" => EventInv
  /\ which = "accounts" => AccountInv
  /\ which = "welcome" => WelcomeInv
  /\ which = "talent" => TalentInv
  /\ which = "media" => MediaInv
  /\ which = "feishu" => FeishuInv
  /\ which = "cooperation" => CoopInv
  /\ which = "interactions" => InterInv
  /\ which = "messages" => StatusInv
  /\ which = "ratings" => RatingInv
  /\ which = "invitations" => InviteInv
  /\ which = "feedback" => AnswerInv
  /\ which = "commission" => MoneyInv

\* A step is one of the component that runs, and leaves it running.
LEMMA RunsOne == [Next]_all => which' = which
  BY DEF Next, all

LEMMA AdminRuns ==
  ASSUME [Next]_all, which = "administrators"
  PROVE  [Admin!Next]_Admin!vars
<1>1. CASE UNCHANGED all
  BY <1>1 DEF all, OfAdministrators, Admin!vars
<1>2. CASE Next
  BY <1>2 DEF Next
<1> QED
  BY <1>1, <1>2

LEMMA EventRuns ==
  ASSUME [Next]_all, which = "events"
  PROVE  [Event!Next]_Event!vars
<1>1. CASE UNCHANGED all
  BY <1>1 DEF all, OfEvents, Event!vars
<1>2. CASE Next
  BY <1>2 DEF Next
<1> QED
  BY <1>1, <1>2

LEMMA AccountRuns ==
  ASSUME [Next]_all, which = "accounts"
  PROVE  [Account!Next]_Account!vars
<1>1. CASE UNCHANGED all
  BY <1>1 DEF all, OfAccounts, Account!vars
<1>2. CASE Next
  BY <1>2 DEF Next
<1> QED
  BY <1>1, <1>2

LEMMA WelcomeRuns ==
  ASSUME [Next]_all, which = "welcome"
  PROVE  [Welcome!Next]_Welcome!vars
<1>1. CASE UNCHANGED all
  BY <1>1 DEF all, OfWelcomeEmail, Welcome!vars
<1>2. CASE Next
  BY <1>2 DEF Next
<1> QED
  BY <1>1, <1>2

LEMMA TalentRuns ==
  ASSUME [Next]_all, which = "talent"
  PROVE  [TalentM!Next]_TalentM!vars
<1>1. CASE UNCHANGED all
  BY <1>1 DEF all, OfTalent, TalentM!vars
<1>2. CASE Next
  BY <1>2 DEF Next
<1> QED
  BY <1>1, <1>2

LEMMA MediaRuns ==
  ASSUME [Next]_all, which = "media"
  PROVE  [MediaM!Next]_MediaM!vars
<1>1. CASE UNCHANGED all
  BY <1>1 DEF all, OfMedia, MediaM!vars
<1>2. CASE Next
  BY <1>2 DEF Next
<1> QED
  BY <1>1, <1>2

LEMMA FeishuRuns ==
  ASSUME [Next]_all, which = "feishu"
  PROVE  [FeishuM!Next]_FeishuM!vars
<1>1. CASE UNCHANGED all
  BY <1>1 DEF all, OfFeishu, FeishuM!vars
<1>2. CASE Next
  BY <1>2 DEF Next
<1> QED
  BY <1>1, <1>2

LEMMA CoopRuns ==
  ASSUME [Next]_all, which = "cooperation"
  PROVE  [Coop!Next]_Coop!vars
<1>1. CASE UNCHANGED all
  BY <1>1 DEF all, OfCooperation, Coop!vars
<1>2. CASE Next
  BY <1>2 DEF Next
<1> QED
  BY <1>1, <1>2

LEMMA InterRuns ==
  ASSUME [Next]_all, which = "interactions"
  PROVE  [Inter!Next]_Inter!vars
<1>1. CASE UNCHANGED all
  BY <1>1 DEF all, OfInteractions, Inter!vars
<1>2. CASE Next
  BY <1>2 DEF Next
<1> QED
  BY <1>1, <1>2

LEMMA StatusRuns ==
  ASSUME [Next]_all, which = "messages"
  PROVE  [Status!Next]_Status!vars
<1>1. CASE UNCHANGED all
  BY <1>1 DEF all, OfStatusMessages, Status!vars
<1>2. CASE Next
  BY <1>2 DEF Next
<1> QED
  BY <1>1, <1>2

LEMMA RatingRuns ==
  ASSUME [Next]_all, which = "ratings"
  PROVE  [Rating!Next]_Rating!vars
<1>1. CASE UNCHANGED all
  BY <1>1 DEF all, OfProjectRating, Rating!vars
<1>2. CASE Next
  BY <1>2 DEF Next
<1> QED
  BY <1>1, <1>2

LEMMA InviteRuns ==
  ASSUME [Next]_all, which = "invitations"
  PROVE  [Invite!Next]_Invite!vars
<1>1. CASE UNCHANGED all
  BY <1>1 DEF all, OfInvitationFeedback, OfInvitations, OfRegisterInvitation, Invite!vars
<1>2. CASE Next
  BY <1>2 DEF Next
<1> QED
  BY <1>1, <1>2

LEMMA AnswerRuns ==
  ASSUME [Next]_all, which = "feedback"
  PROVE  [Answer!Next]_Answer!vars
<1>1. CASE UNCHANGED all
  BY <1>1 DEF all, OfInvitationFeedback, OfInvitations, OfRegisterInvitation, Answer!vars
<1>2. CASE Next
  BY <1>2 DEF Next
<1> QED
  BY <1>1, <1>2

LEMMA MoneyRuns ==
  ASSUME [Next]_all, which = "commission"
  PROVE  [Money!Next]_Money!vars
<1>1. CASE UNCHANGED all
  BY <1>1 DEF all, OfCommission, Money!vars
<1>2. CASE Next
  BY <1>2 DEF Next
<1> QED
  BY <1>1, <1>2

\* At the start and after every step, the invariant of the component that runs holds.
LEMMA BackOfficeInvHolds == Spec => []BackOfficeInv
<1>1. Init => BackOfficeInv
  BY AdminStarts, EventStarts, AccountStarts, WelcomeStarts, TalentStarts, MediaStarts,
     FeishuStarts, CoopStarts, InterStarts, StatusStarts, RatingStarts, InviteStarts,
     AnswerStarts, MoneyStarts, FeishuConstants
     DEF Init, BackOfficeInv, FeishuDistinct
<1>2. BackOfficeInv /\ [Next]_all => BackOfficeInv'
  <2> SUFFICES ASSUME BackOfficeInv, [Next]_all PROVE BackOfficeInv'
    OBVIOUS
  <2>0. which' = which
    BY RunsOne
  <2>1. ASSUME which = "administrators" PROVE Admin!TypeOK'
    BY <2>1, AdminRuns, AdminKeeps DEF BackOfficeInv
  <2>2. ASSUME which = "events" PROVE EventInv'
    BY <2>2, EventRuns, EventKeeps DEF BackOfficeInv
  <2>3. ASSUME which = "accounts" PROVE AccountInv'
    BY <2>3, AccountRuns, AccountKeeps DEF BackOfficeInv
  <2>4. ASSUME which = "welcome" PROVE WelcomeInv'
    BY <2>4, WelcomeRuns, WelcomeKeeps DEF BackOfficeInv
  <2>5. ASSUME which = "talent" PROVE TalentInv'
    BY <2>5, TalentRuns, TalentKeeps DEF BackOfficeInv
  <2>6. ASSUME which = "media" PROVE MediaInv'
    BY <2>6, MediaRuns, MediaKeeps DEF BackOfficeInv
  <2>7. ASSUME which = "feishu" PROVE FeishuInv'
    BY <2>7, FeishuRuns, FeishuKeeps, FeishuConstants DEF BackOfficeInv, FeishuDistinct
  <2>8. ASSUME which = "cooperation" PROVE CoopInv'
    BY <2>8, CoopRuns, CoopKeeps DEF BackOfficeInv
  <2>9. ASSUME which = "interactions" PROVE InterInv'
    BY <2>9, InterRuns, InterKeeps DEF BackOfficeInv
  <2>10. ASSUME which = "messages" PROVE StatusInv'
    BY <2>10, StatusRuns, StatusKeeps DEF BackOfficeInv
  <2>11. ASSUME which = "ratings" PROVE RatingInv'
    BY <2>11, RatingRuns, RatingKeeps DEF BackOfficeInv
  <2>12. ASSUME which = "invitations" PROVE InviteInv'
    BY <2>12, InviteRuns, InviteKeeps DEF BackOfficeInv
  <2>13. ASSUME which = "feedback" PROVE AnswerInv'
    BY <2>13, AnswerRuns, AnswerKeeps DEF BackOfficeInv
  <2>14. ASSUME which = "commission" PROVE MoneyInv'
    BY <2>14, MoneyRuns, MoneyKeeps DEF BackOfficeInv
  <2> QED
    BY <2>0, <2>1, <2>2, <2>3, <2>4, <2>5, <2>6, <2>7,
       <2>8, <2>9, <2>10, <2>11, <2>12, <2>13, <2>14 DEF BackOfficeInv
<1> QED
  BY <1>1, <1>2, PTL DEF Spec

-----------------------------------------------------------------------------
(* Theorems                                                                *)

\* The rows of every component, and what its requests have read, keep their types.
THEOREM TypesAreKept == Spec => []TypeOK
<1>1. BackOfficeInv => TypeOK
  BY EventProperties, AccountProperties, WelcomeProperties, TalentProperties, MediaProperties,
     FeishuProperties, CoopProperties, InterTypes, StatusProperties, RatingProperties, InviteProperties,
     AnswerProperties
     DEF BackOfficeInv, TypeOK, MoneyInv
<1> QED
  BY <1>1, BackOfficeInvHolds, PTL

\* Lists and detail pages decide alike about administrators, events and their
\* projects, users and talent cards; and the list of members offers for a rating
\* whom the rating accepts.
THEOREM ListsAdmit == Spec => []ListedIsAdmitted
<1>1. BackOfficeInv => ListedIsAdmitted
  BY AdminProperties, EventProperties, AccountProperties, TalentProperties, RatingOffers
     DEF BackOfficeInv, ListedIsAdmitted
<1> QED
  BY <1>1, BackOfficeInvHolds, PTL

\* One delivery and one sender per new address, one message per submission of a
\* card, one result per application; a result that is passed over stays readable.
THEOREM TellsOnce == Spec => []ToldOnce
<1>1. BackOfficeInv => ToldOnce
  BY AccountProperties, WelcomeProperties, TalentProperties, CoopProperties, StatusProperties
     DEF BackOfficeInv, ToldOnce
<1> QED
  BY <1>1, BackOfficeInvHolds, PTL

\* No deletion, replacement or clean-up takes the object of an image that a user's
\* row, a project, a card or a milestone shows; what waits for a review has evidence.
THEOREM ImagesAreKept == Spec => []ImageIsThere
<1>1. BackOfficeInv => ImageIsThere
  BY AccountProperties, MediaProperties
     DEF BackOfficeInv, ImageIsThere
<1> QED
  BY <1>1, BackOfficeInvHolds, PTL

\* No verdict or page that was decided on an older reading shows a hidden card or
\* the contacts of a cooperation, and no user counts as invited without his SMS.
THEOREM ShowsWhatWasMeant == Spec => []ShownAsMeant
<1>1. BackOfficeInv => ShownAsMeant
  BY TalentProperties, CoopProperties, InviteProperties
     DEF BackOfficeInv, ShownAsMeant
<1> QED
  BY <1>1, BackOfficeInvHolds, PTL

\* Wherever workers end and whatever answers are lost, no node, table or row is
\* created twice, and every row is known or marked, until a worker loses its
\* connection while it runs.
THEOREM NothingTwiceInFeishu == Spec => []FeishuIsManaged
<1>1. BackOfficeInv => FeishuIsManaged
  BY FeishuProperties
     DEF BackOfficeInv, FeishuIsManaged
<1> QED
  BY <1>1, BackOfficeInvHolds, PTL

\* The unread numbers of the dashboard, of the list and of a target are the same;
\* the score of a membership, its copies and the index of the user are the means
\* that the ratings give; the details of a settlement add up to its total, and what
\* is shown as pending is what a settlement pays.
THEOREM NumbersAddUp == Spec => []NumbersAgree
<1>1. BackOfficeInv => NumbersAgree
  BY InterAgrees, RatingProperties, MoneyBooks, MoneyPending
     DEF BackOfficeInv, NumbersAgree
<1> QED
  BY <1>1, BackOfficeInvHolds, PTL

\* Who shares again, or visits again within the window, adds nothing to the
\* unread numbers.
THEOREM RepeatsStaySilent == Spec => RepeatsAreSilent
<1>1. BackOfficeInv /\ [Next]_all => [which = "interactions" => Inter!RepeatsAreSilentStep]_all
  BY InterRuns, InterSteps
     DEF BackOfficeInv
<1> QED
  BY <1>1, BackOfficeInvHolds, PTL DEF Spec, RepeatsAreSilent

\* A result is passed over only for one that goes before it, which is shown or
\* asked about.
THEOREM PassedOverForABetterOne == Spec => SkippedForABetterOne
<1>1. BackOfficeInv /\ [Next]_all => [which = "messages" => Status!SkippedForABetterOneStep]_all
  BY StatusRuns, StatusSteps
     DEF BackOfficeInv
<1> QED
  BY <1>1, BackOfficeInvHolds, PTL DEF Spec, SkippedForABetterOne

\* No request undoes, with what it read before, what another one wrote since: the
\* manager of an event, a verdict, the owner of a school, an upload taken back,
\* the answer to an invitation.
THEOREM LaterReadingsWin == Spec => OlderReadingsLose
<1> DEFINE Step == /\ which = "events" => Event!ManagerIsNotReplacedStep
                   /\ which = "accounts" => Account!VerdictStandsStep
                   /\ which = "cooperation" => Coop!OwnerUploadsStep
                   /\ which = "media" => MediaM!DeletedWithItsObjectStep
                   /\ which = "feedback" => Answer!AnsweredIsNotAskedStep
<1>1. BackOfficeInv /\ [Next]_all => [Step]_all
  <2> SUFFICES ASSUME BackOfficeInv, [Next]_all PROVE Step
    OBVIOUS
  <2>1. which = "events" => Event!ManagerIsNotReplacedStep
    BY EventRuns, EventSteps DEF BackOfficeInv
  <2>2. which = "accounts" => Account!VerdictStandsStep
    BY AccountRuns, AccountSteps DEF BackOfficeInv
  <2>3. which = "cooperation" => Coop!OwnerUploadsStep
    BY CoopRuns, CoopSteps DEF BackOfficeInv
  <2>4. which = "media" => MediaM!DeletedWithItsObjectStep
    BY MediaRuns, MediaSteps DEF BackOfficeInv
  <2>5. which = "feedback" => Answer!AnsweredIsNotAskedStep
    BY AnswerSteps DEF BackOfficeInv
  <2> QED
    BY <2>1, <2>2, <2>3, <2>4, <2>5
<1> QED
  BY <1>1, BackOfficeInvHolds, PTL DEF Spec, OlderReadingsLose
===============================================================================
