---------------------------- MODULE Interactions ----------------------------
(***************************************************************************)
(* Likes, favourites, shares and views of projects and talent cards, and   *)
(* what the dashboards of an owner call unread.                            *)
(*                                                                         *)
(* Every write is one statement or one transaction.  The counts of a       *)
(* target, of a list of projects and of everything together come from      *)
(* queries of their own, each with its own copy of the conditions; cursors *)
(* tell how far the owner has looked.                                      *)
(***************************************************************************)
EXTENDS Naturals, FiniteSets, Sequences, FiniteSetsExt

CONSTANTS
  None,      \* who has not logged in
  Owner,     \* whose dashboards these are
  Visitors,
  Projects,
  Cards,     \* the owner's talent card
  Marks,     \* "like" and "favorite", which are handled alike
  Window,    \* thirty days
  MaxTime,   \* bound
  MaxChanges \* bound: requests and changes of a project

VARIABLES
  member,    \* the projects that Owner created or is a member of
  approved,  \* project.status = 1
  mark,      \* project_like, talent_like, ..._favorite: created_at, 0 without a row
  share,     \* project_share and talent_share by id
  visit,     \* project_view_log and talent_view_log by id
  seen,      \* interaction_dashboard_view_state of Owner
  now, changes

vars == <<member, approved, mark, share, visit, seen, now, changes>>

Targets == Projects \cup Cards
People == Visitors \cup {Owner}
Kinds == Marks \cup {"share", "visit"}
Times == 0..MaxTime

TypeOK ==
  /\ member \subseteq Projects /\ approved \subseteq Projects
  /\ mark \in [Marks -> [Targets -> [People -> Times]]]
  /\ \A t \in Targets :
       /\ share[t] \in Seq([u : People, at : Times])
       /\ visit[t] \in Seq([u : People \cup {None}, at : Times, dwell : BOOLEAN])
  /\ seen \in [Targets -> [Kinds \cup {"entry"} -> Times]]
  /\ now \in 1..MaxTime
  /\ changes \in 0..MaxChanges

\* The owner has created the projects, and none is approved yet.
Init ==
  /\ member = Projects
  /\ approved = {}
  /\ mark = [k \in Marks |-> [t \in Targets |-> [u \in People |-> 0]]]
  /\ share = [t \in Targets |-> <<>>]
  /\ visit = [t \in Targets |-> <<>>]
  /\ seen = [t \in Targets |-> [k \in Kinds \cup {"entry"} |-> 0]]
  /\ now = 1 /\ changes = 0

-----------------------------------------------------------------------------
(* What is unread.                                                         *)

\* Entry points have a cursor of their own in place of the four of the details.
dashboardUnreadScope(t, k, entry) == seen[t][IF entry THEN "entry" ELSE k]

FirstShare(t, i) == \A j \in 1..(i - 1) : share[t][j].u # share[t][i].u

\* (Mutant: every visit counts.)
FirstVisit_Any(t, i) == TRUE

\* No visit in the thirty days before; what tells how long somebody stayed is none.
FirstVisit(t, i) ==
  LET v == visit[t][i]
  IN \A j \in DOMAIN visit[t] :
       LET prev == visit[t][j]
       IN ~ (/\ prev.u = v.u /\ ~prev.dwell
             /\ prev.at < v.at \/ (prev.at = v.at /\ j < i)
             /\ prev.at + Window >= v.at)

Fresh(t, k, entry) ==
  LET after == dashboardUnreadScope(t, k, entry) IN
  CASE k \in Marks -> {u \in Visitors : mark[k][t][u] > after}
    [] k = "share" ->
         {u \in Visitors : \E i \in DOMAIN share[t] :
            share[t][i].u = u /\ share[t][i].at > after /\ FirstShare(t, i)}
    [] k = "visit" ->
         {u \in Visitors : \E i \in DOMAIN visit[t] :
            visit[t][i].u = u /\ ~visit[t][i].dwell /\ visit[t][i].at > after /\ FirstVisit(t, i)}

UnreadForTarget(t) == SumFunction([k \in Kinds |-> Cardinality(Fresh(t, k, FALSE))])

\* (Mutant: for the projects of the totals only.)
BatchProjectUnread_Approved(t, entry) ==
  IF t \in member \cap approved THEN SumFunction([k \in Kinds |-> Cardinality(Fresh(t, k, entry))]) ELSE 0

BatchProjectUnread(t, entry) ==
  IF t \in member THEN SumFunction([k \in Kinds |-> Cardinality(Fresh(t, k, entry))]) ELSE 0

Pairs(T, k, entry) == UNION {{t} \X Fresh(t, k, entry) : t \in T}

UnreadDashboardTotals(entry) ==
  LET Unread(T) == SumFunction([k \in Kinds |-> Cardinality(Pairs(T, k, entry))])
  IN [project |-> Unread(member \cap approved), talent |-> Unread(Cards)]

\* The people listed behind a number of the dashboard.
ListUsers(t, k) ==
  CASE k \in Marks -> {u \in People : mark[k][t][u] > 0}
    [] k = "share" -> {share[t][i].u : i \in DOMAIN share[t]}
    [] k = "visit" -> {visit[t][i].u : i \in {j \in DOMAIN visit[t] : visit[t][j].u # None /\ ~visit[t][j].dwell}}

\* The number that is shown beside a target: rows, not people.
getInteraction(t, k) == IF k \in Marks THEN Cardinality(ListUsers(t, k)) ELSE Len(share[t])

-----------------------------------------------------------------------------
(* The operations.                                                         *)

Take == changes < MaxChanges /\ changes' = changes + 1

Toggle(t, k, u) ==
  /\ Take
  /\ mark' = [mark EXCEPT ![k][t][u] = IF @ = 0 THEN now ELSE 0]
  /\ UNCHANGED <<member, approved, share, visit, seen, now>>

Share(t, u) ==
  /\ Take
  /\ share' = [share EXCEPT ![t] = Append(@, [u |-> u, at |-> now])]
  /\ UNCHANGED <<member, approved, mark, visit, seen, now>>

\* The counter view_count follows in the transaction of the row.
RecordView(t, u) ==
  /\ Take
  /\ visit' = [visit EXCEPT ![t] = Append(@, [u |-> u, at |-> now, dwell |-> FALSE])]
  /\ UNCHANGED <<member, approved, mark, share, seen, now>>

RecordViewDuration(t, u) ==
  /\ Take
  /\ visit' = [visit EXCEPT ![t] = Append(@, [u |-> u, at |-> now, dwell |-> TRUE])]
  /\ UNCHANGED <<member, approved, mark, share, seen, now>>

ensureTargetOwner(t) == t \in member \cup Cards

\* One kind, the entry, or all four kinds without the entry.
MarkDashboardViewed(t, kinds) ==
  /\ Take
  /\ ensureTargetOwner(t)
  /\ seen' = [seen EXCEPT ![t] = [k \in DOMAIN @ |-> IF k \in kinds THEN now ELSE @[k]]]
  /\ UNCHANGED <<member, approved, mark, share, visit, now>>

\* The owner joins or leaves a project; a project is approved, closed, taken down.
ProjectChanges(p) ==
  /\ Take
  /\ \/ member' \in {member \cup {p}, member \ {p}} /\ UNCHANGED approved
     \/ approved' \in {approved \cup {p}, approved \ {p}} /\ UNCHANGED member
  /\ UNCHANGED <<mark, share, visit, seen, now>>

Tick ==
  /\ now < MaxTime
  /\ now' = now + 1
  /\ UNCHANGED <<member, approved, mark, share, visit, seen, changes>>

Next ==
  \/ \E t \in Targets, u \in People : Share(t, u) \/ \E k \in Marks : Toggle(t, k, u)
  \/ \E t \in Targets, u \in People \cup {None} : RecordView(t, u) \/ RecordViewDuration(t, u)
  \/ \E t \in Targets, kinds \in {Kinds} \cup {{k} : k \in Kinds \cup {"entry"}} : MarkDashboardViewed(t, kinds)
  \/ \E p \in Projects : ProjectChanges(p)
  \/ Tick

Spec == Init /\ [][Next]_vars

-----------------------------------------------------------------------------
(* Properties                                                              *)

\* The badge of the profile, the list of projects and the pages of the targets
\* show numbers that add up, for the projects that are approved; and no more is
\* unread than there is.
DashboardAgrees ==
  /\ \A entry \in BOOLEAN :
       UnreadDashboardTotals(entry).project
         = SumFunction([p \in member \cap approved |-> BatchProjectUnread(p, entry)])
  /\ UnreadDashboardTotals(FALSE).talent = SumFunction([t \in Cards |-> UnreadForTarget(t)])
  /\ \A p \in member : BatchProjectUnread(p, FALSE) = UnreadForTarget(p)
  /\ \A t \in Targets, k \in Kinds \ {"visit"}, entry \in BOOLEAN :
       Cardinality(Fresh(t, k, entry)) <= getInteraction(t, k)

\* What is unread can be found in the list behind it, and a number of visitors
\* that falls does so because the owner has looked: nobody takes a share or a
\* visit back, and whoever shares again, or comes again within thirty days, is
\* not counted as new.
RepeatsAreSilentStep ==
  \A t \in Targets, k \in {"share", "visit"} :
     LET before == Fresh(t, k, FALSE)
         after  == Fresh(t, k, FALSE)'
         recent == {u \in Visitors : \E i \in DOMAIN visit[t] :
                      visit[t][i].u = u /\ ~visit[t][i].dwell /\ visit[t][i].at + Window >= now}
     IN /\ after \ before \subseteq Visitors \ (IF k = "share" THEN ListUsers(t, k) ELSE recent)
        /\ before \subseteq after \/ seen'[t] # seen[t]
        /\ after \subseteq ListUsers(t, k)'

RepeatsAreSilent == [][RepeatsAreSilentStep]_vars
=============================================================================
