--------------------------- MODULE Administrators ---------------------------
(***************************************************************************)
(* The administrators, the schools they own and share, and who sees whom.  *)
(*                                                                         *)
(* A request reads the caller's row and its target, checks, and then       *)
(* writes: another request may come between the two.  A delegation is one  *)
(* transaction.  The database keeps one owner per school, and its trigger  *)
(* sums up a school's shares (statements are taken one after the other).   *)
(***************************************************************************)
EXTENDS Naturals, FiniteSetsExt

CONSTANTS
  None,
  Admins,      \* identifiers, never used again
  Schools,
  Root,        \* the first super administrator
  Calls,       \* requests that are served at the same time
  Whole,       \* 100 percent
  MaxRequests  \* bound: requests

VARIABLES
  admin,    \* admin_user
  rel,      \* admin_school_relation
  call,     \* the requests under way, with what they will write
  requests

vars == <<admin, rel, call, requests>>

Roles == {"super", "schoolSuper", "school", "event"}
Rows == [role : Roles, enabled : BOOLEAN, school : Schools \cup {None}]
NoRow == [role |-> None, enabled |-> FALSE, school |-> None]
NoRel == [rate |-> 0, owner |-> FALSE, row |-> FALSE]
Relations == [rate : 0..Whole, owner : BOOLEAN, row : {TRUE}] \cup {NoRel}
Share(rate, owner) == [rate |-> rate, owner |-> owner, row |-> TRUE]

\* What an administrator shall own: a rate for some of the schools.
Bindings == UNION {[S -> 0..Whole] : S \in SUBSET Schools}
Unbound == [s \in {} |-> 0]

Ops == {"idle", "create", "update", "updateWithSchools", "removeSchool", "commission", "status", "delete"}
NoCall == [op |-> "idle", to |-> None, row |-> NoRow, owned |-> Unbound]
CallRecords == [op : Ops, to : Admins \cup {None}, row : Rows \cup {NoRow}, owned : Bindings]

TypeOK ==
  /\ admin \in [Admins -> Rows \cup {NoRow}]
  /\ rel \in [Admins -> [Schools -> Relations]]
  /\ call \in [Calls -> CallRecords]
  /\ requests \in 0..MaxRequests

Enabled(r) == [role |-> r, enabled |-> TRUE, school |-> None]

\* One administrator owns the schools.
Init ==
  /\ \E first \in Admins \ {Root} :
       /\ admin = [a \in Admins |-> CASE a = Root -> Enabled("super")
                                     [] a = first -> Enabled("schoolSuper")
                                     [] OTHER -> NoRow]
       /\ rel = [a \in Admins |-> [s \in Schools |-> IF a = first THEN Share(Whole, TRUE) ELSE NoRel]]
  /\ call = [c \in Calls |-> NoCall]
  /\ requests = 0

-----------------------------------------------------------------------------
(* Who calls, and for which schools.                                       *)

Exists(a) == admin[a] # NoRow

\* AdminJWTAuth: the token only names the caller; state and role are read again.
Authorised(a) == Exists(a) /\ admin[a].enabled

AccessibleSchoolIDs(a) == {s \in Schools : rel[a][s].rate > 0}

adminSchoolIDs(a) ==
  CASE admin[a].role = "super" -> Schools
    [] admin[a].role = "schoolSuper" -> AccessibleSchoolIDs(a)
    [] OTHER -> {admin[a].school} \ {None}

adminBelongsToSchool(t, s) ==
  IF admin[t].role = "schoolSuper" THEN rel[t][s].rate > 0 ELSE admin[t].school = s

canEditAdminInScope(by, t) == t = by \/ (admin[by].role = "super" /\ admin[t].role # "super")

\* The rows that ListAdmins selects for a caller.
Listed(by) ==
  {t \in Admins :
     /\ Exists(t)
     /\ CASE admin[by].role = "super" -> TRUE
          [] admin[by].role = "schoolSuper" ->
               \/ t = by
               \/ admin[t].role \in {"event", "school"} /\ admin[t].school \in adminSchoolIDs(by)
          [] admin[by].role = "school" ->
               \/ t = by
               \/ admin[t].role \in {"school", "event"} /\ admin[t].school = admin[by].school
               \/ admin[t].role = "schoolSuper" /\ rel[t][admin[by].school].rate > 0
          [] OTHER -> t = by}

\* A caller without a school is refused the list.
ListAdmins(by) ==
  IF admin[by].role \in {"schoolSuper", "school"} /\ adminSchoolIDs(by) = {} THEN {} ELSE Listed(by)

\* (Mutant: any relation to the school is enough.)
canViewAdminDetailInScope_AnyShare(by, t) ==
  \/ admin[by].role = "super"
  \/ t = by
  \/ /\ admin[by].role = "school"
     /\ admin[by].school # None
     /\ admin[t].role \in {"schoolSuper", "school", "event"}
     /\ IF admin[t].role = "schoolSuper" THEN rel[t][admin[by].school].row
        ELSE admin[t].school = admin[by].school
  \/ /\ admin[by].role = "schoolSuper"
     /\ admin[t].role \in {"school", "event"}
     /\ admin[t].school \in adminSchoolIDs(by)

canViewAdminDetailInScope(by, t) ==
  \/ admin[by].role = "super"
  \/ t = by
  \/ /\ admin[by].role = "school"
     /\ admin[by].school # None
     /\ admin[t].role \in {"schoolSuper", "school", "event"}
     /\ adminBelongsToSchool(t, admin[by].school)
  \/ /\ admin[by].role = "schoolSuper"
     /\ admin[t].role \in {"school", "event"}
     /\ admin[t].school \in adminSchoolIDs(by)

GetAdmin(by) == {t \in Admins : Exists(t) /\ canViewAdminDetailInScope(by, t)}

-----------------------------------------------------------------------------
(* The first half of a request: read and check.                            *)

Begin(c, by, r) ==
  /\ call[c] = NoCall
  /\ Authorised(by)
  /\ requests < MaxRequests
  /\ requests' = requests + 1
  /\ call' = [call EXCEPT ![c] = r]
  /\ UNCHANGED <<admin, rel>>

SchoolTotal(r, s) == SumFunction([a \in Admins |-> r[a][s].rate])

SchoolCommissionTotalExcluding(s, t) == SchoolTotal([rel EXCEPT ![t][s] = NoRel], s)

validateSchoolCommissionCapacity(t, owned) ==
  \A s \in DOMAIN owned : SchoolCommissionTotalExcluding(s, t) + owned[s] <= Whole

\* A new row takes the next identifier; nobody has it yet.
CreateAdmin(c, by, t) ==
  /\ ~Exists(t)
  /\ \E row \in Rows, owned \in Bindings :
       /\ row.role # "event"
       /\ admin[by].role = "super"
            \/ (admin[by].role = "schoolSuper" /\ row.role = "school" /\ row.school \in adminSchoolIDs(by))
       /\ IF row.role = "schoolSuper"
          THEN owned # Unbound /\ row.school = None /\ validateSchoolCommissionCapacity(t, owned)
          ELSE owned = Unbound
       /\ Begin(c, by, [op |-> "create", to |-> t, row |-> row, owned |-> owned])

\* The row as it was read, with the fields that the caller may change.
Edited(by, t) ==
  {row \in Rows :
     CASE admin[by].role = "super" ->
            /\ row.role # admin[t].role => row.role # "super" \/ t = by
            /\ row.role = "schoolSuper" => row.school = None
       [] admin[by].role = "schoolSuper" -> row.role = "schoolSuper" /\ row.school = None
       [] OTHER -> row = admin[t]}

Owned(t) == [s \in {x \in Schools : rel[t][x].owner} |-> rel[t][s].rate]

UpdateAdmin(c, by, t) ==
  /\ Exists(t) /\ canEditAdminInScope(by, t)
  /\ \E row \in Edited(by, t), owned \in Bindings :
       /\ owned # Owned(t) => admin[by].role = "super" /\ row.role = "schoolSuper"
       /\ row.role = "schoolSuper" =>
            /\ owned # Unbound \/ AccessibleSchoolIDs(t) # {}
            /\ validateSchoolCommissionCapacity(t, owned)
       /\ Begin(c, by, [op |-> IF admin[by].role = "super" /\ "schoolSuper" \in {admin[t].role, row.role}
                               THEN "updateWithSchools" ELSE "update",
                        to |-> t, row |-> row, owned |-> owned])

BeginRemoveSchool(c, by, t, s) ==
  /\ admin[by].role = "super" /\ canEditAdminInScope(by, t)
  /\ admin[t].role = "schoolSuper"
  /\ Begin(c, by, [NoCall EXCEPT !.op = "removeSchool", !.to = t, !.owned = [x \in {s} |-> 0]])

UpdateAdminCommissionRate(c, by, t, s, rate) ==
  /\ admin[by].role = "super" /\ admin[t].role = "schoolSuper"
  /\ validateSchoolCommissionCapacity(t, [x \in {s} |-> rate])
  /\ Begin(c, by, [NoCall EXCEPT !.op = "commission", !.to = t, !.owned = [x \in {s} |-> rate]])

UpdateAdminStatus(c, by, t, enabled) ==
  /\ admin[by].role \in {"super", "schoolSuper"}
  /\ t = by => enabled
  /\ Exists(t) /\ canEditAdminInScope(by, t)
  /\ Begin(c, by, [NoCall EXCEPT !.op = "status", !.to = t, !.row = [admin[t] EXCEPT !.enabled = enabled]])

DeleteAdmin(c, by, t) ==
  /\ admin[by].role = "super" /\ t # by
  /\ Exists(t) /\ canEditAdminInScope(by, t)
  /\ Begin(c, by, [NoCall EXCEPT !.op = "delete", !.to = t])

-----------------------------------------------------------------------------
(* The second half: one statement or transaction.                          *)

\* uk_school_owner
OneOwner(r) ==
  \A s \in Schools : \A a, b \in Admins : r[a][s].owner /\ r[b][s].owner => a = b

\* trg_admin_school_rate_before_insert and _update, of the rows that were written.
TriggerAllows(r, schools) == \A s \in schools : SchoolTotal(r, s) <= Whole

WriteRelations(r, schools) == OneOwner(r) /\ TriggerAllows(r, schools) /\ rel' = r

Done(c) == call' = [call EXCEPT ![c] = NoCall] /\ UNCHANGED requests

CreateWithSchools(c) ==
  LET r == call[c]
  IN /\ r.op = "create"
     /\ ~Exists(r.to)
     /\ admin' = [admin EXCEPT ![r.to] = r.row]
     /\ WriteRelations([rel EXCEPT ![r.to] = [s \in Schools |->
                          IF s \in DOMAIN r.owned THEN Share(r.owned[s], TRUE) ELSE NoRel]],
                       DOMAIN r.owned)
     /\ Done(c)

\* Every column is written, from what was read.
Update(c) ==
  /\ call[c].op \in {"update", "status"}
  /\ Exists(call[c].to)
  /\ admin' = [admin EXCEPT ![call[c].to] =
                 IF call[c].op = "update" THEN call[c].row ELSE [@ EXCEPT !.enabled = call[c].row.enabled]]
  /\ UNCHANGED rel
  /\ Done(c)

\* Only owned schools are replaced; a share without ownership stays.
replaceOwnedSchoolsTx(t, owned) ==
  [s \in Schools |-> IF s \in DOMAIN owned THEN Share(owned[s], TRUE)
                     ELSE IF rel[t][s].owner THEN NoRel ELSE rel[t][s]]

UpdateWithSchools(c) ==
  LET r == call[c]
      owned == IF r.row.role = "schoolSuper" THEN r.owned ELSE Unbound
  IN /\ r.op = "updateWithSchools"
     /\ Exists(r.to)
     /\ admin' = [admin EXCEPT ![r.to] = r.row]
     /\ WriteRelations([rel EXCEPT ![r.to] = replaceOwnedSchoolsTx(r.to, owned)], DOMAIN owned)
     /\ Done(c)

RemoveSchoolRelation(c) ==
  LET t == call[c].to
  IN /\ call[c].op = "removeSchool"
     /\ rel' = [rel EXCEPT ![t] = [s \in Schools |-> IF s \in DOMAIN call[c].owned THEN NoRel ELSE @[s]]]
     /\ UNCHANGED admin
     /\ Done(c)

UpdateSchoolCommission(c) ==
  LET r == call[c]
  IN /\ r.op = "commission"
     /\ \A s \in DOMAIN r.owned : rel[r.to][s].row
     /\ WriteRelations([rel EXCEPT ![r.to] = [s \in Schools |->
                          IF s \in DOMAIN r.owned THEN [@[s] EXCEPT !.rate = r.owned[s]] ELSE @[s]]],
                       DOMAIN r.owned)
     /\ UNCHANGED admin
     /\ Done(c)

\* The relations go with the row (ON DELETE CASCADE).
Delete(c) ==
  /\ call[c].op = "delete"
  /\ admin' = [admin EXCEPT ![call[c].to] = NoRow]
  /\ rel' = [rel EXCEPT ![call[c].to] = [s \in Schools |-> NoRel]]
  /\ Done(c)

\* A statement fails, or no row matches: nothing is written.
Fails(c) ==
  /\ call[c] # NoCall
  /\ UNCHANGED <<admin, rel>>
  /\ Done(c)

\* The owner hands a school on, with a part of its share; he keeps the rest.
DelegateSchool(by, t, s, rate) ==
  LET mine == rel[by][s]
      left == IF rate = mine.rate THEN NoRel ELSE Share(mine.rate - rate, FALSE)
  IN /\ Authorised(by) /\ admin[by].role = "schoolSuper"
     /\ requests < MaxRequests
     /\ mine.owner
     /\ rate \in 1..mine.rate
     /\ by # t
     /\ IF Exists(t)
        THEN admin[t].role = "schoolSuper" /\ admin[t].enabled /\ UNCHANGED admin
        ELSE admin' = [admin EXCEPT ![t] = Enabled("schoolSuper")]
     /\ ~rel[t][s].owner
     /\ WriteRelations([rel EXCEPT ![by][s] = left, ![t][s] = Share(@.rate + rate, TRUE)], {s})
     /\ requests' = requests + 1
     /\ UNCHANGED call

Next ==
  \/ \E c \in Calls, by, t \in Admins :
       \/ CreateAdmin(c, by, t) \/ UpdateAdmin(c, by, t) \/ DeleteAdmin(c, by, t)
       \/ \E enabled \in BOOLEAN : UpdateAdminStatus(c, by, t, enabled)
       \/ \E s \in Schools : \/ BeginRemoveSchool(c, by, t, s)
                             \/ \E rate \in 0..Whole : UpdateAdminCommissionRate(c, by, t, s, rate)
  \/ \E c \in Calls :
       \/ CreateWithSchools(c) \/ Update(c) \/ UpdateWithSchools(c) \/ RemoveSchoolRelation(c)
       \/ UpdateSchoolCommission(c) \/ Delete(c) \/ Fails(c)
  \/ \E by, t \in Admins, s \in Schools, rate \in 1..Whole : DelegateSchool(by, t, s, rate)

Spec == Init /\ [][Next]_vars

-----------------------------------------------------------------------------
(* Properties                                                              *)

\* The list and the detail page agree on who sees whom, through every change
\* of roles, schools and shares; a caller without a school still sees himself.
ListedIsAdmitted ==
  \A by \in Admins :
    Authorised(by) => GetAdmin(by) = ListAdmins(by) \cup {by}
=============================================================================
