------------------------------- MODULE Accounts -------------------------------
(***************************************************************************)
(* User accounts: registration by phone, the profile, the certification    *)
(* image and its review, and which users an administrator sees.            *)
(*                                                                         *)
(* A profile update locks the user's row and writes it whole.  All other   *)
(* requests read first and then write one statement, which waits for the   *)
(* lock.  The image is stored outside of the database.                     *)
(***************************************************************************)
EXTENDS Naturals, FiniteSets

CONSTANTS
  None,
  Users,       \* openid: one row each
  Phones,
  Emails,
  Schools,
  Keys,        \* keys of stored images, never used again
  Root,        \* a super administrator,
  Dean,        \* a school super administrator
  Clerk,       \* and a school administrator
  Calls,
  MaxRequests  \* bound: requests

VARIABLES
  user,      \* user
  stored,    \* the images that the object store holds
  welcomes,  \* welcome_email_delivery: the number of rows of each user
  scope,     \* the schools of Dean and Clerk
  call,      \* the requests under way
  arrivals,  \* history: how often a user's email changed to another address
  lost,      \* history: images that a failed request had deleted
  requests

vars == <<user, stored, welcomes, scope, call, arrivals, lost, requests>>

AuthStatuses == {"none", "passed", "failed"}
ReadRows ==
  [phone : Phones \cup {None}, email : Emails \cup {None}, school : Schools \cup {None},
   auth : AuthStatuses \cup {"absent"}, img : Keys \cup {None}]
NoRow == [phone |-> None, email |-> None, school |-> None, auth |-> "absent", img |-> None]
Rows == {r \in ReadRows : r.auth # "absent"}
NewRow == [phone |-> None, email |-> None, school |-> None, auth |-> "none", img |-> None]

\* read: the row as the request read it; key: the image it has uploaded.
NoCall == [op |-> "idle", u |-> None, read |-> NoRow, key |-> None]
CallRecords ==
  [op : {"idle", "register", "profile", "submit", "swap", "review"}, u : Users \cup {None},
   read : ReadRows, key : Keys \cup {None}]

TypeOK ==
  /\ user \in [Users -> Rows \cup {NoRow}]
  /\ stored \subseteq Keys
  /\ welcomes \in [Users -> 0..MaxRequests]
  /\ scope \in [{Dean, Clerk} -> SUBSET Schools]
  /\ call \in [Calls -> CallRecords]
  /\ arrivals \in [Users -> 0..MaxRequests]
  /\ lost \subseteq Keys
  /\ requests \in 0..MaxRequests

\* A user may have come without a phone number.
Init ==
  /\ \E S \in SUBSET Users : user = [u \in Users |-> IF u \in S THEN NewRow ELSE NoRow]
  /\ stored = {}
  /\ welcomes = [u \in Users |-> 0]
  /\ scope \in {s \in [{Dean, Clerk} -> SUBSET Schools] : Cardinality(s[Clerk]) <= 1}
  /\ call = [c \in Calls |-> NoCall]
  /\ arrivals = [u \in Users |-> 0]
  /\ lost = {}
  /\ requests = 0

Exists(u) == user[u] # NoRow

\* uq_user_phone and uq_user_email
PhoneFree(u, p) == p = None \/ \A v \in Users \ {u} : user[v].phone # p
EmailFree(u, e) == e = None \/ \A v \in Users \ {u} : user[v].email # e

\* (Mutant: the profile is read without FOR UPDATE.)
RowFree_Always(u) == TRUE

\* Nobody holds the row's lock.
RowFree(u) == \A c \in Calls : ~(call[c].op = "profile" /\ call[c].u = u)

Begin(c, r) ==
  /\ call[c] = NoCall
  /\ requests < MaxRequests
  /\ requests' = requests + 1
  /\ call' = [call EXCEPT ![c] = r]
  /\ UNCHANGED <<user, stored, welcomes, scope, arrivals, lost>>

Done(c) == call' = [call EXCEPT ![c] = NoCall] /\ UNCHANGED <<scope, requests>>

\* A statement on the user's row; the mail is none of its business.
Write(u, row) == RowFree(u) /\ user' = [user EXCEPT ![u] = row] /\ UNCHANGED <<welcomes, arrivals>>

-----------------------------------------------------------------------------
(* Registration.                                                           *)

RegisterWithPhone(c, u, p) ==
  /\ user[u].phone = None
  /\ \A v \in Users \ {u} : user[v].phone # p
  /\ Begin(c, [NoCall EXCEPT !.op = "register", !.u = u, !.read = [user[u] EXCEPT !.phone = p]])

\* Whether the row exists, and that it has no phone, was read before.
CreateWithPhone(c) ==
  LET r == call[c]
  IN /\ r.op = "register" /\ r.read.auth = "absent"
     /\ ~Exists(r.u) /\ PhoneFree(r.u, r.read.phone)
     /\ Write(r.u, [NewRow EXCEPT !.phone = r.read.phone])
     /\ Done(c)
     /\ UNCHANGED <<stored, lost>>

\* The phone goes in whatever the row has by now.
UpdatePhone(c) ==
  LET r == call[c]
  IN /\ r.op = "register" /\ r.read.auth # "absent"
     /\ PhoneFree(r.u, r.read.phone)
     /\ Write(r.u, [user[r.u] EXCEPT !.phone = r.read.phone])
     /\ Done(c)
     /\ UNCHANGED <<stored, lost>>

-----------------------------------------------------------------------------
(* The profile.                                                            *)

GetByIDForUpdateTx(c, u) ==
  /\ Exists(u)
  /\ RowFree(u)
  /\ Begin(c, [NoCall EXCEPT !.op = "profile", !.u = u, !.read = user[u]])

\* All columns but the image are written; another email, and its welcome.
UpdateCurrentUser(c) ==
  LET r == call[c]
      u == r.u
  IN /\ r.op = "profile"
     /\ \E p \in Phones \cup {None}, e \in Emails \cup {None}, s \in {r.read.school} \cup Schools :
          /\ PhoneFree(u, p) /\ EmailFree(u, e)
          /\ user' = [user EXCEPT ![u] = [r.read EXCEPT !.phone = p, !.email = e, !.school = s, !.img = @]]
          /\ welcomes' = IF e \notin {None, r.read.email} THEN [welcomes EXCEPT ![u] = @ + 1] ELSE welcomes
          /\ arrivals' = IF e \notin {None, user[u].email} THEN [arrivals EXCEPT ![u] = @ + 1] ELSE arrivals
     /\ Done(c)
     /\ UNCHANGED <<stored, lost>>

-----------------------------------------------------------------------------
(* The certification image and its review.                                 *)

\* The old key is read before the upload.
SubmitCertification(c, u) ==
  /\ Exists(u)
  /\ Begin(c, [NoCall EXCEPT !.op = "submit", !.u = u, !.read = user[u]])

OldKey(c) == call[c].read.img

\* The new image is stored, then the old one is deleted; a failure to delete
\* is ignored.
UploadFile(c, k, deleted) ==
  /\ call[c].op = "submit"
  /\ k \notin stored \cup lost
  /\ \A u \in Users : user[u].img # k
  /\ \A d \in Calls : k \notin {call[d].key, call[d].read.img}
  /\ stored' = (stored \ (IF deleted THEN {OldKey(c)} ELSE {})) \cup {k}
  /\ call' = [call EXCEPT ![c].op = "swap", ![c].key = k]
  /\ UNCHANGED <<user, welcomes, scope, arrivals, lost, requests>>

\* A refused certification is open again.
ResubmitCertification(c) ==
  LET r == call[c]
  IN /\ r.op = "swap"
     /\ Write(r.u, [user[r.u] EXCEPT !.img = r.key, !.auth = IF @ = "failed" THEN "none" ELSE @])
     /\ Done(c)
     /\ UNCHANGED <<stored, lost>>

BeginReview(c, u) ==
  /\ Exists(u)
  /\ Begin(c, [NoCall EXCEPT !.op = "review", !.u = u, !.read = user[u]])

\* Only while the status is the one that was read.
ReviewUserAuth(c, verdict) ==
  LET r == call[c]
  IN /\ r.op = "review"
     /\ user[r.u].auth = r.read.auth
     /\ verdict # r.read.auth
     /\ Write(r.u, [user[r.u] EXCEPT !.auth = verdict])
     /\ Done(c)
     /\ UNCHANGED <<stored, lost>>

\* Refused, failed, or without effect.
CallFails(c) ==
  /\ call[c] # NoCall
  /\ lost' = lost \cup (IF call[c].op = "swap" THEN {OldKey(c)} \ (stored \cup {None}) ELSE {})
  /\ UNCHANGED <<user, stored, welcomes, arrivals>>
  /\ Done(c)

-----------------------------------------------------------------------------
(* Which users an administrator sees.                                      *)

adminSchoolIDs(by) == IF by = Root THEN Schools \cup {None} ELSE scope[by]

\* A school administrator without a school is not filtered at all.
ListUsers(by) ==
  {u \in Users :
     /\ Exists(u)
     /\ CASE by = Root -> TRUE
          [] by = Dean -> user[u].school \in scope[by]
          [] OTHER -> scope[by] = {} \/ user[u].school \in scope[by]}

requireUserSchoolAccess(by, u) == user[u].school \in adminSchoolIDs(by)

\* Administrators!DelegateSchool, or an update.
ScopeChanges(S) ==
  /\ requests < MaxRequests
  /\ requests' = requests + 1
  /\ scope' = [scope EXCEPT ![Dean] = S]
  /\ UNCHANGED <<user, stored, welcomes, call, arrivals, lost>>

Next ==
  \/ \E c \in Calls :
       \/ \E u \in Users : \/ \E p \in Phones : RegisterWithPhone(c, u, p)
                           \/ GetByIDForUpdateTx(c, u)
                           \/ SubmitCertification(c, u)
                           \/ BeginReview(c, u)
       \/ CreateWithPhone(c) \/ UpdatePhone(c) \/ UpdateCurrentUser(c)
       \/ \E k \in Keys, deleted \in BOOLEAN : UploadFile(c, k, deleted)
       \/ ResubmitCertification(c) \/ CallFails(c)
       \/ \E verdict \in {"passed", "failed"} : ReviewUserAuth(c, verdict)
  \/ \E S \in SUBSET Schools : ScopeChanges(S)

Spec == Init /\ [][Next]_vars

-----------------------------------------------------------------------------
(* Properties                                                              *)

\* Each change of a user's email to another address is welcomed once, however
\* many requests make it at the same time.
WelcomedOnce == \A u \in Users : welcomes[u] = arrivals[u]

\* The image that a user's row names can be fetched, except while a request
\* that read this very key replaces it, or after such a request has failed.
ImageIsThere ==
  \A u \in Users :
    user[u].img \in stored \cup lost \cup {None} \cup {call[c].read.img : c \in {d \in Calls : call[d].op = "swap"}}

\* A verdict changes by a review or by a new submission only: no update of the
\* profile brings back the one it had read.
VerdictStandsStep ==
  \A u \in Users :
     user[u].auth \in {"passed", "failed"} /\ user'[u].auth # user[u].auth
       => \E c \in Calls : call[c].u = u /\ call[c].op \in {"review", "swap"} /\ call'[c] = NoCall

VerdictStands == [][VerdictStandsStep]_vars

\* Lists and detail pages agree, as users change their school and administrators
\* theirs.  (A school administrator without a school is left out: he is shown
\* all users and admitted to none.)
ListedIsAdmitted ==
  \A by \in {Root, Dean, Clerk} :
    (by = Clerk => scope[by] # {})
      => {u \in Users : Exists(u) /\ requireUserSchoolAccess(by, u)} = ListUsers(by)
=============================================================================
