----------------------------- MODULE Cooperation -----------------------------
(***************************************************************************)
(* Campus cooperation: the platform offers an order, the owner of a school *)
(* claims it for the school and writes its page, users of the school apply *)
(* and are shown the contacts once the school's administrators approve.    *)
(*                                                                         *)
(* Every write is one transaction that locks the administrator, his        *)
(* schools and the cooperation; only an upload spans the object store.     *)
(* A reader makes several queries without a transaction.                   *)
(***************************************************************************)
EXTENDS Naturals, FiniteSets, Sequences, SequencesExt

CONSTANTS
  None,
  Users,
  Schools,
  Root, Clerk,   \* a platform administrator; a school's administrator, not its owner
  Deans,         \* school super administrators, who may own schools
  Keys,          \* object keys of images
  Calls,
  MaxRequests    \* bound

VARIABLES
  owner,        \* admin_school_relation.is_owner
  clerkOf,      \* the school of the clerk's account, None when disabled
  belongs,      \* the user's school
  order,        \* commercial_order.status
  coop,         \* campus_cooperation, one for each school: the order is one
  image,        \* campus_cooperation_image
  stored,       \* objects in the store
  attempts,     \* campus_cooperation_application: the statuses in order of attempt
  results,      \* status_notification and user_status_message: how many for each attempt
  open,         \* the schools whose page has been open to everybody of the school
  shown,        \* the schools whose contacts a user has been shown
  call, requests

vars == <<owner, clerkOf, belongs, order, coop, image, stored, attempts, results, open, shown, call, requests>>

Admins == {Root, Clerk} \cup Deans
Statuses == {"pending", "approved", "rejected"}
Coops == [state : {"absent", "draft", "published"}, required : BOOLEAN, images : SUBSET Keys]
NoCoop == [state |-> "absent", required |-> FALSE, images |-> {}]
NoCall == [op |-> "idle", by |-> None, s |-> None, k |-> None, seen |-> NoCoop]

TypeOK ==
  /\ owner \in [Schools -> Deans \cup {None}]
  /\ clerkOf \in Schools \cup {None}
  /\ belongs \in [Users -> Schools \cup {None}]
  /\ order \in {"absent", "available", "closed"}
  /\ coop \in [Schools -> Coops]
  /\ image \in [Keys -> Schools \cup {None}]
  /\ stored \subseteq Keys
  /\ \A s \in Schools, u \in Users :
       /\ attempts[s][u] \in Seq(Statuses)
       /\ results[s][u] \in Seq(0..MaxRequests)
  /\ open \subseteq Schools
  /\ shown \in [Users -> SUBSET Schools]
  /\ call \in [Calls -> [op : {"idle", "upload", "detail"}, by : Admins \cup Users \cup {None},
                         s : Schools \cup {None}, k : Keys \cup {None}, seen : Coops]]
  /\ requests \in 0..MaxRequests

Init ==
  /\ owner \in [Schools -> Deans \cup {None}]
  /\ clerkOf \in Schools \cup {None}
  /\ belongs \in [Users -> Schools \cup {None}]
  /\ order = "absent"
  /\ coop = [s \in Schools |-> NoCoop]
  /\ image = [k \in Keys |-> None]
  /\ stored = {}
  /\ attempts = [s \in Schools |-> [u \in Users |-> <<>>]]
  /\ results = [s \in Schools |-> [u \in Users |-> <<>>]]
  /\ open = {}
  /\ shown = [u \in Users |-> {}]
  /\ call = [c \in Calls |-> NoCall]
  /\ requests = 0

People == <<owner, clerkOf, belongs>>
Content == <<order, coop, image, stored, open>>
Answers == <<attempts, results>>

Count == requests < MaxRequests /\ requests' = requests + 1

-----------------------------------------------------------------------------
(* Who may do what.                                                        *)

CanAccess(a, s, edit) ==
  \/ a = Root
  \/ a \in Deans /\ owner[s] = a
  \/ a = Clerk /\ ~edit /\ clerkOf = s

HasCooperationTeam(s) == owner[s] # None

\* A school changes hands (Administrators!DelegateSchool), the clerk is bound
\* or disabled, a user changes school: not while a transaction holds the lock.
Reassign ==
  /\ Count
  /\ \/ \E s \in Schools, d \in Deans \cup {None} : owner' = [owner EXCEPT ![s] = d] /\ UNCHANGED <<clerkOf, belongs>>
     \/ clerkOf' \in Schools \cup {None} /\ UNCHANGED <<owner, belongs>>
     \/ \E u \in Users, s \in Schools \cup {None} : belongs' = [belongs EXCEPT ![u] = s] /\ UNCHANGED <<owner, clerkOf>>
  /\ UNCHANGED <<Content, Answers, shown, call>>

-----------------------------------------------------------------------------
(* The order and the page of a school.                                     *)

SaveOrder(status) ==
  /\ Count
  /\ order' = status
  /\ UNCHANGED <<People, coop, image, stored, open, Answers, shown, call>>

\* A closed order can be claimed by no further school.
Claim(a, s) ==
  /\ Count
  /\ a \in Deans /\ CanAccess(a, s, TRUE)
  /\ order # "absent"
  /\ coop[s].state = "absent" /\ order = "available"
  /\ coop' = [coop EXCEPT ![s].state = "draft"]
  /\ UNCHANGED <<People, order, image, stored, open, Answers, shown, call>>

SaveContent(a, s, published, required, S) ==
  /\ Count
  /\ coop[s].state # "absent"
  /\ CanAccess(a, s, TRUE)
  /\ \A k \in S : image[k] = s
  /\ coop' = [coop EXCEPT ![s] = [state |-> IF published THEN "published" ELSE "draft",
                                  required |-> required, images |-> S]]
  /\ open' = IF published /\ ~required THEN open \cup {s} ELSE open
  /\ UNCHANGED <<People, order, image, stored, Answers, shown, call>>

\* AdminDetail allows the upload, and the object is stored.
BeginUpload(c, a, s, k) ==
  /\ Count
  /\ call[c] = NoCall
  /\ coop[s].state # "absent" /\ CanAccess(a, s, TRUE)
  /\ k \notin stored /\ image[k] = None /\ \A d \in Calls : call[d].k # k
  /\ stored' = stored \cup {k}
  /\ call' = [call EXCEPT ![c] = [NoCall EXCEPT !.op = "upload", !.by = a, !.s = s, !.k = k]]
  /\ UNCHANGED <<People, order, coop, image, open, Answers, shown>>

StillAllowed(a, s) == CanAccess(a, s, TRUE)

\* Otherwise, and when the insertion fails, the object is deleted, if that works.
UploadImage(c) ==
  LET k == call[c].k
      s == call[c].s
  IN  /\ call[c].op = "upload"
      /\ \/ StillAllowed(call[c].by, s) /\ image' = [image EXCEPT ![k] = s] /\ UNCHANGED stored
         \/ UNCHANGED image /\ stored' \in {stored, stored \ {k}}
      /\ call' = [call EXCEPT ![c] = NoCall]
      /\ UNCHANGED <<People, order, coop, open, Answers, shown, requests>>

-----------------------------------------------------------------------------
(* Applications.                                                           *)

Live(s, u) == attempts[s][u] # <<>> /\ Last(attempts[s][u]) \in {"pending", "approved"}

\* uk_campus_application_active is not relied upon here.
Apply(u, s) ==
  /\ Count
  /\ coop[s].state = "published" /\ belongs[u] = s
  /\ HasCooperationTeam(s) /\ coop[s].required
  /\ ~Live(s, u)
  /\ attempts' = [attempts EXCEPT ![s][u] = Append(@, "pending")]
  /\ results' = [results EXCEPT ![s][u] = Append(@, 0)]
  /\ UNCHANGED <<People, Content, shown, call>>

Decidable(s, u, i) == attempts[s][u][i] = "pending"

\* The notification and the message, in the transaction of the decision.
CooperationResultTx(s, u, i) == results' = [results EXCEPT ![s][u][i] = @ + 1]

Review(a, s, u, i, verdict) ==
  /\ Count
  /\ CanAccess(a, s, FALSE)
  /\ Decidable(s, u, i)
  /\ attempts' = [attempts EXCEPT ![s][u][i] = verdict]
  /\ CooperationResultTx(s, u, i)
  /\ UNCHANGED <<People, Content, shown, call>>

\* The page is read; then the applications.
BeginDetail(c, u, s) ==
  /\ Count
  /\ call[c] = NoCall
  /\ coop[s].state = "published" /\ belongs[u] = s /\ HasCooperationTeam(s)
  /\ call' = [call EXCEPT ![c] = [NoCall EXCEPT !.op = "detail", !.by = u, !.s = s, !.seen = coop[s]]]
  /\ UNCHANGED <<People, Content, Answers, shown>>

Approved(s, u) == attempts[s][u] # <<>> /\ Last(attempts[s][u]) = "approved"

\* cooperationPublic, for one page as for a list of them
ClientDetail(c) ==
  LET u == call[c].by
      s == call[c].s
  IN  /\ call[c].op = "detail"
      /\ shown' = [shown EXCEPT ![u] = IF ~call[c].seen.required \/ Approved(s, u) THEN @ \cup {s} ELSE @]
      /\ call' = [call EXCEPT ![c] = NoCall]
      /\ UNCHANGED <<People, Content, Answers, requests>>

Next ==
  \/ Reassign
  \/ \E status \in {"available", "closed"} : SaveOrder(status)
  \/ \E a \in Admins, s \in Schools :
       \/ Claim(a, s)
       \/ \E p, r \in BOOLEAN, S \in SUBSET Keys : SaveContent(a, s, p, r, S)
       \/ \E c \in Calls, k \in Keys : BeginUpload(c, a, s, k)
       \/ \E u \in Users : \E i \in DOMAIN attempts[s][u], v \in {"approved", "rejected"} : Review(a, s, u, i, v)
  \/ \E u \in Users, s \in Schools : Apply(u, s) \/ \E c \in Calls : BeginDetail(c, u, s)
  \/ \E c \in Calls : UploadImage(c) \/ ClientDetail(c)

Spec == Init /\ [][Next]_vars

-----------------------------------------------------------------------------
(* Properties                                                              *)

\* An image becomes one of the school's only for an administrator who may edit
\* its page at that moment, however long the upload took.
OwnerUploadsStep ==
  \A k \in Keys : image'[k] # image[k] =>
     \E c \in Calls : call[c].k = k /\ CanAccess(call[c].by, image'[k], TRUE)

OwnerUploads == [][OwnerUploadsStep]_vars

\* No user has two live applications to a page, and an application has one
\* result as soon as it is decided, however the page and the administrators change.
AnsweredOnce ==
  \A s \in Schools, u \in Users : \A i \in DOMAIN attempts[s][u] :
    /\ attempts[s][u][i] # "rejected" => i = Len(attempts[s][u])
    /\ results[s][u][i] = IF attempts[s][u][i] = "pending" THEN 0 ELSE 1

\* Contacts are shown to those who were approved, unless the page was open once.
ContactsAreMeant ==
  \A u \in Users : \A s \in shown[u] :
    s \in open \/ \E i \in DOMAIN attempts[s][u] : attempts[s][u][i] = "approved"

=============================================================================
