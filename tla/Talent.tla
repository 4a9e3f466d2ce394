------------------------------- MODULE Talent -------------------------------
(***************************************************************************)
(* Talent cards: the owner edits and hides his card, an administrator      *)
(* approves, rejects or takes it down, alone or with others in a batch.    *)
(*                                                                         *)
(* Every request reads first.  An edit then writes under the row's lock    *)
(* what it resolved from its reading; hiding and reviewing repeat the      *)
(* status that was read in their WHERE.  A batch is one transaction that   *)
(* locks the users and their cards.                                        *)
(***************************************************************************)
EXTENDS Naturals, FiniteSets

CONSTANTS
  None,
  Users,
  Schools,
  Root,        \* a super administrator,
  Dean,        \* a school super administrator
  Clerk,       \* and a school administrator
  Calls,
  MaxRequests  \* bound: requests

VARIABLES
  card,      \* talent_profile.status
  school,    \* user.school_id
  scope,     \* the schools of Dean and Clerk
  archived,  \* user_status_message: the number of talent-published rows
  call,      \* the requests under way
  wanted,    \* history: submitted since the card was last hidden, rejected or taken down
  entries,   \* history: how often an edit moved a card into review
  requests

vars == <<card, school, scope, archived, call, wanted, entries, requests>>

Statuses == {"private", "online", "reviewing"}
Cards == Statuses \cup {"absent"}
Staff == {Root, Dean, Clerk}

\* as: what an edit requests, or the verdict of an administrator.
NoCall == [op |-> "idle", u |-> None, read |-> "absent", as |-> "none"]
CallRecords ==
  [op : {"idle", "edit", "hide", "review"}, u : Users \cup {None}, read : Cards, as : Statuses \cup {"none"}]

TypeOK ==
  /\ card \in [Users -> Cards]
  /\ school \in [Users -> Schools \cup {None}]
  /\ scope \in [{Dean, Clerk} -> SUBSET Schools]
  /\ archived \in [Users -> Nat]
  /\ call \in [Calls -> CallRecords]
  /\ wanted \in [Users -> BOOLEAN]
  /\ entries \in [Users -> Nat]
  /\ requests \in Nat

Init ==
  /\ card = [u \in Users |-> "absent"]
  /\ school = [u \in Users |-> None]
  /\ scope \in {s \in [{Dean, Clerk} -> SUBSET Schools] : Cardinality(s[Clerk]) <= 1}
  /\ archived = [u \in Users |-> 0]
  /\ call = [c \in Calls |-> NoCall]
  /\ wanted = [u \in Users |-> FALSE]
  /\ entries = [u \in Users |-> 0]
  /\ requests = 0

Exists(u) == card[u] # "absent"

Take == requests < MaxRequests /\ requests' = requests + 1

Begin(c, r) ==
  /\ call[c] = NoCall
  /\ Take
  /\ call' = [call EXCEPT ![c] = r]
  /\ UNCHANGED <<card, school, scope, archived, wanted, entries>>

Done(c) == call' = [call EXCEPT ![c] = NoCall] /\ UNCHANGED <<school, scope, requests>>

-----------------------------------------------------------------------------
(* The owner.                                                              *)

\* The school and the major are known: the first card is put into review.
EnsureReviewingTalentProfileTx(u, s) ==
  /\ Take
  /\ school' = [school EXCEPT ![u] = s]
  /\ IF Exists(u) THEN UNCHANGED <<card, wanted>>
     ELSE card' = [card EXCEPT ![u] = "reviewing"] /\ wanted' = [wanted EXCEPT ![u] = TRUE]
  /\ UNCHANGED <<scope, archived, call, entries>>

\* (Mutant: the status of the request is stored as it came.)
resolveUpsertStatus_AsRequested(requested, current) == requested

\* Nobody puts his own card online; an edit does not interrupt a review.
resolveUpsertStatus(requested, current) ==
  IF \/ current = "private" /\ requested \in {"none", "private"}
     \/ current = "absent" /\ requested = "private"
  THEN "private" ELSE "reviewing"

UpsertTalentProfile(c, u, requested) ==
  /\ Exists(u) \/ school[u] # None
  /\ Begin(c, [op |-> "edit", u |-> u, read |-> card[u], as |-> requested])

WasReviewing(c) == card[call[c].u] = "reviewing"

\* Whether there is a card, and its status, is read again under its lock.
upsertTalentProfileTx(c) ==
  LET u == call[c].u
      new == resolveUpsertStatus(call[c].as, call[c].read)
  IN /\ call[c].op = "edit"
     /\ card' = [card EXCEPT ![u] = new]
     /\ wanted' = [wanted EXCEPT ![u] = new = "reviewing"]
     /\ archived' = IF new = "reviewing" /\ ~WasReviewing(c) THEN [archived EXCEPT ![u] = @ + 1] ELSE archived
     /\ entries' = IF new = "reviewing" /\ card[u] # "reviewing" THEN [entries EXCEPT ![u] = @ + 1] ELSE entries
     /\ Done(c)

\* The client may name the status that it has seen; a hidden card is left.
SetTalentProfilePrivate(c, u, expected) ==
  /\ Exists(u) /\ card[u] # "private"
  /\ expected \in {"none", card[u]}
  /\ Begin(c, [op |-> "hide", u |-> u, read |-> card[u], as |-> "private"])

-----------------------------------------------------------------------------
(* The administrators.                                                     *)

adminSchoolIDs(by) == IF by = Root THEN Schools \cup {None} ELSE scope[by]

\* A school administrator without a school is not filtered at all.
checkTalentProfileSchool(by, u) ==
  \/ by = Root
  \/ by = Clerk /\ scope[by] = {}
  \/ by # Root /\ school[u] \in scope[by]

Judge(c, by, u, verdict) ==
  /\ checkTalentProfileSchool(by, u)
  /\ Begin(c, [op |-> "review", u |-> u, read |-> card[u], as |-> verdict])

TakedownTalentProfile(c, by, u) == card[u] = "online" /\ Judge(c, by, u, "private")

ReviewTalentProfile(c, by, u, verdict) == card[u] = "reviewing" /\ Judge(c, by, u, verdict)

\* (Mutant: UpdateStatus, which does not look at the status.)
IfCurrent_Always(c) == TRUE

IfCurrent(c) == card[call[c].u] = call[c].read

\* The verdict and its notice are one transaction.
updateTalentStatusIfCurrent(c) ==
  LET u == call[c].u
  IN /\ call[c].op \in {"hide", "review"}
     /\ IfCurrent(c)
     /\ card' = [card EXCEPT ![u] = call[c].as]
     /\ wanted' = [wanted EXCEPT ![u] = @ /\ call[c].as = "online"]
     /\ UNCHANGED <<archived, entries>>
     /\ Done(c)

\* Refused, failed, or the status has changed.
CallFails(c) ==
  /\ call[c] # NoCall
  /\ UNCHANGED <<card, archived, wanted, entries>>
  /\ Done(c)

InBatchScope(by, u) == school[u] \in adminSchoolIDs(by)

\* One user outside of the caller's schools refuses the whole batch; cards
\* that are not in review are passed over.
BatchApproveUsers(by, batch) ==
  /\ Take
  /\ \A u \in batch : InBatchScope(by, u)
  /\ card' = [u \in Users |-> IF u \in batch /\ card[u] = "reviewing" THEN "online" ELSE card[u]]
  /\ UNCHANGED <<school, scope, archived, call, wanted, entries>>

\* Administrators!DelegateSchool, or an update.
ScopeChanges(S) ==
  /\ Take
  /\ scope' = [scope EXCEPT ![Dean] = S]
  /\ UNCHANGED <<card, school, archived, call, wanted, entries>>

-----------------------------------------------------------------------------
(* The readers.                                                            *)

ListTalentProfiles == {u \in Users : card[u] = "online"}

\* known: the reader is the owner, works or talks with him; asked: he reviews
\* an application of the owner.
AuthorizeProfileRead(u, known, asked) == Exists(u) /\ (known \/ card[u] = "online" \/ asked)

Next ==
  \/ \E u \in Users, s \in Schools : EnsureReviewingTalentProfileTx(u, s)
  \/ \E c \in Calls, u \in Users :
       \/ \E requested \in Statuses \cup {"none"} :
            UpsertTalentProfile(c, u, requested) \/ SetTalentProfilePrivate(c, u, requested)
       \/ \E by \in Staff : \/ TakedownTalentProfile(c, by, u)
                            \/ \E verdict \in {"online", "private"} : ReviewTalentProfile(c, by, u, verdict)
  \/ \E c \in Calls : upsertTalentProfileTx(c) \/ updateTalentStatusIfCurrent(c) \/ CallFails(c)
  \/ \E by \in Staff, batch \in SUBSET Users : BatchApproveUsers(by, batch)
  \/ \E S \in SUBSET Schools : ScopeChanges(S)

Spec == Init /\ [][Next]_vars

-----------------------------------------------------------------------------
(* Properties                                                              *)

\* A card that its owner has hidden, or that was rejected or taken down, comes
\* online again only after it was submitted again: no verdict on an earlier
\* reading brings it back.
OnlineIsWanted == \A u \in Users : card[u] = "online" => wanted[u]

\* Each edit that moves a card into review, and no other, is told to its owner,
\* however many edits began from the same reading.
MessagePerSubmission == archived = entries

\* What a stranger may open is what the list shows, and a batch admits the same
\* users as a single review.  (A school administrator without a school is left
\* out: he may review every card alone and none in a batch.)
ListedIsAdmitted ==
  /\ {u \in Users : AuthorizeProfileRead(u, FALSE, FALSE)} = ListTalentProfiles
  /\ \A by \in Staff :
       (by = Clerk => scope[by] # {})
         => \A u \in Users : InBatchScope(by, u) <=> checkTalentProfileSchool(by, u)
=============================================================================
