-------------------------- MODULE RegisterInvitation --------------------------
(***************************************************************************)
(* Invitations by SMS of somebody who has no account yet: the record of a  *)
(* phone number and a project, the requests that invite, and the           *)
(* registration that makes him a member of the projects on record.         *)
(*                                                                         *)
(* There is one phone number.  A request reads the record, writes it whole *)
(* as failed, sends the SMS and writes it whole again, each in a statement *)
(* of its own.  Who may invite (the roles of the project) is not modelled. *)
(***************************************************************************)
EXTENDS Naturals, FiniteSets

CONSTANTS
  None,
  Projects,
  Calls,       \* requests that invite
  MaxRequests  \* bound: requests

VARIABLES
  record,      \* invitation_record: status, and whether joined_at is set
  registered,  \* a user has the phone number
  attached,    \* project_members: the projects he entered by invitation
  taken,       \* external: the projects whose SMS the message center has taken
  call,
  requests

vars == <<record, registered, attached, taken, call, requests>>

Statuses == {"absent", "FAILED", "SENT", "JOINED"}
Records == [status : Statuses, joined : BOOLEAN]
NoRecord == [status |-> "absent", joined |-> FALSE]

NoCall == [at |-> "idle", p |-> None, rec |-> NoRecord]
\* rec: the record as the request has it in memory.
CallRecords == [at : {"idle", "read", "write", "send", "sent", "failed"}, p : Projects \cup {None}, rec : Records]

TypeOK ==
  /\ record \in [Projects -> Records]
  /\ registered \in BOOLEAN
  /\ {attached, taken} \subseteq SUBSET Projects
  /\ call \in [Calls -> CallRecords]
  /\ requests \in 0..MaxRequests

Init ==
  /\ record = [p \in Projects |-> NoRecord]
  /\ registered = FALSE
  /\ attached = {} /\ taken = {}
  /\ call = [c \in Calls |-> NoCall]
  /\ requests = 0

Goes(c, at) == call' = [call EXCEPT ![c].at = at]
Returns(c)  == call' = [call EXCEPT ![c] = NoCall]

-----------------------------------------------------------------------------
(* Invite                                                                  *)

Invite(c, p) ==
  /\ call[c].at = "idle" /\ requests < MaxRequests
  /\ ~registered
  /\ call' = [call EXCEPT ![c] = [NoCall EXCEPT !.at = "read", !.p = p]]
  /\ requests' = requests + 1
  /\ UNCHANGED <<record, registered, attached, taken>>

\* A record that says SENT is the answer.
ReadRecord(c) ==
  LET p == call[c].p
  IN  /\ call[c].at = "read"
      /\ \/ record[p].status = "SENT" /\ Returns(c)
         \/ /\ record[p].status # "SENT"
            /\ call' = [call EXCEPT ![c].at = "write", ![c].rec = record[p]]
      /\ UNCHANGED <<record, registered, attached, taken, requests>>

\* The status while the SMS is on its way.
\* (Mutant: it is taken for sent.)
Before_Sent == "SENT"

Before == "FAILED"

\* A new record, unless another request has written one meanwhile: then the
\* memory is that record, and nothing is written; or the old record anew.
WriteRecord(c) ==
  LET p == call[c].p
      new == [call[c].rec EXCEPT !.status = Before]
      exists == call[c].rec = NoRecord /\ record[p] # NoRecord
  IN  /\ call[c].at = "write"
      /\ record' = IF exists THEN record ELSE [record EXCEPT ![p] = new]
      /\ call' = [call EXCEPT ![c].at = "send", ![c].rec = IF exists THEN record[p] ELSE new]
      /\ UNCHANGED <<registered, attached, taken, requests>>

\* Taken with an answer, taken without one in time, refused or not reached.
SendRegisterInviteSms(c) ==
  /\ call[c].at = "send"
  /\ \/ taken' = taken \cup {call[c].p} /\ (Goes(c, "sent") \/ Goes(c, "failed"))
     \/ Goes(c, "failed") /\ UNCHANGED taken
  /\ UNCHANGED <<record, registered, attached, requests>>

WriteResult(c) ==
  /\ call[c].at \in {"sent", "failed"}
  /\ record' = [record EXCEPT ![call[c].p] =
                  [call[c].rec EXCEPT !.status = IF call[c].at = "sent" THEN "SENT" ELSE "FAILED"]]
  /\ Returns(c)
  /\ UNCHANGED <<registered, attached, taken, requests>>

\* The statement fails, or the process stops.
Abort(c) ==
  /\ call[c].at # "idle"
  /\ Returns(c)
  /\ UNCHANGED <<record, registered, attached, taken, requests>>

-----------------------------------------------------------------------------
(* RegisterWithPhone                                                       *)

Register ==
  /\ ~registered
  /\ registered' = TRUE
  /\ UNCHANGED <<record, attached, taken, call, requests>>

\* Its error is logged only, and who registers again attaches again.
AttachPendingJoinsByPhone ==
  LET pending == {p \in Projects : record[p].status = "SENT" /\ ~record[p].joined}
  IN  /\ registered /\ pending # {}
      /\ attached' = attached \cup pending
      /\ record' = [p \in Projects |-> IF p \in pending THEN [status |-> "JOINED", joined |-> TRUE]
                                       ELSE record[p]]
      /\ UNCHANGED <<registered, taken, call, requests>>

Next ==
  \/ \E c \in Calls : \/ \E p \in Projects : Invite(c, p)
                      \/ ReadRecord(c) \/ WriteRecord(c) \/ SendRegisterInviteSms(c) \/ WriteResult(c)
                      \/ Abort(c)
  \/ Register \/ AttachPendingJoinsByPhone

Spec == Init /\ [][Next]_vars

-----------------------------------------------------------------------------
(* Properties                                                              *)

\* What the check of a phone number says of a project.
CheckByPhone(p) == record[p].status = "SENT"

\* Nobody is told that he is invited, or enters a project, by an invitation
\* whose SMS the message center did not take, whatever requests overlap.
InvitedForReal == \A p \in Projects : CheckByPhone(p) \/ record[p].joined \/ p \in attached => p \in taken

=============================================================================
