-------------------------- MODULE InvitationFeedback --------------------------
(***************************************************************************)
(* The invitation of a user by the super administrator: the row of his     *)
(* answer and of the conversation, the row that makes the client show the  *)
(* invitation page, and the requests of both sides.                        *)
(*                                                                         *)
(* There is one user.  No request locks anything: every read and every     *)
(* write is a statement of its own, on one of the two rows.                *)
(***************************************************************************)
EXTENDS Naturals

CONSTANTS
  None,
  Calls,
  Ttl,         \* ticks that an invitation stays
  MaxTime,     \* bound: the clock
  MaxRequests  \* bound: requests

VARIABLES
  now,
  feedback,  \* invitation_feedback: the user's answer and the state of the conversation
  expires,   \* pending_invitation: when it expires, or None
  asked,     \* history: an invitation was begun and has not been answered
  call,
  requests

vars == <<now, feedback, expires, asked, call, requests>>

Answers == {"absent", "pending", "interested", "not_interested"}
Conversations == {"in_progress", "accepted", "rejected"}
Feedback == [status : Answers, conversation : Conversations \cup {None}]

NoCall == [op |-> "idle", at |-> "begin", asked |-> FALSE]
\* asked: whether an open invitation was there at some time during the request.
CallRecords ==
  [op : {"idle", "feedback", "invite", "page"}, at : {"begin", "clear", "upsert", "active"},
   asked : BOOLEAN]

TypeOK ==
  /\ now \in 0..MaxTime
  /\ feedback \in Feedback
  /\ expires \in Nat \cup {None}
  /\ asked \in BOOLEAN
  /\ call \in [Calls -> CallRecords]
  /\ requests \in 0..MaxRequests

Init ==
  /\ now = 0
  /\ feedback = [status |-> "absent", conversation |-> None]
  /\ expires = None
  /\ asked = FALSE
  /\ call = [c \in Calls |-> NoCall]
  /\ requests = 0

UpsertFeedback(status) == feedback' = [status |-> status, conversation |-> None]
UpsertConversationStatus(s) ==
  LET fresh == s = "in_progress" \/ feedback.status = "absent"
  IN  feedback' = [status |-> IF fresh THEN "pending" ELSE feedback.status, conversation |-> s]

GetActiveByUserID == expires # None /\ expires > now
ClearByUserID == expires' = None
Returns(c) == call' = [call EXCEPT ![c] = NoCall]
Goes(c, at) == call' = [call EXCEPT ![c].at = at]

Begin(c, op) ==
  /\ call[c].op = "idle" /\ requests < MaxRequests
  /\ call' = [call EXCEPT ![c] = [op |-> op, at |-> "begin", asked |-> asked]]
  /\ requests' = requests + 1
  /\ UNCHANGED <<now, feedback, expires, asked>>

-----------------------------------------------------------------------------
(* The administrators.                                                     *)

\* An SMS of template INVITE_SUPER_ADMIN that was accepted does the same as
\* "in_progress", which forgets the answer and asks again.
SetConversationStatus(c, s) ==
  /\ call[c].op = "invite" /\ call[c].at = "begin"
  /\ UpsertConversationStatus(s)
  /\ \/ /\ s = "in_progress"
        /\ asked' = TRUE
        /\ call' = [d \in Calls |-> IF d = c THEN [call[c] EXCEPT !.at = "upsert"]
                                    ELSE [call[d] EXCEPT !.asked = @ \/ call[d].op # "idle"]]
     \/ s # "in_progress" /\ Returns(c) /\ UNCHANGED asked
  /\ UNCHANGED <<now, expires, requests>>

CreatePendingSuperAdminInvitation(c) ==
  /\ call[c].op = "invite" /\ call[c].at = "upsert"
  /\ expires' = now + Ttl
  /\ Returns(c)
  /\ UNCHANGED <<now, feedback, asked, requests>>

-----------------------------------------------------------------------------
(* The user.                                                               *)

SubmitFeedback(c, status) ==
  /\ call[c].op = "feedback" /\ call[c].at = "begin"
  /\ UpsertFeedback(status)
  /\ asked' = FALSE
  /\ Goes(c, "clear")
  /\ UNCHANGED <<now, expires, requests>>

\* The invitation goes: after an answer, or because an earlier answer was found.
ClearAnswered(c) ==
  /\ call[c].at = "clear"
  /\ ClearByUserID
  /\ Returns(c)
  /\ UNCHANGED <<now, feedback, asked, requests>>

\* (Mutant: the answer is not looked at.)
Answered_Never == FALSE

Answered == feedback.status \in {"interested", "not_interested"}

GetPendingInvitation(c) ==
  /\ call[c].op = "page" /\ call[c].at = "begin"
  /\ IF Answered THEN Goes(c, "clear") ELSE Goes(c, "active")
  /\ UNCHANGED <<now, feedback, expires, asked, requests>>

\* Without an active invitation nothing is shown: the request just ends (Abort).
ShowPage(c) ==
  /\ call[c].op = "page" /\ call[c].at = "active"
  /\ GetActiveByUserID
  /\ Returns(c)
  /\ UNCHANGED <<now, feedback, expires, asked, requests>>

ClearPendingInvitation ==
  /\ expires # None
  /\ ClearByUserID
  /\ UNCHANGED <<now, feedback, asked, call, requests>>

-----------------------------------------------------------------------------

DeleteExpired ==
  /\ expires # None /\ expires <= now
  /\ ClearByUserID
  /\ UNCHANGED <<now, feedback, asked, call, requests>>

\* The request ends without more: an error, a stop of the process, an answer.
Abort(c) ==
  /\ call[c].op # "idle"
  /\ Returns(c)
  /\ UNCHANGED <<now, feedback, expires, asked, requests>>

Tick == now < MaxTime /\ now' = now + 1 /\ UNCHANGED <<feedback, expires, asked, call, requests>>

Next ==
  \/ \E c \in Calls :
       \/ \E op \in {"feedback", "invite", "page"} : Begin(c, op)
       \/ \E s \in Conversations : SetConversationStatus(c, s)
       \/ \E s \in {"interested", "not_interested"} : SubmitFeedback(c, s)
       \/ CreatePendingSuperAdminInvitation(c) \/ GetPendingInvitation(c) \/ ShowPage(c)
       \/ ClearAnswered(c) \/ Abort(c)
  \/ ClearPendingInvitation \/ DeleteExpired \/ Tick

Spec == Init /\ [][Next]_vars

-----------------------------------------------------------------------------
(* Properties                                                              *)

\* The page is not shown to a user who had answered before he asked for it and
\* was not invited anew since, even if the row of his invitation was written late.
AnsweredIsNotAskedStep ==
  \A c \in Calls : ShowPage(c) => call[c].asked

=============================================================================
