--------------------------- MODULE StatusMessages ---------------------------
(***************************************************************************)
(* What a user is told of his applications, invitations and memberships:   *)
(* a queue of notifications, of which a client shows the first over the    *)
(* whole screen and skips the others, and an archive of messages, which    *)
(* keeps all of them until he has read them.                               *)
(*                                                                         *)
(* A notification and its message are written in the transaction of what   *)
(* they tell.  A client's question is two statements: one selects, the     *)
(* other marks what was not selected.                                      *)
(*                                                                         *)
(* One user, with several clients.                                         *)
(***************************************************************************)
EXTENDS Naturals, Sequences

CONSTANTS
  Priorities,
  Calls,
  MaxNotes,   \* bound: notifications
  MaxActs     \* bound: what clients do

VARIABLES
  note,     \* status_notification by id, which is also their order in time
  message,  \* user_status_message; of: its notification, 0 without one
  invited,  \* whether an invitation to administer a school is pending
  call,     \* the questions under way
  told,     \* history: the notifications that were answered to a client
  opened,   \* history: the messages that the user has opened
  acts

vars == <<note, message, invited, call, told, opened, acts>>

Ids == 1..MaxNotes
\* coop: the client knows of cooperations; top: what was selected; n: the
\* notifications there were.
NoCall == [op |-> "idle", coop |-> FALSE, top |-> 0, n |-> 0]

TypeOK ==
  /\ note \in Seq([kind : {"project", "cooperation"}, priority : Priorities, displayed : BOOLEAN])
  /\ message \in Seq([of : {0} \cup Ids, read : BOOLEAN, shown : BOOLEAN])
  /\ invited \in BOOLEAN
  /\ call \in [Calls -> [op : {"idle", "gate", "suppress"}, coop : BOOLEAN, top : {0} \cup Ids, n : {0} \cup Ids]]
  /\ told \subseteq DOMAIN note /\ opened \subseteq DOMAIN message
  /\ acts \in 0..MaxActs

Init ==
  /\ note = <<>> /\ message = <<>>
  /\ invited \in BOOLEAN
  /\ call = [c \in Calls |-> NoCall]
  /\ told = {} /\ opened = {}
  /\ acts = 0

Act == acts < MaxActs /\ acts' = acts + 1

-----------------------------------------------------------------------------
(* What is written.                                                        *)

archived(i) == Append(message, [of |-> i, read |-> FALSE, shown |-> FALSE])

CreateTx(kind, priority) ==
  /\ Len(note) < MaxNotes
  /\ note' = Append(note, [kind |-> kind, priority |-> priority, displayed |-> FALSE])
  /\ message' = archived(Len(note) + 1)
  /\ UNCHANGED <<invited, call, told, opened, acts>>

\* A project or a card is published, an application is discussed: for the
\* archive only.
ArchiveProjectStatusTx ==
  /\ \A j \in DOMAIN message : message[j].of # 0
  /\ message' = archived(0)
  /\ UNCHANGED <<note, invited, call, told, opened, acts>>

\* An invitation is made, answered or expires.
Invitation ==
  /\ Act
  /\ invited' = ~invited
  /\ UNCHANGED <<note, message, call, told, opened>>

-----------------------------------------------------------------------------
(* What a client asks and says.                                            *)

Before(i, j) ==
  \/ note[i].priority > note[j].priority
  \/ note[i].priority = note[j].priority /\ i > j

\* (Mutant: the newest first.)
First_Newest(S, i) == \A j \in S : i >= j

First(S, i) == \A j \in S \ {i} : Before(i, j)

\* Other clients do not know what a cooperation is.
Pending(coop) == {i \in DOMAIN note : ~note[i].displayed /\ (coop \/ note[i].kind = "project")}

Begins(c, r) ==
  /\ Act
  /\ call[c] = NoCall
  /\ call' = [call EXCEPT ![c] = r]
  /\ UNCHANGED <<note, message, invited, told, opened>>

Ends(c) == call' = [call EXCEPT ![c] = NoCall] /\ UNCHANGED <<message, invited, opened, acts>>

\* A pending invitation takes the screen.
GetMyPendingStatusNotification(c, coop) ==
  IF invited
  THEN Begins(c, [NoCall EXCEPT !.op = "gate", !.coop = coop])
  ELSE \E i \in Pending(coop) :
         /\ First(Pending(coop), i)
         /\ Begins(c, [op |-> "suppress", coop |-> coop, top |-> i, n |-> Len(note)])

Displayed(S) == [i \in DOMAIN note |-> IF i \in S THEN [note[i] EXCEPT !.displayed = TRUE] ELSE note[i]]

MarkAllPendingDisplayed(c) ==
  /\ call[c].op = "gate"
  /\ note' = Displayed(DOMAIN note)
  /\ UNCHANGED told
  /\ Ends(c)

\* Whatever else is pending by now is skipped.
GetPending(c) ==
  /\ call[c].op = "suppress"
  /\ note' = Displayed(Pending(call[c].coop) \ {call[c].top})
  /\ told' = told \cup {call[c].top}
  /\ Ends(c)

CallFails(c) ==
  /\ call[c] # NoCall
  /\ UNCHANGED <<note, told>>
  /\ Ends(c)

\* The client has shown the notification: its message counts as read.
MarkDisplayed(i) ==
  /\ Act
  /\ ~note[i].displayed
  /\ note' = Displayed({i})
  /\ message' = [j \in DOMAIN message |-> IF message[j].of = i THEN [of |-> i, read |-> TRUE, shown |-> TRUE]
                                          ELSE message[j]]
  /\ opened' = opened \cup {j \in DOMAIN message : message[j].of = i}
  /\ UNCHANGED <<invited, call, told>>

MarkMessage(j, displayed, read) ==
  /\ Act
  /\ message' = [message EXCEPT ![j].read = @ \/ read, ![j].shown = @ \/ displayed]
  /\ opened' = IF read THEN opened \cup {j} ELSE opened
  /\ UNCHANGED <<note, invited, call, told>>

Next ==
  \/ \E kind \in {"project", "cooperation"}, priority \in Priorities : CreateTx(kind, priority)
  \/ ArchiveProjectStatusTx
  \/ Invitation
  \/ \E c \in Calls : \/ \E coop \in BOOLEAN : GetMyPendingStatusNotification(c, coop)
                      \/ MarkAllPendingDisplayed(c) \/ GetPending(c) \/ CallFails(c)
  \/ \E i \in DOMAIN note : MarkDisplayed(i)
  \/ \E j \in DOMAIN message, displayed, read \in BOOLEAN : MarkMessage(j, displayed, read)

Spec == Init /\ [][Next]_vars

-----------------------------------------------------------------------------
(* Properties                                                              *)

\* Whatever is skipped on the screen stays in the archive, unread until the
\* user has opened it there.
NothingIsLost ==
  \A i \in DOMAIN note :
    i \in told \/ \E j \in DOMAIN message : message[j].of = i /\ (message[j].read => j \in opened)

\* A notification that was there when a client asked is skipped only for one
\* that goes before it, or for an invitation; and no cooperation is skipped
\* for a client that could not have shown it.
SkippedForABetterOneStep ==
  \A i \in DOMAIN note :
     note'[i].displayed /\ ~note[i].displayed =>
       \/ \E j \in opened' : message'[j].of = i
       \/ \E c \in Calls :
            \/ call[c].op = "gate"
            \/ /\ call[c].op = "suppress"
               /\ i > call[c].n \/ Before(call[c].top, i)
               /\ call[c].coop \/ note[i].kind = "project"

SkippedForABetterOne == [][SkippedForABetterOneStep]_vars
=============================================================================
