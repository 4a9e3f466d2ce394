------------------------------ MODULE BackOffice ------------------------------
(***************************************************************************)
(* The components that share no state with the flows of the other modules, *)
(* side by side.                                                           *)
(*                                                                         *)
(* A behaviour is a behaviour of one component, which is named by `which`: *)
(* the variables of the others keep the value None.  Components that use   *)
(* the same name for a variable of theirs share it here, never at once.    *)
(***************************************************************************)
EXTENDS Integers, FiniteSets

CONSTANTS
  None, Root, Dean, Clerk, Owner,
  AdminIds, Deans, Users, Visitors,  \* people
  Schools, EventIds, Projects, CardIds, Marks, Phones, Emails, Keys, Milestones,
  Deliveries, Priorities, Scores, Weights, Orders, Amounts,
  Calls,
  Campus, Student, Photo, Request,            \* one of each, where one will do
  Window, Whole, Ttl,
  \* The bounds of the components.
  AdminRequests, EventRequests, AccountRequests, WelcomeTime, TalentRequests, MediaRequests,
  FeishuJobs, FeishuMoves, CoopRequests, InterTime, InterChanges, MaxNotes, MaxActs,
  RatingTime, MaxCycles, MaxRatings, InviteRequests, AnswerTime, AnswerRequests, MaxRevisions

\* What the components take for granted.  NULL (None) is no identifier and no
\* number; the kinds of staff are three; what the code keeps apart by a name
\* ("pending", "share", "cleanup") is apart from what it is compared with; a clock
\* may tick and a bound is a number.
ASSUME AdminConstants == Whole \in Nat /\ AdminRequests \in Nat /\ IsFiniteSet(AdminIds)
ASSUME EventConstants ==
  /\ EventRequests \in Nat
  /\ Root # Dean /\ Root # Clerk /\ Dean # Clerk /\ {Root, Dean, Clerk} \cap Users = {}
ASSUME AccountConstants ==
  /\ AccountRequests \in Nat /\ None \notin Keys
  /\ Root # Dean /\ Root # Clerk /\ Dean # Clerk
ASSUME WelcomeConstants == WelcomeTime \in Nat
ASSUME MediaConstants ==
  /\ MediaRequests \in Nat
  /\ CardIds \cap Milestones = {}
  /\ {None, "cleanup", "absent"} \cap (CardIds \cup Milestones) = {}
  /\ None \notin {"cleanup", "absent"}
ASSUME FeishuConstants ==
  /\ None \notin Users \cup Keys \cup Calls
  /\ "pending" \notin Keys /\ None # "pending"
  /\ "deleted" \notin Users /\ None # "deleted"
ASSUME CoopConstants == CoopRequests \in Nat
ASSUME InterConstants ==
  /\ InterTime \in Nat \ {0} /\ InterChanges \in Nat /\ Window \in Nat
  /\ None \notin Visitors /\ {"share", "visit", "entry"} \cap Marks = {}
  /\ IsFiniteSet(Visitors) /\ IsFiniteSet(Projects) /\ IsFiniteSet(CardIds) /\ IsFiniteSet(Marks)
ASSUME StatusConstants == MaxNotes \in Nat /\ MaxActs \in Nat
ASSUME RatingConstants == Weights \subseteq Nat \ {0} /\ Scores \subseteq Nat /\ None \notin Nat
ASSUME InviteConstants == InviteRequests \in Nat /\ None \notin EventIds
ASSUME AnswerConstants == Ttl \in Nat /\ AnswerTime \in Nat /\ AnswerRequests \in Nat
ASSUME CommissionConstants ==
  /\ Whole \in Nat \ {0} /\ Amounts \subseteq Nat /\ MaxRevisions \in Nat /\ None \notin Int
  /\ IsFiniteSet(Orders) /\ IsFiniteSet(Deans)

VARIABLES
  which,
  admin, rel,                                             \* Administrators
  event, on, home, account,                               \* Events
  user, welcomes, arrivals,                               \* Accounts
  status, touched, senders, recovery, accepted,           \* WelcomeEmail
  card, school, archived, wanted, entries,                \* Talent
  upload, images, cert,                                   \* Media
  allowed, job, target, mapping, row, made, lock, worker, jobs, moves,  \* Feishu
  owner, clerkOf, belongs, order, coop, image, attempts, results, open, shown,  \* Cooperation
  approved, mark, share, visit, seen, changes,            \* Interactions
  note, message, invited, told, opened, acts,             \* StatusMessages
  cycle, rating, index, unheard,                          \* ProjectRating
  record, registered, attached, taken,                    \* RegisterInvitation
  feedback, expires, asked,                               \* InvitationFeedback
  paid, due, barred, settled, rates, enabled, detail, batch, revisions,  \* Commission
  call, requests, scope, stored, lost, member, now        \* of several

OfAdministrators == <<admin, rel>>
OfEvents == <<event, on, home, account>>
OfAccounts == <<user, welcomes, arrivals>>
OfWelcomeEmail == <<status, touched, senders, recovery, accepted>>
OfTalent == <<card, school, archived, wanted, entries>>
OfMedia == <<upload, images, cert>>
OfFeishu == <<allowed, job, target, mapping, row, made, lock, worker, jobs, moves>>
OfCooperation == <<owner, clerkOf, belongs, order, coop, image, attempts, results, open, shown>>
OfInteractions == <<approved, mark, share, visit, seen, changes>>
OfStatusMessages == <<note, message, invited, told, opened, acts>>
OfProjectRating == <<cycle, rating, index, unheard>>
OfRegisterInvitation == <<record, registered, attached, taken>>
OfInvitationFeedback == <<feedback, expires, asked>>
OfCommission == <<paid, due, barred, settled, rates, enabled, detail, batch, revisions>>
OfInvitations == <<OfRegisterInvitation, OfInvitationFeedback>>

all == <<which, OfAdministrators, OfEvents, OfAccounts, OfWelcomeEmail, OfTalent, OfMedia,
         OfFeishu, OfCooperation, OfInteractions, OfStatusMessages, OfProjectRating, OfInvitations,
         OfCommission, call, requests, scope, stored, lost, member, now>>

-----------------------------------------------------------------------------
(* The components, each with its bounds.                                   *)

Admin   == INSTANCE Administrators WITH Admins <- AdminIds, Schools <- Campus, MaxRequests <- AdminRequests
Event   == INSTANCE Events WITH Managers <- Users, MaxRequests <- EventRequests
Account == INSTANCE Accounts WITH MaxRequests <- AccountRequests
Welcome == INSTANCE WelcomeEmail WITH Processes <- Calls, MaxTime <- WelcomeTime
TalentM == INSTANCE Talent WITH MaxRequests <- TalentRequests
MediaM  == INSTANCE Media WITH Albums <- CardIds, MaxRequests <- MediaRequests
FeishuM == INSTANCE Feishu WITH Rows <- Keys, Workers <- Calls, MaxJobs <- FeishuJobs,
                                MaxMoves <- FeishuMoves
Coop    == INSTANCE Cooperation WITH Users <- Student, Schools <- Campus, Keys <- Photo,
                                     Calls <- Request, MaxRequests <- CoopRequests
Inter   == INSTANCE Interactions WITH Cards <- CardIds, MaxTime <- InterTime, MaxChanges <- InterChanges
Status  == INSTANCE StatusMessages
Rating  == INSTANCE ProjectRating WITH MaxTime <- RatingTime
Invite  == INSTANCE RegisterInvitation WITH Projects <- EventIds, MaxRequests <- InviteRequests
Answer  == INSTANCE InvitationFeedback WITH MaxTime <- AnswerTime, MaxRequests <- AnswerRequests
Money   == INSTANCE Commission WITH Beneficiaries <- Deans

Init ==
  /\ which \in {"administrators", "events", "accounts", "welcome", "talent", "media", "feishu",
                "cooperation", "interactions", "messages", "ratings", "invitations", "feedback",
                "commission"}
  /\ which = "administrators" => Admin!Init
  /\ which = "events" => Event!Init
  /\ which = "accounts" => Account!Init
  /\ which = "welcome" => Welcome!Init
  /\ which = "talent" => TalentM!Init
  /\ which = "media" => MediaM!Init
  /\ which = "feishu" => FeishuM!Init
  /\ which = "cooperation" => Coop!Init
  /\ which = "interactions" => Inter!Init
  /\ which = "messages" => Status!Init
  /\ which = "ratings" => Rating!Init
  /\ which = "invitations" => Invite!Init
  /\ which = "feedback" => Answer!Init
  /\ which = "commission" => Money!Init
  /\ which # "administrators" => admin = None /\ rel = None
  /\ which # "events" => event = None /\ on = None /\ home = None /\ account = None
  /\ which # "accounts" => user = None /\ welcomes = None /\ arrivals = None
  /\ which # "welcome" => /\ status = None /\ touched = None /\ senders = None
                          /\ recovery = None /\ accepted = None
  /\ which # "talent" => /\ card = None /\ school = None /\ archived = None
                         /\ wanted = None /\ entries = None
  /\ which # "media" => upload = None /\ images = None /\ cert = None
  /\ which # "feishu" => /\ allowed = None /\ job = None /\ target = None /\ mapping = None
                         /\ row = None /\ made = None /\ lock = None /\ worker = None
                         /\ jobs = None /\ moves = None
  /\ which # "cooperation" => /\ owner = None /\ clerkOf = None /\ belongs = None /\ order = None
                              /\ coop = None /\ image = None /\ attempts = None /\ results = None
                              /\ open = None /\ shown = None
  /\ which # "interactions" => /\ approved = None /\ mark = None /\ share = None /\ visit = None
                               /\ seen = None /\ changes = None
  /\ which # "messages" => /\ note = None /\ message = None /\ invited = None /\ told = None
                           /\ opened = None /\ acts = None
  /\ which # "ratings" => cycle = None /\ rating = None /\ index = None /\ unheard = None
  /\ which # "invitations" => record = None /\ registered = None /\ attached = None /\ taken = None
  /\ which # "feedback" => feedback = None /\ expires = None /\ asked = None
  /\ which # "commission" => /\ paid = None /\ due = None /\ barred = None /\ settled = None
                             /\ rates = None /\ enabled = None /\ detail = None /\ batch = None
                             /\ revisions = None
  /\ which \in {"welcome", "feishu", "interactions", "ratings", "commission"} => call = None
  /\ which \in {"welcome", "feishu", "interactions", "messages", "ratings", "commission"} => requests = None
  /\ which \notin {"events", "accounts", "talent"} => scope = None
  /\ which \notin {"accounts", "media", "cooperation"} => stored = None
  /\ which \notin {"accounts", "feishu"} => lost = None
  /\ which \notin {"feishu", "interactions"} => member = None
  /\ which \notin {"welcome", "interactions", "ratings", "feedback"} => now = None

Next ==
  \/ /\ which = "administrators" /\ Admin!Next
     /\ UNCHANGED <<which, OfCommission, OfEvents, OfAccounts, OfWelcomeEmail, OfTalent, OfMedia,
                    OfFeishu, OfCooperation, OfInteractions, OfStatusMessages, OfProjectRating,
                    OfInvitations, scope, stored, lost, member, now>>
  \/ /\ which = "events" /\ Event!Next
     /\ UNCHANGED <<which, OfCommission, OfAdministrators, OfAccounts, OfWelcomeEmail, OfTalent,
                    OfMedia, OfFeishu, OfCooperation, OfInteractions, OfStatusMessages, OfProjectRating,
                    OfInvitations, stored, lost, member, now>>
  \/ /\ which = "accounts" /\ Account!Next
     /\ UNCHANGED <<which, OfCommission, OfAdministrators, OfEvents, OfWelcomeEmail, OfTalent, OfMedia,
                    OfFeishu, OfCooperation, OfInteractions, OfStatusMessages, OfProjectRating,
                    OfInvitations, member, now>>
  \/ /\ which = "welcome" /\ Welcome!Next
     /\ UNCHANGED <<which, OfCommission, OfAdministrators, OfEvents, OfAccounts, OfTalent, OfMedia,
                    OfFeishu, OfCooperation, OfInteractions, OfStatusMessages, OfProjectRating,
                    OfInvitations, call, requests, scope, stored, lost, member>>
  \/ /\ which = "talent" /\ TalentM!Next
     /\ UNCHANGED <<which, OfCommission, OfAdministrators, OfEvents, OfAccounts, OfWelcomeEmail,
                    OfMedia, OfFeishu, OfCooperation, OfInteractions, OfStatusMessages, OfProjectRating,
                    OfInvitations, stored, lost, member, now>>
  \/ /\ which = "media" /\ MediaM!Next
     /\ UNCHANGED <<which, OfCommission, OfAdministrators, OfEvents, OfAccounts, OfWelcomeEmail,
                    OfTalent, OfFeishu, OfCooperation, OfInteractions, OfStatusMessages,
                    OfProjectRating, OfInvitations, scope, lost, member, now>>
  \/ /\ which = "feishu" /\ FeishuM!Next
     /\ UNCHANGED <<which, OfCommission, OfAdministrators, OfEvents, OfAccounts, OfWelcomeEmail,
                    OfTalent, OfMedia, OfCooperation, OfInteractions, OfStatusMessages, OfProjectRating,
                    OfInvitations, call, requests, scope, stored, now>>
  \/ /\ which = "cooperation" /\ Coop!Next
     /\ UNCHANGED <<which, OfCommission, OfAdministrators, OfEvents, OfAccounts, OfWelcomeEmail,
                    OfTalent, OfMedia, OfFeishu, OfInteractions, OfStatusMessages, OfProjectRating,
                    OfInvitations, scope, lost, member, now>>
  \/ /\ which = "interactions" /\ Inter!Next
     /\ UNCHANGED <<which, OfCommission, OfAdministrators, OfEvents, OfAccounts, OfWelcomeEmail,
                    OfTalent, OfMedia, OfFeishu, OfCooperation, OfStatusMessages, OfProjectRating,
                    OfInvitations, call, requests, scope, stored, lost>>
  \/ /\ which = "messages" /\ Status!Next
     /\ UNCHANGED <<which, OfCommission, OfAdministrators, OfEvents, OfAccounts, OfWelcomeEmail,
                    OfTalent, OfMedia, OfFeishu, OfCooperation, OfInteractions, OfProjectRating,
                    OfInvitations, requests, scope, stored, lost, member, now>>
  \/ /\ which = "ratings" /\ Rating!Next
     /\ UNCHANGED <<which, OfCommission, OfAdministrators, OfEvents, OfAccounts, OfWelcomeEmail,
                    OfTalent, OfMedia, OfFeishu, OfCooperation, OfInteractions, OfStatusMessages,
                    OfInvitations, call, requests, scope, stored, lost, member>>
  \/ /\ which = "invitations" /\ Invite!Next
     /\ UNCHANGED <<which, OfCommission, OfAdministrators, OfEvents, OfAccounts, OfWelcomeEmail,
                    OfTalent, OfMedia, OfFeishu, OfCooperation, OfInteractions, OfStatusMessages,
                    OfProjectRating, OfInvitationFeedback, scope, stored, lost, member, now>>
  \/ /\ which = "feedback" /\ Answer!Next
     /\ UNCHANGED <<which, OfCommission, OfAdministrators, OfEvents, OfAccounts, OfWelcomeEmail,
                    OfTalent, OfMedia, OfFeishu, OfCooperation, OfInteractions, OfStatusMessages,
                    OfProjectRating, OfRegisterInvitation, scope, stored, lost, member>>
  \/ /\ which = "commission" /\ Money!Next
     /\ UNCHANGED <<which, OfAdministrators, OfEvents, OfAccounts, OfWelcomeEmail, OfTalent, OfMedia,
                    OfFeishu, OfCooperation, OfInteractions, OfStatusMessages, OfProjectRating,
                    OfInvitations, call, requests, scope, stored, lost, member, now>>

Spec == Init /\ [][Next]_all

-----------------------------------------------------------------------------
(* The properties of the components, each where it belongs.                *)

\* Every variable of the component has its type.
TypeOK ==
  /\ which = "administrators" => Admin!TypeOK
  /\ which = "events" => Event!TypeOK
  /\ which = "accounts" => Account!TypeOK
  /\ which = "welcome" => Welcome!TypeOK
  /\ which = "talent" => TalentM!TypeOK
  /\ which = "media" => MediaM!TypeOK
  /\ which = "feishu" => FeishuM!TypeOK
  /\ which = "cooperation" => Coop!TypeOK
  /\ which = "interactions" => Inter!TypeOK
  /\ which = "messages" => Status!TypeOK
  /\ which = "ratings" => Rating!TypeOK
  /\ which = "invitations" => Invite!TypeOK
  /\ which = "feedback" => Answer!TypeOK
  /\ which = "commission" => Money!TypeOK

\* Whom a list shows, the detail page admits, and the reverse: administrators,
\* events and their projects, users, talent cards; and whom the list of members
\* offers for a rating, the rating accepts.
ListedIsAdmitted ==
  /\ which = "administrators" => Admin!ListedIsAdmitted
  /\ which = "events" => Event!ListedIsAdmitted
  /\ which = "accounts" => Account!ListedIsAdmitted
  /\ which = "talent" => TalentM!ListedIsAdmitted
  /\ which = "ratings" => Rating!OfferedIsAccepted

\* What a user is told about reaches him once: each new address is welcomed by
\* one delivery and one sender, each submission of a card by one message, each
\* application by one result; and a result that is not shown stays readable.
ToldOnce ==
  /\ which = "accounts" => Account!WelcomedOnce
  /\ which = "welcome" => Welcome!OneSender
  /\ which = "talent" => TalentM!MessagePerSubmission
  /\ which = "cooperation" => Coop!AnsweredOnce
  /\ which = "messages" => Status!NothingIsLost

\* What a user's row, a project, a card or a milestone shows is in the store,
\* and a milestone that waits for its review has evidence.
ImageIsThere ==
  /\ which = "accounts" => Account!ImageIsThere
  /\ which = "media" => MediaM!ImageIsThere /\ MediaM!PendingHasEvidence

\* Nothing is shown that was not meant: a card that was hidden or refused comes
\* back after a new submission only, the contacts of a cooperation were shown to
\* those alone for whom the page was open or who had been approved, and nobody
\* counts as invited whose SMS was not sent.
ShownAsMeant ==
  /\ which = "talent" => TalentM!OnlineIsWanted
  /\ which = "cooperation" => Coop!ContactsAreMeant
  /\ which = "invitations" => Invite!InvitedForReal

\* In Feishu no node, table or user's row is created twice, and every row is
\* known by its mapping or marked for a check.
FeishuIsManaged == which = "feishu" => FeishuM!FeishuIsManaged

\* The numbers of the dashboards add up, whichever query counts them, and those
\* of the ratings, whichever request computed or copied them; and the books of the
\* commission balance.
NumbersAgree ==
  /\ which = "interactions" => Inter!DashboardAgrees
  /\ which = "ratings" => Rating!ScoresAgree
  /\ which = "commission" => Money!BooksBalance /\ Money!PendingIsPaid

\* Who shares again, or comes again within the window, is not counted as new.
RepeatsAreSilent == [][which = "interactions" => Inter!RepeatsAreSilentStep]_all

\* A result is passed over only for one that goes before it.
SkippedForABetterOne == [][which = "messages" => Status!SkippedForABetterOneStep]_all

\* What a request decided from an older reading does not undo what happened
\* since: the manager of an event, the verdict on a certification, the school's
\* owner during an upload, an upload that was taken back while it was deleted,
\* the answer to an invitation.
OlderReadingsLose ==
  [][/\ which = "events" => Event!ManagerIsNotReplacedStep
     /\ which = "accounts" => Account!VerdictStandsStep
     /\ which = "cooperation" => Coop!OwnerUploadsStep
     /\ which = "media" => MediaM!DeletedWithItsObjectStep
     /\ which = "feedback" => Answer!AnsweredIsNotAskedStep]_all
=============================================================================
