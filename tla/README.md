# kuaizu-service in TLA+

kuaizu-service is the backend of a campus platform on which students find
project teams: HTTP handlers (`src/internal/handler`, `src/internal/admin`), services
(`src/internal/service`) and repositories over one MySQL database
(`src/internal/repository`), with three external parties: WeChat (payments and
subscribe messages), a message center (email and text messages) and object storage.
There is no in-process state to speak of.  What can go wrong goes wrong between SQL
statements: two requests that interleave, a process that stops, an answer that is lost,
a notice that comes twice.  This project models that.

## 1. Inventory

State is a table (or some columns of one) unless said otherwise.

| Component | State | Operations | Hard behaviour | What makes it correct | Module |
|---|---|---|---|---|---|
| Order lifecycle and payment callbacks | `order.status`, `wx_pay_no`; the attempts at the provider | create, initiate payment (two channels), cancel, success notice, failure notice | repeated and overlapping notices, cancellation that races a payment, several attempts of one order, a failure reported late | quota granted once; refunded is final; paid means there is a payment; money taken is honoured | `OrderLifecycle` |
| Refunds | `order.refund_*` | apply, withdraw, reject, review, by users, school administrators and super administrators | three parties decide at once, rights tested on an unlocked read | one decision; a decision taken was allowed; refund and settlement agree | `OrderLifecycle` |
| Commission settlement | `order.settlement_status`, `settlement_record(_order)`, `admin_school_relation` | settle, add and remove relations, enable and disable | an order stays open for its other beneficiaries and becomes open again; shares rounded one by one, numbers shown by other queries | nobody is paid twice for one order; the books balance; what is shown as pending is what is paid | `OrderLifecycle`, `Commission` |
| WeChat subscribe outbox | `wx_subscribe_delivery` (status, attempts, claimed_at) | enqueue, claim, dispatch, finish, sweep, retry | stale claims while the worker lives, crash in the call, lost answer, request that arrives late | accepted at most once; the row tells the truth; verdicts final; every message settles | `WxOutbox`, `NotifyOnce` |
| Paid-order delivery, email promotion, SMS notices | `order.push_status`, `push_retry_count`; `email_promotion`, `olive_branch_sms_notice` | claim, deliver, recover, retry, submit, complete, fail | four ways to start one delivery, goroutines and an external writer on one record, crash between claim and record | one delivery at a time; success and completion are final and true; failed waits for the user; a delivery settles | `OrderDelivery` |
| Automatic urge SMS | `auto_urge_sms_state` (state, claim token, cycle, request key, `closed_at`) | daily scan, claim, recheck, snapshot, dispatch, finish, reconcile; clearance observed by business transactions | crash between dispatch and result, lease expired while the worker lives, cycle closed under way | one successful message per backlog; an unknown result is looked up, never resent blindly; an old claim changes nothing | `AutoUrge` |
| Project applications, members, project lifecycle, cleanup and restore | `project.status`, `deleted_at`; `project_members`, `project_application` | apply, review, assign a role, withdraw, reject; add, replace, remove members; create, review, complete, restart, end, delete, restore, take down, purge | requests decide on an unlocked reading; two reviewers; membership written with the decision; deletion and purge around everything else | one decision, and an admission makes a member; nothing stays open when the recruitment ends; a removal takes the row it saw; only kept trash is destroyed; somebody may operate the project | `ProjectTeam`, `Recruitment` |
| Olive branches and quota | `olive_branch_record`, `user.free_branch_used_today`, `olive_branch_count`, `last_active_date` | send, send again, answer; charge, buy, reset | overlapping sends by several members, a charge around midnight, an answer on an old reading | one live branch for each receiver; nothing lost on the sender's row; answered once | `OliveBranch`, `BranchQuota` |
| Administrators | `admin_user`, `admin_school_relation` | create, update, enable, delete, delegate, share | checks on rows that change before the write; several copies of "who sees whom" | lists and detail pages agree | `Administrators` |
| Events | `event`, `project_event`, manager accounts | create, update, merge, delete | a manager read before the transaction; merge during an update | lists and detail pages agree; a manager is not replaced by an older reading | `Events` |
| User accounts and verification, welcome email | `user`, `welcome_email_delivery`, the object store | register, edit, submit and review a certification; send, recover | two updates of one profile, a certification that is replaced under review, two processes that recover | a verdict is not brought back; the image exists; each new address welcomed once, by one sender | `Accounts`, `WelcomeEmail` |
| Talent profiles | `talent_profile.status`, `user_status_message` | edit, hide, review, take down, approve in a batch | an edit or a verdict on an older reading, a batch around single reviews | hidden stays hidden; one message for each submission; the list shows what may be opened | `Talent` |
| Media and object storage, milestones | `media_upload`, the images, the objects, `certification_status` | upload, register, attach, replace, submit evidence, review, clean up | two stores without a transaction; a scheduler that deletes what is being attached | what is shown exists; nothing leaks after its row is gone; a pending milestone has evidence | `Media` |
| Feishu synchronisation | jobs, target, mappings; the table in Feishu | queue, run, create, update, delete, confirm | lost answers, crashes, a lock that a connection holds, permission that is taken back | nothing is created twice; every row is known or marked | `Feishu` |
| Campus cooperation | orders, the page of a school, images, applications, their results | offer, claim, save, upload, apply, review, read | two schools claim one order; a page that changes hands during an upload; a reader of several queries | the owner uploads; one live application and one result; contacts shown to the approved | `Cooperation` |
| Interactions, view logs, notifications | likes, favourites, shares, view logs, cursors; notifications and the archive | mark, share, view, look; select and suppress | the same number counted by several queries; a queue of which one is shown and the rest skipped | numbers add up; repeats are silent; what is skipped stays readable | `Interactions`, `StatusMessages` |
| Project rating and collaboration score | ratings, scores, their copies at a removal, the index of a user | rate, correct, set, remove | copies found by their times only; memberships that come and go | copies agree; the index is the mean of the scores | `ProjectRating` |
| Invitations by SMS and by the super administrator | `invitation_record`; `invitation_feedback`, `pending_invitation` | invite, register, attach; ask, answer, show, clear | whole rows written from older readings; two rows without a transaction | invited only if the SMS was taken; the page is not shown after the answer | `RegisterInvitation`, `InvitationFeedback` |
| Catalogue content, recommendation and search, tag matching, HTTP API, migrations | | requests that read, or write one row | none of their own | | not modelled (section 7) |

`PROJECT.json` lists every component with its sources and status.

How the parts interact.  A payment callback (`payment.go:192`) commits the paid order
and its quota in one transaction and then hands the order to delivery
(`payment.go:49`), which claims it by `push_status` and runs detached from the request.
Delivery writes the record of an email promotion or of a text message and submits it to
the message center, which writes that record too.  Refunds are requested on the order
row; a requested refund stops recovery and retry of the delivery and freezes settlement.
Every business transaction that tells a user something inserts a row of the outbox; a
worker of the process, or the recovery loop, sends it.  Admission to a project by an application
(`Recruitment`) or an olive branch (`OliveBranch`) writes the same list of members, whose rules are
in `ProjectTeam`; bought branches arrive by a paid order.  The other components, the "back office", are modelled apart.
Where one of them meets these flows or another component (an invitation that is redeemed adds members, a removal
freezes a score, an edit of a project replaces its milestones, an administrator's schools decide whom he sees), the other
side is an action of its module that may happen at any time.

## 2. Modules

| Module | Content |
|---|---|
| `OrderLifecycle` | the order row: creation, payment, cancellation, refunds, settlement |
| `OrderLifecycleProofs` | its theorems |
| `NotifyOnce` | what the outbox promises, without attempts, workers or leases |
| `WxOutbox` | the outbox: rows, workers, sweep, calls to the provider |
| `WxOutboxProofs` | its theorems, the refinement of `NotifyOnce` among them |
| `OrderDelivery` | delivery of paid orders: claims, records, submissions, recovery, retry |
| `OrderDeliveryProofs` | its theorems |
| `AutoUrge` | the automatic text message: rows with cycles, scans, message center, business transactions |
| `AutoUrgeProofs` | its theorems |
| `ProjectTeam` | roles and the rules about them: who operates a project, who may assign what |
| `Recruitment` | one project: status, trash, team, applications; extends `ProjectTeam` |
| `RecruitmentProofs` | its theorems |
| `BranchQuota` | what the quota of olive branches promises, each charge at one instant |
| `OliveBranch` | the branches of one project and the senders' rows; extends `ProjectTeam` |
| `OliveBranchProofs` | its theorems, the refinement of `BranchQuota` among them |
| `Administrators`, `Events`, `Accounts`, `WelcomeEmail`, `Talent`, `Media`, `Feishu`, `Cooperation`, `Interactions`, `StatusMessages`, `ProjectRating`, `RegisterInvitation`, `InvitationFeedback`, `Commission` | the back office, one module per component (2.7) |
| `BackOffice` | the fourteen of them side by side, with what they assume of the constants and their properties |
| `BackOfficeNumbers`, `BackOfficeProofs` | its theorems: the components that add up numbers, then the others and the whole |
| `MCOrderLifecycle`, `MCWxOutbox`, `MCOrderDelivery`, `MCAutoUrge`, `MCRecruitment`, `MCOliveBranch`, `MCBackOffice` | instances for TLC |

**Grain.**  One SQL statement, or one transaction that locks what it reads, is one
action.  A handler that reads without a lock and writes later is two actions, and what it
read is kept between them.  A call to an external party is one action per thing that can
happen to it.  Errors that end a handler are actions; errors that are only logged are
treated as a crash of the goroutine at that point, or as the failure of that statement
where the code goes on.  "A mishap" is a crash, a failed statement or a lost
answer; the number of mishaps of a behaviour is bounded by a constant for TLC and by
nothing in the proofs (it is any natural number).

### 2.1 OrderLifecycle

`status`, `refund`, `settle`, `applicant`, `paidBy`, `push` and `grants` are columns of an order
(`grants` counts how often its quota was added, which in the code is a sum in the
user's row).  `attempt` is the provider's side of an `out_trade_no`.  `cancelling`, `callback` and
`decision` hold what a handler has read and not yet acted on: `CancelRead`/`CancelWrite` are the two
statements of `OrderService.CancelOrder`; `ReceiveSuccess`, `ProcessPayment` and
`EnsurePaidOrderDelivery` are the stages of a callback; `SchoolAdminReads` and
`SchoolAdminRejects`/`SchoolAdminWithdraws`/`SchoolAdminGivesUp` the stages of a school administrator's
decision.  `payouts`, `related` and `enabled` are settlement's: `Settle(b)` is one run of
`SettleSchoolPendingOrders` with the transaction it is in.  Prices and amounts are
in `Commission`.  `enabled` stands for everything that makes a beneficiary eligible (status, role,
commission rate).  One cancellation of an order is under way at a time; a failed attempt is reported once.

A behaviour of the code that no property is about: `SettleSchoolPendingOrders` wants
`refund_status = 0`, and a request that was rejected or withdrawn leaves another value
there, so that the commission of such an order is never settled although its
settlement status returns to "unsettled" (`repository/order.go:671`).

### 2.2 WxOutbox and NotifyOnce

A row has a `status`, a count of `attempts` and a `holder`, the worker that wrote
`claimed_at` last.  A worker claims (one UPDATE), reads the row back (another statement: `Load`),
prepares, writes DISPATCHING (`BeginDispatch`, only if the row is still PREPARING with the attempt it
read), posts, and writes the result (`Finish`, fenced by status and attempt).  Its context
ends after 20 seconds (`Expire`), its process at any time (`Crash`); a request it no longer waits
for is an orphan that may still be accepted.  `SweepStale` turns a stale DISPATCHING or
PROCESSING into UNKNOWN, which is never sent again.  A row left PROCESSING by an
earlier release is an initial state.  Staleness is a nondeterministic age, bounded below by the time a
living, unexpired claim can take: the clocks of the server and of the database differ by less
than 100 seconds.

`NotifyOnce` promises: a message is received at most once, only while a call for it is
out or its outcome is not known; it is dropped or queued again only if it was not received; it is
called sent only if it was.  The refinement mapping reads all of this off the status column
(`Meaning`).

### 2.3 OrderDelivery

`push`, `stale` (is `updated_at` older than five minutes), `retries` and `refund` are columns of the
order; `rec` is the status of its record in `email_promotion` or
`olive_branch_sms_notice`; `center` and `accepted` belong to the message center; `worker` has a
record per goroutine or request with its place, its order, whether its caller will
still write a returned error to the order (`owed`), and the record it read (`found`).

| Actions | Code |
|---|---|
| `EnsurePaidOrderDelivery`, `Recover`, `Retry`, `UserSends` | the four starts: callback, recovery loop, the user's retry, the user's own request |
| `Look`, `Claim` | the user's request: checks before the claim, `BeginOrderPushDeliveryForUser` |
| `Deliver`, `TakeForSent`, `Refuse` | `PaidOrderDeliveryService.Deliver` up to the record |
| `Create`, `CreateFails`, `Release`, `RecordTemplate(Fails)`, `Redrive(Fails)` | the record |
| `Submit`, `AnswerLost`, `SubmitFails` | the submission, its three attempts in one step |
| `Complete(Fails)`, `Succeed` | the synchronous text messages finish themselves |
| `FailRecord` (`FailPromotion`, `FailRedriven`, `FailNotice`), `FailNoticeErrs`, `FailPush`, `Fail` | the ways a failure is written down, in record and order, together or one after the other, conditionally or not |
| `Crash`, `TimePasses`, `RefundMoves`, `CenterStarts`, `CenterCompletes`, `CenterFails` | the rest of the world |

Kinds: "email" is a promotion; "invite" the notice of a pending olive branch; "result" the notice of its
outcome; "application" stands for application and member-removal notices, which differ from
"result" in giving the claim back when the record exists.  Promotions and invitations are submitted by a goroutine
and finished by the message center; the others are finished by the worker.

Assumptions.  A delivery ends within its 30 seconds and the 5 of a compensation, and
a submission within three calls of 3 seconds, far below the 5 minutes of staleness, so
that a claim becomes stale only when no worker is left (`TimePasses`).  The message center is not part of
this repository: it is modelled as taking a submission once per record, however often it is repeated,
and writing the record, never the order.  Invitations of the model concern one olive branch in
one cycle (a resend would start afresh).  Orders of an earlier release, without a delivery intent, and the
selection of recipients are not modelled.

### 2.4 AutoUrge

`row` is the user's row of `auto_urge_sms_state`: `state` ("absent" before the INSERT), `cycle`, `key` (the cycle whose
request key it holds), `token`, `closed` (`closed_at` is set), `due` (`next_retry_at` allows an attempt) and `stale`
(thirty minutes since `last_attempt_at`).  `work` abstracts the user's pending applications and olive branches to
none, some, or due: enough or old enough for a message, and the user can get one (not banned, with a phone).  `worker` is a
scan of an instance with the user in hand, the claim (`cycle`, `key`, and `only` for
`ReconcileOnly`) and the result it will save.  `center` is the message center's record of each key, `late` the
requests whose caller gave up.  `handled` and `unseen` are history: how often the work was emptied, and whether
that happened by a transaction that observes nothing.

| Actions | Code |
|---|---|
| `List`, `Claim`, `ClaimNothing` | `run`, with candidates read in pages, and the transaction of `Claim` |
| `Recheck`, `Snapshot`, `MarkDispatched`, `StepFails` | the statements of `process` before the call, each fenced as in its WHERE |
| `Send`, `SendTimesOut`, `Answer`, `Reconcile`, `AnswerLost` | the call, or the lookup, and `classifyAutoUrgeResult` |
| `Finish`, `Crash` | saving the result under a fence, or not saving it |
| `NextDay`, `GrowsStale` | time |
| `WorkArrives`, `WorkHandled`, `WorkTouched` | the transactions that call `ObserveClearanceTx` before they add work or after they remove some |
| `CompleteRecruit` | the one that removes work and does not |
| `LateArrival`, `CenterSends` | the message center (external) |

Assumptions.  A lookup and the saving of its result end within 35 seconds, so that its claim does not grow stale
under it (`GrowsStale`); a recheck or a snapshot has no such bound but the two hours of the scan.  The message center
sends at most one message per key and may send again only what it rejected.  All instances track cycles, as
the deployment notes demand (`docs/auto-urge-sms.md:19`).  Invitations attached at registration reach a user who has no row yet, and are left out.

A behaviour of the code: `CompleteRecruit` (`repository/project.go:1092`) rejects a project's pending applications and observes no
clearance, although the notes want it of every transaction that removes work (`docs/auto-urge-sms.md:18`).  A message
that was rechecked before may then leave for work that is gone; `NoUrgeOnceHandled`
excuses exactly that (`unseen`).

### 2.5 ProjectTeam and Recruitment

The state is that of one project: `status` ("gone" after the purge), `deletedAt` by age, `role` (the row of
`project_members` of each user), `app` (his application), `call` (the requests under way, with what they have read) and
history: `joins` and `applies` count the rows that a user has had (their ids), `trash` is the age of the deletion, `removals` the rows that a
removal saw and deleted.

A request reads first, without a lock, decides, and then runs one transaction.  The first half is named after
the service's method, the second after the repository's:

| First half | Second half | What the second half tests again |
|---|---|---|
| `RestoreProject`; `ReviewProject`, `TakedownProject` | `restoreProject`; `persistProjectReview` | the status that was read |
| `DeleteProject`; `BeginCompleteRecruit`; `RestartRecruit`, `EndProject` | `Delete`; `CompleteRecruit`; `UpdateStatus` | nothing |
| `UpdateProjectByMember`; `UpdateProjectByOwner` | `AddMembers`, `ReplaceMembers`; `UpdateWithMetadata` | nothing |
| `RemoveMember` | `RemoveMemberTx` | the row that was seen (`SameRow`) |
| `ApplyToProject` | `CreateApplicationTx` | everything, under the project's lock |
| `ReviewApplication`, `AssignApplicationRole` | `ReviewApplicationTx`, `AssignApplicationRoleTx` | the application (`AsRead`) |

`RejectOwnApplication`, `WithdrawMyApplication`, `UpdateProjectMemberRole`, `UpdateProjectLifecycleStatus` and
`PurgeDeletedProjects` are one transaction each.  Roles are the three that the code names and any other leading role.
A project's content, its school and its audit trail are abstracted; of a review only the verdict is kept.

Behaviours of the code that no property forbids: an admission overwrites the role of somebody who is a member
already; `UpdateWithMetadata`, `CompleteRecruit` and `UpdateStatus` may revive a project that was deleted meanwhile (what was deleted again
later is still kept for the whole retention: `PurgedOnlyAfterRetention`); `AddMembers` may insert rows of
a project that was purged.

### 2.6 OliveBranch and BranchQuota

`branch` is `olive_branch_record`; `used`, `paid` and `active` are the sender's columns; `role` is the team, which the
operations of `Recruitment` change (`TeamChanges`); `granted` and `charges` are history.  A request that sends goes through the stages
of the transaction: `SendOliveBranch` or `ResendOliveBranch` checks without a lock; `lockOliveBranchSendState` locks the project and
looks for a live branch; `GetByIDForUpdateTx` locks the sender's row and counts; `Commit` writes (`CreateTx` or `Reactivate`,
and `UpdateQuotaTx`); `Rollback` ends it anywhere.  `BeginHandle` reads a branch and `HandleOliveBranch` answers it, fenced by the
status that was read, and on acceptance writes the member.  `AddOliveBranchCountTx` is the purchase,
`ResetDailyFreeBranchQuotaIfNeeded` the daily reset, `NextDay` midnight, at any point of a transaction.

`BranchQuota` promises what a user is told: some free branches a day, then bought ones, each charge at one instant.
`OliveBranch` implements it with the identity on the columns: counting and writing are two steps, but the row stays locked between them.

Sending locks the project first and the branch later, an answer the other way round (`service/olivebranch.go:190`): InnoDB ends such a cycle by rolling one transaction back, which the model has as
`Rollback` and `HandleFails`.

### 2.7 The back office

| Module | State | Steps | Left out |
|---|---|---|---|
| `Administrators` | rows of administrators with role, school and status; shares of schools | a request reads the caller and its target, checks, and writes later; a delegation is one transaction; the trigger that bounds the shares of a school | passwords, names; the trigger sees all committed rows |
| `Events` | events, their managers, `project_event`, the projects' schools | an update reads the event first; removal and merge read the manager in the transaction, unlocked | names, texts |
| `Accounts` | a user's phone, email, school, verdict and image; objects; rows of welcome emails | profile under the row's lock; registration, certification and review in statements of their own, the object store in between | login, tokens, statistics of a profile |
| `WelcomeEmail` | a row, its goroutines and the recovery of each process, a clock of half minutes | commit, send, mark; list, claim, send again; crash | the text |
| `Talent` | a card's status; the messages archived | edit under lock with what was resolved before; hide and review by a compare-and-set on the status; a batch in one transaction | texts, tags, images |
| `Media` | `media_upload`, attachments, objects, certification of milestones | upload, then register; replace under lock, delete after the commit; the scheduler claims and deletes | other users' images, which match no query |
| `Feishu` | the job, the target, the mappings, the rows in Feishu, the named lock, the worker's place | `workOne` with guard, creation of node and table, clean-up, batches of updates, creations confirmed one by one; crash, lost connection, lost permission, rows deleted by hand | the fields of a row; the one-off removal of default blocks (`defaults.go`) |
| `Cooperation` | the order, the page, images, applications, results, who has been shown what | transactions under locks; an upload spans the object store; a reader makes several queries | texts |
| `Interactions` | marks, shares, visits, cursors; a tick of the clock is the window of thirty days | writes are single transactions; each dashboard query with its own copy of the conditions | grouped notices, cursors of favourites, `view_count` |
| `StatusMessages` | notifications with priorities, the archive, an invitation | a question is two statements: select, then mark the rest | texts |
| `ProjectRating` | memberships with score and copies, ratings, indices | one transaction each; the correction of a past rating finds the copies by their times | the notice of a new index; roles that change within a membership |
| `RegisterInvitation` | the record of a phone number per project, the user's registration | read, write as failed, send, write the result; register, attach | who may invite (the roles of `ProjectTeam`) |
| `InvitationFeedback` | the answer with the conversation, the pending row | each statement by itself, of administrators, user, page and the daily clean-up | texts; what `GetStatus` shows of an old conversation |
| `Commission` | the paid orders of one school with their amounts, rates, settlements and their details | a settlement is one transaction under locks, with the rounding of `calculateCommissionAmounts`; payments, refund requests and changes of rates come between | users who change their school; the error of doubles (amounts are exact fractions here) |

`BackOffice` puts them side by side: a behaviour is one component's, named by `which`, and the variables of the others stay
`None`.  They share no state, so the states of the run are the sum of theirs, not the product.  A property of the run names what the
components have in common (lists that agree with detail pages, images that exist, older readings that lose, ...) and
refers to each module's own definition.  The bounds of the components are constants of `BackOffice`, so that the proofs hold for any;
its `ASSUME`s say, component by component, what is taken for granted: NULL is no identifier, the three kinds of staff are
three, a marker such as `"cleanup"` is no identifier, bounds are numbers, and sets that are counted or summed over are finite.

Behaviours of the code seen while modelling, which no property forbids.
- The last order of a settlement takes what the rounding of all left over.  With many small orders its amount is negative
  (`order.go:747`); `BooksBalance` says how far it may be off, half a fen per order.
- A rate that is handed on, between two settlements of one order, to a beneficiary who had a relation before the payment is paid
  to both, so that the shares of an order can exceed 100 percent together.  The trigger bounds the rates of an instant only.
- `UpdateAdmin` writes the whole row from its reading.  Two overlapping changes of a rate can exceed 100 percent together, since the
  trigger reads a snapshot (`sql/20260715_admin_multi_school_delegation.sql:54`; one step in the model).
- A school administrator without a school is shown every project, user and card in the lists and is admitted to none
  (`ListedIsAdmitted` leaves him out, and says so).
- Deleting or merging an event whose manager is added at that moment leaves the manager's account without an event.
- A certification is reviewed by its status: the image may have been replaced since the reviewer looked at it.  In the
  same way a talent card is approved with what an edit changed meanwhile.  A submission deletes the old image before it
  writes the row (`Accounts!ImageIsThere` excuses it: `lost`).
- A milestone that was certified is reopened by an edit that began before, and a crash between the upload
  and its registration leaves an object that nobody knows of.
- A worker of Feishu may lose the lock between its check and the next write; then, and only then, a node or a row may be
  created twice (`lost`).
- A notification that is created between the two statements of a client's question counts as displayed and is never shown on the full
  screen; it stays in the archive.
- A purge, and an update of a project's members, delete scores without a new index (`unheard`).
- `Invite` writes the whole record from its reading: it can set back a record that is joined, or a sent one to
  failed, and a second request may send a second SMS.  Who registers while the SMS is on its way is not made a member.
- An answer to the super administrator's invitation, or the page that finds one, may delete an invitation that was made since.

## 3. Runs

| Run | Instance | What it shows |
|---|---|---|
| `order_wechat` | 1 order, 2 WeChat Pay attempts, 2 callback requests, a school administrator, a beneficiary, failure reports | quota granted once; refunded is final; a paid order has its payment |
| `order_refund_settlement` | 1 order paid by virtual payment, 2 administrators, 2 beneficiaries | refund and settlement agree; nobody paid twice; one decision |
| `order_virtual_live` | a virtual and a WeChat Pay attempt, 2 callback requests | money taken by virtual payment is honoured |
| `order_double_grant` | 1 attempt by virtual payment, 1 callback request | **violated**: the quota is granted twice |
| `wx_outbox` | 1 row, 3 workers, 4 mishaps | accepted once; the row tells the truth; verdicts final; every message settles; the refinement |
| `delivery_invites` | 2 invitations for one olive branch, 2 workers, a retry, 2 mishaps | success means accepted |
| `delivery_settles` | 1 order of any kind, 2 workers, 2 retries, 2 mishaps | a promotion delivered by one worker at a time; success final; failed waits for the user; delivery settles |
| `auto_urge` | 1 user, 2 scans, 2 cycles, 1 arrival of work, 2 mishaps | one message per backlog; sent means sent; no message once a clearance was observed; sent messages are resolved |
| `recruitment` | the creator and another user, 3 roles, 2 requests at a time, 3 in all that read first | nothing open when the recruitment ends; somebody operates; removals exact; decisions final; purged only after the retention |
| `recruitment_member_lost` | the same | **violated**: a member leaves without a removal |
| `olive_branches` | the creator and another user, 2 roles, 2 requests at a time, 6 in all, 2 records, 1 free branch a day, 2 days, 1 bought | one live branch; the balance is kept; answered once; the refinement of `BranchQuota` |
| `back_office` | fourteen components side by side, with the bounds below | types; lists agree with detail pages; messages come once; images exist; shown as meant; Feishu creates nothing twice; numbers agree; repeats are silent; skipped for a better one; older readings lose |

**Why the bounds are enough.**  Orders do not interact in `OrderLifecycle`, so one order with two attempts and two callbacks has every interleaving of repeated and
overlapping notices; two administrators and two beneficiaries are needed for decisions
that race and for an order that stays open for somebody else.  Rows of the outbox do not
interact; three workers are an old, a current and a new claim of one row, four mishaps
let each of them fail and the retry limit of three be reached.  In `OrderDelivery`, orders meet only
in `BranchNotices`, for which `delivery_invites` has two, and two mishaps lose the answers to both; two workers are a late one and a current one, either of
which may be a request, a goroutine or the loop.  Users do not interact in `AutoUrge`; two scans are an old
claim and the one that took it over, two cycles let an old request arrive in the next one, and one arrival
is the work that opens the second cycle.  At the bound of the cycles a claim is refused.

In `Recruitment`, two requests that have read and a third one that reads later are an old decision, the one that
overtakes it and the one that undoes it; the statements that need no reading (administrators, applicants,
purge, time) come at every point and without a bound.  The three roles are one of each rank that the rules
distinguish, but the last.  In `OliveBranch` two records are a branch and the one that competes with it, two days
let a charge be counted before midnight and written after it, and six requests let a branch be sent, answered and
sent again while others run.

The components of `BackOffice` share no state, so each has the bound of its own that lets its cases meet:

| Component | Bound | Enough for |
|---|---|---|
| administrators | 3 of them (one is the first super administrator), 1 school, 2 requests | a decision and the change that overtakes it; owner and shares pass between two |
| events | 2 events, 2 managers, 2 schools, 1 project, 3 requests | a merge, an update that began before, and a deletion |
| accounts | 2 users, 1 phone, 1 address, 3 images, 3 requests | a collision of phones and addresses; an image replaced under review |
| welcome email | 1 row, 2 processes, 6 half minutes | three claims, each stale for the next |
| talent | 2 cards, 2 schools, 4 requests | an edit, a verdict on it, and both again |
| media | 1 card, 1 milestone, 3 images, 5 requests | an image attached, replaced, cleaned up and re-used as evidence |
| Feishu | 2 users, 3 rows, 2 workers, 2 jobs, 1 user who moves or row deleted by hand | a job resumed by another worker, after a lost answer or with a row too many |
| cooperation | 1 school, 2 who may own it, a clerk, 1 student, 1 image, 8 requests | claim, page, application, decision and a second application, as the school changes hands |
| interactions | 1 owner, 1 visitor, a project and a card, 3 instants with a window of 1, 3 changes | a repetition within and beyond the window, before and after the owner has looked |
| messages | 2 notifications, 2 priorities, 3 acts of clients | the better one after, before and between the two statements of a question |
| ratings | 2 users, 1 project, 3 memberships, 2 ratings, 3 instants | a member who leaves and comes back, rated in both memberships, corrected later |
| invitations | 2 projects, 2 requests at a time, 3 in all | two inviters of one project and a registration between |
| commission | 2 orders of 3 fen, 2 beneficiaries, rates of 0, 1 and 2 of 2, 1 change of the beneficiaries | shares that are rounded up one by one and exact together; an order paid to one, open for the other, and paid again |
| feedback | 3 instants, an invitation lives 1, 2 requests at a time, 4 in all | ask, answer, ask again, and a page that began before |

With two users each membership has one rater, so the weights of several raters are computed by the model and not compared
with anything in the run; the mean over memberships is.  (The proofs are for any number of raters.)

**Deadlock** is checked where the system cannot stop (`OrderDelivery`; two runs of
`OrderLifecycle`).  It is switched off where every message, order or request may reach its end, as it does at the bound of the requests.
**Symmetry** is used in safety runs over sets of model values that no constant distinguishes: requests,
users besides the creator, image keys.

**Fairness.**  `OrderLifecycle`: the provider repeats its notice until it is acknowledged (strong
fairness of receiving one, while the attempt is paid and not acknowledged), a callback
ends, and a transaction that is tried again and again succeeds at last.  `WxOutbox`: a running worker ends, the
recovery loop sweeps (weak) and finds a worker for every row it lists (strong, since the workers may be
busy).  `OrderDelivery`: requests and goroutines end (weak); the recovery loop, which runs every
thirty seconds with eight slots, takes up each recoverable order (strong, since slots may be busy); time
passes (weak); the message center finishes what it took, and not always
exactly between the two statements of a worker that redrives the record (strong).  `AutoUrge`: a scan that works
on a user ends and time passes (weak); the daily scan, repeated after five minutes if it was incomplete, lists
every row that needs a lookup (strong, since every worker may be busy or the row not yet due).  Crashes and mishaps
are never fair.  `Recruitment`, `OliveBranch` and the back office have safety properties only: their requests are
driven by people, and nothing in the code promises that the next one comes.

## 4. What the violated runs show

1. A repeated notice grants the quota again (`order_double_grant`).  `CancelOrder` cancels an unpaid order,
   but its UPDATE does not test the status it read before (`order.go:551`): a payment processed in between is overwritten.
   Virtual payment accepts a cancelled order, and an overwritten paid order looks like one.  The overwriting itself, also by the report of
   a failed attempt, is what the code does and no property forbids it; `order_wechat` shows that with WeChat Pay alone
   such an order is not granted its quota again, and that no status stays "paid" without the number of its payment.
1. A member who was admitted while `UpdateProject` was being served is deleted (`recruitment_member_lost`).  The service compares the
   list of the request with the members and refuses one that omits somebody, since members leave by a removal; the
   repository then deletes every row that is not on the list, whoever has come meanwhile, with neither a
   removal, nor a final score, nor a message.

Three more consequences of the interleavings in `OrderDelivery` are in the code and in the model, and no property claims the contrary.
The failure of a synchronous text message is written to the order twice; between the two writes the user may
retry, and the second write then lets a further retry deliver at the same time
(`OnePromotionAtATime` is about promotions only).  The recovery of an invitation writes back the notice it read, as
"sending", although the message center may have completed it meanwhile.  A second paid order for the invitation of
one olive branch is answered with the first one's notice and no error; its `push_status` stays "pending" and the
recovery loop takes it up for ever (`DeliverySettles` is checked with one order).

## 5. Theorems

All for any sets of orders, attempts, workers, administrators, rows, users, projects and requests, and any bounds.

- **OrderLifecycleProofs.**  `TypeCorrect`; `RefundsFreeze`, `DecisionsStayAllowed`, `OneRefundDecision`,
  `PaidOutOnce`, `PaidOrdersHavePayments`; and, if no attempt is a virtual payment
  (with one, `order_double_grant` is a counterexample), `GrantedOnce` and `RefundedStaysUnpaid`.  The
  argument: the row of an order moves in few ways (a lemma per kind of step).  A refund request exists only
  for an order that was paid, and an order never returns to pending; so a payment
  that is processed finds neither refund nor grant.  A decision's reading stays true because no refund request is
  ever followed by another.
- **WxOutboxProofs.**  `TypeCorrect`, `AtMostOnceHolds`, `RowIsTruthful`, `ClaimLasts`, `VerdictsStand`, and
  `OutboxKeepsPromise`, the refinement.  `AtMostOnce` alone is not inductive: the invariant adds that the worker
  which knows the current attempt number is the last claimer (so there is one), that a worker in a call knows the
  current attempt and its row is DISPATCHING or UNKNOWN, and that an orphaned request is the only one of its row.
- **OrderDeliveryProofs.**  `TypeCorrect`; `SuccessStands` and `FailedWaits`, from a lemma that lists how a step can
  move `push_status`; `SuccessIsAccepted`, whose invariant traces success back through the record, the
  message center and the worker that still has to write it, to the submission; and, for the promotions among orders of
  any kinds, `PromotionsOneByOne` and `CompletionsStand`, from the
  invariant that a claimed promotion has one worker and is freshly pending until its last statement.
- **AutoUrgeProofs.**  `TypeCorrect`; `SentIsTrue`, which needs only that a sent record stays sent and that a result
  saved under the fence is that of the row's own key; `DispatchNeedsWork`, from the invariant that a worker
  between recheck and dispatch whose fence would hold still sees work, unless it went unobserved; and
  `UrgedOncePerBacklog`, whose invariant counts the keys that are spent (known to the message center, on their way to it, or
  about to be): there are no more of earlier cycles than emptyings of the work, and once the work is emptied or the
  cycle closed, no more in all.
- **RecruitmentProofs.**  `TypeCorrect`, `NothingStaysOpen`, `RemovalsAreExact`, `SomebodyAlwaysOperates`, `PurgeWaits`,
  `DecisionsStand`.  The invariant (`Inv`) adds to the properties what a request may be holding: a request has the shape that its reader
  tested (`Fits`: a review was begun on an open application, an assignment on a discussed one), and a
  project in the trash has been there as long as its `deletedAt` says.  `SomebodyAlwaysOperates` rests on
  `ProjectTeam` alone: whoever has the highest role of a list operates it, and the creator does if the list is empty, for
  any dictionary of roles.
- **OliveBranchProofs.**  `TypeCorrect`, `OneBranchLives`, `BalancesAreKept`, `AnswersAreGivenOnce`, and `ImplementsQuota`, the
  refinement.  The invariant follows the locks: one request at a time holds the project, and with it a sender's row (`Alone`); what the holder of the
  project found, that no branch of the receiver lives, stays true until it commits (`Found`); what the holder of a
  row has counted is what the row says (`Counted`); and the account adds up (`Account`).  The refinement needs `Counted` only:
  a commit is a charge of the day on which it was counted.
- **BackOfficeNumbers** and **BackOfficeProofs.**  The ten properties of the run `back_office`, for all fourteen components:
  `TypesAreKept`, `ListsAdmit`, `TellsOnce`, `ImagesAreKept`, `ShowsWhatWasMeant`, `NothingTwiceInFeishu`, `NumbersAddUp`,
  `RepeatsStaySilent`, `PassedOverForABetterOne`, `LaterReadingsWin`.

The back office has one inductive invariant, `BackOfficeInv`: the component that runs has its own (`EventInv`, `AccountInv`, ...), each with
a lemma for its start, one for its steps, one that it implies the properties, and one about the steps it allows.  `TypeOK` and the
properties are seldom inductive.  What is added is mostly what a request has in hand.

| Component | What the invariant adds, and why |
|---|---|
| administrators | nothing: the trigger keeps every share within the whole, so the types are inductive; the conditions of the list and of the detail page are the same in every state, whatever the roles |
| events | a running request has an event and a caller; a manager is linked where the row has none, even when the request read the row long before |
| accounts | the holder of a profile's lock has read what the row says (`AccountLocks`), so that a verdict given since is not overwritten; an uploaded key is in nobody's hands but the request's until a row names it (`AccountImages`), so that no deletion takes an image that is shown |
| welcome email | a sender began in this half minute or the last one, and its row was touched then; a recovery lists what was not touched for longer: so it never takes a row that has a sender |
| talent | a card under review is wanted like one that is online, and a request that will put a card online has read that it was under review |
| media | an image in the hands of a request that deletes is claimed or gone, and one that is about to be registered has no row and no second request (`MediaInv`); attaching is allowed to no claimed image |
| Feishu | unless a connection was lost, a worker past its guard holds the lock (`FeishuExclusive`); rows are known by their mapping (`FeishuManaged`); what a worker is about to create does not exist or is marked as begun (`FeishuProvisions`), and its readings still hold (`FeishuKeepsUp`) |
| cooperation | only the last application to a page is undecided or approved (`CoopAnswers`); what a reader has found open was open for all (`CoopOpen`) |
| interactions | visits and cursors are not ahead of the clock; so a second visit within the window is as unread as the first one.  The agreement of the dashboards needs the types only, and sums |
| messages | a notification has its message; what was selected for a client goes before every one that was pending then |
| ratings | memberships of one user in one project lie one after the other, and ratings within them (`RatingTimes`); hence a correction finds, by its times, the copy of the right membership (`RatingCopies`).  Each live score is the mean of its ratings, the copy at a removal is the same number (`RatingScored`), so a removal moves it from one sum to the other and leaves the index alone (`RatingIndexMoves`) |
| invitations | a record, and each copy that a request holds, says sent or joined only for an SMS that was taken |
| commission | every detail has its settlement, the settlements of one beneficiary share no order, and each has the numbers of orders whose payment stays (`MoneyFine`).  That its details add up comes from the rounding itself (`CommissionAddsUp`) |
| feedback | as long as nothing is asked and nothing was answered, no invitation exists or is on its way |

*Sums.*  The dashboards and the scores are sums over sets, by the library's fold, which takes the elements in an order of
its choosing.  The library's theorems of induction take an operator for a parameter and cannot be used with these provers; instead,
the lemmas `NaturalsUpwards` and `FiniteSetsUpwards` state induction with a *set*: of the numbers, or of the subsets, for which something holds.
From it come that any element can be counted first (`SumWithout`), so that the order does not matter, that a table has one total by rows and by columns (the lemma `SumByRows`), the
change of a sum with one of its numbers, and that numbers which are rounded one by one add up to what is as near as there are numbers (`SumNear`, `RoundsHalfUp`).  Nothing about the sums is assumed.

Assumptions are the `ASSUME`s of the modules, which TLC evaluates in every run: how the constant sets are related, and that bounds are natural
numbers.  In these proofs an alternative of a `CASE` must exclude the others; the second update of `Events` therefore says of
the alternative that links a manager that none was read, which the order of the code's branches says silently.

**Only model-checked**: the liveness properties (`VirtualPaymentHonoured`, `EveryMessageSettles`, `DeliverySettles`,
`SentMessagesAreResolved`), because the proof system does not treat `ENABLED`, and the violated properties.

## 6. Plan

Done: every module of section 2.  What would come next, in this order:

1. Composition: delivery with refunds and payment as one specification, shown to implement an abstract "paid, then delivered,
   failed or refunded"; a sender's purchases in `OliveBranch` as the grants of `OrderLifecycle`.
2. `AutoUrge`: an abstract "once per cycle" that it refines, and instances that do not track cycles beside those that do.
3. `PaymentConnections`: the connection pool under the callbacks that ask for a second connection inside a
   transaction (`payment.go:234`).
4. Orders without a delivery intent (`retryLegacyOrder`), and the personal timelines of members.

## 7. Not modelled

Queries, searches, scores and rankings of the recommendation (their content is SQL, not control); the catalogue (products, website,
roadmap, feedback), whose requests write one row; floating-point prices; generated HTTP code; login, tokens and
signatures; the choice of recipients; lists, badges and read marks of applications and branches; migrations, which run once,
by hand.

Hazards of `PROJECT.json` that have a note and no property: the commission of orders with a closed refund (2.1); the
connection pool (planned); the truncated amount at `order.go:441`; and the two deliveries of one text message at
a time (section 4).
Outside that list: a SUCCESS notice of an ordinary payment for an order that is cancelled or refunded is answered with an error for as long as it is repeated
(`payment_callback.go:87`); the code documents that ordinary payment stays pending-only.
