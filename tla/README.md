# HAMS: a TLA+ verification of the hospital asset management back end

HAMS lends, repairs and retires the equipment of a hospital. Its back end
(`src/backend`, NestJS on PostgreSQL through Prisma) is a set of services that
share rows: a loan, a repair ticket and a status edit all write the same
`asset` row, and none of them asks the others. This directory models those
services, model-checks them with TLC, and proves the main results for every
value of the constants with TLAPS.

All source paths below are relative to `src/backend/src` unless they start with
`src/`.

## 1. Inventory

| Component | State | Operations | What must be right | Here |
|---|---|---|---|---|
| Loans, `asset-borrow/asset-borrow.service.ts` | `borrow_transaction.borrow_status`, `asset.availability` | create, approve, hand over, reject, cancel, request return, claim pickup, complete return, return | one borrower at a time; availability says where the equipment is | modelled, proved |
| Loan extensions, same file | `borrow_extension` rows; due date and count of the loan | create (desk, online), review, cancel | due date and count agree with the history | modelled, proved for requests in turn and for what survives overlaps |
| Repair tickets, `repairs/repairs.service.ts` | `repair_job`, `repair_job_step`, `sparepart_txn`, `sparepart.qty_in_stock`, asset status | request, assign, diagnose, complete a step, hand over parts, reject, complete unrepairable, cancel, return parts | one active ticket; no asset stuck; the parts ledger balances | modelled, proved for requests in turn and for what survives overlaps |
| Asset status, `asset/asset.service.ts` | `asset.status`, `asset.availability` | status edit, disposal, LOST cascade, registration, transfer, edit | rule 1: only a usable asset is offered; retired assets stay retired | modelled without transfers, proved |
| Deadline notifications, `asset-borrow/borrow-deadline-notifications.service.ts` | `notifications` rows, one sweep in flight | sweep at startup and each minute | current, once, in order, eventually | modelled, safety proved |
| Notifications and their stream, `notifications/` | `notifications` rows, connections with queues | commit, publish, mark read, connect, drain, heartbeat, terminate | no silent gap; nothing after close or revocation | modelled, safety proved |
| List of notifications in a tab, `src/front-end/src/hooks/useServerNotifications.ts`, `services/notificationStream.ts` | the event source, the list, one request for it | load, refetch, handle an event, reconnect | the list lacks nothing it was told of | modelled, checked |
| Images, `images/` | `image_upload` rows, `image_cleanup` rows with leases, the image of an asset or a user, files in the storage | create an intent, receive, complete, reject, expire, claim in the save of a record, supersede, clean up | an image in use is never deleted, one that is not eventually is, and for good | modelled, safety and refinement proved |
| Session lifetime, `auth/session-lifetime.service.ts` | `sessions.updated_at`, `expires_at` | renew by compare-and-swap, clamp, delete | both lifetimes are kept, a renewed session is not deleted, an ended one does not come back | modelled, proved |
| Sign-in, `auth/` | session held behind a `pre_auth_challenges` row; second factor; trusted browsers; step-up grants | create, find, complete, cancel a challenge; enrol; verify codes | a challenge is used once, never after it ended | challenges and enrolment modelled and proved; the rest not |
| Users, `users/users.service.ts` | rows of the auth library and of the application, `two_factor_auth` | create with compensation, edit, disable, delete, restore, reset the second factor | somebody can always administer | modelled, proved up to the case that TLC finds violated |
| Spare parts, `spare-parts/` | `sparepart.qty_in_stock` | stock-in, edit | - | not modelled |
| Verification mail limits, `auth/email-verification-resend-policy.ts` | rows of requests | reserve | no more than the quota | not modelled |
| Viability and forecast | none (reads) | reports | floating-point reports | not modelled |
| Master data, mail, deployment, the rest of the front end | rows of reference tables | CRUD, I/O, presentation | - | not modelled |

How they interact. `asset-borrow`, `repairs` and `asset` communicate through the
`asset` row alone: each moves the pair (status, availability) and trusts that
the others keep to the table of rules in `src/backend/CONTEXT.md`. A LOST edit
also cascades into the rows of the other two. All three write `notifications`
rows in their transactions and call `publishCommitted` after the commit; the
stream passes the rows on to the connections of the user, and asks
`enforceSession` of `auth` before each event whether the session still holds. A
tab loads its list over HTTP beside that connection, so that an answer may be
older than an event it has already handled.
`asset` and `users` attach images in the transaction that saves the record.

Where it is hard:

- **Unlocked reads.** PostgreSQL runs the transactions as READ COMMITTED and
  the handlers read without a lock; several read before the transaction even
  starts and then write by id. Whatever they checked may have changed.
- **Three owners of one row.** A guard in one service is written in terms of
  availability codes that another service uses for its own purposes.
- **Work in the background.** A timer, promises, a bounded queue per connection,
  sessions that end while a check is awaited, restarts between a commit and its
  publication.
- **Two systems that commit apart.** A file and the row that names it; the
  account the auth library has made and the columns of the application. One of
  them may fail, or the process may stop in between.
- **Compare-and-swap.** A session is renewed by whoever gets there first, by the
  requests of one browser at once, while others delete it.

The hazards are listed line by line in `PROJECT.json`, each with the properties
that would show it going wrong.

## 2. Modules

```
HospitalAsset            the asset row: statuses, availabilities, lendable assets
 |- AssetBorrow          the nine loan handlers        -> AssetBorrowProofs
 |    `- AssetCustody    abstract: exclusive custody (refined by AssetBorrow)
 |- RepairWorkflow       tickets, steps, parts
 |    `- RepairOffice    served so many at once        -> RepairWorkflowProofs
 |         `- PartsLedger  abstract: parts handed out and given back
 `- AssetLifecycle       loans + tickets + status edits on one asset
                                                       -> AssetLifecycleProofs
BorrowExtension          the extensions of one loan
 `- ExtensionDesk        served so many at once        -> BorrowExtensionProofs
BorrowDeadline           the deadline sweep            \
NotificationStream       rows, publication, connections -> NotificationProofs
 `- NotificationClient   the list in one browser tab
ImageUpload              uploads, storage, cleanup     -> ImageUploadProofs
 `- ImageStore           abstract: pending, shown, given up, settled
SessionLifetime          challenge and enforceSession  -> SessionLifetimeProofs
 `- SessionLease         abstract: a lease with two lifetimes, handed out once
Accounts                 users, enrolment, last admin
 `- AccountWatch         how far the lock goes         -> AccountsProofs
MC...                    instances for TLC
```

Definitions named "Mutant: ..." are deliberate faults. No specification uses
them; they document which mistake each property would notice.

**AssetBorrow.** One asset, a set of loans. Every handler runs in one
transaction, reads its rows in it and writes with `updateMany` guarded by the
very values it read, so a handler that loses a race writes nothing: one action
per handler. `AssetCustody` says the same without columns: equipment is idle,
promised, out, coming back or out of service, and has one claimant.

**RepairWorkflow.** Most handlers read the ticket outside of their transaction
and write by id: a handler is `Read...` followed by `Commit...`, and `req[w]`
holds what the request of worker `w` relies on. Between the two everything else
may commit; `Abort` is a guard that fails late, a lost connection or a deadlock
victim. The batch hand-over reads inside of its transaction but without a lock,
and is split as well (`ReadHandover`, `CommitHandover`). A plan is numbered,
because every diagnosis deletes the steps and clones new ones: a step row that
no longer exists cannot be written. `RepairOffice` is the same workflow in an
office that has so many requests in progress, tickets open and plans per ticket.
The numbers (`office`) are chosen in the initial state and never change, so that
one specification covers both what overlapping requests may do and what the code
keeps when they come one after the other (`OneAtATime`). `PartsLedger` says what
the latter is for the spare part: handed to a ticket once, from a stock that has
it or bought outside, given back at most as far as handed out.

**AssetLifecycle.** The union of the two next-state relations with
`updateStatus`, `createDisposal` and the LOST cascade, over one asset row. The
cascade lists the active tickets before it writes the asset (`ScanForLost`,
`CommitLost`).

**BorrowExtension.** `createExtension` and `cancelExtension` read without a lock
and write by id (`Read...`/`Commit...`); `reviewExtension` writes where the row
is still PENDING and increments the count, and is one step. Giving the
equipment back is the one thing another handler does here. `ExtensionDesk` adds
the number of requests in progress (`atOnce`), as `RepairOffice` does.

**BorrowDeadline.** A sweep reads the clock, runs the locking query, and writes
and commits: `StartSweep`, `SelectBatch`, `CommitSweep`, with `FailSweep` for
an error or a restart. `Eligible`, `Before` and `Batch` are the WHERE, ORDER BY
and LIMIT of the query; `Locked` is FOR UPDATE with SKIP LOCKED. Around it the
clock ticks, accounts are switched, and other transactions lock a loan and release
it again: unchanged, with another due date, or given back. An approved date was
compared with the due date when it was asked for, so that the one written may be
earlier than the one it replaces.

**NotificationStream.** One user. The server runs JavaScript, so an action
reaches from one `await` to the next: `Enqueued` starts a drain, `CheckSession`
is the database answering it, `Deliver` or `Refuse` is the drain going on.
`Restart` loses connections and publications, never rows. `told` is a history of
what each transport has carried: the rows of `created` events, and the rows and
read states that were in the database when the last event was written that asks
the client to load them again. The promises of the stream are about it.

**NotificationClient.** What a tab does with these events. An event is written to
a wire (`Send`) and handled later; a request for the list is sent (`AskList`),
answered by the database (`ReadList`) and applied (`ApplyList`), or it fails or
is cancelled (`DropList`). `NotificationCreated` puts a row into a list that is
loaded, `SyncRequired` invalidates the list. What invalidation does is external
(react-query 4.44, as `Invalidated` says): a refetch in flight is cancelled and
sent again, a first fetch is joined. A connection that fails is followed by
another one. `overtaken` is a history of the three things after which the list
may lack a row the tab was told of: an older answer replaced a newer list, a sync
joined a first fetch the database had already answered, or a request was dropped.

**ImageUpload.** Everything between an intent and the removal of a file. A
transfer has a beginning and an end (`StartReceive`, `FinishReceive`), because
deadlines pass in between; the local adapter keeps the source it received apart
from the image made of it, the cloud has one object. A completion is
`ReserveAttempt`, `Verify` and `RecordVerified` or `MarkRejected`, and may stop
after each (`DropJob`). `Claim` is what the save of an asset or a user does in
its transaction: the new image is claimed and the one before superseded and
queued for cleanup. A sweep reads the clock once, records what has expired,
lists what is due, and then for each object takes a lease, deletes and records,
where the record asks for the lease it was given. The deployment (storage,
processes, budgets) is chosen in the initial state. `ImageStore` says the same
without deadlines, leases and sweeps: an allocated image is pending until a
record shows it or it is given up, and only what is given up is ever removed.

**SessionLifetime.** One sign-in. The auth library makes the session before the
second factor is considered; a challenge holds it back, and is completed,
cancelled or found expired by requests with the pre-auth cookie. A request with
the session cookie runs `enforceSession`, one action per statement: it reads the
row, reads the clock and decides, and writes where the row is still the one it
read, or starts over; after `Attempts` lost rounds (eight in the code) it
answers by what it reads. `SessionLease` is the promise: handed out at most
once, prolonged only before it lapses and never backwards, and gone for good.

**Accounts.** Requests of administrators that may take an administrator away
(update, remove, reset of the second factor) lock the ADMIN rows, check, write
and commit; accounts are created by a call of the auth library followed by a
transaction, or by a compensation that removes what the call has made;
enrolment takes `generateSecret`, `verifyAndEnroll` and the confirmation of the
recovery codes, which is a read and a write without a lock. A lock query looks
for its rows when it starts, and waits for whoever holds one of them; who is
promoted meanwhile is not among them. Any number of queries may wait, and they go
on in any order. Whether the row of somebody who is no longer ADMIN by then stays
locked is left open: nothing here depends on it. `AccountWatch` adds a history
(`overtaken`): while a query waited, somebody who has completed the enrolment
became ADMIN, or an ADMIN completed it.

## 3. Runs

Passing (the number of distinct states in the last column):

| Run | Question | Bounds | States |
|---|---|---|---|
| `loans` | Do the nine handlers keep one open loan, an exact availability, and implement `AssetCustody`? | three loans: a holder, a rival and one more that follows | 341 |
| `extensions` | Does the history of extensions hold together one request at a time, and what is left of it when two overlap? | three extensions, three dates: a pending one between two granted ones; one or two requests in progress | 38,179 |
| `repair` | Can an asset be stuck under repair, what does a hand-over guarantee, does the parts ledger balance over cancel, reject, re-diagnose and return? | three offices: one request at a time with two tickets of two plans; two requests with one ticket of two plans; two requests with two tickets of one plan; stock 2 | 1,729,815 |
| `lifecycle_race` | Do the three services together keep rule 1, holds and retirement, also when repair requests overlap? | one loan, one ticket, two workers | 1,555,520 |
| `deadlines` | Is what a sweep announces in force, announced once, in order, and is every overdue loan announced in the end? | two loans, batch of 1, two timers, clock 0..1 with dates 0 and 1, a borrower who is also staff | 189,424 |
| `stream` | Is there a silent gap or a late event? Is a connection told or closed, and does it outlive its session? What does the list of a tab lack when all is quiet? | a tab that connects and reconnects once, one row, queues of two | 295,221 |
| `images` | Is what a record shows in the store, is what was removed gone for good, does every upload settle, and does it all implement `ImageStore`? | two uploads, one record, two completions, clock 0..4; local storage with one process, cloud storage with two | 641,931 |
| `sessions` | Is a refusal final, and do sign-in and `enforceSession` implement `SessionLease`? | three requests, two handlers, two rounds of compare-and-swap, lifetimes of 2 and 3, clock 0..4 | 1,000,929 |
| `accounts` | Does an administrator remain, and are the changes that could take the last one serialized, as long as none is added while a lock query waits? | three users, three requests, all of them at once | 307,121 |

The races the code is exposed to need two requests, one of them stale by one
commit of the other; two workers are enough to produce each, and a third loan,
extension or plan makes the history non-trivial before it happens. A batch of
one against two loans is the smallest case where one loan can stand in another's
way, as one against fifty-one in production; one tick takes a date from due soon
to overdue, between any two steps of a sweep. A queue of two overflows with the
initial sync, a row and a change of its read state. Stock 2 lets one requisition
through and makes the second one doubtful. Two uploads for one record replace
each other; one upload with two attempts is completed twice; two processes pass
one lease on. Three requests of a session and two rounds are what it takes for
one to lose both rounds to the others and fall back on its last read; a
challenge of 1 and lifetimes of 2 and 3 expire in every order within four ticks.
Two administrators and a request each are the last two who remove each other;
the third request is one that promotes or creates somebody meanwhile, or waits
as well. The bounds appear as guards and are named in the modules: `Horizon`,
`MaxPlans`, `MaxSwitches`, `MaxTime`, `MaxRequests`, `IssueUntil`,
`TroubledUntil`, `office` of `RepairOffice`, `atOnce` of `ExtensionDesk`, and
the sets of ids.

Deadlock is not checked: a loan, ticket, extension, upload, request or
connection is used up, a clock ends at its horizon and a stream with nothing to
tell is quiet, so that all of these systems may come to rest.

Runs that TLC finds violated, each against a sentence of the repository's
documentation, messages or tests (quoted in `PROJECT.json`, "findings"):

| Run | What happens |
|---|---|
| `ghost_availability` | a pickup request makes the asset UNAVAILABLE where CONTEXT.md keeps it BORROWED, and so a repair or a status edit can offer it for lending while the borrower has it |
| `two_active_tickets` | steps of a cancelled ticket can be completed, which makes it active again, beside a newer one |
| `last_admin_lost` | two users are promoted while a lock query waits for the one administrator, who is then demoted; that query goes on beside a new one, each sees two administrators and demotes one |

Each passing run states what survives overlaps. Three properties say "in turn":
`PartsAccountedInTurn` (the stock ledger is exact and no ticket gives back more
than it took), `RejectedPlanCanBeRediagnosedInTurn` and `HistoryKeptInTurn` are
about the initial states in which one request at a time is served. With two, TLC
shows a line taken off the stock by two hand-overs, parts given back twice, a
ticket rejected after the approval it raced with, a round written over another,
a due date moved back by the later of two desk extensions
(`asset-borrow/asset-borrow.service.ts:1604` writes what it compared before),
and two online requests that both found none pending. `AvailabilityMirrorsLoans`
states the rule of the code. It departs from rule 8 of `src/backend/CONTEXT.md`
(line 237), which keeps the asset BORROWED while a return awaits its
verification: `requestReturn` makes it UNAVAILABLE, and `ghost_availability`
shows what follows.

`AdminRemainsUnlessOvertaken` and `LockSerializesUnlessOvertaken` say "unless":
once an administrator was added while a lock query waited, that query and a later
one may hold disjoint rows. `last_admin_lost` needs three users, two transactions at
a time, and no failure. `ListCompleteUnlessOvertaken` is what is left of "the
list shows what was announced": a row that an older answer takes out of the list
comes back with the next sync or refetch only.
`RetirementIsFinal` is the part of "terminal states are final" (CONTEXT.md)
that does hold, namely once nothing is in flight: before that a pickup or a
ticket in progress writes the status of the asset without a condition. Two
things the code does not guard at all are modelled as they are and no property
rules them out: a disposal leaves an active ticket behind, and an extension that
is still pending when the equipment is given back can be approved afterwards.

`RefusalIsFinal` is about requests that found no session or deleted it. A
request that lost all its rounds and answers by its last read may refuse a
session that another request then finds alive; that is the fallback of the code
and not part of the property.

What `ImplementsImageStore` and `CollectedForGood` turn on is the order of
events at a deadline: an upload may be expired by one request while another
verifies it and its file is still arriving, and only the settlement horizon keeps the
removal behind both. A remark that no run turns into a finding: `backend/docs/image-uploads-api.md:172`
rejects "completion and new claims" from the expiry of the intent on, while a
claim (`images/image-attachment.service.ts:236`) looks at the attachment deadline
alone.

## 4. Fairness

Loans, extensions, tickets and status edits have none: people drive every step,
and nothing obliges them to; nor do sessions and accounts, whose requests may
stop at any statement. Three modules have liveness; the run `stream` checks that of the
server with a tab beside it.

*BorrowDeadline.* The interval keeps firing (`setInterval` in
`onApplicationBootstrap`): weak fairness of `StartSweep`. A sweep may fail at
either step any number of times. The strong fairness is per loan: if again and
again a sweep could query while the row of the loan is not locked, one does, and if
again and again a batch with the loan in it could be committed, one is; that is, the
database is not permanently down. Clock, accounts, borrowers and the transactions
that lock a loan owe nothing, nor does a lock have to end in a change. SKIP LOCKED
may then pass over a loan for ever, because it happens to be locked whenever a
sweep queries; `OverdueIsAnnounced` is therefore about loans that are again and
again unlocked when a sweep is about to query.

*NotificationStream.* Callbacks that are due run, awaited queries settle (by
an answer or an exception), and the heartbeat interval fires. Commits,
revocations, restarts, connections and disconnections owe nothing, nor does the
tab or the network.

*ImageUpload.* Time passes (weak fairness of `Tick`), and the interval of every
process that sweeps starts sweep after sweep, each of which goes on
(`SweepStep`). Sweeps stop and deletions fail only until `TroubledUntil`: a storage
that is down for ever keeps its objects. Browsers, completions and saves owe
nothing: an upload that everybody abandons is what `EveryUploadSettles` is about.

## 5. Proofs

Proved by TLAPS, for every value of the constants:

- `BorrowTypeCorrect`, `OneBorrowerAtATime`, `AvailabilityIsExact`. The
  invariant is that the availability determines the open loan and the other way
  round: if it is AVAILABLE no loan is open, RESERVED one requested loan,
  BORROWED one that is out, UNAVAILABLE at most one on its way back. Neither
  `AtMostOneOpenLoan` nor `AvailabilityMirrorsLoans` is inductive alone, because
  each is what makes the guard of the next handler exclude a second loan.
- `BorrowRefinesCustody`: from that invariant, each handler maps to a step of
  `AssetCustody` or to a stutter.
- `RepairTypeCorrect`; `HandoversSettle` and `UnderRepairIsLookedAfter`, for any
  number of tickets, plans and overlapping requests. `RepairInv` adds what a
  request still knows when it commits (`StillTrue`): either its ticket has a new
  plan since, and then its step rows no longer exist, or the plan has only
  advanced, and then a line it found settled is settled. A step of the proof
  shows how each commit lets a ticket advance, one lemma carries that to all
  requests in progress.
- `PartsAreAccountedInTurn` and `RejectedCanBeRediagnosedInTurn`: the ledger and
  the rejection, in an office that serves one request at a time, for any number of
  tickets, plans, quantities and workers. `TurnInv` adds to `RepairInv` that one
  request is in progress, that what it has read is still so (`StillSo`), and that
  the tickets are in order: a rejection leaves the plan at its approval, a track
  comes with a plan. The equation of the ledger is about sums over all tickets.
  `SumFunction` is recursive, and an induction theorem over sets cannot be used
  here; the lemmas before `LedgerMoves` therefore show its equation by a
  counterexample of least size among the subsets of its domain, and from it
  that changing one ticket changes the sum by the difference.
- `OfficeRefinesLedger`: from the same invariant, every transaction of such an
  office is one entry of `PartsLedger`, or none. In particular a new diagnosis,
  which would give withdrawn parts back and forget them, never finds any: it is
  refused once the approval is passed, and the hand-over comes after it.
  `StockSuffices` (the stock is never negative) is a consequence. `CompletedIsFinal`:
  in turn, status and plan of a completed ticket never change, because a ticket
  is completed with its last step and every other handler has read it open. No
  such theorem holds for cancelled tickets (`two_active_tickets`).
- `LifecycleTypeCorrect`; `StatusRuleHolds` (rule 1, which quantifies over the
  writes of three services); `HoldsHaveLoans`; `RetiredForGood`, an action
  property whose proof goes through every stale request;
  `HandoversSettleInLifecycle`: loans, status edits and the LOST cascade let
  tickets advance as a cancellation does, so that the invariant of the repair
  workflow, and what follows from it, survives the composition.
- `ExtensionTypeCorrect`; `DueDatesAreGranted`: under any overlap the due date
  was granted, because a rejected row is never one that granted it;
  `CountsWithinGrants`: a request in progress that will write a count
  (`Rounds`) writes at most one more than there are grants, and no step takes a
  grant back.
- `HistoryIsKeptInTurn` and the action property `LoanExtendsInTurn`: at a desk
  that serves one request at a time, the history of a loan agrees with its count
  and due date, and each step leaves both alone or is one later extension. The
  invariant (`TurnInv`) is that one request is in progress and holds what is still
  so, that no approved date lies after the one in force, and that whatever waits,
  a row to be written or an extension to be reviewed, is the next round
  (`NextRound`). It is what two overlapping requests break: each of them holds
  the next round, and the second to commit no longer does.
- `DeadlineTypeCorrect`, `SelectionStaysCurrent`, `NotifiesDeadlineInForce`,
  `EventsAreAnnouncedOnce`, `RemindersComeFirst`. Their inductive invariant
  `SweepInv` says that one sweep is in flight, that its batch is locked, current
  and not yet announced, and that every date announced as overdue lies before
  the clock of any sweep in flight. The first part is the `inFlight` promise,
  and without it the other parts are not inductive.
- `StreamTypeCorrect`, `RevocationIsRespected`, `ClosedIsSilent`,
  `NothingIsMissedCorrect`, for any rows, connections and length of the queue.
  `StreamInv` ties the drain to the queue (an open connection whose drain runs
  has something queued, and what the check has let through is its head) and says
  that only committed rows are announced; `NothingIsMissed` then follows each
  event through enqueue, overflow and delivery, up to what was written to the
  transport (`told`). What a tab makes of it is only model-checked.
- `ImageTypeCorrect`, `ShownImageIsStoredCorrect`, `CollectedForGoodCorrect`,
  `ImagesRefineStore`, for any uploads, records, processes, deployments and
  durations. `ImageInv` says in its main parts: what a record shows is claimed, and what
  is verified or claimed is in the store and not queued for removal; a verified completion holds
  an object that exists unless its upload is over; a transfer in progress ends
  before the settlement horizon of its upload; and a queued row is due no
  earlier than that horizon, so that a sweep, whose clock lies behind, deletes
  only after it. The branches of the cleaner that retain an object in use, or
  come back to an upload that is not over, are never taken, by this invariant.
- `SessionTypeCorrect`, `RefusalIsFinalCorrect`, `SessionsRefineLease`, for any
  requests, rounds and lifetimes. The invariant says that a session is sound
  (its times are in order, and `expires_at` never cuts its lifetimes short), that a challenge
  excludes that the session has been handed out, and that a call in progress
  holds a sound row and a clock that judged it as its step says; a
  compare-and-swap that succeeds therefore acts on a verdict that still holds.
- `AccountTypeCorrect`, and for `AccountWatch` `AdminRemainsCorrect` and
  `LockSerializesCorrect`, for any users and any number of requests that wait or
  run at once. As long as nothing was overtaken, `WatchInv` says that one
  transaction is between lock and commit, that every transaction and every query
  that waits has an enrolled administrator among its rows, and that a change whose
  check has passed is harmless or leaves another administrator. A query that has
  found everybody who is an administrator shares a row with whoever runs; that
  is why they exclude each other, and why the exception is needed: without it
  TLC finds `last_admin_lost`.

They assume what the modules' ASSUMEs say of the constants: quantities, dates
and bounds are natural numbers, sets of tickets, extensions and users are finite,
the settlement horizon is positive, every loan has a borrower among the users.

Every invariant and action property of the passing runs but
`ListCompleteUnlessOvertaken` is proved. Five theorems have no run of their own
(`LoanExtendsInTurn`, `OfficeRefinesLedger`, `StockSuffices`, `CompletedIsFinal`,
`SelectionStaysCurrent`): they follow from invariants the runs `extensions`,
`repair` and `deadlines` are about.

Only model-checked: the liveness properties (`OverdueIsAnnounced`,
`ToldOrClosed`, `RevokedIsClosed`, `EveryUploadSettles`), since the provers do not
reason about fairness, and `ListCompleteUnlessOvertaken`.

## 6. Abstractions

- One asset, one loan, one session or one user at a time, as the module says:
  rows of different assets never meet in these handlers (the part in stock
  excepted, which is shared by all tickets of `RepairWorkflow`).
- Roles, ownership, section of the asset, free text and the choice of the
  recipients of a notification are left out of guards: they decide who
  may act, and the models let anybody act.
- Loan and ticket numbers are ids. Two requests that compute the same number end
  with one aborted; an aborted request is always possible in the models.
- A requisition is one line of one part.
- Dates of extensions are small numbers; "in the future" is not modelled. In
  `BorrowDeadline` an extension may write any date, and a lock on a loan is one
  kind of lock: a transaction that only refers to the row (the request for an
  online extension) makes SKIP LOCKED pass over it as well.
- The list of a tab: the first page holds the rows there are (twenty in the code),
  further pages, the count of unread rows (with its refetch each minute) and the
  optimistic change of a read mutation are left out.
- The LOST cascade and the asset write it belongs to are one step after the scan.
- Two dependent reads of the session in `isAuthorized` are one: both must allow,
  and a session that has ended does not come back. `RefusalIsFinal` is where that is
  checked for `enforceSession`, which `isAuthorized` calls.
- Images: permissions, checksums and other evidence of an upload, and a change of
  the configured storage are left out. A transfer is over, or has failed, when
  the settlement horizon of its upload has passed
  (`backend/docs/image-uploads-api.md:174`): this is assumed of the network. The
  object lock of the local adapter is held within one process, so the instances
  give local storage one process. A source that arrives beside a claimed local
  image stays until the image is superseded.
- Sessions: all processes read one clock. `cleanupExpired` of the challenges has
  no caller, so an expired challenge and its session stay until a request with
  the cookie comes across it; and a sign-in that stops between the session and
  the challenge leaves a session nobody was given. Both are in the model, and
  neither breaks the lease.
- Accounts: sessions and step-up grants of the actor are reduced to the check of
  the actor's own row; any transaction may roll back at any time. A lock query
  that waits gets all of its rows in one step, where PostgreSQL locks them one
  after the other. A process that stops
  within a creation leaves the account of the auth library without its columns
  (`HALF`). Password resets and edits of a profile change nothing modelled.

## 7. Not modelled, and what could follow

- Second factor (`auth/two-factor.service.ts`): attempts, lockouts, recovery
  codes and replacement of the authenticator. Each handler is one transaction
  that locks the row first, so that what remains is the arithmetic of one row,
  which its unit tests enumerate. Trusted browsers and step-up grants are single
  rows with a deadline. A module for the three, composed with the challenge of
  `SessionLifetime`, is the next one to write.
- Verification mail limits: one transaction under advisory locks per key that
  counts rows within a window.
- Spare-part stock: a stock-in is one increment, which commutes with the
  decrement of a hand-over, and an edit of the form replaces the quantity without a
  record of it, so that no property of the stock survives it.
- Transfers between sections beside `createBorrow`; the cut-off of read-all;
  evaluation forms.
- Reports in floating point, reference tables, guards of single requests, the
  rest of the front end and deployment: no protocol, or none of this back end.
