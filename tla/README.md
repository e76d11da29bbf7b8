# TLA+ verification of madrasha

This directory holds the formal models of the `madrasha` repository: TLA+ modules,
the TLC configurations that check them on small instances, and the TLAPS proofs that
establish the main results for every instance. Paths below are relative to the
repository root.

The repository is a multi-tenant school management system: a TypeScript backend over
PostgreSQL (`backend/`), React clients (`admin/`, `frontend/`, `super-admin/`), and a
small service that runs on a PC in the school (`attendance-connector/`) and carries the
punches of a ZKTeco K40 attendance terminal to the cloud. Most of the backend is
request handlers around one transaction, and most of the code by volume is user
interface and reports. What is hard is concurrency around a few rows and a few queues:

1. **the punch pipeline**: two loops, a crash-safe file queue, a device log that is
   erased, and a cloud endpoint that may answer late, twice, or not at all;
2. **the attendance day**: five writers of one row at read committed, and a job that
   marks people absent while an offline device may still hold their punches;
3. **the SMS queue**: several backend instances that share a table of messages with
   time-outs, retries and a provider without idempotency;
4. **the prepaid wallet**: concurrent sends, approvals, hand-made changes and an expiry
   job around one row, without a lock across their reads and writes;
5. **card enrollment**: a session that office, cloud, connector and device each see a
   part of, and that may be cancelled or replaced in any stage;
6. **the exam fee**: billing, payments, waivers and the switch of the fee around
   invoices nobody locks, and a registration that follows a payment's commit.

## Inventory

State, operations and interactions of every part; "hard" is what a test would hardly
reach. `PROJECT.json` ("components", "hazards") has the same inventory file by file and
line by line.

| Part | State | Operations | Interacts with | Hard | Correct when |
|---|---|---|---|---|---|
| Connector queue (`attendance-connector/src/queue.ts`) | maps `entries`, `dedupe`; file `queue.jsonl`; lock file | open/load, enqueue, markSyncing/Synced/Failed, release, retryFailed, prune, compact | both loops; CLI | crash between memory and log, full disk, torn tail | no queued punch is dropped, none confirmed falsely |
| Connector loops (`connector.ts`, `cloud.ts`, `device-users.ts`) | where each loop stands, outstanding batch, `isolate`, auth back-off, last contact, running enrollment | fetch cycle, clear of the device log, sync, heartbeat, command loop, user sync, enrollment | queue, device, cloud | clear decided between awaits; lost answers; poison events | every punch arrives once, the device is cleared only of stored ones |
| Cloud ingest (`attendance-device-ingest.service.ts`) | `AttendanceDeviceLog`, `Attendance` | ingest, resolvePeople, persistEvent, applyPunch, reprocessUnmapped, heartbeat | connector, people mapping, SMS queue | resend of an executed request, two devices, order of arrival | one row per punch; the day does not depend on the order |
| Device jobs (`attendance-device-jobs.service.ts`) | `Attendance`, alerts | auto-absent, offline alerts | devices' last contact, SMS queue | a device that still holds punches | nobody who punched is marked absent |
| SMS queue (`sms-queue.service.ts`, `sms-queue.repository.ts`) | rows with status, attempts, `next_attempt_at`, `locked_at` | recoverStale, claimBatch, processOne, marks | ingest, jobs, notifications | pass longer than the stale time-out, death in a pass | a row has one worker, bounded sends, ends closed |
| Billing (`modules/billing`) | wallet row, usage log, ledger, purchase requests | assertCanSend, chargeForSend, finalize/release, request, approve, reject, manual change, expiry job | notifications, super admin | reads outside the write's transaction | no overdraft, ledger = wallet, granted once, failed sends refunded |
| Notifications (`notification.service.ts`) | notification log | send per recipient | billing, SMS/mail provider | a throw at each statement of the loop | credit is kept exactly for delivered messages |
| Card enrollment (`attendance-device-enrollment.*`) | sessions PENDING/WAITING/... | create, commands, report, cancel, lazy expiry | connector command loop, user sync | two starts at once, lost `captured` answer, a session replaced while it runs | one open session per device; the device shows the cards of the cloud |
| PIN mapping (`attendance-device-people.*`) | user map, device users | assign and convert PINs, set and clear cards, back-fill | connector, ingest | two assignments at once; mapping against ingest | PINs are unique, mapped punches are credited |
| Daily attendance, leave | attendance rows, leave requests | mark, bulk mark, correct; approve, reject, cancel | ingest, jobs | hand marks against late punches | the later human decision wins |
| Fees, exam registration | fee structures, invoices, payments, candidates | bill, pay, waive, switch off, withdraw, register | accounts, students | concurrent payments, two billers, a fee switched off while it is paid | invoice = payments, billed once, money kept, registered = paid |
| Accounts, payroll, library | entries, salaries, loans | create, void, return | fees | concurrent changes of one row | totals equal their parts |
| Exams and results | marks, result status, corrections, seats | workflow transitions, corrections, allocation | students, sessions | workflow races | published results do not change silently |
| Students | student rows, registration-number blocks | admission, transfer, allocate | sessions | concurrent admissions | numbers are unique in a block |
| Auth, roles, tenants | sessions, lockout counters, tenant subscription | login, refresh, permissions | all | counters under concurrency | requests are tenant-local |
| Master data, settings, reports, website, clients | rows, files | CRUD, queries, rendering | | | |

## Modules

| Module | Models | Proofs |
|---|---|---|
| `ConnectorQueue` | `EventQueue` of `queue.ts`: memory and log, every operation with a write that may throw, crash, recovery | `ConnectorQueueLemmas` |
| `ConnectorSync` | fetch loop, sync loop, clear mode, process, device, cloud ingest; extends `ConnectorQueue` | `ConnectorSyncProofs` |
| `PunchDelivery` | the abstract service: a punch is unmade, held, stored | refined by `ConnectorSync` |
| `AttendanceDay` | one person's attendance row on one day and everybody who writes it | `AttendanceDayProofs` |
| `AutoAbsentGate` | connectors, heartbeats, and the gate of the auto-absent job | `AutoAbsentGateProofs` |
| `SmsQueue` | worker, repository, deaths, clock | `SmsQueueProofs` |
| `Outbox` | the abstract queue: a message waits, is copied to its recipient, is closed once | refined by `SmsQueue` |
| `MessageBilling` | wallet, ledger, sends, reviews, expiry job | `MessageBillingProofs` |
| `CardEnrollment` | sessions in the cloud, command loop, K40 users, user sync, cards by hand | `CardEnrollmentProofs` |
| `ExamFee` | one student's exam fee: switch, billing, payments, waivers, registration | `ExamFeeProofs` |
| `MC...` | small instances of the above for TLC | |

The modules meet where the code does. `ConnectorSync` ends with the row of
`attendance_device_logs`; `AttendanceDay` begins with it (`ReadRow` is its insert) and
follows the punch into the attendance row and the message queue, where `SmsQueue` takes
over. `AutoAbsentGate` decides when the job may list people, `AttendanceDay` what the
listing and the insert do to a row. They are not conjoined into one specification: what
one hands to the next is a set of punches in any order, and each module takes any order.

Definitions marked `Mutant:` are faulty variants of the definition that follows them.
No specification uses them; they show that a property would notice such a mistake.

Each module keeps the values its properties ask about in history variables (`past`,
`owner`, `mishaps`, `granted`, `ledger`), which no guard reads; in `AttendanceDay` the
id of a new row is taken from the history (a row after a deleted one has another id).

### ConnectorQueue and ConnectorSync

`mem` is the pair of maps in memory, `disk` the image replaying `queue.jsonl` would give.
Every mutation is `apply` on the memory followed by `append` on the log; `Written` is
that pair, and with `DiskFaults` the append may throw after the memory has changed.
`Open` is load with its recovery (`syncing` back to `pending`), `Crash` keeps only the
log, `CrashInEnqueue` any part of a half-written batch.

`ConnectorSync` puts the two loops around it. `fetch` says where the fetch cycle stands:
`idle`, `afterRead` (inside the callback that decides about clearing, with the device
disabled), `clearing`, `read`. `sync` is `idle` or `waiting`, with `batch` the events of
the outstanding request, `todo` those the cloud has not handled yet and `res` its result
for each; the cloud handles one event per transaction. A request the connector gave up on
(time-out, death) leaves its unhandled events in `late`, and `CloudLate` may execute them
at any later time. `Poison` are events whose request the cloud refuses with a client
error, `OutOfRange` punches whose time it rejects. `isolate` and `singles` are the
one-by-one mode after a refused batch, `authBlocked` the back-off after 401/403, which a
heartbeat or a configuration fetch may also start. `RetryFailed` is the CLI command.

Every `await` of the code is a border between two actions; what lies between two awaits
is one action with all its writes (Node runs it without interruption). Back-off delays
are not counted: any delay may occur, which only adds behaviours.

### AttendanceDay

One row, because every rule of `applyPunch` looks at one row; one day, because a punch
belongs to the day of its time. `row` is the attendance row or `None`, `log` the log row
of each punch (`unlinked`: stored without a person). Each writer is a transaction at read
committed: it reads the row (`snap`), decides, and writes some of its columns; between
the two the others may commit. Two facts of PostgreSQL bound what can happen: the unique
key refuses a second row for the day (`Collide`, `HandCollides`, `UnlessThere`), and an
update of a deleted row throws (`Finds`).

- *Ingest*: `OpenRequest` resolves the person once per request (`knows`), `StoreUnlinked`
  is persistEvent without a person, `ReadRow` and `SavePunch` are the transaction of one
  punch with the branches of `applyPunch`: `CreateRow`, `Collide` (roll back, begin
  again), `KeepAbsent`, `Upgrade`, `CheckOut`, `CheckIn`. `Tell` queues the messages
  after the commit; `EndRequest` is a request that ends, fails or dies anywhere.
- *Back-fill*: `SetMapping`, `ListUnprocessed`, then the same transaction per punch.
- *Office*: `HandRead`/`HandSave` are `bulkMark` and `correct`, with and without the
  right to override device rows; `LeaveReads`, `LeaveApplies`, `LeaveRemoves` are a leave
  request that covers the day.
- *Job*: `JobLists`, `JobMarks` (insert with `skipDuplicates`), `JobSkips`, `JobFails`.

`PresenceAndLeaveStand` is the rule all of them share, as an action property: that a person
came, or is on leave, changes only by hand, with the end of the leave whose row it is, or
through a transaction that had read the row before (`ReadBefore`, the price of read
committed). `DayIsItsPunches` and `AutoAbsentNeverPunched` say what the row is; this one
says who may take it back.

Instants are small numbers, 0 is null. Staff and teachers differ only in having no
message; holidays, several classes and the register's audit trail are left out.

### AutoAbsentGate

The clock has three values: before the cutoff, between cutoff and deadline, after it. Of
a contact only whether it is after the cutoff matters, of the queue length in a heartbeat
only whether it is zero. `mem` and `saved` are a connector's queue in memory and in its
log, `reading` the read in progress, which may return any part of the device log (the
protocol's answer can be truncated) and is stamped as a contact all the same. `beat` is
the heartbeat on its way, `old` one the connector gave up that may still arrive.
`GateOpens` is `unsettledDevices` with the listing that follows: every device seen lately
is settled, or the deadline is past. The model ends there.

### SmsQueue

`row`, `attempts` are columns; `due`, `expired`, `stale` say which comparisons with the
clock are true of a row; `at`, `batch`, `current`, `tries` are a worker's pass, `tries`
being the `attempts` its claim returned. One action per database statement and per
provider call. `owner` is a history variable (the table has no such column): the worker
whose claim locked the row. `Outlasted` are the rows whose lock may get stale while its
worker is still alive, which the code allows: a batch is locked at claim time, delivered
one by one, and `sms.service.ts` calls the gateway without a time-out. The properties
say what holds of every row and what only of the others.

`Outbox` is what the rest of the system relies on, without workers, locks and clocks: a
message waits, may be claimed, each claim makes at most one copy (also after the message was
closed), and it is closed once, as sent only after a copy and as failed only when its claims
are spent or it is too old. `ImplementsOutbox` instantiates it with `state` the status seen
through `Progress` (`PENDING` and `PROCESSING` are both waiting), `claims` the column
`attempts`, `copies` what the provider accepted, `old` the expired rows. A retry, a stale
recovery, a death and an aborted pass are stutters of it.

### MessageBilling

One madrasa, one channel. `wallet` is the subscription row, `balance` the `balanceAfter`
of the last ledger row. `at` is the place of each send in the loop body of
`NotificationService.send`, `usage` its usage-log row, `accepted` what the provider did,
`refunds` the REFUND rows, `mishaps` which faults it met and where: `db` (a statement
throws), `commit` (a transaction commits and its answer is lost), `reply` (the provider
accepts and its answer is lost). `desk`, `job`, `seen`, `delta` are the session of a super
admin: the read of approval, the conditional status flip, the read of the wallet and the
write are separate actions, because they are separate statements outside one lock; so are
the read and the write of a change by hand. A transaction that starts with an UPDATE of
the wallet row is one action: PostgreSQL holds the row's lock until its end. Days are
counted by `now`; `SyncExpired` is the hourly job.

### CardEnrollment

`rows` are the sessions by id, `card` the cards of the cloud, `device` those of the K40's
users. `create` is two statements: `CancelOpenForDevice` closes the open sessions,
`CreateRow` inserts the new one, and `opening` says for whom an admin stands between the
two. `Poll` is `commands()` (expire, newest pending session, users version), `BeginRun`,
`Swipe`, `MenuEntry`, `MenuFound`, `NoCard`, `Accepted`, `Refused` the stages of
`enrollOnDevice` on the connector. A device that fails may have been written before it
failed (`BeginRun`, `Accepted`), and a session whose time ran out on the way ends at once.
`MenuCard` is a card entered in the menu of the K40 at any other time. A report that gets
no answer is given up, `captured` after retries (`GiveUp`); one refused as such (an auth or
client error) is not sent again (`TurnedAway`); in both cases the run goes on without an
answer (`GoOn`). A report lies in
`inbox` until the cloud executes it, also when the connector has given it up; a captured
card is looked up (`LookUpHolder`) and then linked in one transaction (`LinkCard`).
`MaybeSync` and `SyncUsers` are the user sync, `synced` the list it wrote last (the state
file on disk), `Restart` the death of the process, `Edit` is setCard and clearCard.

The row and the server time of `/commands` are read in one step. Everybody has a PIN and
a user on the device, so the users version, a hash of the user list, is the card of
everybody; PINs, names and new users are left out.

### ExamFee

One student, one exam fee without a month. `active` is the switch, `withdrawing` the time
between switching off and the deletion of the untouched invoices. The fee also goes off
without a deletion, when its category is switched off or the exam no longer covers the
class (`StopBilling`), and the deletion may never happen (`WithdrawalLost`). `discount` is
the student's standing discount, which `Issued` waives as the invoice is created; a
discounted invoice counts as touched from the start and is never withdrawn. The models
leave out discounts granted or changed after admission and changed amounts. `bill` is where each
caller of `autoGenerateInvoicesForStudent` stands (listed the fee, found no invoice),
`work` the transaction of each payment or waiver: `ReadInvoice` reads and checks,
`RecordPayment` and `WaiveInvoice` write the columns computed from what was read.
`payments` are the payment rows, `ledger` the income booked for them. `Register` follows
the commit of a payment and may fail. Amounts are counted in paisa; `Slack` is the 0.01
of the comparisons.

The deletion is taken as one DELETE whose filter PostgreSQL evaluates again on a row that
changed while it waited (Prisma's `deleteMany` with a relation filter becomes such a
statement); a payment that had read the invoice before then finds it gone and is rolled
back.

## Runs

| Run | Question | Instance | Result |
|---|---|---|---|
| `connector` | Is any punch lost, falsely confirmed, set aside for another's sake, or cleared too early? Does the pipeline implement `PunchDelivery`? | 2 punches (one poison, one out of range), batches of 2, clear mode, every write to the log may throw | holds |
| `connector_live` | While the disk works: do queue and loops agree, is every punch delivered and settled behind a poison event? | 2 punches, one poison, fairness | holds |
| `connector_upload` | README: stored in the queue first, then uploaded | disk faults | **violated** |
| `attendance_day` | Is the day what its punches and its last human decision say, and does a presence or a leave stand, whoever overlaps? | 2 punches, 2 requests, back-fill, 1 change by hand, 1 leave request, the job | holds |
| `auto_absent` | Can the job mark somebody who punched; is the pass made in the end? | 1 device, 2 punches, one poison | holds |
| `sms_queue` | Are claims exclusive, attempts and sends bounded? Does the queue implement `Outbox`, and is every row closed in the end? | 2 rows, one of them outlasted, 2 workers, 2 attempts, fairness | holds |
| `sms_queue_owner` | Comment: a row handed to another worker is never overwritten | 1 row, 2 workers, 3 attempts | **violated** |
| `message_billing` | Wallet, ledger, usage log and requests under every fault | 2 sends (1 and 2 units), package and recharge, 2 admins, every fault | holds |
| `billing_two_admins` | Comment: unused validity and credit is never lost | 2 packages, 2 admins, no fault | **violated** |
| `card_enrollment` | One open session; no card on the device that was not given; cards change only with a session? | 2 admins, 2 people, 2 cards, 2 sessions, 1 edit or menu card, 1 fault | holds |
| `card_enrollment_live` | Is every session closed; does the device end up with the cards of the cloud? | 1 admin, 2 people, 2 cards, 1 session, 1 edit or menu card, 2 faults, fairness | holds |
| `exam_fee` | Billed once, invoice = payments, money kept, only untouched invoices withdrawn and all of them, registered = paid | 2 billers, 2 cashiers, 3 payments or waivers, 3 switches, discounts of 0, 1 and 3 | holds |

The violated runs are findings; each disagrees with a sentence the repository states:

- **`connector_upload`**: `enqueue` changes the map before the append. When the append
  throws, the caller ends the cycle as failed and says the punches are "simply re-read
  next cycle", but `has` already knows them: they are skipped and uploaded from memory
  while the log does not hold them. `connector` shows that no punch is lost by it,
  because the clear waits for the cloud.
- **`sms_queue_owner`**: the guard of `markSent`, `markRetry`, `markFailed` is the status
  alone; after a recovery and a second claim it is `PROCESSING` again.
- **`billing_two_admins`**: `applyPackageToSubscription` decides and computes the expiry
  from a read that nothing protects.

### Limits the properties name

A property that holds only with an exception names it, and the exception is as narrow as
the code allows; each was found by TLC as a counterexample of the plain statement.

Some hazards of `PROJECT.json` are such exceptions themselves: the code lets the race happen,
and the property beside it shows what happens otherwise (the hazard's note says which).

- *Punches*: a rejected event keeps its row, so after a lost answer its resend is
  answered `duplicate` and the punch is filed as synced, not as failed.
- *Left out*: events an answer does not mention (the cloud answers every event of a
  request) and malformed events (the connector sends none), so the branches that treat
  them (`connector.ts:1109`, `attendance-device-ingest.service.ts:308`).
- *Attendance day*: the row may differ from its punches once two transactions overlapped
  on it (`raced`: a column written from an old read), or office or leave changed it
  (`touched`); a check-out is exact only when the punches came in order (`ordered`); a
  message is missing only if a request ended between commit and queueing (`lost`); a
  punch stays unlinked only if its request had resolved the person before the mapping
  (`early`); cancelling a leave deletes the row it read with what was made of it since,
  and the job may then mark the person (`removed`).
- *Auto-absent*: the gate cannot see punches that a read after the cutoff did not return
  (`missed`), that were only in memory when the process died (`torn`), a heartbeat that
  arrives after a later one (`overtaken`), or a device not seen lately (`unseen`).
- *SMS*: exclusiveness and the bound on attempts end where a pass outlasts its lock.
- *Wallet*: a refund is exact except where `RefundedOnce` (a lost answer to the commit of
  the first release), `RefundedWasRejected` (a lost provider answer, or a statement that
  fails while recording the acceptance) and `NeverSilentlyDeducted` (the release in the
  catch throws, or the answer to the charge is lost) say so. A process that dies inside a
  send leaves its credit reserved and its usage row PENDING, which nothing resumes; an
  approval that commits before the process dies has granted nothing and cannot be
  approved again. A deduction by hand checks a balance it read before and can overdraw
  the wallet with sends in between (so `NoOverdraft` speaks of wallets nobody takes
  from). A renewal decided on an ACTIVE wallet that the hourly job marks EXPIRED in
  between leaves it paid and refused. No sentence of the repository denies these.
- *Enrollment*: two creates that overlap leave two open sessions (`overlap`); a card taken
  away in the cloud stays on the device, by design of `planUserSync` (`cleared`); a menu
  card that no run waited for, saw or took back stays (`left`); a card changed back before the
  next poll to what the last sync wrote goes unnoticed, because an enrollment's own write
  does not change the synced version (`back`).
- *Exam fee*: of two transactions of an invoice that overlap the later commit overwrites
  the earlier (`raced`); two billers that both look before either creates bill twice,
  because a fee without a month never collides in the unique key (`overlap`); an untouched invoice outlives
  the fee if no withdrawal reaches it: the fee stopped without one, the withdrawal was
  lost, or a biller that had listed the fee in time created the invoice too late (`left`).
  Touched invoices (partly paid, partly waived, discounted) are kept on purpose, so
  their rest is still owed while the fee is off; a registration
  lost after the commit of its payment never comes back (`lapse`). A payment that
  completes a partly waived invoice makes it WAIVED and registers nobody, as the comment
  at `exam-candidate.service.ts:249` wants it; a slow switch-off may withdraw untouched
  invoices of a fee that was switched on again.

### Bounds, and why they are enough

- *Punches of the connector*: two suffice for isolation (one refused, one behind it), for
  a full and a partial batch, and for a read that is truncated; a punch is never compared
  with another except by age. *BatchSize* 2, *IsolateRuns* 2 (50 in the code): the
  counter wraps within the instance.
- *Attendance day*: two punches, one in time and one late and in the check-out window,
  taken by two requests and a back-fill in either order; every rule compares at most the
  punch with the row. A mark by hand may give any status. The list of the back-fill has no
  limit (`MAX_REPROCESS_LOGS` is 5000 punches of one person, oldest first), and the person
  is one the code takes attendance of. `MaxHand` 1 change by hand, `LastInstant` 2.
- *Auto-absent*: one device; the gate is a conjunction over devices that share nothing
  else, and the proof covers any number.
- *SMS rows* 2 with batches of 2: two workers compete for a partial batch, and a short
  and an outlasted row share one. *MaxAttempts* 2 or 3 (5 in the code): one retry, and the
  last attempt.
- *Wallet*: two sends of different length against credit for one of them, a package and a
  recharge, two sessions, one change by hand (*MaxChanges*), two days (*MaxDay*).
  `GrantDays` 0 or 1 and one day of validity make expiry happen inside the bound.
- *Enrollment*: two sessions, so that one replaces the other while it runs; two attempts
  for a captured card (`Attempts`); one or two faults (lost reply, report turned away,
  failing device, restart) and one card changed by hand, in the cloud or at the K40; with two faults a session is offered again to a process that has
  handled it. 6.0 million states.
- *Exam fee*: an amount of 3 with a slack of 1 lets an invoice be partly paid, paid
  slightly under and slightly over, and partly waived; a discount of nothing, of a part and
  of the whole; 3 invoices, 3 payments or waivers, 3 switches (on, off, on). 4.5 million
  states.
- *Symmetry* is used in runs without liveness, over values that nothing tells apart:
  requests, admins, people and cards, billers and cashiers. No run uses a state
  constraint.
- *CHECK_DEADLOCK* is off where the instance ends: all sends done and the last day
  reached, the pass of the job made, all invoices, moves and switches used up. The other
  runs check it.

### Fairness

- `connector_live`: the process is restarted (`run.cmd` loops), so `Start` is weakly fair;
  the loops keep running, so their steps are weakly fair once the process stays up
  (`StaysUp`: crashes come to an end). Steps that others can disable again and again are
  strongly fair: a device that can be reached again and again gives a whole read, the cloud
  handles a request again and again, an answer arrives again and again. Without these no
  implementation could promise delivery. Pruning, crashes, time-outs and refusals are never
  forced.
- `sms_queue`: the timer starts a pass again and again (weak fairness of a worker's
  next step), the clock makes rows due and locks stale, and a worker that starts a pass
  again and again claims in the end although instances die (strong fairness of
  `ClaimBatch`). The provider is never assumed to succeed.
- `auto_absent`: the clock runs and the job's timer fires. Connectors are never forced.
- `card_enrollment_live`: time passes, a report that reached the cloud is executed, and
  the command loop goes on (it catches everything, and the service is restarted). Faults
  are bounded by `MaxFaults`; nobody is forced to tap a card.

## Proofs

TLAPS proves the following for every value of the constants that satisfies the named
assumptions (`IdsAssumption`, `DiskFaultsAssumption`, `SyncAssumption`, `GateAssumption`,
`SmsQueueAssumption`, `BillingAssumption`, `EnrollmentAssumption`, `ExamFeeAssumption`,
`DayAssumption` and the three `NoneAssumption`s); TLC evaluates them in each run. In every module
`Invariance` is `Spec => []IInv`, `TypesHold` gives type correctness, and the other
theorems follow from `IInv`; the runs therefore spend no check on the type invariants of
these modules.

**Connector** (`ConnectorSyncProofs`). Beyond the two safety
properties `IInv` needs: `NoPunchLost` (a punch is with the device, in the log or in the
cloud), `AnswersAreStored` (a result in hand speaks of an existing row: a result is kept
across awaits), `ClearingIsSafe` (from read to clear the device log is what was read, and
at the clear all of it is stored), `ForgottenIsStored` (what the log has and memory has
not is stored: memory prunes before a failing append) and `OnlyPunched`. One lemma per
action; `EnqueueFacts`, `SetStateFacts`, `PruneFacts` say what the queue operations do,
with a throwing append. From `IInv` follow the invariants, the action properties
`ClearedOnlyWhenStored` and `LogKeepsUntilStored`, and the refinement: each step maps to a
`Make`, a `Store` or a stutter of `PunchDelivery`. A second invariant, `LoopsAgree`, proves
`SyncingIsInFlight` and `StoredBeforeUpload` for a disk that does not fail, the very
hypothesis whose absence `connector_upload` refutes.

**Attendance day** (`AttendanceDayProofs`). A writer decides from a row it read earlier, so
the invariant says what is still true of that row: `RowsLast` (while no leave was cancelled,
what somebody read is still there in some form, and an automatic ABSENT is one nobody has
changed and no punch was credited to), `RowsAnnounced` (a device row or a check-out that
anybody read is told: whoever finds a check-out already set sends no message),
`DecisionStands` (a decision by hand is in the row with its time, which is what
`LeftAlone` compares). `DayInOrder` states `DayIsItsPunches` without its CHOOSEs: the
check-in is the least credited time, the check-out the greatest that can be one. One lemma
per action; `RowStays` keeps the half about the row for every step that leaves it alone,
`CreditFacts` says what the commit of a punch does to everything else. `PresenceStands` is an
action property: one lemma per writer shows that it keeps the standing of the row it read, so
that whoever changes it had read another row.

**Auto-absent** (`AutoAbsentGateProofs`). The property speaks of the moment the gate
opens, the reason lies earlier. `ContactsAreReads`: wherever a contact after the cutoff
has got to (the connector, a heartbeat on its way or given up, the cloud), a read has been
made when no punch could be added, so every punch of the device is in a queue, stored, or
among what the gate cannot know. `EmptyIsDelivered`: an empty queue reported with or after
such a contact means that all of them left the queues. `QueuesAgree` carries both over a
restart.

**SMS queue** (`SmsQueueProofs`). `SendsPerAttempt` is not inductive: `AttemptsCover`
counts, for every row, the accepted sends plus the claims that have not sent yet against
the attempts (the cardinality of the set of those workers). `ShortPasses` carries the
case of rows that are not outlasted: no lock in use is stale, what a worker remembers is
exact, a waiting row has an attempt left.

**Wallet** (`MessageBillingProofs`). The invariant falls into three parts that their own
actions disturb: the accounts (`AccountsPosted`: a posted wallet is in order when its
columns are), the sends (`SendMoves`: a send that moves to a place where its delivery is
in order keeps all of them), and the sessions (`AdminLeaves`: a session that ends owns
nothing). `SendsInOrder` says what is written for a send at each place; `ApprovalsAreOwned`
that an approval not applied yet belongs to one session, which is why a request is granted
once.

**Enrollment** (`CardEnrollmentProofs`). `OpensAlone`: until two creates overlap, no
session is open while somebody stands between cancel and insert; `OneSessionPerDevice`
follows. `DeviceCardWasGiven` needs the way of a card: reports name sessions
(`ReportsOfSessions`), the reply and the run speak of the session's person
(`ReplyOfSession`, `RunOfSession`), an accepted card is the one the cloud linked, the list
being written and the cards of the cloud were all given (`CardsWereGiven`), and nobody
writes users during a run (`ListAlone`). `CardsChange` is an action property of `Next`
under the invariant.

**Exam fee** (`ExamFeeProofs`). `WorkIsAllowed`: a transaction asks for no more than it saw
due. `UntouchedIsFresh`: without payments and waivers an invoice is as it was issued, so
what the withdrawal deletes holds no money, and every invoice it leaves has a payment, a
waiver or a discount: that is `OnlyUntouchedWithdrawn` (theorem `WithdrawnExactly`), which
says nothing of the rest still owed on the invoices it leaves. `OneCreates` is the reason
for `BilledOnce`, `RegistersWhenPaid` for the first half of `CandidateIffPaid`: who registers has paid an
invoice that stays.

**Only model-checked**: the liveness properties (`EventuallyStored`, `EventuallySettled`,
`EventuallyClosed`, `EventuallyMarked`, `DeviceAgrees`, `SessionsEnd`), which are beyond
this prover; and the violations, whose counterexamples are their proof. That `ImplementsOutbox`
and the refinement of `PunchDelivery` are safety refinements follows from their abstract
specifications, which state no fairness: that every message is closed in the end stays with
`EventuallyClosed`.

### Refinements

Each step of the connector maps to a `Make`, a `Store` or a stutter of `PunchDelivery`; each
step of the SMS queue to a step of `Outbox` or a stutter. The second mapping needs the
inductive invariant in four places, which are the reasons why the code keeps the promise: a
claim of a row that no pass outlasts has an attempt left (`ShortPasses`: `Spent` is false); a
provider call happens at most once per claim (`AttemptsCover`: `copies < claims`); a row is
marked SENT only when its delivery was accepted, although others may have claimed it since
(`copies > 0`); and a mark closes only a row that is still waiting, because its guard is the
status. The last is the half of the guard's comment that is true; the other half is the
finding of `sms_queue_owner`. `BoundedCopies` then bounds the duplicates: the provider has no
idempotency, and yet a recipient gets at most `MaxAttempts` copies of a message that no pass
outlasts.

### What the exceptions mean

Most properties name an exception. The exception could hide more than it says, so a second
family of theorems proves the plain statement under the condition that rules it out:

| Theorem | Condition | Plain statement |
|---|---|---|
| `OwnersMark` | no pass outlasts its locks | `OnlyOwnerMarks`, which `sms_queue_owner` refutes otherwise |
| `NeverLostAlone` | one session of a super admin | `NeverLost`, which `billing_two_admins` refutes otherwise |
| `RefundedOnceStrictly` | no commit goes unanswered | one refund per send at most |
| `RefundedOrDelivered` | no database error, no lost provider answer | nothing is both delivered and given back |
| `NothingDeducted` | no database error, no unanswered commit | an undelivered send has its credit |
| `OneSessionAlone` | one admin | one open session per device, always |
| `InvoicesAgreeAlone`, `CandidatesPaidAlone` | one cashier | every invoice agrees with its payments; who is registered has paid |
| `BilledOnceAlone` | one biller | one invoice per fee, always |

The conditions are about constants (the set of faults, the number of sessions), so everything
else still interleaves: `NeverLostAlone` holds with sends, the hourly job and every fault
around the one session, because `ReadIsFresh` says that while the wallet is active the
status and the expiry the session read are still those of the wallet when it writes. The two violation runs and their counterparts together
say precisely where the comment ends being true.

## Not modelled, and why

- *I/O and encoding*: byte protocol of the K40, configuration files, pairing, secrets,
  logging. The record level of `queue.jsonl` (a torn line in the middle merges two
  records) and the lock file (two processes that both find a stale lock): planned.
- *Parts of modelled components*: PIN assignment and conversion (two assignments at once
  choose the same PIN and one throws), creation and renaming of device users, offline
  alerts, monthly fees (whose unique violation is caught inside a transaction PostgreSQL
  has already aborted), bulk waivers, fee structures and receipts, overlapping leave
  requests, prices and package CRUD, templates.
- *Handlers around one transaction*: accounts, payroll, library, promotion, master data,
  settings, authentication and roles. Their interleavings are those of single-row reads
  and writes; the results workflow, the registration-number allocator and library loans
  are the ones worth a module.
- *User interface and presentation*: `admin/`, `frontend/`, `super-admin/`,
  `packages/`, reports, document templates, the public website, dashboards. They hold
  most of the repository's lines and none of its concurrency; they render what the HTTP
  interface returns. The models therefore cover a small share of the lines.

The status of every part is in `PROJECT.json`.

## Plan

Done, in this order: `ConnectorQueue`, `ConnectorSync` with `PunchDelivery`; `SmsQueue`;
`MessageBilling`; `AttendanceDay`; `AutoAbsentGate`; `CardEnrollment`; `ExamFee`; proofs
for all of them; the refinement of `Outbox`; the theorems without exceptions. Next:

1. `ConnectorQueueLog`: `queue.jsonl` as a sequence of records with torn tail and
   compaction, refining `ConnectorQueue`; `QueueLock`: the lock file and its stale removal.
2. The results workflow with corrections under review; the registration-number allocator
   under concurrent admissions; PIN assignment; library loans.
3. Theorems without exceptions for `AttendanceDay` (one writer at a time).
