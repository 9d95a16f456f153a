# WA Track backend: verification project

WA Track is a NestJS service over Postgres (TypeORM). A desktop app records
working time offline and synchronises it; HR corrects it and adds manual
entries; managers keep departments, clients and tasks; desktop apps are paired
with an employee through a device-code flow. This directory holds TLA+ models
of the parts of the service that keep state, the TLC configurations that check
them on small instances, and TLAPS proofs about them.

Paths are relative to the root of the repository; the service's sources are in
`src/` (here `src/src/`).

## How the server runs, and what that makes hard

Node runs one handler at a time *between two awaits*. Each await that matters
is a round trip to Postgres, so handlers of different requests interleave at
database calls. No service opens a transaction: every call commits alone.

`Repository.save(entity)` is three steps: it rereads the row, keeps the columns
in which the entity differs from the fresh row, and sends an `UPDATE` of those
columns. An entity that was read before another request's write therefore
carries old values of every loaded column and writes them back
(`RowStore.tla`). A relation that was not loaded is `undefined` and never
written; a relation to a soft-deleted row joins as `null` and *is* written.
Most hazards of this code follow from these three facts, from failures between
two calls (a lost connection, a restart), and from clients that retry.

## Inventory

| component | state it keeps | operations | interacts with | hard behaviour |
|---|---|---|---|---|
| time-entries | `time_entries` (unique `localId`, `manuallyEdited`, `editedBy`), `time_entry_audits` | `sync` (batch upsert), `createManual`, `update`, queries | reads employees, tasks; desktop app retries batches | stale read-modify-write against HR corrections, batch cut short by one bad item, entry saved but audit row not, soft-deleted parents |
| pairing | `pairing_codes` (status, expiry, polling interval) | `createDeviceCode`, `confirm`, `poll` | inserts `device_sessions` through auth | clock and expiry, interval doubled at every early poll, poll racing a confirmation, retry after a lost answer |
| device-sessions | `device_sessions` (`isActive`, `refreshTokenHash`) | `revoke`, `findAll` | auth's `refresh` rotates the hash | revocation racing a refresh |
| auth | none of its own; hashes on sessions, claims in tokens that clients keep | `login`, `refresh`, `issueDeviceTokens`, JWT strategies, `RolesGuard` | reads employees, writes device-sessions; guards every handler | token rotated but answer lost; account locked or deleted between two reads; role in a token older than the row |
| departments | `departments` (partial unique name, soft delete) | create, update, softDelete(force), restore, queries | forced delete archives clients | count-then-archive race, cascade one level deep |
| clients | `clients` (unique name per department, soft delete) | create, update, softDelete(force), restore, queries | forced delete archives tasks | as above; rename racing create |
| tasks | `tasks` (soft delete) | create, update, assignClient, softDelete, restore, queries | time entries refer to it | tasks under archived clients, stale save that brings back a deleted row's columns |
| employees | `employees` (partial unique email and username, status, manager, soft delete) | create, update, changePassword, softDelete, restore | auth, every `createdBy`/`deletedBy` | check-then-write of email/username; joined manager or department lost by a save |
| audit | none | `findDeletions`: merges the soft-deleted rows of four tables, orders and pages them | reads | four reads that are no snapshot; pages by offset into a list that changes |
| reports | none | date keys, employee/task/day pivot, workbook | reads employees, then time entries | inclusive day ranges, open or empty ranges, archived relations, rows archived between the two reads |
| common | none | page arithmetic, inclusive end of day, response envelopes | used by all | boundaries |
| roles, seeds, bootstrap | four seeded roles | read-only, or run once by an operator | | none worth a model |

What makes each component correct:

* **time-entries** - one row per `localId` whatever is retried; a correction by
  HR is not overwritten by the desktop app (but by a sync that had read the entry
  before); an acknowledged batch is stored; a sync attributes no entry to another
  employee; the audit trail matches the rows;
  valid entries arrive although others in the batch are refused.
* **pairing, device-sessions** - a code belongs to one employee; a
  confirmation stands; overdue codes give no session; a revoked session stays
  revoked; a device that keeps its newest token stays logged in.
* **departments, clients, tasks** - active names are unique; nothing active
  hangs under an archived parent after a forced delete; a restore brings back
  the row it names, an update only one that was archived under its hands; managers
  change rows of their department only.
* **employees** - active emails and usernames are unique; an edit changes the
  columns it names only.
* **auth** - what is locked, deleted or revoked is refused at once; a changed
  role replaces the old one in the end.
* **audit, common** - a walk through the pages of a list shows every row of it
  once, whatever else goes on, and pages agree with totals.
* **reports** - each entry asked for is in one cell, cells add up to totals but
  for their rounding, the cell that says whose time is shown fits the tables, a
  range includes both its ends.

## Modules

| module | models | source |
|---|---|---|
| `RowStore` | `save()`: which columns an UPDATE writes (`Dirty`), `??` (`Coalesce`), what an INSERT stores for `undefined` (`Inserted`) | TypeORM, as the services use it |
| `TimeEntries` | `sync`, `createManual`, `update` of time entries | `time-entries/` |
| `DevicePairing` | `createDeviceCode`, `confirm`, `poll`, `issueDeviceTokens`, `refresh`, `revoke` | `pairing/`, `device-sessions/`, `auth/` |
| `SessionLifecycle` | abstract: what HR is promised about a device session | the schema notes, `DevicePairing` implements it |
| `Catalog` | create, update, assign-client, change-password, delete, restore | `departments/`, `clients/`, `tasks/`, `employees/` |
| `Access` | `login`, `refresh`, the tokens of pairing, `JwtStrategy`, `RolesGuard` | `auth/` |
| `DateRange` | inclusive ends of ranges, UTC days | `common/utils/date-range.util.ts`, `reports/utils/report-date.util.ts` |
| `Reports` | `buildExportWorkbook`, `enumerateDateKeys`, `buildPivot`, `writePivotTable` | `reports/` |
| `Listings` | `findDeletions` and the `findAll` of the services, page by page | `audit/`, `common/`, the services' `findAll` |
| `TimeEntriesProofs`, `TimeEntriesSerialProofs` | theorems about `TimeEntries`: for any interleaving, and for requests that do not overlap | |
| `DevicePairingProofs`, `CatalogProofs`, `AccessProofs`, `ListingsProofs`, `ReportsProofs` | theorems about the module of that name | |
| `MCTimeEntries`, `MCDevicePairing`, `MCCatalog`, `MCAccess`, `MCReports`, `MCListings` | values of the constants for TLC | |

`TimeEntries`, `DevicePairing`, `Catalog` and `Access` share a shape. `Workers` are the requests the server
has open at once. `pc[w]` is the database call worker `w` makes next, and an
action is that call with the code up to the next one; `req[w]` is the request
and the entity in memory is `ent[w]` (`code[w]`, `sess[w]` in `DevicePairing`).
An action `StartX`, or one guarded by `Idle(w)`, is the arrival of a request
with the handler's first read; `Insert` is the INSERT of a new entity, `Reload`
and `Write` are the two halves of a `save()` of an old one; `Fail` is a database
call that rejects or a restart, after which the request is gone and the rows
stay as they are. A request that is answered with an error before any of its
calls writes (a wrong role, an unknown id, a name that is taken) changes no
state, and where it is the first call that says so there is no step for it.

### TimeEntries

`entries` and `audits` are the two tables, indexed by id; `archived` holds the
employees and tasks that are soft-deleted; `pos[w]` is the index in the batch,
`rowId[w]` the row an entity came from, `dirty[w]` the columns its UPDATE will
write.

| code | actions |
|---|---|
| `sync()` | `StartSync`; for each item `SkipForeign`, `SkipCorrected`, or `FindTracked` / `FindNothing` and then a `save()`; `SyncRespond` |
| `createManual()` | `StartManual` (the employee check), `BuildManual` (the task check and the entity), `Insert`, `WriteAudit` |
| `update()` | `StartUpdate` (the row), `ApplyUpdate` (the task check), `Reload`, `Write`, `WriteAudit`; `TaskNotFound` |
| a statement Postgres refuses | `Rejected` |
| soft delete and restore of employees and tasks | `Archive`, `Restore` |

### DevicePairing

`codes` and `sessions` are the tables, `standing` the state of each employee's
row, `now` the clock, `tokens` the refresh tokens that reached a device. A code's
id stands for its random device code. Two tokens signed for one session in the
same second are the same token, as they are in the code, whose claims hold
nothing else that differs; so the second of signing is also what a stored hash
tells apart.

| code | actions |
|---|---|
| `createDeviceCode()` | `CreateDeviceCode`, `InsertCode` |
| `confirm()` | `Confirm`, `ConfirmTooLate`, then `ReloadCode`, `WriteCode` |
| `poll()` | `PollOverdue`, `PollRetry`, `PollTooEarly`, `PollPending`, `PollConfirmed`, then as above or through `InsertSession` |
| `issueDeviceTokens()` | `InsertSession`, `ReloadSession`, `WriteSession` |
| `refresh()` | `Refresh` (the employee), `FindSession`, `ReloadSession`, `WriteSession` |
| `revoke()` | `Revoke`, `ReloadSession`, `WriteSession` |
| time; HR locking, deleting, reinstating an employee | `Tick`, `SetStanding` |

`SessionLifecycle` says what a session may do: it is opened once, its token is
replaced by a later one while it is open, it is revoked once and stays so. The
refinement maps a row's `isActive` and hash to that state.

### Catalog

The four services have the same operations in the same shape, so their tables
are one sequence `rows` whose rows say which table they belong to, and what
differs (who must be unique among whom, which foreign keys may be null, what a
forced delete takes along, what a manager may touch) is a condition on that.
`name` is a department's or client's name, a task's title, an employee's email
and username; `detail` the columns no rule is about; `parent` a task's client or
an employee's manager. `overlap` is chosen once: where it holds, workers send
the requests of `Contending` in any interleaving; where it does not, those of
`Requests` one after the other, for properties that an overlap breaks.

| code | actions |
|---|---|
| `create()` | `StartCreate` (the name check), `Insert` |
| `update()`, `changePassword()` | `StartUpdate`, `CheckName`, `Reload`, `Write` |
| `assignClient()` | `StartAssign`, `FindClient`, `Reload`, `Write` |
| `softDelete()` | `StartDelete`, `Count`, `Cascade`, `Archive` |
| `restore()` | `StartRestore`, `Restore` |

### Access

`account` holds what auth reads of an employee: whether it is active, locked or
deleted, its role and its password; `sessions` the device sessions; `held` the
two tokens each client keeps. A token is its claims and the time it has left, so
that time can pass without a clock and a run need not end. `shutOut` is a
history variable: the reasons a request had to be refused when it arrived that
have been there ever since. `DevicePairing` and this module both have `refresh()`
and the opening of a session: the first with what two requests do to one row,
this one with what the row of the employee says while tokens age.

| code | actions |
|---|---|
| `login()`, `validateCredentials()` | `Login`, `FindCredentials`, `Compare` (bcrypt), `Deliver` |
| `poll()` of a confirmed code, `issueDeviceTokens()` | `Pair`, `InsertSession`, `Reload`, `WriteSession`, `Deliver` |
| `refresh()` | `Refresh`, `RefreshEmployee`; for a device `RefreshSession`, `Reload`, `WriteSession`; `Deliver` |
| `JwtStrategy.validate()`, `RolesGuard` | `Call`, `Validate`, `ValidateSession`, `Guarded`, `Deliver` |
| an answer lost, a call that rejects | `Fail` |
| expiry; HR's requests to employees and sessions | `Tick`, `Change`, `Revoke` |

### Reports and DateRange

An instant is a number and a day is `DayLength` of them; an end of a range is a
string that passed `IsDateString`: a calendar date, a month, or a date with a
time after a `T` (an instant) or after a blank. Postgres reads no month, and no
date with a blank once the code has appended a second time to it, as it does to
every `to` without a `T` (`Readable`); the report then fails (`Refuse`). `Zone` is how far the session of
Postgres (which reads dates without a zone) is ahead of UTC (in which the report
counts days). `archived` holds the soft-deleted employees, tasks and
departments, which join as null. `Export` is the request with the check of the
employees asked for, whose names it keeps (`kept`); `Fetch` is the query with the
workbook, whose tables come from the query's answer and whose People cell
(`People`) comes from the names kept; `Track`, `Archive` and `Restore` are what
other requests do before and between. `CellValue` is what both sheets make of a
number of seconds: minutes, cut, and hundredths of an hour, rounded, each cell
and total for itself. `HalvesUp` lists which halves of a hundredth `toFixed`
rounds up, which depends on how the double nearest to them lies. The properties
compare the workbook with the entries themselves.

### Listings

One reader opens a list (`Open`), asks for page after page (`Ask`) until the
number of pages of the last answer, and closes it. `LoadDeletions` is one loader
of the audit list, each reading its table at a moment of its own, the last one
merging, sorting and slicing. `SelectPage`, `FetchRows` and `Count` are the
three queries `getManyAndCount()` makes of one page of `findAll()`; the third is
left out by TypeORM where it can be inferred. `Create`, `Delete` (one row, or
the children of a forced delete, which get one stamp; the row may be archived
already, as two deletes may overlap), `Restore`, `StaleSave` and `Tick` go on
between any two of these. `StaleSave` is the save of an update that read the row
before it was archived: it empties `deletedAt` and leaves `deletedBy`, so an
active row may name somebody. A `to` with two times in it is an Invalid Date,
which filters nothing out. `owed`, `seen`, `again`, `entered`, `left` and `tied`
exist for the properties only.

## Runs

| run | what it shows |
|---|---|
| `entries_concurrent` | With two overlapping requests and a failing call: one row per `localId`; audit rows only of corrections that were stored, and every corrected row names its editor; no sync attributes an entry, new or old, to another employee than the user. (A user who sends an own entry under another's `localId` does take that row over: the code checks the item's employee, not the row's.) |
| `entries_serial` | One request at a time, with failures, unknown tasks and soft deletes: a correction is final; an acknowledged batch is stored; a manual entry spans exactly its duration through any corrections; no end time is erased; without failures the audit rows add up to the rows they tell of. |
| `entries_live` | A device that retries its batches gets every valid own entry stored, although the batch holds entries left behind by another user and other batches hold invalid ones, with a correction and a failure in between; and an entry that stands corrected, with no sync left that read it before, stays corrected for good. |
| `pairing_concurrent` | Two overlapping requests: user codes are unique, the polling interval fits its column. |
| `pairing_serial` | One request at a time, with a failure, time passing and an employee locked or deleted at any moment: one owner per code; a confirmation stands, with the employee who gave it, until redeemed or overdue (an early poll while that employee is deleted is the one exception); a code that is overdue gives no further session, also not to a device that retries; polls that count are an interval apart; a device's newest refresh token is accepted; sessions implement `SessionLifecycle`. |
| `catalog` | Overlapping requests and a failure: active names are unique; a deleted row says who deleted it; the deletion of a row that nobody asks to restore is final, unless an edit had found the row before. One request at a time: an edit changes what it names; a delete reaches all children; managers create in their department and change only its clients and tasks. |
| `access` | While HR locks, deletes, reinstates, changes roles and passwords and revokes, at any moment: no login, refresh or call is answered that was to be refused, for one and the same reason, since it arrived; once a role no longer changes, calls are in the end answered under it only. |
| `reports` | For ranges with both ends, one, none, swapped, empty, or with times, and filters by department and employee: every entry asked for is in one cell and nothing else is; cells add up to totals within what rounding them one by one allows; the People cell covers the tables, whoever was archived between the two calls. |
| `listings` | A walk skips a row only if one left the list or its stamp is shared, repeats one only if one came in or its stamp is shared; each page is as full as the total says. |
| `stale_sync`, `poison_item`, `revocation_undone` | the findings below |

### Findings

* `stale_sync`: `sync()` reads an entry, HR corrects it, `sync()` saves. The
  second read of `save()` finds `manuallyEdited` true where the entity has
  false, so the flag and the duration go back to the desktop's, against the
  comment on the column ("permanently refuses").
* `poison_item`: an own item with a task that does not exist makes `save()`
  reject and ends `sync()`; the items behind it are dropped in every retry,
  against "validated/saved independently rather than all-or-nothing".
* `revocation_undone`: `refresh()` or `issueDeviceTokens()` saves a session it
  read or created before the revocation and writes `isActive` back to true.

Seen on the way and kept under the hazards of `PROJECT.json`:

* a pending poll that read the code before the confirmation saves `pending` over
  it, after the user was told that the device is paired (`ConfirmationStands` is
  checked for requests that do not overlap, and fails where they do);
* `changePassword()` holds the employee while bcrypt hashes, and its save writes
  back a lock, role or deletion made meanwhile;
* a device that polls too early while the employee who confirmed is soft-deleted
  makes `save()` write the empty relation back: after a reinstatement the code is
  confirmed for nobody and every poll answers 404 (`ConfirmationStands` names it,
  `OwnerDropped`);
* an update that read a row before its soft delete resurrects it
  (`DeletionsFinal` bounds it) and leaves `deletedBy` (`TypeOK` of `Listings`);
* a manager may move a task of the own department to any other, and give a new
  task a client of any department: `TasksService` compares the department only
  (`ManagersStayHome` says what remains);
* an employee archived between the two calls of a report is named in its People
  cell and has no table; the cells of its sheets are rounded one by one, so two
  days of 30 seconds have a total of a minute;
* editing a task whose client was archived clears its `clientId`, although only
  assign-client is said to change it (`EditsWhatItNames` names the exception);
* a failure between the save of an entry and of its audit row loses the audit
  row; every poll that retries a redeemed code adds a session, also after the
  first was revoked; a client whose creator was archived cannot be edited; a
  forced delete of a department leaves the tasks of its clients active;
* a report between two ends of which one has a time has totals but no day
  columns: `enumerateDateKeys()` appends a second time to it; a month or a date
  with a time after a blank, both of which the DTO accepts, make the query fail;
* the properties of reports need the database session to be in UTC: with
  `Zone = 1` TLC finds `HoursComplete` violated at either end of a range;
* rows archived by one forced delete share their stamp, and the audit list has
  no second key: between two pages they can change places.

What `save()` writes back is behind the first three and behind all findings but
`poison_item`.

### Bounds, and why they are enough

* Workers: two where requests overlap, since every hazard found needs two
  requests; one for the properties of requests that do not overlap.
* `MaxFailures` is 1 where failures matter (each failure ends one request
  between two of its calls, anywhere), 0 in the runs of a single finding.
* `MaxEdits` (HR requests, audited or under way) is 2: a correction of a
  correction, and two at once. Batches repeat without a bound.
* `DayLength` is 4 with entries inside and at the edge of a day.
* `Ttl` and `MaxTime`: codes outlive a poll interval and become overdue within
  the run, with a redeemed code retried before and after (`MaxTime` is 3 in the
  serial run, a code is overdue after 2). `MaxInterval` is the int column's limit, low enough that doubling
  passes it.
* `MaxCodes`, `MaxSessions`: in the serial run one code with two sessions, the
  second from a retry, so that sessions of one code and tokens of several
  seconds coexist; in the concurrent run two codes for one user code to draw.
* `MaxRows` leaves room for one new row beside the seed (two departments, HR
  and a manager, a client and a task); the requests let that row be a client of
  the same or of the other department, a department, an employee or a task.
  `Room`, `SessionRoom`, `HRWork` and `ManualRoom` keep requests under way
  within these bounds.
* `access`: one request at a time (what two do to a session is `DevicePairing`'s
  question), but two clients, and HR's changes between any two of its steps. An
  access token lasts until the next tick, a refresh token for two, so that a
  chain of refreshes outlives both.
* `reports`: days of four instants, entries in the last instant of a day and the
  first and last of the next, of lengths whose minutes and hundredths are cut and
  rounded in either direction; of every kind of end one.
* `listings`: three tasks and a client, pages of one and two rows, two writes
  during a walk: enough to move a row across the edge of a page and back.
* Workers are symmetric in `entries_concurrent` and `pairing_concurrent`; in the
  second employees too, where none is singled out. No run with a property of
  whole behaviours uses symmetry.

A passing run is evidence for its instance. All safety and action properties
are also proved for every instance (below).

### Fairness

`entries_live` and `poison_item` (`FairSpec`) and `access` need it. `Serve(w)` is weakly
fair for each worker: a handler whose database call is pending is resumed by the
event loop, and every call returns or rejects. `StartSync` of each request is
strongly fair: the desktop app keeps entries it has no acknowledgement for and
sends them again, whenever the server is free to take them. No fairness is
assumed of HR, and failures are bounded.

`Access` takes `Tick` and each worker's `Serve` as weakly fair: time passes, and
pending calls return. Clients need not do anything: `RoleCatchesUp` holds whether
they refresh for ever or stop.

## Proofs

All safety and action properties that the passing runs check are theorems too,
for all values of the constants that satisfy the assumptions named in the
modules. A theorem of `[]P`, of an action property, or of a property `[](P => []Q)`
(what has settled stays: `CorrectionSettles`, `OverdueCodesClose`, `DeletionsFinal`)
comes from an inductive invariant (`IInv` in each module): `Init` establishes
it, one lemma per action shows that the action preserves it, and it implies the
property. Most properties are far from inductive, because whether an UPDATE
leaves a good row depends on what its worker read some calls earlier; so every
`IInv` holds a `Phase` or memory part that says, for each value of `pc`, what a
worker may hold there.

Theorems that hold for overlapping requests, whatever fails:

| module | theorem | property |
|---|---|---|
| `TimeEntriesProofs` | `TypeCorrect` | `TypeOK`; above all that nothing stores an entry without an existing employee and task |
| | `EntryIdsStayUnique`, `EditTrailKept` | `EntryIdsUnique`, `EditTrail` |
| | `OwnEntriesStay`, `CorrectionsSettle` | `OwnEntriesOnly`, `CorrectionSettles` |
| `DevicePairingProofs` | `TypeCorrect` | `TypeOK`; above all that the doubled polling interval fits its column |
| | `CodesStayUnique`, `OverdueCodesGiveNothing` | `UserCodesUnique`, `OverdueCodesClose` |
| `CatalogProofs` | `TypeCorrect` | `TypeOK`; above all the NOT NULL links of clients and tasks |
| | `NamesStayUnique`, `DeletionsNamed`, `DeletionsAreFinal` | `ActiveNamesUnique`, `DeletionsAttributed`, `DeletionsFinal` |
| `AccessProofs` | `TypeCorrect`, `CutOffHolds` | `TypeOK`, `CutOff` |
| `ListingsProofs` | `TypeCorrect`, `WalkSkipsNothing`, `WalkRepeatsNothing`, `PagesAreFull` | `TypeOK`, `NothingSkipped`, `NothingRepeated`, `PagesFill` |
| `ReportsProofs` | `TypeCorrect`, `PeopleAlwaysCovered` | `TypeOK`, `PeopleCovered`; above all that no table is of somebody archived by the time of the query, and the People cell names no less than the tables |
| | `TablesAlwaysAddUp`, `HoursAreComplete` | `TablesAddUp`, `HoursComplete`, for a database session in UTC (`Zone = 0`) |

Theorems about requests that do not overlap, with failures and soft deletes in
between. The restriction is a hypothesis of the theorem (`OneAtATime`, that is,
at most one worker, in `TimeEntries`; `Workers = {w}` in `DevicePairing`) or
part of the property (`~overlap` in `Catalog`):

| module | theorem | property |
|---|---|---|
| `TimeEntriesProofs` | `CorrectionIsFinal` | `CorrectionFinal` |
| `TimeEntriesSerialProofs` | `ManualSpansHold`, `EndsStay` | `ManualSpanExact`, `EndNeverErased` |
| | `SyncIsAcknowledged` | `SyncAcknowledged` |
| | `HistoryAccounts` | `AuditLedger`, which speaks of states no failure has led to |
| `DevicePairingProofs` | `CodeHasOneOwner`, `DeviceStaysLoggedIn` | `OneOwner`, `NewestTokenAccepted` |
| | `ConfirmationHolds`, `PollsAreSpaced` | `ConfirmationStands`, `PollsSpaced` |
| | `LifecycleImplemented` | `ImplementsLifecycle`: the refinement of `SessionLifecycle`, initial states and every step |
| `CatalogProofs` | `EditsAreNamed`, `DeletionsReach`, `ManagersStay` | `EditsWhatItNames`, `DeletionReachesChildren`, `ManagersStayHome` |

The restriction is needed: `stale_sync` and `revocation_undone` show an overlap
break `CorrectionFinal`'s and `ImplementsLifecycle`'s promise, and the list under
*Findings* names others.

### The arguments

* `TimeEntriesProofs`. `Phase` says which kind of request a worker serves, that
  the row its entity came from exists, that a sync's entity is not marked as
  corrected and names no editor while a correction's does, and, for a correction
  about to be written, that the editor is among the dirty columns or already in
  the row. `WorkerStep` carries the part about the other workers, whose rows
  only change in place. `OwnEntriesStay` adds that the employee of the entity a
  worker carries is the user's or the row's (`Carried`), and that a row never
  changes its `localId`. For `CorrectionsSettle`, that nobody holds an entry which
  stands corrected is itself inductive: a sync that reads it from then on skips
  it, and nothing else clears the flag.
* `TimeEntriesSerialProofs`. With one worker, nobody changes the row under an
  entity that was read, so the entity is still made of what the row says
  (`InHand`): the dirty columns are the real difference, and the UPDATE stores
  the entity. For `SyncAcknowledged` each item the handler has passed is in the
  table (`AllAcked`), or replaced by a later item or a correction. For
  `AuditLedger`, `Ledger` follows the audit rows of an entry as a chain
  (`Chained`) whose last link is the row's duration (`EndsInRow`), or will be once
  the worker that stored the correction has written its audit row (`Pending`).
* `DevicePairingProofs`. Overlapping requests leave little certain about a code
  but its user code, its expiry, and the interval, which a statement refused by
  the column cannot store. `AloneInv` adds what one worker knows: its entity is
  an edit of the row as it is, which of poll, confirm, refresh or revoke made it
  decides which columns differ, and the token it is about to deliver is newer
  than those delivered. For
  `OverdueCodesGiveNothing`, time only grows and a code's expiry is never
  rewritten, so a code without a poll about to issue stays so (`IssuersStep`,
  `OverdueStays`). The refinement goes step by step: `InsertSession` opens,
  `WriteSession` rotates or revokes, every other step stutters.
* `CatalogProofs`. `RowsOK` is what indexes and NOT NULL columns say of the rows,
  `KeysUnique` follows since a statement is refused rather than stored. An edit
  never holds a deleted entity, since it was found undeleted; that is why a stale
  save may revive a row but never delete one without an author. Which edits can
  revive a row is a set that only finding the row undeleted enlarges, and a save
  outside it writes no `deletedAt` (`NobodyRevives`, `DeletedStays`). Serially, `Fresh`
  says that an entity differs from its row only by what the request names and by
  links whose target was archived; `AtHome` that the checks a manager's request
  passed are still true of the row it writes.
* `AccessProofs`. Which reasons to refuse its request a worker has found absent
  is fixed for each `pc` (`Cleared`); `shutOut` only loses reasons, so at the
  answer every reason the request arrived with is gone.
* `ListingsProofs`. The rows ahead of a row in the order of the list are its
  place, and page `p` of size `l` shows the places from `(p - 1) * l` on
  (`OnPage`). While no row leaves the list, a row that is owed never has fewer
  than `page * l` rows ahead (`Skipping`); while none enters, one that was shown
  always has fewer (`Repeating`). In the middle of a request the list is what
  its loaders have read so far and the present rows of the others (`Pool`), a
  set that only the writes change. Rows with equal stamps have no definite place
  and are excepted (`tied`).
* `ReportsProofs`. While HR reads a workbook, each of its numbers is the sum of
  the durations at the places in the table it stands for (`Reported`), which is
  an invariant because the query and the workbook are one step. That the pass of
  `buildPivot()` makes such a table is an induction over the entries found
  (`PivotRight`, with `RowAdded` and `GroupAdded` for one entry more), and what
  the properties say of it follows from cutting a sum by days or by tasks
  (`SumByKey`), itself an induction. Neither uses an induction theorem: if a
  claim failed for some subset of a finite set, it would fail for a smallest one
  (`SmallestSubset`). What a sheet shows of a sum is off by less than a minute, or
  by half a hundredth, per cell that shows any time (`CellRounds`, `Within`), and
  these errors add up over the cells (`CellsWithin`). `MatchesAsked` and `ColumnsRight` are the calendar: the
  instants the query compares with are the days that were asked for, and each
  entry found has a column.

### Assumptions

`IdsAssumption`, `InputsAssumption`, `NullIsNotUndef` (`TimeEntries`),
`PairingAssumption`, `CatalogAssumption`, `SeedAssumption`, `AccessAssumption`,
`ListingsAssumption`, `ReportsAssumption`, `DateRangeAssumption`: types of the
constants; that `null` and `undefined` are no ids, numbers or booleans; that the
requests are what the DTOs let through (so `UpdateTaskDto` cannot move a task: it
has no `clientId`); that the seed satisfies the tables' constraints; and in
`Access` that the workers are finitely many, for its `CapacityOK` counts them.
TLC evaluates each of them in the runs. `Zone = 0` is a hypothesis of two
theorems of `ReportsProofs`: with another zone they are false (*Findings*).

### Only model-checked

* `OwnEntriesArrive` and `RoleCatchesUp`: liveness under fairness.
* The three properties of the runs that expect a violation are false.

## Not modelled

* Columns and data no property is about: `lastHeartbeat` (merged as `endTime`
  is), `syncStatus`, `editedAt`, reasons and texts, `lastActive`, password
  hashes.
* In `DevicePairing`: access tokens and the expiry of refresh tokens (`Access`
  has both). Everywhere, tokens are taken to be unforgeable and hashes to differ.
* `findById`, `getAuditHistory`, the audit's `findOne` and the roles: one query,
  nothing merged. Of the lists, the filters that scope them to a role or a
  department, and the duration totals of tasks, which SQL computes.
* Of the workbook, its labels, layout and colours and the order of its rows and
  of the names in a cell.
* `main.ts`, modules, the steps of the seed script, validation pipes and response envelopes:
  the DTO sets of the models are what the pipes let through.
* `Catalog` keeps email and username as one key: both have a partial unique
  index of the same form, and are looked up together.

## Plan

1. An abstract ledger of corrections (an entry is tracked, then corrected, with
   its history) that `TimeEntries` implements when requests do not overlap.
2. Composition of `Catalog`'s employees and tasks with `TimeEntries`'
   `archived`, `DevicePairing`'s `standing` and `Access`' `account`, instead of
   steps of their environment.
