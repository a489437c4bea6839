# EMASS: state machines of the management server, checked and proved

The repository is the management server of a mail and message auditing product: a Spring MVC
application (`src/main/java/com/xcurenet`) on MySQL (MyBatis mappers under `src/main/resources`),
Solr/Elasticsearch for the messages, JSP pages and WebSocket pushes for the browsers. Most of it is
CRUD and query building. What can go wrong in ways a test hardly reaches lies in the places where
threads that know nothing of each other share a table row, a directory or a list: login requests,
scheduled jobs, sender threads and export threads. Those places are modelled here.

All paths below are relative to `src/src/main/java/com/xcurenet/` unless they begin with `resources/`
(`src/src/main/resources/`). `PROJECT.json` maps every definition to its lines.

## 1. Inventory

| Component | State | Operations | Who runs at once | Correct means |
|---|---|---|---|---|
| Account block (`login/web/LoginController`, `login/service/LockRelease`) | `UI_ADMIN.ACCESS_FAIL_CNT`, `password.fail.count`, sleeping `LockRelease` threads | `loginProcess` reads, judges, writes; a thread per block clears; account editing clears; startup clears all | Tomcat requests, release threads, the configuration page | every block ends; lost updates are bounded; the limit is enforced (it is not, see 6) |
| Session registry (`common/session/SessionManagement`) | static `ArrayList` of sessions, credential attribute of each | `setLoginEnv` scans, kicks, registers; two pages store a credential without it; a pass every 3 s removes; logout; container expiry | Tomcat requests, the scheduler, the container | a logged-in session is in the list; one session per operator under policy A; dead and idle entries go |
| Mail spool (`common/mail/*`, producers in `AlarmJob`, `EmsMessageController`, ...) | files `*.info`, `*.info.tmp`, body files, `SUCCESS` and `FAIL` directories; a pool per scan | producers write; `MailScanner` renames and reads; `MailSend` delivers and moves | producers, the scanner, senders of several scans | a claimed file has an owner; nothing is sent twice; the directory tells the outcome; every mail ends |
| Background exports (`EmsMessageDownloadBatchController`, `DownloadMonitor`, `DownloadDelJob`, `TomcatDestroy`) | rows of `UI_DOWNLOAD_BATCH`, export folders, zip files | export threads; cancel, remove; monitor; expiry; shutdown | a thread per export, browsers, three jobs | an offered file is whole; a cancel is kept; every row settles; folders go |
| Login gates (`LoginController` second factor, mail code, OTP, SAML; `AdminMfaScheduler`) | `UI_ADMIN_MFA`, session attributes | `loginMfaProcess`, `loginMfaResult`, hourly purge | browsers that overlap, the service, a job | a request replaces the one before, is accepted in time, logs in once, and goes |
| Quartz jobs (`common/schedule`) | the Quartz registry | `putJob`, `runJob`, `getJobList` | the admin page, Quartz threads | a job that was registered stays registered |
| Reservation alarms (`emass/reservationAlarm`) | `UI_ALARM`, `UI_ALARM_LOG` | `AlarmJob.execute`, insert, update, delete in two transactions | one scheduled thread, the clock, administrators | each alarm is executed at its hours, once, for the period its mail names |
| SNMP polling (`common/snmp`, `device`) | `SnmpPolling.devices` and the `DeviceVO` objects it shares | reload, rounds of status polls, polls of `SnmpController`, edits of the table | scheduled methods (they overlap, see 2), requests, poll workers | the list comes to be that of the table; a status shown does not go back to an older reading |
| SNMP traps | none between traps | parse, insert, push | a pool of two | - |
| Usage catch-up (`emass/analysis/service/AnalysisScheduler`) | rows of `UI_USAGE_COMPARE` by hour | hourly catch-up | one scheduled thread | every hour is stored once, with the counts of all its messages |
| Messenger timeline (`resources/static/js/messenger.js`, `messenger.jsp`, `MessengerController`) | the pages of the pane, two buttons, two masks, the read marks | open a room, page both ways, search | several requests of one page in flight | one room without gaps, both ends in reach, true texts, read means shown |
| Agent status (`agent`) | `AGENT_MGMT` | report, 30 s scan | HTTP requests, a job | an agent that goes offline is announced |
| Configuration cache (`common/util/config/Config`) | static maps | reload | readers in every thread | a reader sees an old or a new map |
| Imports, rule distribution, consent, search, parsers, administration, dashboards, audit, external clients, browser code | tables | CRUD, conversion, rendering | one request each | no state machine of their own |

How the parts meet: `LoginController.loginProcess` ends in `setLoginEnv`, so the account block hands
over to the session registry, directly or through the second factor, whose callback calls `setLoginEnv`
too. `AlarmJob`, the consent pages and the forwarding of messages are producers of the mail spool: the
`Write` of `AlarmMail` is what follows a `CreateMail` of `AlarmSchedule`. The configuration cache feeds
the limit of the account block and the session policy. `TomcatDestroy` touches the export table only.
The other pairs share nothing but the database.

### Hazards beyond those PROJECT.json lists

`PROJECT.json` holds the hazards that a property of some run would catch. Also seen, and without a
property:
- `LockRelease:36`: a thread of an earlier block wakes during a later one and ends it early. The model
  takes the step; the code promises no least duration.
- `LockRelease:34` multiplies minutes by 60000 in `int`; more than 35791 minutes wrap around.
- `MailScanner:46` looks at seven directories: a mail that waits longer is never sent.
- `DownloadMonitor:34` marks a listed row whatever has happened to it since.
- `DownloadBatchServiceImpl:97`: an export that is cancelled after it finished, or removed, leaves its
  zip on disk, since `DownloadDelJob` looks at rows with status Y only.
- `EmsMessageDownloadBatchController:311`: the names of the list files at the boundary of a file.
- `SnmpUtil:41`: three tries of thirty seconds against a limit of ten: a device that is down keeps every
  round at its limit and its worker is always interrupted. The model leaves the outcome of each poll open.
- `SessionManagement:142`: a request that arrives between the look at the idle time and the removal is
  logged out in use; the granularity of three seconds allows it.
- `MailScanner:62`: the first 50 names are taken in whatever order the file system lists them; files
  that fail and come back may keep others out. No liveness is claimed for crowded directories.
- `QuartzCronTrigger:35`: the old job is deleted before the new expression is parsed; `:63`: all manual
  runs share a trigger name.
- `AlarmJob:118`: the locale is a field of the job and carries over from alarm to alarm.
- `SolrCreateQuery:1889`: a period that ends a month ago ends at the beginning of its last hour, all
  others at the end.
- `AgentController:57`: two statements judge the 60 seconds each by its own clock.
- `Config:590`: the user maps are emptied before they are filled.

## 2. The modules

| Module | Models | Instances | Proofs |
|---|---|---|---|
| `AdminLock` | the account block | itself | `LoginProofs` |
| `MfaRequest` | the second factor by an outside service | itself | `LoginProofs` |
| `SessionRegistry` | the session registry and the duplicate-login policy | `MCSessionRegistry` | `SessionRegistryProofs` |
| `AlarmSchedule` | the hourly pass over the reservation alarms | `MCAlarmSchedule` | `AlarmScheduleProofs` |
| `MailLife` | abstract: the life of a mail in the spool | through `AlarmMail` | `AlarmMailProofs` |
| `AlarmMail` | producers, `MailScanner`, `MailSend`; implements `MailLife` | `MCAlarmMail` | `AlarmMailProofs` |
| `DownloadBatch` | export threads and everybody who writes their rows | `MCDownloadBatch` | `DownloadBatchProofs` |
| `HourLedger` | abstract: hourly counts, posted in ascending batches | through `UsageCatchUp` | `UsageCatchUpProofs` |
| `UsageCatchUp` | the hourly pass that fills `UI_USAGE_COMPARE`; implements `HourLedger` | itself | `UsageCatchUpProofs` |
| `SnmpPolling` | the device list, its reload and everybody who polls | `MCSnmpPolling` | `SnmpPollingProofs` |
| `Timeline` | the conversation pane of the messenger page | `MCTimeline` | `TimelineProofs` |

Definitions whose comment begins with *Faulty* are variants of an action with a plausible bug. They
are in no next-state relation; substituting one for the action it varies makes the property it is
paired with in `PROJECT.json` fail.

### AdminLock

`cnt` is the column, `limit` what `Config.getInt` returns, `at[r]` the locals of a request between
its statements (`seen`, the count it read; `lim`, the limit it compared with), `rel[t]` a sleeping
`LockRelease`. A failing request is `ReadRow`, `JudgeWrong`, `WriteCount`, and at the limit
`StartRelease`: four steps, since the code has no transaction and writes an absolute value; if the
`UPDATE` throws (`WriteFails`) the password was judged and nothing is counted. A succeeding one is `ReadRow`, `JudgeRight`, then `LoginOK` or `RefuseOther` (the gates in between,
which leave the count alone). `Wake`/`WakeFails` are `LockRelease.run` after its sleep; `LockTick`
is time; `EditAdmin`, `Rename`, `Reload`, `Restart` the other writers. `lost` remembers that a fault
destroyed a release, `fails` counts judged wrong passwords since the last reset, `unstored` those of
them that the database did not store; these only observe.

### MfaRequest

`pending[s]` is the session attribute that a right password sets. `Begin`, `DeleteAdminMfa` and
`InsertAdminMfa` are `loginMfaProcess`: a new request id, the deletion of the operator's rows, the new
row, three statements without a transaction. `Answer` is the service, once for a request; the browser
may `Deliver` an answer late, twice, or twice at once. `GetAdminMfa` and `DeleteAdminMfaByReqId` are
`loginMfaResult`, two statements again. `left[r]` is the time to `VALID_END_TIME`; at 0 a row is
neither valid (`> NOW()`) nor purged (`< NOW()`), as in the mapper. `ClearAdminMfa` is the hourly job.
`superseded`, `consumed`, `overlapped` and `raced` observe.

Left out: the other gates, each of which compares within one request with what its session holds; the
signature and expiry of the service's token; a restart, which loses the sessions and keeps the rows
(for the rows that is a browser that never comes back).

### SessionRegistry

`list` is the unsynchronised `ArrayList`, empty slots included. A for-each loop is a cursor with
`stale` standing for `ConcurrentModificationException`; `add` is a read of the size (`AddRead`) and a
store (`AddStore`), so overlapping appends lose entries or leave empty slots; `remove(i)` removes what
is at `i` by then. A login is `Start`, `ScanStep`\*, `Resolve`, `KickStep`/`KickOut`\*, `Create`,
`CheckStep`\*, `AddRead`, `AddStore`. `StoreCredential` is the page for the mailed code, which nobody has
to log in for (`updateStatus.xcn`), and its time-out (`deleteSession.xcn`): it gives the session a
credential with no look at the list, no policy and no entry. The pass is `SweepStart`, then `SweepGet` with `SweepDrop` or
`SweepOut` per index. Exceptions end a login or a pass where the code lets them. `blame` collects the
sessions hit by an accident the module names, so that a property can say there is no other; such a stored
credential is one of them.

Left out: visibility of plain fields between threads (every read sees the latest write), a change of the
list between `removeSession` and the `remove(i)` that follows it (one step in `KickOut` and `SweepOut`),
the resizing copy inside `ArrayList`, `setAliveTime` as more than `Touch`, and the list's use by the pages that
only display it.

### MailLife and AlarmMail

`loc[m]` is the name of the `.info` file: `info`, `tmp`, `SUCCESS`, `FAIL`, or `gone`, since both moves
first delete what lies under the name they move to. `stage[m]` is how far the
producer is; what a reader finds in the body before the writer is closed depends on the producer
(`Closed` ones close the body first) and on the size (`Large` ones overflow the buffer). `scan` is the
one scanner, `queue` and `created` the pool of its current scan, `snd` the senders alive, of that scan
or an earlier one. `Shutdown` is `shutdownNow` at the end of every scan. Delivery and move are
separate steps, because the code renames the file back to `.info` in between. A send succeeds
(`Deliver`), fails (`SendFails`), or fails although the server has the mail, because its reply or the
end of the connection was lost (`DeliverUnheard`, remembered in `unheard`): the code cannot tell the
last two apart and files both under FAIL.

`MailLife` is what the producers may expect: a mail waits, is taken, is delivered at most once and ends as
SUCCESS or FAIL, whichever happened, or is taken and put back unread; nothing comes after an end. Only a
delivery that the server did not confirm (`unheard`) ends in FAIL too. A mail
that is held can be `lost` (its task is dropped, or the server stops), or `contended` (a scan or a restart
finds it back under `.info` before it was moved), after which only deliveries are counted. `AlarmMail`
maps `life[m]` to these by the name of the file, the holders (`Holds`) and what the SMTP server accepted.

Left out: the ageing of directories past the seven scanned, attachments, the interrupt that
`shutdownNow` sends to a thread in I/O (SMTP I/O on sockets does not react to it), two servers on one
spool.

### AlarmSchedule

Hours are counted from the first day. `fired` says that the trigger of the hour (`0 10 * * * ?`) is
past; `Execute` reads the list of `getNowExecuteList`, `Take` computes the period that the mail will
name (`getStartDt`, `getEndDt`), `Search` asks Solr: for an hourly alarm about that period, for a daily
one about the period that `SolrCreateQuery` computes for itself. `CreateMail` writes the files or
swallows an `IOException`; `InsertAlarmLog` follows in both cases. `Fail` is an exception, which leaves
the loop, or the end of the process; `SkipHour` a server that is down or a pass that still runs;
`Tick` may come in the middle of a pass, whose later steps then see the new hour. `missed` records for
an alarm, an hour and a reason that it was not executed or not logged; `crossed` the hours whose pass
ran into the next one. An alarm has an identity besides its number, because numbers are given again.

Left out: the weekly cycle (the condition of the mapper does not ask for `ALARM_CYCLE = 'W'` there),
periods that begin a week or a month ago, hours inside the days, alarms that are switched off, SMS and
push, messages indexed late, the locale. One step reads the clock once, where the code reads it for
each end of a period.

### DownloadBatch

`table` maps `DOWN_SEQ` to a status and the thread that inserted the row. The three handlers (ZIP,
CSV, PDF) are one program: `Bodies` are the exports that look at the status for each message, the
others write a list file. A page holds one message, and an export that makes a list and fetches the
messages as well is reduced to one of the two. What cannot be written is passed over, and the export
ends with Y all the same: `SkipMessage` is a message, `CloseFails` the end of a list file; `skipped`
remembers what is missing. The folder is named after the second in which the
export starts: a new export gets the folder of the latest one or a new one. The administrator clicks
on a grid that may be old: `GetDownBatchList` decides by the row as it is, `CancelDownFile` and
`RemoveDownInfoData` act by the row as it has become. The monitor lists rows older than two hours;
since two hours may pass between any two steps it may list any live rows, and when the thread of a
listed row is alive that counts against `Outside`, like every click, failure, death and shutdown.
All administrators share `DOWN_SEQ` and the folders, so the exports may be anybody's; the duplicate check
compares those of one administrator, so `Condition` stands for the conditions and the administrator.

Left out: the copy of the table that the messenger exports use, the names and contents of list files, the
text columns and the columns of skipped messages (`SKIP_ROWS`, `SKIP_TEXT`), which nothing decides by.

### HourLedger and UsageCatchUp

`HourLedger` is what the statistics promise: a book of counts per hour, filled in ascending batches,
each posted as a whole, never changed afterwards, right except for hours named as lost. `UsageCatchUp`
is `AnalysisScheduler`: `BeginPass` finds `lastTime` from the newest row, `CountHour` the number of
pages, `StorePage` reads a page and `REPLACE`s rows, `PageFails` is a failed `REPLACE` (logged, the
loop goes on), `Abort` a failed search or a restart. The start of a page is passed to the search, which
has no regard for it (`searchAfter` asks for page 0): every page is the first 10000 messages again, so
that an hour of more is counted as 10000. The query of an hour includes the first second of
the next, which `sharp` counts; an hour without messages is stored as zeros under `lastTime`, whatever
hour it is. `blame` collects the hours that one of these accidents hits.

The refinement maps `posted` to the hours at or below a stored row that the running pass does not work
on, `book` to their values and `lost` to the blamed ones among them: a pass is one batch, which is
posted when it ends, wherever it ends.

### SnmpPolling

`devices` is the static list, a sequence of object identities; `heap` the `DeviceVO` objects, which
the list, a round of polls, a polling request and a late worker may share. The methods with
`@Scheduled` overlap: the message broker that `WebSocketConfig` enables brings a pool of scheduler
threads. `Reload` replaces the list by fresh objects; `Collect`, `GetDeviceInfo` start polls;
`Answer`, `Fail`, `Timeout` end them. Any poll may time out, as each does while a device is down, and
the interrupted worker may still write a status (`LateAnswer`). `Find` and `Set` are the comparison and
`devices.set`, between which the list may be replaced. `InsertDevice`, `UpdateDevice`, `DeleteDevice`
edit the table only: the pages of `DeviceController` reload another scheduler, so that an edit reaches
the list with the next `Reload`. Whether an address is free is a statement of its own (`CheckIp`), and
nothing in the table forbids a second row with it: two requests may give it twice. `mixed`, `torn`,
`loaded` and `had` observe.

A status is modelled by when it was read, before or after the device changed, and not by what it says: an
interrupted worker reads empty tables and writes NOT_CONNECT for a device that is up. That a status is
true is claimed nowhere.

Left out: `trafficStat`, the set commands before a poll, a request for a row that was deleted (a null
device).

### Timeline

A page of `#timeline_list` is a range of positions of a room with the kind of its first child, because
the code counts on that child being a message. The texts that stand among the pages ("no more messages",
"select a room") are a set of their own, since no handler counts them. Requests carry no identity, so an answer is applied to
whatever is shown when it arrives; `past` collects the mishaps that have happened: a stray or crossed
answer, the message that `checkDatePre` eats, a handler that threw, a page whose first `<li>` is a date
line (`headless`), the newest page cut off, a failed request, a room opened in part.

What the model rests on, found in the code: `messenger.jsp` has no `#scrollArea`, so the scroll handler
(`messenger.js:35`) never runs; the date line on top of a pane is itself an `<li>` (`xcnui_en.js:141`),
so that after Next has dropped a page Previous sends `date...` as an id; Next throws when the page that
becomes first begins with a `<div>` (`messenger.js:402`); a button is hidden by its click and comes
back only with a page; the messages of a handler that threw are marked read unseen.

Left out: the list of rooms on the left, the search type `GD`, `searchOffset`, which Next disturbs,
attachments, and the branch of an opening that continues at the message looked at last
(`MessengerController:322`): nothing stores that position, since one of its writers is the scroll handler
and the other is bound to `div.list-group-item` (`messenger.jsp:500`), while messages are `<span>`
(`messenger.js:1181`).

## 3. What the runs check

| Run | Instance | Shows |
|---|---|---|
| `lock_all` | 1 account, 2 requests, 2 release threads, limits 1 and 2, all faults | a blocked account always has a release on its way or a recorded fault (`LockHasReleaser`); the least count that can still be stored never falls (`FloorNeverFalls`); at most five wrong passwords are judged before a reset, and one more for each that the database did not store (`FailuresBounded`); every block ends (`BlockIsTemporary`) |
| `mfa_all` | 2 operators, 2 browsers, 2 requests, 2 deliveries | `OneRequestPerAdmin`, `InTimeIsAccepted`, `UsedOnce` up to overlaps; a request in time loses its row only to its own answer or to another start of its operator (`KeptForItsAnswer`); no row stays (`RowsGo`) |
| `sessions_race` | 2 sessions, 1 operator, 2 logins, policy A, idle sessions, expiry, failing messages, stored credentials | the named accidents are the only ways off the list (`RegisteredOrBlamed`); a kick reaches every session it began with (`KickReachesAll`) |
| `sessions_live` | 2 sessions, one login at a time, policies A and B, idle, logout, failing audit rows, stored credentials | an operator keeps one session unless the scan was cut short or a credential stored without it (`OneUnlessBlind`); dead and idle entries leave the list (`EntriesGo`) |
| `sessions_new_first` | 2 logins, no other event | **violated** `OnePerAdmin`, see 6 |
| `alarms_all` | 2 alarms, 2 days of 2 hours, a silent hour, 1 edit, 1 fault | every alarm is executed at its hours or for a named reason not (`EveryHourIsReported`); none is kept back unsent, none sent twice a day but after an edit that the log did not show (`LogDecides`); the mail names what was searched (`SaidIsSearched`) and overwrites none (`MailsAreKept`) |
| `mail_safety` | 2 mails in 2 directories, 3 senders, pool of 1, SMTP failures, crashes | a `.tmp` file has an owner (`TmpIsOwned`); a mail is sent twice only through the window of the rename, and SUCCESS and FAIL are honest but for replies that were lost (`DeliveryIsHonest`); the files lead one life for each mail (`ImplementsLife`) |
| `mail_closed` | 2 mails of producers that close the body first, pool of 2, no failure | no such mail fails by being read too early (`FailsOnlyIfTakenTwice`); every mail ends (`EveryMailEnds`) |
| `exports` | 2 exports of one result, 2 pages, 2 row numbers, 2 outside events | offered zips have all that could be written, and no folder is left over (`FilesAreWhole`); `SettledWhenDone`, `SeenStopIsKept`, `TwiceOnlyIfUnseen`, `EveryExportSettles` |
| `usage_all` | 5 hours, 2 messages each, pages of 2, 1 full-hour message, 1 fault | no hour is counted too high, and stored hours are right unless blamed (`RowsAreRight`); every hour is counted or given up (`EveryHourIsCounted`); the passes implement the ledger (`ImplementsLedger`) |
| `snmp_all` | 2 addresses, rounds, timeouts in any poll; with them two writes, a write and a delete, a delete and a request, a request and a late worker, or a change of the device with a failing poll | one entry for each loaded device in its place, old objects only from polls begun before the load (`ListIsRight`); a status goes back only where polls overlap (`GoesBackOnlyIfContended`); a device with an address of its own comes to be in the list for good (`ListRecovers`) |
| `timeline_all` | rooms of 6 and 1 messages, pages of 2, a window of 3 pages, 2 requests in flight | one room without gaps (`OneConversation`), both ends in reach and named truly (`EndsInReach`), `ReadWasShown`, up to the named mishaps; `MasksHaveOwners` always |

Several properties carry an excuse (`lost`, `unstored`, `blame`, `rescan`, `unheard`, `stranded`, `skipped`,
`missed`, `crossed`, `past`, `mixed`, `torn`, `overlapped`, `raced`, a shared `DOWN_SEQ` or folder, an
address given twice). Each excuse is a defect of the code that the state space contains: without it the property
fails, and the property says that the list of excuses is complete.

A property that is a conjunction has its parts as definitions before it (`EndsInReach` is
`NewestInReach`, `OldestInReach` and `TextsAreHonest`). The type invariant of `Timeline`, `AlarmMail`,
`DownloadBatch`, `MfaRequest`, `SnmpPolling` and `AlarmSchedule` is such a part; in the other modules a run checks it by its name.

`TwiceOnlyIfUnseen` excepts threads that share a `DOWN_SEQ`: of three exports the second can end up with
the number of the third and be judged by its row. `LogDecides` counts a mail that could not be
written as an execution, of its own day or, when the pass ran past midnight, of the next. Two exports, or
one fault, do not show either case; the proofs do, for any number.

### Bounds, and why they are enough

- `AdminLock`: the column belongs to one account, and accounts interact only through `limit` and the
  pool of threads. Two requests show every lost update; two limits show a change in either direction.
  `FailCap` is where the observer saturates, above the bound that `FailuresBounded` states. `ErrCap` bounds
  the stores of a count that fail between two resets; one shows that it costs one more password.
  `Releaser` bounds the sleeping threads: a request that finds none waits, where the code would start
  a third one; with two requests at most two starts are pending at once. The theorems hold for every
  value of these, except that `OverlapIsBounded` is about two requests.
- `MfaRequest`: two requests are the least of which one replaces or spares the other, two deliveries
  the least that overlap, two browsers the least whose starts do; a validity of one unit has all three
  cases of a comparison with the clock. The theorems hold for every value of these.
- `SessionRegistry`: `MaxLen` bounds the list (an append waits). 2 holds both sessions of the racing
  and of the live instance; 3 is what two logins without any other event can need. `Events` says
  which outside steps an instance has: with all of them two logins make a space too large for a run that is
  repeated with every change, so logouts and the time-out of the mailed code (`codeEnds`) are in the live
  instance and messages that fail in the racing one. The theorems hold for every set of events.
- `AlarmMail`: in `mail_safety` one producer closes the body first and the other writes a body that
  overflows its buffer, so that a scan in between delivers a part of it. `PerDir` and `Pool` are the same 50 in the code but bound different things, files of
  one directory and threads of the whole scan; two directories with one file each exceed a pool of
  one as 51 files exceed 50. Three senders cover two overlapping scans.
- `AlarmSchedule`: a day of two hours has a first hour and another one, which is all that
  `getStartDt` tells apart; it begins on the second day, so that there is a day before. Two alarms are
  the least of which one's failure drops the other; four hours let a daily alarm run on two days and be
  moved to a later hour of the second. One hour is silent. `Horizon` marks the end of the instance.
- `UsageCatchUp`: five hours hold a pass that lags, one that is cut off and the one that goes on after
  it; with pages of two messages an hour of two is read twice, as one of 10000 is in the code, and
  one of two and a full-hour message holds more than a page. The theorems hold for every value of these.
- `SnmpPolling`: two addresses are the least between which an index slips; a round and one request are
  two polls of an address. `Budgets` says what is looked at together, since with all of it at once the
  space is too large for a run: edits concern the list, changes and faults the status. Two writes of
  addresses are the least that give one twice. `lates` is how many interrupted workers are followed at a
  time; timeouts have no bound. The theorems hold for every set of budgets.
- `Timeline`: a room of three pages and a window of three; six messages make Next and Previous drop
  pages once the search opens the room in the middle. Two requests in flight cover every pair of
  handlers; `DayLength` 3 puts the change of date inside a page and at its edge.
- `DownloadBatch`: two threads are the least that share a row number or a folder; two pages are the
  least with a page that is not the last one. Two outside events cover a click that is decided and
  meets a failure, or a cancel and a removal; with three the invariants hold as well (three million
  states), which is too long for a run that is repeated with every change.
- The runs of `DownloadBatch` and `MfaRequest` do not check deadlock: an instance has a fixed number of
  requests and stops when they are served.
- Symmetry is used in `sessions_race`, which checks invariants, and in `mail_safety`, whose
  `ImplementsLife` is a property of initial states and single steps: the mapping treats the senders, which
  are the symmetric ones, alike, so a step and its image have the same verdict. No run with a liveness
  property uses it.

### Fairness, and why the code justifies it

- `AdminLock`: time passes; a started thread runs when its sleep is over; a request that wrote the
  count goes on to start its thread. Nothing obliges users. A limit lowered below a count blocks an
  account that no thread will clear, so `BlockIsTemporary` speaks of blocks under all limits in use,
  and ends with a recorded fault as well.
- `MfaRequest`: time passes and the hourly job runs. Nothing is assumed of browsers, of the service or
  of requests in progress, so every handler may also die at any step.
- `SessionRegistry`: requests run to their end, and the scheduler starts every pass
  (`fixedDelay` 3 s). A stream of logins that go on kicking can end pass after pass before its last
  entry; `EntriesGo` names it (`Kicking`).
- `AlarmMail`: the scanner is rescheduled for ever, producers that began go on, senders run. Nothing
  is assumed of tasks in the queue: `shutdownNow` follows the submission at once and usually wins.
  A mail that is never among the first `PerDir` names of its directory is not excluded by the code
  either, so `EveryMailEnds` is not claimed for crowded directories.
- `UsageCatchUp`: time passes up to `MaxHour` and what is due runs (`WF` of `Tick` and `PassOn`); faults
  are finitely many. After the last hour the job goes on firing.
- `SnmpPolling`: a poll ends, by answers or at its limit (`WF` of `PollEnds`, since `invokeAll` returns
  whoever answers), and its results are put into the list (`WF` of `StatusChange`); nothing is assumed of
  devices, of late workers or of requests, and no round has to begin. A reload happens again and again
  while no poll runs (`SF` of `Reload` with `Quiet`). The periods of ten seconds and five minutes drift
  against each other, since each counts from the end of its last run, and polls leave the list alone
  for part of every period; a schedule in step for ever is not excluded by the code and is excluded
  here.
- `Timeline`, `AlarmSchedule`: none; they have no liveness properties. Answers may be lost.
- `DownloadBatch`: threads run unless they die; the monitor comes back, lists rows that stay live and
  works through its list. Nothing is assumed of the administrator, the expiry job or the shutdown.

## 4. What is proved

`LoginProofs` extends `AdminLock` and `MfaRequest`, which share no variable. The account block, for every
set of accounts, requests and threads, every set of positive limits and every choice of faults, from
`ConstantsOK` alone:

- `LockTypeCorrect`: `LockSpec => []LockTypeOK`.
- `BlockedIsReleased`: `LockSpec => []LockHasReleaser`. The invariant is not inductive by itself: a
  request that stored a blocking count starts a thread because of the limit *it* compared with, so one
  has to know that this limit is one the configuration had (`LimitHeld`); then a count at or above
  every limit is at or above that one, and the request is on its way to `StartRelease`. `LockInv` is the
  conjunction with `LockTypeOK`; the other steps keep the thread or record the fault, and a cleared count
  is below every limit (`ClearedIsOpen`).
- `LostUpdatesAreBounded`: `LockSpec => FloorNeverFalls`, an action property from the same invariant: a
  step that stores a count stores at least the floor, a step that reads copies the column, and the
  steps that clear are excepted.
- `OverlapIsBounded`: `LockSpec => []FailuresBounded` when two requests overlap, for any set of limits
  that has a highest one, `L`: at most `L * (L + 3) / 2` wrong passwords are judged before the count is
  reset, besides those whose `UPDATE` threw. The count says little about the failures behind it, since each request can set it back to
  what the request read plus one. The inductive invariant (`FailInv`) therefore bounds the failures
  judged together with those still to come: `Twice` of the room left under the limit, and for each
  request a `Weight`, the room that its late store would give back, less what it has had counted
  already. A late store turns the weight into room (`StoreAddsNothing`, the heart of the proof), and
  what is to come is never negative (`NeverNegative`).

`UsageCatchUpProofs`, for every number of hours, messages, sharp hours and faults and every page size,
from `UsageConstants`:

- `UsageTypeCorrect`, and `RowsStayRight`: `Spec => []RowsAreRight`. The property speaks of hours at or
  below the newest row, and a row can lie above what has been counted, when a message on the full hour
  put it there. The inductive invariant therefore follows the `Front`, the hour being counted: no row
  lies above it, a row at it is blamed, every hour below it is settled (`RowsUpToFront`,
  `SettledBelowFront`), and the pass stays below the two newest hours (`PassInTime`), so that counts
  below the front are final. No row is too high, since a page holds at most what the hour has
  (`NoneTooMany`, `SharpAreCounted`).
- `UsageRefinesLedger`: `Spec => ImplementsLedger`. `Init` maps to `Init`; the end of a pass maps to
  `Post`, an arrival to `Arrive`, every other step of a pass to a stutter.

`LoginProofs` on the second factor, for any operators, browsers, bounds and validity, from `MfaConstants`:

- `AnswersInTimeAreAccepted`, `RequestsAreUsedOnce` and `RequestsAreReplaced`, for `InTimeIsAccepted`,
  `UsedOnce` and `OneRequestPerAdmin` (with the types), from one invariant. Its parts are: a start in progress
  holds a request of its own, without a row, a verdict or an answer (`StartsAreNew`); a request that
  was started to the end has its row, was superseded or consumed, or is out of date (`Accounted`),
  which gives the first theorem; what was consumed does not come back (`ConsumedIsGone`), so that of
  two calls that saw a row the second saw it before the first deleted it (`SeenByTwo`), the second; rows
  and starts of one operator side by side come from a race (`RowsRaced`), the third. There is a lemma for
  each action.
- `RequestsAreKept`, for `KeptForItsAnswer`: by `Accounted` a request in time without a row was consumed or
  superseded; that a consumed one was so by a call of its own (`ConsumedByCalls`), and a superseded one by
  another start of the same operator (`SupersededByOthers`), is a second invariant (`KInv`) on top of it.

`SessionRegistryProofs`, for any sessions, operators, threads, policies, faults and length of the list,
from `RegistryConstants`:

- `TypeCorrect`, `LoggedInIsListed` and `KickMissesNobody`, for `TypeOK`, `RegisteredOrBlamed` and
  `KickReachesAll`. The last two need each other: a kick removes an entry by its index, and the entry is
  the session it ended only if the list did not move. The invariant says what a kick still has below
  its index (`ReachesOK`), that an invalidated session has no credential (`CredOK`), and which fields
  a thread has set (`ThrOK`). Most actions are covered by two frame lemmas: a step lets nobody in
  (`NoNewLogin`), and a step keeps on the list whoever is logged in, or blames him (`ListKeeps`).
- `OneSessionPerOperator`, for `OneUnlessBlind`, from two hypotheses besides, `OneAtATime`: one login
  thread, and the policies A and B. With two logins at once the property is false, which the run
  `sessions_new_first` shows; a third policy admits several sessions by design. The invariant adds what
  the scan has passed over, what the kick has left and what the new session may still meet
  (`ScanOK`, `KickOK`, `CreateOK`). `sessions_live` is an instance of `OneAtATime`.

`AlarmMailProofs`, for any mails, directories, senders, pool and faults, from `MailConstants`:

- `TmpOwnership` and `DeliveryHonesty`, for `TmpIsOwned` and `DeliveryIsHonest`. The invariant says for each
  mail, until a scan takes it a second time, that its `.info` file has the `.tmp` name exactly while
  somebody has to put it back (`TmpWhileHeld`), that one of the batch, the queue, a thread and the
  stranded has it (`OneHolder`), that a delivered mail is on its way to SUCCESS (`DeliveredIsKept`), and
  one whose reply was lost on its way to FAIL (`UnheardFails`).
  Without these an ownerless file could not be excluded: the directory alone does not tell how many
  threads hold its name.
- `SpoolRefinesLife`: `Spec => ImplementsLife`. Each action of the scanner, of a sender and of a
  producer is one step of the life of its mail or a stutter; `Shutdown` and `Crash` are a `Mishap` of all
  the mails they hit. It uses the same invariant (`SenderKnows`: a thread whose mail was taken once is its only holder and
  knows whether it is delivered, or was not heard), and that a mail in `twice` is delivered.
- `ClosedMailSucceeds`, for `FailsOnlyIfTakenTwice`, if the server refuses nothing (`"smtp"` is not
  among the `Events`, as in `mail_closed`): such a mail is read whole or not at all (`ReadWhole`).

`DownloadBatchProofs`, for any exports, pages, row numbers and outside events, from
`DownloadConstants`:

- `WholeFiles`, `FinishedIsSettled`, `StopIsKept` and `TwiceMeansUnseen`, for
  `FilesAreWhole` (with the types), `SettledWhenDone`, `SeenStopIsKept` and `TwiceOnlyIfUnseen`. The invariant follows
  the pages of an export, less those passed over (`Whole`), from the loop to the zip (`PagesOnDisk`,
  `ZipWhenPacked`, `RowOffers`), says
  what a row tells of the thread that inserted it (`RowSays`), and, for two exports of one result, that
  the later one's check saw the earlier one or that one was over (`Checked`). Everything is up to
  a shared number, a shared folder or a removed row. A step of a thread is proved in three
  parts: its own facts, its row (`WriterRows`), and that all others keep theirs (`OthersKeep`, from the
  `Footprint` of the step). `OuterKeeps` is the same for the administrator, the jobs and the shutdown.

`AlarmScheduleProofs`, for any length of a day, horizon, silent hours, settings, edits and faults, from
`AlarmConstants`:

- `HoursAreReported`, `LogIsTrusted`, `NamedPeriodIsSearched` and `MailsHaveTheirFiles`, for
  `EveryHourIsReported`, `LogDecides`, `SaidIsSearched` and `MailsAreKept`. The invariant has the
  pass in the hour it began in, or that hour is marked (`PassOK`); an alarm of the start has its own
  number, whatever is deleted and inserted (`OriginalsOK`); each number is listed once (`ListOK`), from which no
  mail is overwritten; a log row follows a mail of that day, or one not written (`LogsOK`); and a daily
  alarm that is listed twice on a day was changed and its mail unseen (`AgainOK`). `ListedAgain` is
  the argument for the condition of `getNowExecuteList`. That the greatest number is well
  defined follows from the least-element theorem of the library (`MaxOf`).

`TimelineProofs`, for any rooms and lengths, any size of a page, of the pane and of a day, and any number
of requests in flight, from `TimelineAssumption`:

- `OneRoomShown`, `BothEndsInReach`, `OnlyShownIsRead` and `NoMaskStays`, for `OneConversation`,
  `EndsInReach`, `ReadWasShown` and `MasksHaveOwners`. What is shown is right only if the answer that
  makes it so was counted from the pane as it is now, so the invariant is about requests as much as
  about pages: until a stray answer is drawn, there is at most one request per direction, its button is
  hidden, and it was counted from the message that is still the last (the first) one, unless that page
  was dropped meanwhile (`NextAsked`, `PrevAsked`). With the pages in one room and in order (`SameRoom`,
  `Joined`), a button or a request for each end that is not shown (`NewestOK`, `OldestOK`), and the
  truth of the two texts (`NoNextOK`, `NoPrevOK`) that is `PaneOK`, which holds up to the named
  mishaps. `AppendShape` and `PrependShape` say what a handler makes of the pages, with all the cases of
  a page dropped at the other end.

`SnmpPollingProofs`, for any finite set of addresses with at least one, any table, requests, budgets and
number of late workers, from `SnmpConstants`:

- `ListStaysRight`, for `ListIsRight` (with the types). Objects are named by their address, and the
  invariant says so of all that is held (`HeapOK`), so that a comparison of addresses is one of names. The
  load gives one object to each row, because the order of `getDeviceList`, by address and then by number,
  gives each row a rank of its own also where an address was given twice (`Orders`, `RankIs`, by the pigeonhole
  principle), and a fresh name is none in use (`FreshIs`). What `Find` found is still at its place unless a
  reload came between (`PlaceOK`); old objects in a poll mean that the poll began before the load, or that
  one which did had put them back (`OldTasksOK`).
- `StatusGoesBackIfContended`, for the action property `GoesBackOnlyIfContended`, from a second invariant on top of the
  first (`StatusInv`). Two polls of one address, or a poll and a late worker, know of each other (`BesideOK`,
  `LateOK`); a request has its object for itself until it sets it (`OwnOK`); a round that nothing came
  between works on the list itself, but for addresses that two devices had (`RoundOK`, `Sole`), and so puts
  back what is there (`RoundPutsBack`); what a
  poll has not asked yet (`AskedOK`), and what others hold of its addresses (`OthersOK`), says no more than the
  device did when the poll began, and an answer no less (`DoneOK`). So an answer in time never says less than
  the entry it replaces; `Settled` makes the entries of a device those of its address (`SettledIs`). The steps that do
  not read a device are covered by one lemma (`QuietKeeps`).

The proofs changed what they were about in places. `TwiceOnlyIfUnseen` was false for three exports and
`KeptOnlyIfExecuted` for two faults; `AlarmConstants` and `RegistryConstants` lacked a condition that
every instance met (a horizon of at least a day; marks that are no sessions), and `SnmpConstants` lacked that
there is an address.

Only model-checked:

- liveness, which is out of reach of the prover: `BlockIsTemporary`, `EntriesGo`, `EveryMailEnds`,
  `EveryExportSettles`, `EveryHourIsCounted`, `RowsGo`, `ListRecovers`;
- nothing else: every safety invariant and action property of a passing run is a theorem. A bound like
  `FailuresBounded` for more than two overlapping requests (it is higher) is neither checked nor proved: it
  is a sum over the requests, which takes an induction over data.

## 5. Plan

What is left, in this order:

1. `Login`, which composes `AdminLock`, `MfaRequest` and `SessionRegistry`: a right password, the
   callback and `LoginOK` as one path to `setLoginEnv`.
2. Abstract specifications: the life of an export as its owner sees it (asked, running, one final
   outcome), implemented by `DownloadBatch` where no row number is shared; at most one session per
   operator, implemented by `SessionRegistry` when logins do not overlap.
3. Proofs: the refinements of 2.
4. `JobRegistry`: `putJob`, `runJob` and their failures.
5. `ExportPartition`: which pages go into which list file, as operators checked against a reference
   for all small totals.
6. `ResultGrid`: the paging and selection of the result lists in the browser (`messageGrid.js`).

## 6. Where the code and its promises differ

| Run | The code | The promise |
|---|---|---|
| `sessions_new_first` | scan, kick and registration are separate steps (`LoginController:636`): two logins with one id miss each other | the existing user is locked out (`message_en.properties:2432`) |
| (`lock_all` shows the bound that is left) | the count is read, and later stored as an absolute value (`LoginController:334`, `:412`): overlapping failures store the same number | the account locks after the specified count (`message_en.properties:2424`) |
| (`TmpIsOwned` names it `stranded`) | `shutdownNow` (`MailScanner:40`) forgets the tasks that wait for a thread; their files stay `.tmp` | the result is received by e-mail (`message_en.properties:166`) |
| (`SeenStopIsKept` says which stops are kept) | success is written whatever the row holds, and the status is not read after the last page (`EmsMessageDownloadBatchController:184`, `:208`) | "The export is cancelled." (`message_en.properties:2802`) |
| (excepted in `SaidIsSearched`) | a mail about the day before names a start that lies after its end unless it is sent in the first hour of a day (`AlarmJob:369`) | the mail names the period of its search |
| (excepted in `LogDecides`) | any log row of another day makes an alarm due again (`reservationAlarm.xml:256`), so from its second day on the log keeps no alarm back | the condition is there to execute an alarm once a day |
| (blamed in `RowsAreRight`) | the search has no regard for the start of a page (`SolrEdcServiceImpl:187`, `:369`), so hours of more than 10000 messages are counted as 10000 | the loop reads an hour page by page (`AnalysisScheduler:64`) |
| (`unheard` in `DeliveryIsHonest`) | a send that throws after the server accepted the mail is filed under FAIL (`MailSend:80`) | FAIL is the folder of mails that were not sent |
| (`DeviceIsInPlace` names it) | two requests may give one address twice (`DeviceController:178`, `:196`), and `statusChange` then puts both devices into the place of the first | an address is refused if a device has it |

The last eight have no run of their own: the properties named state what does hold.

## 7. Not modelled

Search, dashboards, statistics pages, CRUD of the administration pages, parsers and converters,
imports and the clients of external services have no state between requests worth a machine. The IPv6
package is a third-party library in source form whose address pool is not used. The Quartz registry is
in the plan; agent status and the configuration cache are small and come after it.

Of the JavaScript under `resources/static/js`, most files are libraries (lodash, codemirror, jQuery and
its plug-ins, SlickGrid, moment, zTree), and of the server's own scripts nearly all build tables and
dialogs for one request at a time. `messenger.js` is the one with a protocol of its own, and is
modelled; `messageGrid.js` is in the plan. The logic of the program is in Java and in the mappers. Data races on plain fields are modelled where
they change control (the list of sessions), not as stale reads of single fields.
