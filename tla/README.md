# O.D.I.N. — TLA+ models, checks and proofs

This directory specifies the parts of O.D.I.N. (a print-farm server: FastAPI, one SQL
database, monitor daemons that talk to printers) whose correctness depends on the order
of events: which requests, reports, threads, commits and crashes come between which. Paths
below are relative to the repository; line numbers are those of the code the modules were
written from.

Contents: [1 the system](#1-the-system) · [2 plan](#2-plan) ·
[3 modules and the code](#3-modules-and-the-code) · [4 runs](#4-runs) ·
[5 fairness](#5-fairness) · [6 proofs](#6-proofs) · [7 findings](#7-findings) ·
[8 what is not modelled](#8-what-is-not-modelled)

How to run: `tlc -config IdemSafety.cfg MCIdempotency`, `tlapm PrintTrackingProofs.tla`, and
so on for each pair of section 4 and each `*Proofs.tla`.

## 1 The system

Nine processes run under supervisord (`docker/supervisord.conf`): the API (uvicorn,
`--workers 1`), the MQTT (Bambu), Moonraker, PrusaLink and Elegoo monitors, go2rtc, the vision
monitor, the timelapse capture and the report runner. They share one database (SQLite in WAL
mode, PostgreSQL optional) and nothing else: the event bus (`core/event_bus.py`) lives inside a
process, and events cross processes as rows of `ws_events`. Within the API, middleware runs on
one event loop and synchronous routes run on a thread pool.

| component | state it keeps | operations | talks to |
|---|---|---|---|
| idempotency middleware (`core/middleware/idempotency.py`) | rows of `idempotency_keys` | lookup, claim, reclaim, finalize, mark uncacheable, release, prune | every mutating route, the hourly cleanup in `core/app.py` |
| dry run (`core/middleware/dry_run.py`) | none | short-circuits a route with a preview | inside the idempotency layer |
| Bambu tracking (`printers/monitors/mqtt_printer.py`, `mqtt_job_lifecycle.py`) | `_state`, `_last_gcode_state`, `_current_job_id`, `_linked_job_id`; rows of `print_jobs`, status of `jobs` | a report, a state change, start and end of a print, recovery after connect | the printer (MQTT), `error_handling.py`, the database |
| MQTT daemon and client (`mqtt_monitor.py`, `adapters/bambu.py`) | the monitors alive | replace dead monitors, reconnect | Bambu tracking |
| HMS errors (`notifications/error_handling.py`) | error history; fails `print_jobs` and `jobs` | process the codes of a report | called by the callback of Bambu tracking |
| dispatch (`printers/dispatch.py`) | status of `jobs` | read, upload and send, write | printers, job routes |
| scheduler (`jobs/scheduler.py`) | `jobs`, `scheduler_runs` | sweep stale schedules, assign pending jobs | job routes |
| job routes (`jobs/routes/*.py`) | `jobs`, `spools`, `spool_usage`, `quota_usage` | create, submit, approve, reject, start, complete, fail, cancel, reset, move, link, delete | scheduler, dispatch, inventory |
| polling monitors (`prusalink_monitor.py`, `elegoo_monitor.py`, `notifications/job_events.py`) | `_last_state`, `_active_print_jobs` (memory), `print_jobs` | a poll | printers, database |
| Moonraker monitor | `_current_job_db_id`, `print_jobs`, `jobs`, spools | a poll, restart, deduction, auto-link | printer, database |
| vision (`vision/detection_thread.py`) | last frames per kind, last alert | analyse a frame, confirm, alert, pause | go2rtc, printers, alerts |
| WebSocket hub (`core/ws_hub.py`, `core/app.py`) | `ws_events`, cursor, sockets | push, read since, clean up, broadcast | all processes |
| registry and module loading (`core/registry.py`, `core/app.py`) | providers | topological load, dependency check | all modules |
| authentication (`core/auth*.py`, `organizations/routes_auth.py`, `routes_oidc.py`) | JWTs handed out, `token_blacklist`, reset tokens, OIDC states and codes, `login_attempts` | login, second factor, logout, reset, OIDC, hourly cleaning | every route |
| organisations (`organizations/routes.py`, `routes_users.py`) | `users`, `groups`, `org_id` of printers | users and groups made, moved, promoted, deleted | every route's `check_org_access` |
| ITAR mode and webhooks (`core/itar.py`, `core/webhook_utils.py`, `notifications/mqtt_republish.py`) | the environment switch, the republisher's client | audit at boot, check, pin, connect | whatever leaves the server |
| inventory (`inventory/`), slots (`printers/routes_ams.py`, `routes_bambu.py`, `routes_filament_slots.py`) | spools, their use, filament slots | load, unload, use, weigh, assign, sync with an AMS | job routes, archive, printers |
| notifications (`notifications/`) | alerts, preferences, webhooks, quiet hours | raise, decide, tell | routes, monitors, digest |
| reporting (`reporting/report_runner.py`) | digest claims | the quiet-hours digest, scheduled reports | mail, webhooks |
| telemetry (`printers/telemetry/`) | a status per printer, old and new | reduce reports, compare the two | Bambu client |
| printer commands (`routes_controls.py`, `adapters/`) | columns of `printers` | pause, resume, stop, light | printers |
| printers and cameras (`routes_crud.py`, `camera_routes.py`, `route_utils.py`) | `printers`, `go2rtc.yaml` | create, update, delete, sync cameras | go2rtc |
| smart plugs, maintenance, setup (`smart_plug.py`, `routes_maintenance.py`, `routes_nozzle.py`, `routes_setup.py`) | plug columns and timers; tasks, logs, nozzles; `system_config` | switch, cool down; log, judge, fit; first account and printer | plugs, alerts, printers |
| models, orders, archives, timelapses | their tables and files | upload, schedule, archive, tag, film | jobs, spools |
| push, backups, licences, frontend, packaging | tables, files | I/O | — |

### Hard behaviours and the properties that matter

*Idempotency.* Retries overlap the original request, on the same worker or another; a claim can
be taken over after a watchdog; the row is settled by statements that do not check whose claim
it is; every statement can fail; a worker can die between the handler's commit and the row's
finalisation; the pruner works on the same rows. It is correct when at most one attempt
executes at a time, a replay is the answer to the same body under the same authorization, an
acknowledged 2xx blocks re-execution for the TTL, and the key never stays wedged.

*Print tracking.* Two threads of one monitor, the network thread with the reports and the main
thread recovering after connect, decide about the same row; reports are lost with the
connection; the monitor is replaced in mid-print; an HMS code fails the row the callback still
tracks; a transaction can roll back after the monitor's memory has moved on; a dispatch thread
and the scheduler write the same jobs. It is correct when a print has one row, no two rows
run, a row ends once and as the print ended, linked jobs follow their rows, no job moves back,
and every row and linked job ends.

*Job routes and scheduler.* Sync handlers on threads and a scheduler run read rows, and commit
much later an UPDATE that finds its row by key alone. It is correct when an operation
disturbs no column it is not about, a job's filament is deducted once, and every job created is counted
against its owner's quota.

*Polling monitors.* They learn only of changes between two polls, and the PrusaLink and Elegoo
ones remember the row of a print in memory only. Moonraker may not give a print a second running row
after an outage, and no end may be written to a row that has ended or is not the newest. That the newest
row is of the print that ended they do not ensure: a missed end or a refused start makes the next print
go on in the row of the one before.

*Events and WebSockets.* Rows between processes, read with a cursor and deleted by age: none may
be deleted unread, and each client gets them in order.

*Vision.* A thread stopped in the middle of a capture must not go on beside its successor.

*Digest.* Several workers, one delivery per recipient and window, whoever dies.

*Telemetry.* Two readings of partial, unordered reports must agree as far as the gate claims.

*Sessions.* What is spent stays spent at every door that looks it up, though the rows that say so are
deleted by a cleaner. Two doors do not look (section 7).

*Maintenance.* An hour is counted on the printer and then on its nozzle, in two transactions: the
nozzles may fall behind the printer, and must not run ahead.

*Organisations.* Two requests of administrators overlap; the administrator of a group
makes no superadmin and touches no other group.

*Shared files and names.* Cameras are synced by threads and processes that tell the time from a
file's mtime; uploads of one name look and insert in two steps; an order is scheduled while its items
change; a capture service forgets its clips when it restarts; quiet hours are cached per process and asked before the sending; a name is
resolved again after its check.

Every hazard, with its line and the property that covers it or the reason why none does, is in
`PROJECT.json` under `hazards`.

## 2 Plan

| step | module | what it adds |
|---|---|---|
| done | `Idempotency`, `MCIdempotency`, `IdempotencyProofs` | one key slot, all its statements and faults |
| done | `PrintTracking`, `MCPrintTracking`, `PrintTrackingProofs` | one Bambu printer with monitor, dispatch and scheduler |
| done | `PrintLedger`, `PrintLedgerProofs` | what any monitor promises of `print_jobs`, and that `PrintTracking` implements it, until a restart and through restarts |
| done | `OncePerKey`, `IdempotencyProofs` | what the middleware promises the attempts of one key, and that `Idempotency` implements it |
| done | `JobRoutes`, `JobQuota`, `SpoolLedger` | the routes on jobs with the scheduler beside them; the quota; the weights |
| done | `PollTracking` | the other three monitors |
| done | `EventHub`, `VisionWatch`, `DigestSends`, `TelemetryPaths` | processes and threads beside the routes |
| done | `Sessions`, `Organizations`, `Outbound`, `Onboarding` | who may do what, and where the server may connect to |
| done | `OrderBook`, `Library`, `ArchiveShelf`, `Timelapses`, `CameraStreams` | tables and files written by several routes |
| done | `Alerts`, `PrinterCommands`, `AmsSlots`, `SmartPlugs`, `Maintenance` | what goes out to people, printers and plugs, and what comes back |
| done | `MCFarm` | these modules beside each other in one run |
| open | an abstract job life cycle | `JobRoutes` and the jobs of `PrintTracking` as implementations of one specification |
| done | `PrintLedgerProofs` | `OneRowPerPrint` across restarts (recovery racing the first reports), `OutcomeFaithful` |
| done | `RoutesProofs`, `InventoryProofs`, `FarmProofs`, `DeliveryProofs`, `CollectionLemmas` | every safety property of the farm's modules, for every value of the constants, and the lemmas on sums, sequences and enumerations they need |
| done | in the modules of proofs there are | the type invariants of the farm, as one theorem of `MCFarm` |

No module declares a RECURSIVE operator, so each module can be proved about. Runs stay few:
each asks one question of the system, and components that share a question share a run.

## 3 Modules and the code

### Idempotency.tla

One slot `(key, user_id)` of `idempotency_keys`. `Req` are the HTTP attempts that carry the key;
a retry is another attempt with the same `hash`.

| in the model | in the code |
|---|---|
| `row = [state, stamp, resp]` | the table's row. `stamp` is the attempt whose claim or reclaim wrote `created_at`, `request_hash` and `auth_fingerprint`, always together (605-619, 660-672); `resp` the attempt whose response is stored |
| `pc` | the coroutine's place in `idempotency_middleware` (985-1306) |
| `seen` | the `created_at` a stale classification passes to `_reclaim_expired` |
| `age` | `now - created_at` in ticks, per claim; capped past the TTL, and not counted where nobody reads it |
| `answer`, `source`, `executed` | the response; whose response was replayed; whose handler committed. The last two are history, no guard reads them |
| `LookupMiss/Stale/Hit/Refused` | `_lookup_row` and the branches on its class (1119-1211). `Conflict` is decided before the TTL, the TTL before the fingerprint, as in the code |
| `TryClaim`, `LoserReplay`, `LoserRefused` | INSERT, and on a duplicate the second lookup by the loser, replaying or answering 409 (944-970) |
| `ReclaimExpired` | the UPDATE guarded by the observed `created_at`; a loser looks up again |
| `HandlerCommit/Succeeds/Fails`, `DrainFails` | `call_next` (external), its outcome, and an exception while the body is drained (1234-1240), which answers 500 and leaves the row pending |
| `FinalizeRow`, `MarkUncacheable`, `ReleaseRow` | the settling statements, WHERE `state = 'pending'` and nothing about ownership |
| `Prune` | both DELETEs of the hourly pruner |
| `Crash`, `Tick` | a worker dies with its coroutines; time |

*Atomicity.* From lookup to claim the middleware does not await, so a coroutine in `Holding`
keeps its worker's loop (`LoopFree`) while other workers interleave between the two statements.
The shipped configuration has one worker (`docker/supervisord.conf:21`); the model has two in the
safety run because nothing in the code enforces one. Sweeping and finalising statements take the
loop too. `HandlerBound` is the timing assumption of the comment at 94-107: every handler settles
within the watchdog. The longest in the tree are ffmpeg calls with time-outs of 300 and 600 s
against a watchdog of 900 s. The docstring of lines 34-36, the comment at 1218 and migration
005:28-29 still say 90 s.

*Left out.* Key syntax, eligible paths and content types, sizes; how hash and fingerprint are
computed (two attempts have equal ones or not). A handler that commits and then answers with an
error releases the row, so a retry executes again: the code chooses this, and `NoReexecution`
is about acknowledged attempts.

### OncePerKey.tla

The abstract specification of one key: who may run the handler (`running`, at most one), whose
effects are committed, whose 2xx is kept and for how long, and what each attempt was served. An
attempt may claim the key only when nobody runs and what is kept is older than the TTL; it
is served its own 2xx or a like attempt's kept one, once, and never loses it. `Idempotency` maps to it by
`Asked`, `Owners`, `executed`, `Kept` (the attempt whose response a completed row holds), `KeptAge` and `Served`
(whose 2xx each attempt was answered); coroutines, lookups and races, observed
stamps, workers, refusals and the row's states are hidden. `ServesOnce` is the implementation property. A
claim or a reclaim is `Claim`, a finalisation `Keep`, a 2xx answered without storing it `Answer`, a release, a
drain that fails and a crash `Quit`, each replay `Replay`, the pruner and the delete of a mismatched
row `Forget`; all else stutters.

### PrintTracking.tla

One Bambu printer. Prints are numbered; `file` is the job whose file is printed or `NoJob`.

| in the model | in the code |
|---|---|
| `printer`, `outcome`, `flagged` | the printer (external) and history: how each print ended, and whether a print-stopping HMS code was up during it |
| `online`, `wire` | the connection and the reports not yet handled. The client asks for a full report on every connect, hence `wire = <<printer>>` |
| `mon.st`, `last`, `cur`, `linked` | `_state`, `_last_gcode_state`, `_current_job_id` (0: None), `_linked_job_id` |
| `mon.pc` | between the HMS part of `_on_status`, its merge and `_on_state_change` |
| `mon.rec`, `snap`, `at` | where `_recover_orphaned_jobs` is and which rows it read before `sleep(3)` |
| `rows` | `print_jobs` of this printer in order of insertion, which is the order of `started_at`. `made` stands for the `jobs` row that `record_job_ended` inserts for an unlinked print |
| `jobs[j] = [status, here]` | the job and whether its `printer_id` is this printer's |
| `FailForStopCode` | `_fail_active_job_for_hms` on the codes merged so far, which precedes the merge of the new report. It is throttled by a comparison of keys, so the model lets it happen or not |
| `MergeReport`, then one of `ResumeRow`, `InsertRow`, `StartNotRecorded`, `RecordEnd`, `EndNotRecorded`, `NothingToRecord` | `_on_status` and the branch of `_on_state_change` it takes, each with the whole of `record_job_started` or `record_job_ended` and what the monitor keeps in memory afterwards, also when the transaction was rolled back |
| `Swept`, `Candidates`, `Matches`, `Bumped` | the sweep of schedules two hours old, the jobs that may be linked, the match by name, then by layer count or time (any candidate or none), the bump of scheduled jobs when nothing matches |
| `RecoverSelect`, `RecoverRows`, `RecoveryNotCommitted` | recovery before and after its sleep, on the main thread and without `self._lock` |
| `RunScheduler`; `BeginRun`, `CommitRun` | `Scheduler.run`, either serialised by the write lock its sweep takes, or with other writes between its read and commit (`SerialRuns = FALSE`) |
| `BeginDispatch`, `SendPrint`, `FailDispatch`, `MarkPrinting` | `dispatch_job`: the status check, the send, a failure, the write of `printing`, whose error is only logged |
| `StopMonitor`, `Connect` | the daemon drops a dead monitor (or the process dies) and makes a new one |
| `LoseConnection`, `Reconnect` | the MQTT client's own reconnect, in which the monitor object stays and no recovery runs |

*Abstractions.* When recovery wakes it reads `gcode_state`, sets `_current_job_id` and writes the
rows in one step. Heating up for a new print takes longer than those three seconds, so a print
that starts after recovery began is not RUNNING when it wakes (`HeatUp` and `mon.at`); without this
a first report of RUNNING could come from a later print. `PromptStatus` says that a report comes within the three
seconds. The `LIMIT 10` of the candidate query is ignored. `_try_dispatch` (735-743) changes no state: it
imports `printer_dispatch`, a module the repository does not have (so do
`moonraker_monitor.py:556` and `prusalink_monitor.py:108`), and logs the ImportError.

### PrintLedger.tla

The abstract specification: a sequence of entries `[print, status]`. A print is entered running,
after all older ones have ended and later in number than they, and a running entry ends once. In
`PrintTracking` the mapping `Account` takes each row to the entry with its print and status;
links, jobs, reports, threads and the monitor's memory are hidden. `KeepsLedger` is the
implementation property: an INSERT of `record_job_started` is `Enter`, the UPDATEs of
`record_job_ended` and of the HMS path are `Conclude`, all else stutters. It holds
while the monitor is not replaced and the database answers. Recovery may revise an end
(`track_recovery`), and a lost transaction may leave a row running that a later print then
resumes, so that the entry of one print is ended by another.

`Revisable` adds the one thing that a replaced monitor does to this account: `Revise`, the newest
entry, though it has ended, is completed. It is the write of a recovery that read the row running and slept
while the callback ended it. `KeepsRevisedLedger` is the implementation property with it, for any
number of restarts; that a revision hits the newest entry only, and none that runs, is what it says beyond
`OneRowPerPrint`.

### The farm's modules

Each of these models one component with a handful of rows. *Handler* below means a synchronous
route: it runs on a thread, reads, and commits later; where the read matters the module has
two actions, where it does not it has one.

| module | state | actions and the code |
|---|---|---|
| `JobRoutes` | the `jobs` table, the UPDATE each thread will flush (`call`), the scheduler run, deductions per job | `Begin...` is a handler's read and checks, `Commit` its UPDATE of the columns that differ from the row read (`jobs/routes/*.py`); `CompleteJob` locks (`jobs_lifecycle.py:78`); `BeginSchedule` and what follows are `Scheduler.run` for one POST /scheduler/run: stale rows flushed, which holds the writer's lock but shows nobody anything (`FlushStale`), one commit of all (`CommitFlushed`), or none (`PickSlots`, `CommitPicked`), and the returns before the commit, which roll the flush back (`RollBack`) |
| `SpoolLedger` | spools, slots, what each thread will store; `floor` is history | use, weigh, assign, load, unload, bulk, AMS sync, completion and archive (`inventory/routes/`, `archives/archive.py`): each stores an absolute weight |
| `JobQuota` | `quota_usage` per period, requests, jobs made | check, insert of the row, commit of the job, commit of the count (`core/quota.py`, `jobs_crud.py:329-457`), a new period, a crash |
| `PollTracking` | printer, `_last_state`, the tracked row, `print_jobs` | a poll and the branch it takes in `prusalink_monitor.py`, `elegoo_monitor.py`, `moonraker_monitor.py`; restart; a failed statement |
| `EventHub` | `ws_events`, the broadcaster's cursor and place in its loop, sockets | `push_event`, `read_events_since` with its cleanup, a send per client with an await after it, connects, a restart (`ws_hub.py`, `app.py`) |
| `VisionWatch` | the map of threads, each thread's last frames and place, detections | the daemon's scan, a frame, the record of a detection, the pause sent and marked, reviews, each an UPDATE that asks for a pending detection (`vision/`) |
| `DigestSends` | windows, claims, deliveries, workers | poll, claim by a unique row, deliver, write the outcome, die (`report_runner.py:387-685`) |
| `TelemetryPaths` | the V2 status, the legacy one, the simulated one | a full or partial report through all three, connection changes, a clock set back (`telemetry/`) |
| `Sessions` | credentials, `token_blacklist`, open tokens, the account, failed logins | login, second factor, logout, reset, OIDC, the cleaner, a restart; `Accepts` is what each door asks of a credential, the routes their table, /ws and the perimeter the signature and expiry only |
| `OrderBook` | one order, its items, product, stock and beds | `ReadOrder` then `CommitSchedule`; items and products change between (`orders/routes/`) |
| `CameraStreams` | printers, `go2rtc.yaml` with its age, syncs | build, compare, cool down, write, restart (`route_utils.py:145-301`) |
| `Library` | models, print files, uploads in progress | an upload between its awaits, variants, deletions (`models_library/routes/`) |
| `Timelapses` | the printer's jobs with status printing and the last started, clips, frames, the service's memory | a tick of the service, encoding, finalising the stale clips, each by the status of its own job, a tick that raises, a restart (`timelapse_capture.py`) |
| `Alerts` | preferences, alerts, quiet hours with their cache, a dispatch | both ways of raising an alert, the decision, the sending (`alert_dispatcher.py`, `alert_dispatch.py`, `quiet_hours.py`) |
| `Outbound` | what names resolve to, requests, the republisher | check, pin, connect (`itar.py`, `webhook_utils.py`, `mqtt_republish.py`), by a caller that looks names up in its own thread, by OIDC's asynchronous client (`async`), whose lookup does not see the pin, by `safe_post`, and by those who have no pin |
| `PrinterCommands` | the printer, its row, requests, the shared client id | pause, resume, stop, light through each adapter; the monitor's report beside them |
| `Organizations` | users, groups, printers' organisations, callers as authenticated | the administration of users and groups |
| `ArchiveShelf` | archives, projects, a tag route's rows | archive a print, tags read and written in two steps, projects |
| `AmsSlots` | a slot's row, the tagged spool, syncs | read the printer, look for the row, store; edits by hand |
| `SmartPlugs` | the plug and its columns, timers, calls | commands by route, hook or timer; `wired` says whether the hooks hear the monitors |
| `Maintenance` | two hour counters, tasks, logs, nozzles | count, log, judge, fit a nozzle |
| `Onboarding` | the first accounts and printers, the mark of the end | each route's question and its deed |

What some of them take for granted:

- Statements that begin with a comment sign, which SQLite refuses, are accepted in the passing runs of
  the tracking modules (`Refused = {}`) and in `Timelapses`, `PollTracking` and `DigestSends`;
  `track_refused` shows what happens without that, and `Sessions` and `Alerts` have the refusal in the
  model.
- `ColumnsSurvive` speaks of the columns that a request does not set. The status itself belongs to the
  later writer: an operator's cancel between the read and the commit of a start is lost, and the
  module has this behaviour.
- `NeverOvercharged` says that no gram is taken twice. A deduction may be lost, when two writers
  computed from the same row.
- `EveryJobCounted` does not say that the quota holds: two requests that look at the count together
  pass it together.
- `EndsNewestRow` does not say whose print the newest row is of. After an end that was missed Moonraker goes
  on with the row of the print before, after a start that was refused PrusaLink and Elegoo do; the module
  has both behaviours and the hazards name them.
- `SpentStaysSpent` says that the routes, the second factor and the handlers that redeem a row refuse what was
  taken back, and that the doors that only decode take a spent token until it expires.
- `PinsHold` says what a pin is worth: local in ITAR mode for a caller in its own thread, and for `safe_post`
  never local. In ITAR mode `safe_post` refuses a public name at its check and a local one when it pins, so
  what it connects to is an address the name has moved to between the two, a public one. Of OIDC in ITAR mode
  nothing is promised.
- `NozzlesBehind` compares the nozzles with `odometer` (`printers.total_print_hours`); `CapturesEnd` is about the job a clip was made for, so a job that is left printing
  (`track_dispatched`) keeps its clip open.
- Nothing is claimed of quiet hours but their types. A dispatch asks and then sends, so it may tell people after
  they have begun, and a failing read is cached as switched off.
- `ColumnsSurvive` says of a request that it changes no other job, which one job cannot show; the theorem
  says it for any number of jobs.
- `UploadsShareModels` holds because an upload does not await between its look and its INSERT on
  one event loop; a second server process would break it.
- In `VisionWatch`, `PollTracking`, `PrinterCommands`, `Maintenance` and `SmartPlugs` the printer, the nozzle
  and the plug are external and do what they like.

## 4 Runs

`PROJECT.json` lists the configurations. Every property of a passing run is also violated by a
seeded fault (the operators named `...Fault` in the modules): guards dropped, off-by-ones, a
forgotten table.

| run | instance | question |
|---|---|---|
| `idem_safety` | 3 attempts, 2 bodies, 2 fingerprints, 2 workers, watchdog 1, TTL 2 ticks, database errors | implements `OncePerKey`: one owner, faithful replay, acknowledged rows kept |
| `idem_live` | 3 attempts, 1 worker, crashes, database errors | the key is not wedged, everyone is answered, no re-execution within the TTL |
| `idem_dryrun` | 2 attempts, dry run allowed | *violated*: a replay stands for an executed operation |
| `idem_uncacheable` | 2 attempts, database errors | *violated*: an uncacheable 2xx blocks later executions |
| `track_safety` | 1 job, 2 prints, 2 reports waiting, stop codes, 1 dispatcher, scheduler with a gap | implements `PrintLedger`; ends as printed |
| `track_faults` | 1 job, 2 prints, stop codes, database errors, 1 restart, recovery may hear nothing | jobs follow rows, ends are final (both until the restart), jobs move forward (always) |
| `track_restart` | 2 jobs of one model, 2 prints, 1 lost connection, 1 restart | one row per print; implements `PrintLedger` with revisions |
| `track_live` | 1 job, 2 prints, 1 restart | every running row closes, linked jobs end |
| `track_dispatched` | 1 job, 1 print, 1 dispatcher | *violated*: a printed job ends, whoever started the print |
| `track_recovery` | 1 job, 1 print, 1 restart, stop codes | *violated*: recovery closes only running rows |
| `track_refused` | 1 job, 1 print, statements that begin with `#` refused | *violated*: a print that starts is tracked |
| `farm` | see below | the 19 properties of the modules of `MCFarm`, and the types of all 22 |

*Why the bounds are enough.* In Idempotency three attempts give an owner, a rival that reclaims
and a third that sees the result; two ticks of TTL against one of the watchdog separate in
flight, stale, cached and expired, the values `age` is compared with. In PrintTracking two prints give an
old row and a new one; two waiting reports let a state be overtaken by the next before the
callback has seen it; one restart and one lost connection put a gap anywhere; one job suffices where jobs
do not compete, and the run with competing jobs has two. The theorems below have no such bounds.

*What the passing runs leave out, and say so.*

- `HandlerBound <= Watchdog`: a handler slower than the watchdog, whose claim is taken over while it runs, is
  out of reach of the runs and theorems that assume it. The code bounds the handlers (300 and 600 s against 900);
  if it did not, two would run.
- `flagged` excuses every print during which a stop code was up. A code that is still up when the next
  print starts fails that print's row, and `OutcomeFaithful` accepts it.
- `RowsClose` is checked with `MaxDrops = 0`, so that no end is missed by a lost connection.
- `KeepsRevisedLedger` lets the next print end a row whose end was missed, and lets the newest row be
  revised; that the recovery of a restarted monitor guesses how a print ended is allowed by it.

*What no run shows, and why.* With `PromptStatus = FALSE` and no other fault, `OneRowPerPrint` is
violated: recovery takes silence for an idle printer, completes the row of the print under
way, and the next report inserts a second. With one lost connection `RowsClose` is violated: a
print that ends while the client reconnects by itself keeps its row running until a later
print resumes that row. Both are hazards in the list. `EndsAreFinal`, `JobsFollowPrints` and
`PrintingConcludes` speak of the time before the monitor is first replaced: afterwards
recovery can overwrite an end (`track_recovery`), and it forgets the linked job.
`OneRowPerPrint`, `KeepsRevisedLedger` and `RowsClose` are checked without database errors, which
recovery and `_job_started` do not survive: a swallowed SELECT error inserts a second running
row, after a restart also one of the same print (until a restart `OneRowPerPrint` is proved
with database errors too).

Deadlock is checked in every run but `farm`: telemetry never stops in PrintTracking, and `Tick` never
does in Idempotency. The components of `MCFarm` really stop when their bounds are used up.

*The farm.* `MCFarm` is a sum, not a product: each behaviour picks one module in `part`, runs it from
every initial state it has, and leaves the others in one initial state. The modules name no
variable of each other, so a property of one holds of its own specification exactly when it
holds here, and one run of about 567,000 states answers for all of them. What two modules
both write in the code (a spool's weight, a job's status) is in the module that asks
about it: `SpoolLedger` has the completion of a job as an action, `JobRoutes` has dispatch, and
what `PrintTracking` needs of the jobs table it has itself.

The bounds of the farm, with what they let happen: one job, one handler's thread and a scheduler
run (a handler between the read and the commit of a run, and the reverse), two slots; one spool, two slots
and one route beside archive, AMS and completion; two requests at a quota of 2, two
periods, one crash; four rows of a polled printer; two events, two clients, an age of 2
ticks, two lives of the server; two vision threads, two frames in the history and two detections; two recipients, two workers, two windows and
one fault; two credentials; one item ordered 1 or 3 times at two to a bed (a full and a
last bed); two syncers of one camera; two uploads of one name; two jobs of the filmed printer, two clips and one
restart of the capture service or tick that raises; one request out at a time to one name; one request to a
printer beside its monitor; two requests to users of two groups; one archive, two tag names; two slot syncs; one
cooldown timer; one hour printed, two fitters, two nozzles; two visitors of the setup. Larger
instances of single parts were run on their own with the same answers: two threads in `JobRoutes`
(2.3 million states, safety only), three requests at the quota, two cooldown timers.

## 5 Fairness

*Idempotency* (`FairSpec`). A coroutine that has been looked up, and its handler, run to their
end (the event loop and the thread pool are fair); the hourly pruner is a periodic task and
keeps running; time passes. Nothing obliges a client to send a new attempt, and nothing
prevents crashes. `KeyNotWedged` needs the pruner: a crashed attempt's row is otherwise
left to the next retry, which may never come.

*PrintTracking* (`FairSpec`). The callback handles what has arrived and finishes what it has
begun; recovery wakes; the client and the daemon reconnect; a dispatch thread finishes. The
printer heats up, resumes and finishes eventually: these are strongly fair because `MaxWire`
(a bound of the model) and repeated pauses disable them again and again. Weak fairness would let
a print be paused forever, which is an operator's choice and no fault of the monitor. No
fairness is assumed of a print's start, of stop codes, or of the scheduler.

*Farm* (`FarmSpec`). Of one process only is anything asked: the capture service is a loop that catches what
a tick raises, and supervisord starts it again when it dies (`docker/supervisord.conf`), so `ServiceStep` is
weakly fair, for `CapturesEnd`. How often it dies or a tick raises is bounded (`MaxStops`): a database that
refused every statement for ever would end nothing. No other part is obliged to do anything. In particular
the scheduler has no loop of its own: `Scheduler.run` is called by POST /scheduler/run and by nothing else
(`jobs/scheduler_routes.py:36-51`), so a schedule whose time has passed may keep its slot for ever and
no property says otherwise.

## 6 Proofs

`tlapm` checks the eight proof modules completely; nothing is assumed but the ASSUMEs of the modules
and the hypotheses named here.

### IdempotencyProofs

| theorem | statement | hypothesis |
|---|---|---|
| `TypeCorrect` | `Spec => []TypeOK` | — |
| `SingleOwner` | `Spec => []OwnerHoldsRow` | `HandlerBound <= Watchdog` |
| `ReplaySound` | `Spec => []ReplayFaithful` | `HandlerBound <= Watchdog` |
| `ResponseOwn` | `Spec => []ResponseMatchesStamp` | `HandlerBound <= Watchdog` |
| `AckedDurable` | `Spec => []AckedKeepsRow` | `HandlerBound <= Watchdog` |
| `AtMostOncePerTTL` | `Spec => NoReexecution` | `HandlerBound <= Watchdog` |
| `ServesOncePerKey` | `Spec => ServesOnce` | `HandlerBound <= Watchdog` |

`OwnerHoldsRow` is not inductive. The invariant `IInv` adds `OwnerInv` (an owner's row is pending,
has its stamp, and its claim is not older than `HandlerBound`, so no lookup, reclaim or prune finds
it stale), `StampInv` (the stamp of a row is of an attempt that owns it or is over), `SeenInv` (the
stamp that a reclaimer observed is of an attempt that is over and not acknowledged within
the TTL) and `AnswerInv` (only an attempt that is over has an answer). With these the settling
statements, which ask only for `state = 'pending'`, always hit the owner's own row; that a
stored response is its stamp's, that a replay is faithful and that an acknowledged row stays are
conjuncts of the same invariant. `ResponseMatchesStamp` is one of these conjuncts and has no run of its
own: `ServesOnce` implies what a client sees of it.

`ServesOncePerKey` is the refinement of `OncePerKey`. It needs of the concrete state, beyond `IInv`,
`RunInv`: an attempt that has yet to claim, or whose handler has just begun, has not committed, and one about to be
answered a 2xx has, unless it is a dry run. `ClaimStep` and `ReplayStep` are the two arguments that
are not a case of bookkeeping: whoever gets past the INSERT or the guarded UPDATE finds no owner and
nothing kept within the TTL, and what a lookup replays is exactly the response kept, of a like attempt.
The rest (`HandlerServes`, `SettleServes`, `EnvironmentServes`) goes action by action.

### PrintTrackingProofs

| theorem | statement | hypothesis |
|---|---|---|
| `TypeCorrect` | `Spec => []TypeOK` | — |
| `SoleRunningRow` | `Spec => []OneRunningRow` | `DbErrors = FALSE` |
| `EndsFinal` | `Spec => EndsAreFinal` | — |
| `JobsForward` | `Spec => JobsMoveForward` | `Dispatcher = {}`, `SerialRuns` |
| `JobsFollow` | `Spec => []JobsFollowPrints` | `Dispatcher = {}`, `SerialRuns` |

`TypeOK` is strengthened by `Bounds`: prints stay within their bound, a row the monitor tracks or recovers
exists, and recovery wakes only with rows it has read; otherwise the update of `rows[mon.cur]`
or the choice of the latest row would be undefined. `OneRunningRow` follows from
its pairwise form and from `RowsGrow`: a step appends one row or ends some, and it appends
only when its query found none running. No run repeats it: a second running row would be an `Enter` that neither ledger
allows. `EndsAreFinal` needs that recovery is idle until the
first restart (`NoRecovery`). For `JobsMoveForward` the invariant is `LinksBegun`: a job to which a row
or the monitor is linked has begun, so nothing the monitor writes to it takes it back.
`JobsFollowPrints` adds `CurLinked` (the monitor's link is its row's) and `UniqueLinks` (a job
is linked to one row, as it can be matched only before it begins): without uniqueness the end
of one row would change the job of another that still runs.

The hypotheses are not decoration. A dispatch writes `printing` to a job whose print may be over
(`track_dispatched`), and a scheduler run whose read and commit are apart may put a
printing job back to scheduled.

### PrintLedgerProofs

| theorem | statement | hypothesis |
|---|---|---|
| `RowPerPrint` | `Spec => []OneRowPerPrint` | `MaxRestarts = 0` |
| `RowPerPrintRestarted` | `Spec => []OneRowPerPrint` | `DbErrors = FALSE`, `PromptStatus`, `StopCodes = FALSE` |
| `KeepsItsLedger` | `Spec => KeepsLedger` | `MaxRestarts = 0`, `DbErrors = FALSE` |
| `KeepsLedgerRestarted` | `Spec => KeepsRevisedLedger` | `DbErrors = FALSE`, `PromptStatus`, `StopCodes = FALSE` |
| `OutcomesFaithful` | `Spec => []OutcomeFaithful` | `MaxDrops = 0`, `MaxRestarts = 0`, `DbErrors = FALSE`, `"end" \notin Refused` |

All rest on the order of reports. `Follows(x, y)` says that report `y` may be heard after `x`: its
print is not an earlier one, and if it is the same print, a resting `x` is followed by a resting `y`, an
active one by an active or resting one. `Stream` says that the merged state, the waiting reports and
the printer follow one another in this order, however many reports a lost connection drops.

- *One row, one monitor.* `Order` says that the rows are in the order of the prints, that none is of
  a print not yet heard of, and that while nothing is tracked the print of the last row rests; so
  when a start is seen with nothing tracked, it is that of a newer print.
- *One row, any number of restarts.* `Order` fails when a new monitor has heard nothing and the
  rows were written by the one before it. `Accounts(x)` puts the same facts on a report instead: no
  row is of a later print than the report's, and one of its own print that has ended means that the
  report rests. `Heard` says that the printer, every waiting report and the merged one (when there is
  one) account for the rows, whoever inserted them. Recovery, on the main thread, and the callback,
  on the network thread, both write rows; `SoleSnap` with `OneRunningRow` says they mean the same one.
  Each hypothesis is needed: a new monitor whose query fails inserts beside the running row; with no
  report within recovery's wait the row of a print that goes on is closed as completed, and the
  next report starts a second one; a stop code ends a row while its print goes on (`Silent` says
  none has been heard). `track_restart` checks the property under the same hypotheses; with any
  one of them dropped TLC finds a print with two rows on that instance.
- *The ledger.* The initial states map to the empty ledger and each step of the monitor maps to
  `Enter`, `Conclude` or a stutter; that no older entry runs when a print is entered is
  `OneRunningRow`'s query, which must not fail.
- *The ledger, any number of restarts.* A recovery writes to rows it read three seconds ago, so the proof
  must say that the row it read is still the newest. While recovery sleeps no print newer than that of its
  start is active, since heating up takes longer: `Slow` says so of the printer, the waiting reports and the
  merged state, so nothing inserts a row meanwhile (`NoneInserted`). `SnapNewest` (the row recovery has
  read is the last) and `RunningNewest` (a running row is the last) then hold together. What recovery does is to leave the
  row (the print goes on), to conclude it, or, where the callback was faster, `Revise` it.
- *Outcomes.* `OutcomeFaithful` compares a row with an outcome the printer had reached long before
  the row ends. `Chain` says that while no connection is lost consecutive reports are `Steady`: an
  active print is followed by itself, still active or resting with its outcome. `HeardOut` says that
  a running row is the one tracked, of the print last heard of, and that once its end has been merged
  the callback that handles it runs next, with the print's outcome in its hands. `FlagsHeard` says that
  a stop code that waits was raised in the print it is reported with. A lost connection may swallow
  an end and the next start, a restart guesses the end it missed, a failed statement loses an
  end, and a row whose end is refused runs on into the next print, whose stop code fails
  it: with any one of the hypotheses dropped TLC finds a row with another's end.

### CollectionLemmas

`SumFunction`, `FoldFunction` and the rest of the community modules' folds are defined by a CHOOSE and
a recursive function over sets, about which tlapm's library states nothing. Induction over
the naturals is available as a set: `NatInduct` says that a set of naturals which has 0 and with
`k` also `k + 1` is `Nat`, so an induction becomes a proof about `{k \in Nat : ...}`. With it the module proves
that an iteration (`Iterated`), an enumeration of a finite set (`Enumerated`) and a sum
(`SumsExist`, `SumsCommute`: the sum does not depend on the order of picking) exist; that `SumFunction`
is 0 on the empty function, takes one element off (`SumTakes`), changes by the difference under
EXCEPT (`SumExcept`); and that the sum of a sequence grows by what is appended or concatenated
(`SumAppend`, `SumConcat`).

### The farm's modules

| module | theorem | statement |
|---|---|---|
| `RoutesProofs` | `ChargedAtMostOnce` | `JobsSpec => []ChargedOnce` |
| | `LateCommitsKeepColumns` | `JobsSpec => ColumnsSurvive` |
| | `JobsAreCounted` | `QuotaSpec => []EveryJobCounted` |
| | `OrganizationsTypes` | `OrganizationsSpec => []OrganizationsTypeOK` |
| | `ScopedAdminsStayWithin` | `OrganizationsSpec => ScopedAdminsStay` |
| | `SpentStaysRefused` | `SessionsSpec => []SpentStaysSpent` |
| `InventoryProofs` | `NoGramTakenTwice` | `SpoolSpec => []NeverOvercharged` |
| | `LibraryTypes` | `LibrarySpec => []LibraryTypeOK` |
| | `OneModelPerName` | `LibrarySpec => []UploadsShareModels` |
| | `BedsHold` | `OrderSpec => []BedsHoldTheOrder` |
| `FarmProofs` | `MoonrakerSoleRow` | `PollSpec => []MoonrakerOneRunning` |
| | `EndsNewest` | `PollSpec => EndsNewestRow` |
| | `OneThreadPerPrinter` | `VisionSpec => []OneThreadGoesOn` |
| | `TelemetryTypes` | `TelemetrySpec => []TelemetryTypeOK` |
| | `ParityGateKnows` | `TelemetrySpec => []ParityKnown` |
| | `RestartsKeepApart` | `CameraSpec => RestartsApart` |
| | `NozzlesStayBehind` | `UpkeepSpec => []NozzlesBehind` |
| | `FarmTypes` | `FarmSpec => []FarmTypeOK` |
| `DeliveryProofs` | `DigestDeliveredOnce` | `DigestSpec => []DigestOnce` |
| | `OutboundTypes` | `OutboundSpec => []OutboundTypeOK` |
| | `PinsAreKept` | `OutboundSpec => []PinsHold` |
| | `EventsAreKept` | `HubSpec => []EventsKept` |
| | `ClientsGetOrder` | `HubSpec => []ClientsInOrder` |

None has a hypothesis beyond the ASSUMEs: any number of jobs, spools, threads, workers, users and
credentials, any bound.

- *Job routes.* `ChargeInv` says that a job is charged only while it is completed, and then once: the
  charge is made by an UPDATE whose WHERE asks for another status. `CallInv` and `RunInv` say that a
  statement waiting in a thread or in a scheduler run names columns of its own operation only.
  `IsTable` is needed because a row may be absent or deleted: a late statement must not make one.
- *Quota.* The jobs made in a period are those in its counter, those whose request is still about to
  count and those lost in a crash: the property itself is inductive with the types, but it speaks of
  the number of requests at a step, so each case is an argument about cardinalities of sets that
  gain or lose one request.
- *Groups.* `ScopedAdminsStay` needs the types only: each handler compares with the group of the
  caller it was given, so that it does not matter how old that is.
- *Sessions.* `SpentInv`: what has been spent was handed out, is on the blacklist or expired if it is a
  token, and is not in its table if it is a row, so that no door that looks accepts it; the cleaner deletes only expired entries and a
  new credential has a number of its own.
- *Spools.* `NeverOvercharged` is not inductive: a thread may hold a weight computed long ago.
  `RouteInv` says that this weight covers the account less what the thread is about to record, and
  `ArchiveInv` the same of the weights an archive has read. Both survive every other step because the
  account only goes down. The set of filament slots is assumed finite.
- *Library.* `UploadInv`: at most one coroutine is between the steps of an upload, since the event loop is
  held, and between its look that found no model and its insert there is none that an upload made, although
  threads rename and delete models meanwhile.
- *Orders.* A schedule is planned from what is read and committed later. `BedsAre` proves that
  the beds of `n` pieces hold `n` pieces, for any bed size (the last one what is left); with `SumConcat` a
  commit adds to the beds what it adds to the account. `PlanInv` keeps what the reader needs: the planned
  pieces are numbers however the products change before the commit.
- *Polling monitors.* What the monitor tracks is the newest row, and it runs, whichever print it was
  inserted for; for Moonraker no other runs. Starts append, and only an end of the tracked row or a restart gives it up.
- *Vision.* A thread that goes on is the one mapped to its printer, or is told to stop: a stopped one
  finishes its turn and never starts another.
- *Telemetry.* Once the older reading was told a `gcode_state` it is one of the four states that the
  table of known differences has rows for.
- *Cameras.* `RestartInv`: where a restart began less than the cooldown ago, the file is at least as
  young, so every process that looks at the file's age before it restarts sees it. Time passes by
  the same tick for the file and all processes.
- *Digest.* `ClaimsStand` says that a delivery begun has its claim, that a worker about to deliver
  has a claim nobody has delivered on, and that no two workers are about to deliver the same one: a
  claim is inserted once and never taken back.
- *Nozzles.* `HoursAhead`: an hour still to be counted on the nozzles was counted on the printer first, so
  every nozzle is an hour behind while it waits, the one fitted meanwhile too, since it begins at none.
- *Outbound.* `Pinned`: a request that was let through has the pins of its guard and what its check saw, and
  the guard's verdict still holds because the mode changes only with the process, which no request outlives.
- *Events.* `TableInv`: what the broadcaster has read and what lies ahead are every event pushed;
  `AheadIsYoung` says that between the SELECT and the cleanup of one turn nothing that lies ahead is old
  enough to be deleted. `LoopInv`: the list is walked while clients come and go, so `ClientsBehind`
  relates each client by its place: those passed have got the first message of the batch, those ahead
  have not, and all have only what is older than the rest. tlapm takes `SelectSeq` and `SortSeq` as opaque,
  so the module defines the two uses, `Without` and `RowsInOrder`, by what they return.

*The types of the farm.* `FarmTypeOK` says of 19 of the 22 components that, while they run, their tables,
requests, timers and caches have the values their columns and handlers allow (the types of the quota, the
events and the vision monitor are parts of `QuotaInv`, `HubInv` and `VisionInv` above). `FarmTypeInv` is
the inductive form, one conjunct per component; `FarmStepTyped` has one case per component, and leaves
the others alone because the modules name no variable of each other. For `digest`, `sessions`,
`timelapses`, `orgs` and `onboarding` the types are inductive as they stand. Elsewhere they are not:

- a value that waits in a thread must have the type of the column it will be written to: `CallsTyped`, `Clauses` and
  `RunTyped` of the statements about to be made on `jobs`, `RoutesTyped` and `ArchiveTyped` of the weights and
  slots a route or an archive has read, `StockInv` of the stock a plan will write;
- a number that is subtracted needs a bound of its own: a spool's weight stays natural
  because of `RouteInv`; a nozzle's hours stay within `MaxHours` because of `HoursAhead`;
- what a schedule commits must fit: `BedsHoldFew` says that no bed of `n` pieces holds more than
  `PerBed`, and none is empty;
- a table that an EXCEPT changes must be known to be a function with its domain: `PlugCalls`, `IsSync`, `IsSyncer`,
  `IsTagging` say this of the calls, syncs and requests of the smaller components, whose type invariants
  speak of their elements only;
- `PollTypeInv`, `TelemetryInv`, `LibraryInv`, `OutboundInv` and `AlertsTypeInv` take an invariant of
  the component's own: a tracked row must exist, and a dispatch must hold the rows it read.

The proof asks of the constants what the handlers take for granted and the modules now say: that readers
and order items are finitely many (`alert_dispatcher.py` and `orders` loop over them), and that bounds are
natural numbers. New alerts of a dispatch are an
enumeration of the readers that want one (`OrderedElements`).

### Model-checked only

Every invariant and action property of a passing run is stated by a theorem. The
liveness properties (`KeyNotWedged`, `EveryRequestAnswered`, `RowsClose`, `PrintingConcludes`,
`CapturesEnd`) stay with TLC: reasoning under fairness and ENABLED is out of
this prover's reach. So do the violated runs. Without the hypotheses of section PrintLedgerProofs `OneRowPerPrint` and
`OutcomeFaithful` do not hold of the code and are claimed nowhere.

## 7 Findings

| run | what the code does |
|---|---|
| `idem_dryrun` | `X-Dry-Run` is not part of the request hash and the dry-run layer is inside the idempotency layer, so a preview is cached as the result; the real request with the same key is answered with it and never executed |
| `idem_uncacheable` | an error of the UPDATE in `_mark_uncacheable` is swallowed and the 2xx returned: after the watchdog the key executes again, against the function's docstring |
| `track_dispatched` | `record_job_started` links only scheduled and pending jobs, `dispatch_job` has written `printing`: the job is not linked and stays printing |
| `track_recovery` | recovery's UPDATE by id overwrites an end recorded while it slept |
| `track_refused` | the SQL text of `record_job_started` begins with the Python comment `# nosemgrep`, which is inside the f-string; SQLite refuses the statement, the transaction is rolled back and the error only logged. No print is recorded |

Met by reading, without a run of their own, because no line of the repository promises otherwise,
because the code cannot be reached, or because reading the lines side by side says all a run would:

- /ws (`core/app.py:759-762`) and the perimeter of a server with an API key (`core/app.py:484-495`) take a token
  on `decode_token` alone, against `core/dependencies.py:99-103` ("Use this instead of calling `decode_token()`
  directly"): a session that was signed out passes both until it expires.
- In ITAR mode `safe_post` checks that a name is private and then asks `_resolve_and_pin` for a public one
  (`webhook_utils.py:145-153`). A private webhook is therefore always refused, against `itar.py:10-12` and
  `webhook_utils.py:255-257`, and a name that turns public between the two lookups is connected to.
- `oidc_handler.py` pins a name and then lets `httpx.AsyncClient` look it up (149-156, 217-218, 245-246, 281-283).
  asyncio's lookup runs in an executor that does not copy the context, which
  `tests/test_contracts/test_itar_mode.py:313-350` records, so the pin is not seen.
- The scheduler has no periodic run (section 5), and a run that finds no active printer returns before its
  commit (`scheduler.py:243-247`): the cleanup it flushed is rolled back with the session.
- Quiet hours are decided before the sending, and a read that fails caches them as switched off
  (`quiet_hours.py:51-55`).
- `_try_dispatch` imports a module that does not exist: automatic dispatch never happens.
- `uncacheable_success` rows match no prune, although `core/app.py:225-227` says the prune keeps the
  table from growing.
- Other statements that begin with `# nosemgrep`: `alert_dispatch.py:67` and `83`, `mqtt_printer.py:241`,
  `report_runner.py:147`, `timelapse_capture.py:75`, `presets.py:143`, `_record_session` (so that
  `active_sessions` stays empty). `record_job_ended` and Moonraker's `_job_ended` update columns no
  migration creates.
- The hooks of the smart plugs subscribe in the API process (`core/app.py:598`), the monitors publish in
  theirs. `on_print_start` returns before it cancels a cooldown when `auto_on` is off
  (`smart_plug.py:324`).
- `setup_create_admin` counts users before it hashes the password and inserts (`routes_setup.py:149`): two visitors
  with different names both become administrators.
- `delete_org` sets its members' `group_id` to NULL, which makes its administrators superadmins;
  `update_user` may demote the last administrator.
- A maintenance log stores the sum of job hours (`routes_maintenance.py:172`), the status compares the
  printer's own counter (`246`).
- `filament_slots` has no UNIQUE over printer and slot, and two syncs make two rows; two nozzles may be fitted; a tag
  renamed everywhere overwrites a PATCH made between.
- The routes write `PAUSED`, the monitors `PAUSE`, into the same column; the success of a Bambu command
  means that it was written to a socket.

## 8 What is not modelled

Components marked `not_modelled` or `partly` in `PROJECT.json`, each with its reason: push, migrations,
backups, licences, the frontend and packaging are I/O or data. In the modelled ones:
telemetry samples, spool snapshots, alert texts, formats of commands and files, colour matching and
scores of the scheduler (any assignment it could make is allowed), prices, and the printer list of the
daemon. Requests that are refused change nothing and are left out. A row of `jobs` locked by
`is_locked` is treated as any other (`jobs/models.py:65` is read by the scheduler only). `uvicorn` runs one
worker, so coroutines of the API are steps between awaits; `report_runner` runs once under
supervisord but documents sibling workers, and the model has two. Two printers share no state of the tracking but `jobs`, where
each monitor writes jobs with its own `printer_id`, so one printer is modelled and the rest of
the farm is what `RunScheduler` may do to the jobs.
