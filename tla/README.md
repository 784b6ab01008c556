# hiWaveTel in TLA+

hiWaveTel is an SMS gateway: a Django application that receives and sends SMS
through the modems of a host with ModemManager's `mmcli` and D-Bus, stores
them in SQLite or PostgreSQL, and notifies webhooks of them.  This directory
specifies the parts of it that are concurrent or must survive failures,
checks them with TLC on small instances, and proves with TLAPS, for every value
of the constants, the safety properties that the runs check, and that the
webhook queue implements its abstract specification.

    tlc -workers 4 -config OutboxRivals.cfg MCWebhookOutbox
    for m in *Proofs.tla; do tlapm $m; done

`PROJECT.json` lists the components, the runs, the hazards, the theorems, for
each definition the source lines it stands for, and for each property a
mutation of the model that breaks it.

- [The system](#the-system)
- [Modules and plan](#modules-and-plan)
- [Webhook outbox](#webhook-outbox)
- [Inbound pipeline](#inbound-pipeline)
- [Dead letters](#dead-letters)
- [Outbound dispatch](#outbound-dispatch)
- [Modem readiness](#modem-readiness)
- [Findings](#findings)
- [Proofs](#proofs)
- [Limits](#limits)

## The system

`docker/entrypoint.sh` brings up D-Bus, ModemManager and the database, runs
`sync_modems` and `wait_modem_ready --all`, and starts three kinds of process
that share nothing but the database and the modem:

    API process                 webhook worker process      watcher processes
    (views, outbound queue)     (run_webhook_worker)        (run_sms_watcher,
                                                             one per modem)
        |  \                       |                           |   |
        |   \__ save + on_commit   | claim, POST, finalize     |   | persist
        |        \                 |                           |   |
     mmcli    OutboundSms -> WebhookDeliveryJob <- InboundSms, dead letters
        |                                                          |
        +------------------ ModemManager, modems ------------------+

Paths below are relative to `src/apps/sms/` unless they say otherwise.

| Component | State | Operations | Talks to | What makes it correct |
|---|---|---|---|---|
| webhook job queue: `webhook_outbox.py`, `models.py` | `WebhookDeliveryJob` rows: status, attempts, updated_at | schedule, claim, bump, finalize, reset of stale rows; cascade | the signal (writes), the worker (claims) | a row marked DELIVERED was received everywhere; one worker per job; bounded attempts; verdicts are final; every job settles |
| webhook worker: `run_webhook_worker.py` | threads, each with an in-memory job | worker loop, start-up reset | queue, HTTP | no failure or crash leaves a job without an owner for ever |
| webhook HTTP delivery: `webhook_delivery.py` | none | POST to each URL with retries | endpoints | one failed URL fails the round, the others are still tried |
| save signal: `apps.py`, `webhook_notify.py` | pending `on_commit` callbacks | `post_save` of InboundSms, OutboundSms | queue, echo filter | every SMS that is saved gets its job |
| inbound persistence: `services.py` | `InboundSms` rows | `persist_inbound_sms`, refresh of stale rows, patch | mmcli, signal | one row per message, with the text of that message |
| persist queue: `queue_processor.py` | bounded in-memory queue, threads | enqueue, process | watcher, persistence, dead letters | a path that was taken is never forgotten |
| dead-letter queue: `dead_letter_queue.py` | `sms_dlq` rows in a SQLite file that all processes share; a lock and a recovery thread per process | enqueue, dequeue_batch, mark, remove_by_path | persistence, every watcher, `recover_missing_sms` | a failure leaves it only when it is repaired; no endless retries, none given up early; bounded size |
| D-Bus watcher: `dbus_watch.py` | connection, subscription, snapshot and refresh timers | connect, Added callback, snapshots, periodic recovery | persist queue, modem readiness | messages whose signal was lost are found, over every gap in the connection |
| watcher supervisor: `run_sms_watcher.py` | children per index | start, restart of the dead | watchers | a watcher per modem |
| echo filter, whitelist: `inbound_filters.py`, `sms_whitelist.py` | none | match an inbound row with an outbound one | signal, persistence | what the gateway sends does not come back as received |
| outbound API and queue: `views.py`, `outbound_processor.py` | `OutboundSms` rows, bounded queue, `_in_flight` | POST /api/sms/send/, enqueue, take | dispatch | one dispatcher per SMS |
| outbound dispatch: `services.py` | row state and mm_path | create, send, save the outcome | mmcli, signal | SENT means transmitted, once; failures notify nobody |
| mmcli client and lock: `mmcli_client.py`, `mmcli_lock.py` | a lock per process | retries, choice of the index | ModemManager | the lock is always released; a working modem is used |
| modem readiness: `modem_ready.py`, `modem_env.py` | deadline, attempts | poll, unlock, enable, reset | mmcli, watchers, boot | ends; costs no PIN tries; every modem gets ready |
| modem registry: `modem_registry.py` | `ModemDevice` rows: is_present, enabled | sync, list | boot, supervisor, modem API | a row that is wrong, or disabled, stops neither the boot nor the watchers |
| boot: `src/docker/entrypoint.sh`, `sync_modems`, `wait_modem_ready` | none | start in order | all | ends, with watchers for the modems |
| storage rotation: `cleanup_sms_storage.py` | none | delete the oldest rows over the limit, jobs with them | tables | disturbs nobody at work |
| webhook API: `views_webhooks.py` | `InboundWebhook` rows: URL, enabled | create, update, delete | the worker's next round | changes during a delivery falsify no verdict |
| `recover_missing_sms` | none | drain the dead letters, snapshot, refresh | dead letters, persistence | one more process among the watchers |
| legacy inbound processor, readiness report, identity and metrics, settings and scripts | | | | not modelled, see [Limits](#limits) |

What is hard here: four kinds of thread run `persist_inbound_sms` on one path;
the job table is read by one transaction and overwritten by a later one, and so
are the dead letters, by processes whose locks do not know of each other; two
processes with two different locks see one SMS object; every queue is bounded
and two live in memory only; `mmcli` fails, times out, or succeeds and says it
failed; signals and connections get lost; ModemManager renumbers its objects;
rows are rotated away and webhooks changed under those who work on them; the
container may restart at any line.  `PROJECT.json` ("hazards") lists 40 such
places with the properties that cover them.

## Modules and plan

| Module | Models | Proved |
|---|---|---|
| `WebhookDelivery` | what the webhook queue promises, abstractly | implemented, see `WebhookDeliveryProofs` |
| `WebhookOutbox` | signal, job table, worker process, HTTP delivery, the webhooks' configuration | 6 theorems in `WebhookOutboxProofs`, 3 in `WebhookDeliveryProofs` |
| `InboundPipeline` | ModemManager's SMS objects, watcher and its connection, persist queue, dead letters of one process, `persist_inbound_sms` | 7 theorems in `InboundPipelineProofs` |
| `DeadLetters` | the dead-letter table as several processes share it | 4 theorems in `DeadLettersProofs` |
| `OutboundDispatch` | send view, outbound queue, dispatch, rotation of its rows, echo in the watcher | 5 theorems in `OutboundDispatchProofs` |
| `ModemReady` | boot, registry, readiness loop, PINs, watchers' subscriptions | 2 theorems in `ModemReadyProofs` |
| `MC*` | instances for TLC: symmetry, bounds, functions as constants | |

The pipelines meet at one point only, the job table: `InboundPipeline` and
`OutboundDispatch` end where a row is saved and its job is queued, and
`WebhookOutbox` begins there, with writers that save whenever they like.  That
is why they are separate modules and not composed: `WebhookOutbox` allows every
order of saves that the other two can produce.  `InboundPipeline` and
`OutboundDispatch` likewise start from a modem that is ready, which is
`ModemReady`'s subject.  `DeadLetters` takes from `InboundPipeline` what a
persist may come to, a success, a failure or a rejection, at any moment, and
adds what one process cannot show.

What is left, in this order: an abstract specification of an outbound SMS, which
is transmitted once, settles and notifies if it was sent, and the proof that
`OutboundDispatch` implements it; the same for the dead letters, a set that a
failure enters and only a persist leaves.

An action of any module is one database transaction or statement, one call of
mmcli, one HTTP exchange or one queue operation, with the local computation
around it.  What a thread has read and still uses later is in its own record,
so that it can be stale.  Definitions named `X_Something`, marked "Mutant",
stand before the definition `X` they are a faulty variant of; nothing uses
them, they are there to show that the property named in `PROJECT.json` notices
the fault.

## Webhook outbox

*State.*  `row[m]` is the SMS row (none, live, deleted) and `version[m]` counts
the saves that changed what a payload shows; `job[m]` is the one
`WebhookDeliveryJob` of the message (`get_or_create` keys it by SMS), with
status, attempts, "older than WEBHOOK_JOB_STALE_SEC" and primary key;
`writer[w]` and `worker[w]` are the threads' program counters and in-memory
copies; `received` is what the endpoints got.  `active` are the URLs of the
modem's enabled webhooks; `owed[m]` keeps those that have been enabled ever
since `m` was saved, which is all that a verdict can promise.

| Action | Code |
|---|---|
| `Save` | save of a row, and the `post_save` receiver (`apps.py`) |
| `Schedule`, `Reschedule`, `ScheduleFault` | the `on_commit` callback: `schedule_inbound_webhook`'s get_or_create, its second save, a busy database |
| `RotateRow` | deletion of the row; the job goes with it |
| `Claim` | `claim_next_job`: oldest PENDING becomes PROCESSING |
| `Bump`, `BumpFault` | `_bump_attempts`, a blind save of the copy's counter |
| `Load`, `LoadFault` | read of the SMS and of the URLs |
| `Post` | one URL: received and acknowledged, received and the answer lost, not received |
| `Finalize`, `FinalizeFault` | `_finalize`: blind save of the verdict |
| `WorkerCrash`, `Restart`, `TimePasses` | `reset_stale_processing_jobs` at the start of the process, and only there |
| `WriterCrash` | a crash between commit and callback |
| `Register`, `Unregister`, `Repoint` | the requests of `views_webhooks.py`, by what they do to the URLs a round loads |

`outbox_rivals` (`Spec`; one message saved up to twice by two writers, two
workers, two URLs, one database error, one crash, one change to the webhooks)
checks the safety properties.  `DeliveredWasReceived` holds for any number of
saves.  `ExclusiveDelivery`, `FailedOnlyWhenExhausted`, `RoundsBounded`,
`TerminalIsFinal` and `QuietAtRest` are about messages saved once: a second
save gives the job to a second worker while the first still has it, by design
of the PENDING it writes.  `WorkIsOwned` says that without failures the blind
writes never leave a row without a job or a PROCESSING job without a worker.
`ImplementsDelivery` says that the queue implements `WebhookDelivery`.

`outbox_live` (`FairSpec`; two messages saved once, or one saved up to twice
and a crash or a database error; one writer, two workers, a restart later than
WEBHOOK_JOB_STALE_SEC) checks what is promised in the end.  A save that has
committed gives its message a job (`EverySaveIsQueued`), except when a crash or
a database error comes before the schedule's get_or_create: `apps.py` swallows
the error, and the message has no job until its next save, which the property
then holds to the same promise.  A job that waits or is in a worker's hands
settles (`EveryJobSettles`), also after an earlier failure, if the worker
process is up again and again; an error from then on may leave it PROCESSING.

*Bounds.*  Two workers and two writers are what the races need: one that has
read and one that overwrites.  `MaxAttempts = 2` gives a round that is not the
last and one that is.  Two messages show the order of claims; two URLs a round
that half succeeds, or that has a URL repointed to the other.  One change to
the webhooks lands at every step of a round.  The state constraint of
`outbox_live`, `TwoSaves`, keeps whole behaviours: what it counts only grows,
and none of it is under fairness.  Its webhooks do not change: a round ends
alike with any URLs.

*Fairness.*  Weak fairness of each writer's and each worker's own step: the
operating system schedules threads, and the workers loop without end.  None
of a save, a lost answer, an error or a crash, and none of `Restart`: the
entrypoint starts the worker in the background and gives PID 1 to gunicorn
(`docker/entrypoint.sh:297`), so `restart: unless-stopped` starts a worker
again when the whole container ends, but nothing does when the worker alone
dies.  That it is started again is the premise `[]<>up` of `EveryJobSettles`.

## Inbound pipeline

*State.*  ModemManager (external): `at` maps SMS paths to messages, `text` is
how much of a message is assembled, `used` the paths given out since its start.
`signals` are announcements under way, `link` the listener's connection (down,
subscribed, up, lost, or deaf: subscribed to a path the modem no longer has),
`queue` the persist queue, `dlq` maps the paths in `sms_dlq` to their
retry_count, `row` maps mm_path to the `InboundSms` row: whose number it shows
(`sender`), whose text and how much of it (`of`, `text`), and the state
(`state`).  `thread[t]` is a call of `persist_inbound_sms` by a persist thread,
the recovery thread or the refresh; `phase`, `listing`, `stale` are the periodic
recovery; `batch`, `held` the recovery thread's batch and those of its row ids
that still name a row.

| Action | Code |
|---|---|
| `Arrive`, `Assemble`, `Vanish`, `Renumber` | ModemManager |
| `OnAdded` | the Added callback: enqueue, or dead letter if the queue is full |
| `Subscribe`, `FirstSnapshot` | `run_modem_added_listener` connects, then takes its first snapshot |
| `Disconnect`, `LastSnapshot` | the connection is lost with signals under way; the periodic recovery is cancelled, and a snapshot taken |
| `Snapshot`, `SnapshotPut`, `SnapshotFault` | `enqueue_recent_sms_paths`, which lists nothing under an index the modem has left (`Listed`) |
| `Refresh`, `RefreshRow`, `RefreshEnd` | the refresh of rows without text or still "receiving" |
| `Take` | a persist thread takes a path |
| `DequeueBatch`, `Retry`, `Mark` | `process_batch` of the dead-letter queue |
| `Fetch`, `FetchFault`, `Missing` | the mmcli poll: shown, another failure (empty snapshot), path gone and its row looked up |
| `MarkGone` | the save of that row, which may have been rotated away since |
| `Reject` | the whitelist |
| `Store`, `Patch` | get_or_create by mm_path, `_inbound_field_should_update`, save of the chosen fields |
| `StoreFault` | a database error at any of these, or at `remove_by_path` |
| `Clear`, `Fail` | `remove_by_path`; the exception handlers of the callers |
| `RotateRow`, `Crash` | storage rotation; death and restart of the watcher |

`inbound_storage` (`Spec`; two messages of which the whitelist admits one, one
path, queues of size one, one retry, and one trouble of any kind) checks
`TakenIsTracked`, `OneRowPerMessage`, `TextWasReceived`, `DlqLosesNothing` and
`NothingUnheard`: while the listener is connected, every message on the modem
was handed over, is announced or is listed, whatever gap the connection had.
`inbound_live` (`FairSpec`; one message of two parts, one fault) checks that
the message is stored in full although its announcement is lost, the queue is
full, mmcli fails, or an older, shorter snapshot overwrites a newer one, and
that dead letters recover or exhaust their retries.

*Bounds.*  One path is where the threads collide; a second message at that
path arises by renumbering or by the first one's removal.  Queues of one are
full at once.  `OneTrouble` keeps to one fault, crash, rotation, renumbering
or disconnection per behaviour, at any step of it, and lets the modem lose one
message, alone, with an error, or before a restart of ModemManager.  The code tells shorter
texts from longer ones only: `Whole` = 1 has an empty text and a full one, and
the 2 of `inbound_live` the shorter text that a stale patch puts back.  In that
run `LateTrouble` keeps to an error or a message lost by the modem, once all
its parts are there, and to paths handed over after the first part has come;
what it leaves are whole behaviours, since none of these is under fairness.
A full queue of one holds the one path there is, so that a path refused for
another one's sake (`OnAdded`'s dead letter) is covered by the proof of
`TakenIsTracked` only.

*Fairness.*  Of each thread, of the listener's loop, and of the periodic
recovery, which is a timer.  Strong fairness that a dead letter is due at some
dequeue: `next_retry_at` is abstracted to an arbitrary set of due rows, and a
time passes at last.

## Dead letters

*State.*  `letter[m]` is the row of path `m` in `sms_dlq`: id, retry_count,
whether next_retry_at has passed, and the order of failed_at; `lastId` is
SQLite's AUTOINCREMENT.  `thread[t]` is a thread past its persist, `rec[r]` a
retrier with the batch it has read: the recovery thread of a process, or the
main thread of `recover_missing_sms --check-dlq` (`Mains`), which calls
`process_batch` beside the recovery thread that its own `get_sms_dlq` has
started.  `awake[p]` says whether the process has opened the table.  `returned`
and `tried` are histories: the messages some persist returned for, the retries
made of each row.

| Action | Code |
|---|---|
| `PersistFails`, `PersistStores`, `PersistReturns` | the ways out of `persist_inbound_sms` in a queue worker or listener |
| `Count`, `Insert` | `enqueue`: SELECT COUNT, then INSERT ... ON CONFLICT |
| `Remove`, `RetryRemoves` | `remove_by_path` |
| `Dequeue` | `dequeue_batch` of a recovery thread, which marks nothing as taken |
| `RunCommand`, `Exit` | the operator's command: its one batch; its end, with which its recovery thread dies |
| `Retry` | a letter of `process_batch`, whatever becomes of it |
| `MarkRecovered`, `ReadCount`, `WriteCount` | the marks by row id: DELETE; SELECT, then UPDATE |
| `Elapse` | next_retry_at passes |
| `ThreadFault`, `RecoveryFault`, `Crash` | a database busy for 30 seconds; death and restart of a process |

`dead_letters` (`FairSpec`; two paths, a watcher and the command with a thread
and a recovery thread each and the command's main thread, room for one row, two
retries, one fault and one crash, a letter of an earlier run or none) checks
that a letter leaves the table only after a persist of its own message returned
(`NothingVanishes`), although batches are marked by ids read long before; that
no count runs ahead of the retries made (`CountedWasTried`), so that none is
given up early; that the table outgrows its limit by less than a row per process
(`TableBounded`), which is as much as a lock per process can promise; and that
letters settle while some process has opened the table (`LettersSettle`).  No
bound on a retry_count is among them: every retrier that has read it below the
maximum may count once more, and a stale write may put it back.

*Bounds.*  Two processes are what the locks do not order, and two retriers in
one of them what its lock does not either; each of the races is between a read
and a write of theirs.  A batch of two shows a letter that waits in memory.
`TwoEvents` keeps to two persists, runs of the command, faults or crashes per
behaviour beside any number of retries; they only grow and are not under
fairness.  `OldIsFirst` says which of the interchangeable paths an earlier run
has left a letter of.

*Fairness.*  Of each thread and each retrier at work, and of `Elapse`.  A retry
may fail every time; the operator need not run the command, nor leave it.

## Outbound dispatch

*State.*  `row[m]`, `kept` and `named` are the `OutboundSms` row's state, the
order of the rows in the table and whether a row's mm_path is saved; `object`,
`aired`, `lost` belong to the modem: the SMS object, how often it transmitted,
and how many of these mmcli reported as failures; `queue`, `flight`, `refused`
belong to the processor; `thread`, `holder` are the dispatching threads and the
one inside `mmcli_serial`; `jobs` the outbound webhooks; `echo`, `watcher`,
`echoed` the other process, which finds the SMS object on the modem, stores it
and asks the filter; `abandoned` are the SMS that a database error or a crash
stopped.

| Action | Code |
|---|---|
| `Accept` | `SendSmsView.post` |
| `Put`, `Enqueue` | `OutboundProcessorQueue.enqueue`: the mark in `_in_flight`, then the queue, or the mark taken back |
| `Take`, `Load` | the worker's loop, `_process_outbound_pk` |
| `Lock`, `Resolve` | `dispatch_outbound_mmcli`: the lock, the save of the modem_index it resolves to |
| `Create`, `CreateTrouble`, `Name` | the object on the modem, which may exist although mmcli failed; the save of SENDING |
| `Send`, `SendTrouble` | `--send` with the retries of `_retrying_run` |
| `Sent`, `Notify`, `Fail` | the outcome and its webhook |
| `Abandon` | a database error or an OSError at any of these: no handler takes it, the row stays as it is |
| `Rotate` | `cleanup_sms_storage` deletes a row over the limit, and its job, in whatever state; `Save` is the save of a row that may be gone |
| `EchoFetch`, `EchoStore`, `EchoFilter` | persist in the watcher, `find_matching_outbound` |
| `Crash` | death of the API process |

`outbound_dispatch` (`FairSpec`; two SMS, two requests, two workers, queue of
one, two tries, a limit of one row, and two faults, each a failure of mmcli, a
database error, a crash or a rotation; synchronous or asynchronous, chosen at
`Init`) checks that SENT was transmitted (`SentWasAired`), at most once unless
mmcli lied (`AiredOnce`), that only success notifies (`NotifiedWasSent`) and
every success does unless its row is deleted or the notification is stopped
(`SentIsNotified`), that no SMS has two dispatchers, and that every SMS settles
unless it was refused by the full queue or stopped by an error or a crash:
these leave the row CREATED or SENDING for ever, and nothing looks for it.

*Bounds.*  Two threads contend for the lock; a queue of one is full with the
second SMS; two tries give one retry.  With a limit of one, the second SMS
exposes the row of the first to rotation at every step of its dispatch.
`MaxFaults` = 2 lets any two faults meet.  `OneEcho` lets the watcher see the
objects of behaviours with one SMS only, since it does nothing to the API's
state; in `outbound_echo` it is free.

Of the echo, the model says when it may match: by the mm_path once that is
saved, by the object's state (`Matches`), and by a SENT row whose modem_index,
number and age agree with the echo's (`near`, `numbered`), which the model
leaves open.  So the filter promises little: `outbound_echo` is what remains.

*Fairness.*  Weak for the threads' steps, strong for `Lock`: a thread that
waits for a `threading.Lock` again and again gets it.  None for clients and
the watcher.

## Modem readiness

*State.*  Per modem: `state` (away, failed, locked, disabled, enabled),
`place` (its index), `messaging` (whether the interface is up), `tries` left
of its PIN.  `caller[p]` is where the boot or a watcher is: which index it
wants, which it works on, the attempt of the unlock, the polls made.
`registered`, `todo`, `watched` are the rows with is_present, the list of
`wait_modem_ready --all` and the supervisor's children; `hears[w]` the index
watcher `w` is subscribed to.

| Action | Code |
|---|---|
| `Poll`, `Check`, `CheckMessaging`, `Expire` | the loop of `wait_modem_ready_for_sms` and `resolve_modem_mmcli_index` |
| `Recover` | `_recover_modem_state` |
| `Attempt`, `Unlock`, `WrongPin`, `PinNotNeeded`, `Verify` | `try_unlock_sim_pin`: SIM, then modem, `SIM_UNLOCK_RETRIES` times |
| `Enable`, `Reset`, `CallFails` | the other remedies; a failing mmcli |
| `Sync`, `ListModems`, `WaitForNext` | the boot up to `wait_modem_ready --all` |
| `StartWatchers` | `list_watcher_modem_indices`: rows that are present and, as PUT `/api/sms/modems/<index>/` may have left them, enabled or not; one watcher each |
| `ResolveWatched`, `Bind`, `Subscribe`, `EnableHalfway`, `SubscribeFails` | `run_modem_added_listener` up to the subscription |
| `PeriodicCheck`, `WatcherDies` | `_recover_modem_if_needed`; the supervisor |
| `ModemFails`, `ComesBack`, `ComesBackElsewhere`, `MessagingComesUp` | the modems (external) |

`modem_ready` (two modems at indices 0 and 1 of three, the PIN of 0 right and
that of 1 wrong, rows of an earlier boot for 0 and 2, two tries and two
attempts, one trouble) checks that the wrong
PIN of one modem and the processes' races cost the other no tries
(`RightPinKeepsTries`), that the boot ends, and that both watchers end up with
the modem that works.  That includes a boot whose sync
fails and that waits for, and watches, an index without a modem.  The last
property has the premise that no second modem
can ever work, because otherwise the fallback of `modem_stays_locked` applies.

*Bounds.*  A wait makes `MaxPolls` = 1 poll in `modem_ready`, and may end after
it at any time: all that is carried from poll to poll is the deadline, and a
watcher waits again and again.  In `modem_stays_locked` it makes up to three, as
many as it takes to unlock a modem, to enable it and to find it ready.  The
third index of `modem_ready` is free for a modem that comes back elsewhere.

*Fairness.*  Of the boot's, the callers' and the watchers' steps; of
`ComesBack` and `MessagingComesUp`, that a reset modem returns and an enabled
one brings up its interface, as the code's own waits assume.  None of a
modem's failure or move, or of a failing call.

## Findings

Five runs end with a counterexample, each to a statement of the repository
itself.

| Run | The repository says | What the code does |
|---|---|---|
| `outbox_quick_restart` | "worker crash recovery", `webhook_outbox.py:103` | The reset runs once per start and skips rows younger than 300 s.  After a crash and an immediate restart the job stays PROCESSING until some later restart. |
| `outbox_lost_content` | "Queue inbound SMS for webhook delivery", `webhook_outbox.py:59` | An update of the SMS during its delivery writes PENDING, which `_finalize` overwrites with DELIVERED: the new content is never sent. |
| `inbound_reused_path` | a received SMS is persisted and posted, `docs/comunicacao.md:123` | mm_path alone identifies a row.  After a restart of ModemManager a new message at an old path is taken for the old one. |
| `outbound_echo` | the echo triggers no second webhook, `docs/comunicacao.md:204` | The watcher can store the new SMS object before the API has saved its mm_path: nothing matches, and an inbound webhook is queued. |
| `modem_stays_locked` | `ensure_modem_ready_for_sms(modem_index)`: "Unlock SIM, enable/reset modem, wait until SMS/Messaging is usable", `modem_ready.py:433` | The wait resolves the index at every poll, to any ready modem if its own is not ready.  Once one modem is ready, the wait of the other's watcher ends with that one: both watchers subscribe to it and the second modem's PIN is never sent. |

Seen while modelling, and in the models where they say so, without a run of
their own:

- After an update during a delivery two workers POST at once, `outbox_rivals`
  allows it: "idempotent" (`webhook_outbox.py:59`) holds per row, not per POST.
- A retried `_bump_attempts` counts tries that were never made
  (`webhook_outbox.py:149`; `BumpFault`).
- A webhook worker that dies alone is not started again: the entrypoint runs it
  in the background and supervises nothing (`docker/entrypoint.sh:297`;
  `EveryJobSettles` has the premise that it is).
- A database error in a worker leaves its job PROCESSING although
  `run_webhook_worker.py:98` logs that it will be retried (`BumpFault`,
  `FinalizeFault`); the cause is that of `outbox_quick_restart`.
- A crash or a database error between the commit of a row and the get_or_create
  in its `on_commit` callback loses the webhook (`apps.py:46`; `WriterCrash`,
  `ScheduleFault`).
- A patch chosen from two stale reads can overwrite a longer text with a
  shorter one (`services.py:353`), against the intent of
  `tests/test_services.py:73`; the next snapshot repairs it, as
  `EveryMessageIsPersisted` shows with a text of two parts.
- With a whitelist, a snapshot emptied by an mmcli failure has no sender and
  is rejected; `process_batch` takes that for success and deletes the dead
  letter (`services.py:261`; `Reject`).
- The dead-letter queue's capacity counts rows whose retries are exhausted,
  which only a later success for the same path deletes, and refuses a path that
  is in the table already (`dead_letter_queue.py:67`; `HasRoom`, `Count`).
- A full outbound queue answers 202 and leaves the row CREATED (`views.py`;
  `refused`).
- A failing start of the `mmcli` process itself, an OSError, passes the handler
  of MmcliError and leaves the row CREATED or SENDING (`services.py:473`;
  `Abandon`).
- `wait_modem_ready` exits with 0 whatever happened
  (`wait_modem_ready.py:66`), so the entrypoint's restart of ModemManager
  (`docker/entrypoint.sh:268`) is never reached.
- A URL that is no longer wanted may still receive the round that loaded it,
  and a job of a modem without an enabled webhook becomes DELIVERED
  (`webhook_delivery.py:50`; `owed`).
- A PUT on a webhook saves every field it has read: overtaken by another
  request it enables again what that has disabled or deleted
  (`views_webhooks.py`; `Register`).
- A patch is chosen from one row and saved into another when the row was
  rotated away and created anew between the two: fields that had differed are
  filled, the others stay empty until the next snapshot (`services.py:353`;
  `PatchesText` of the proofs).
- A row that was rotated away while its message is still on the modem is stored
  again by the next snapshot, with another webhook (`created` and `rotations`
  in `OneRowPerMessage`).
- With more than SMS_ROTATION_BATCH_SIZE rows too many, `cleanup_sms_storage`
  deletes the newer ones of them first (`cleanup_sms_storage.py:27`), while its
  help says "oldest" (`Rotate` deletes any of them).
- The snapshot after a disconnection precedes the new subscription, so it
  closes no gap; the snapshot after the subscription does
  (`dbus_watch.py:297`; `LastSnapshot`, `NothingUnheard`).  If that one raises,
  the task of the periodic recovery is never cancelled (`dbus_watch.py:284`).
- Every watcher retries the dead letters of all modems, and only once some
  failure or some stored message of its own has started its recovery thread
  (`dead_letter_queue.py:218`; `awake`).
- A stale write can lower a retry_count, so that retries go on longer than
  SMS_DLQ_MAX_RETRIES (`dead_letter_queue.py:125`; `WriteCount`), and the
  operator's command retries in two threads of its own, each of which may count
  a letter beyond the maximum.
- A single configured PIN is sent to every SIM, and a wrong one again at every
  poll, until the SIM wants its PUK (`modem_env.py:44`, `modem_ready.py:183`;
  `WrongPin`).
- A watcher stays subscribed to the object path it resolved
  (`dbus_watch.py:133`; `moved`), and the supervisor reads the list of modems
  once (`run_sms_watcher.py:62`), unlike the periodic sync of
  `docs/comunicacao.md:85`.
- An SMS for a modem that is not ready is sent by another one
  (`services.py:444`).
- `recover_missing_sms` fills a queue of daemon threads and exits; an
  `MmcliError` with exit code −1 is never tried again (`mmcli_client.py:107`).

## Proofs

`WebhookOutboxProofs` proves six theorems about `Spec` of `WebhookOutbox`, for
any sets of messages, writers, workers and URLs and any bounds.  They assume
`ConstantsAssumption`: `NoSms` is no message, `MaxAttempts` is at least 1,
`RestartAfterStale` is a Boolean, bounds are natural numbers.

1. `Typing`: `TypeOK` is inductive by itself.  The lemmas before it say once
   what the helpers return and how a worker's step may move its record.
2. `DeliveredSound`: `DeliveredWasReceived`.  A job becomes DELIVERED by the
   verdict a worker has in memory, so the invariant must speak of memory:
   `RoundIsBacked` says that a round that is still good has reached every URL
   it has left behind, with the version it loaded.  `ReceivedInv` joins it
   with `TypeOK` and `LiveIsSaved` (a row that is there has a version).
3. `Exclusive` and `FailsExhausted`, both from `OnceInv`.  For messages saved
   once it says that the one writer that saved the message creates the job and
   is done (`OneWriter`), that the row of a job a worker holds is as this worker
   wrote it (`HolderOwns`), and that the holder's row exists or was deleted
   (`HeldWasClaimed`).  So blind writes are harmless exactly there: nobody
   else writes.  `ExclusiveDelivery` alone is not inductive, since nothing in it
   keeps a held job from being PENDING and claimed again.
4. `Final` and `Quiet`: the action properties `TerminalIsFinal` and
   `QuietAtRest`, from `OnceInv` by `SettledIsFree`: nobody holds a settled job
   of a message saved once.

`WebhookDeliveryProofs` extends it with three more, from the same assumption.

1. `NothingAbandoned`: `WorkIsOwned`, which is inductive together with `TypeOK`
   and `UpUnlessCrashed`, since a worker process that is down owns nothing.
   Who writes a job's row blindly is the worker that has the job, or a writer
   that makes it PENDING.
2. `RoundsLimited`: `RoundsBounded`.  It needs the row's counter, the copies of
   it in the workers and the number of rounds begun at once: `Counted` says that
   each round was counted in the row before it began and that no copy is behind
   the row, `Limited` that a job which may still be handed out has a round left
   below `MaxAttempts + crashes`.  A crash is what gives one more.
3.  `Implements`: every behaviour of `WebhookOutbox` is one of `WebhookDelivery`
   under the mapping of its `Abstract`, which is `ImplementsDelivery`.  It has
   no premise on the number of saves: the second save of a message maps to
   `Withdraw`, as its deletion does.  A first get_or_create is `Submit`, a POST
   is `Send`, a verdict is `Complete`, `GiveUp` or a stutter, a change to the
   webhooks is `Reconfigure`, and every other step a stutter.  That a verdict of
   DELIVERED is a `Complete` is `RoundIsBacked` again, and that no POST is made
   for a settled message comes from `OnceInv`; `LinkInv` joins the two with
   `UnsavedIsNew` (a row that is not saved yet was not deleted either).

`DeadLettersProofs` proves four theorems about `Spec` of `DeadLetters`, for any
processes, threads and retriers and any capacity, retry limit and batch size,
from `DeadLettersAssumption`: messages, processes and retriers are finitely
many, each thread and each retrier has a process.

1. `Typing`: `TypeOK` is inductive by itself.
2. `Vanishes`: `NothingVanishes`.  What is deleted by id was read long before,
   so `IdsInv` says that an id held in a batch or at work belongs to no other
   message, then or ever: AUTOINCREMENT gives ids once, and `lastId` is above
   all that are held.  `ReturnedInv` says that who is about to delete has seen
   its persist return.
3. `Counted`: `CountedWasTried`.  Two retries may be under way for one row and
   both have read its count, so the bound must keep a place for each of them:
   `CountInv` adds the number of retriers at work on the row to its
   count, and to any count that one of them has read.
4. `Bounded`: `TableBounded`.  `LockInv` says that of the threads of one process
   one is between the count and the insert; so there are at most as many
   as processes, and the last of them to count has counted the table.

`OutboundDispatchProofs` proves five theorems about `Spec` of
`OutboundDispatch`, for any SMS, requests and workers, any queue, number of
tries and limit, and any number of faults, from its `ConstantsAssumption`:
`None` is nobody, requests are not workers, capacities are positive.

1. `Typing`: `TypeOK`, which says of `mmcli_serial` that its holder is the one
   thread between acquisition and release, whatever way out it takes.
2. `Truthful`, `Once`, `Notified` and `Alone`: `SentWasAired`, `AiredOnce`,
   `NotifiedWasSent` and `OneDispatcher`, all from `DispatchInv`.  A row's state
   tells how often its SMS was transmitted only together with the stage of the
   thread that has it (`Stages`), and that is preserved only since no other
   thread has it and the queue does not hold it, once or twice (`Apart`); the
   lemma `OwnSms` then leaves every other SMS alone.

`InboundPipelineProofs` proves seven theorems about `Spec` of
`InboundPipeline`, for any messages, paths and persist threads, any queues and
retries, and any number of faults, crashes, rotations, renumberings and
disconnections, from its `ConstantsAssumption`: null values are no messages or
paths, the recovery and refresh threads are no persist threads, and sizes are
natural numbers.

1. `Typing`: `TypeOK`.  That retry_count stays within `MaxRetries` is not
   inductive by itself: a letter is counted long after the batch was read.
   `HeldMayRetry` says that the rows whose ids a batch still has were not
   counted since.
2. `NoneUnheard`: `NothingUnheard`, from the types alone.
3. `NoDeadLetterLost` and `AlwaysTracked`: `DlqLosesNothing` and
   `TakenIsTracked`, both from `Tracking`, which says what a thread may rely
   on: one about to remove a dead letter has its path stored or given up for
   good (`ClearedIsSafe`); the refresh, which only logs a failure, works on
   such paths only (`RefreshIsSafe`); and the recovery thread, which forgets a
   path whose row id is dead, only on paths that are such or still in the table
   (`RetryIsKept`).
4. `OnlyReceivedText`: `TextWasReceived`, with `SeenIsReceived`, which says the
   same of the snapshots in the threads' hands, however old, and that a patch
   takes a text together with the message it is from.
5. `OneRowEach`: `OneRowPerMessage`.  Threads with the path of a message in
   their hands may all be about to create its row, so the bound must count
   what may still come: `Candidates(m)` are the paths that may get a row with
   the text of `m`, and `Room(m)` says that rows created and candidates together
   are at most one plus the rotations and renumberings.
6. `StoredWhenDone`: the action property `PersistedIsStored`, for
   `MaxRenumberings = 0` and `MaxRotations = 0`, as in `inbound_live`.
   `OneMessage` says that all traces of a path, on the modem, in its row and in
   the snapshots in hand, are of one message; `PatchesText` that who is about to
   patch a row finds it and leaves it with a text.  Both premises are needed.
   With a renumbering the property is the finding of `inbound_reused_path`.
   With two rotations and two failures of mmcli TLC finds a row that was created
   anew from an empty snapshot, and then patched only in the fields in which
   the rows deleted before it had differed.

`ModemReadyProofs` proves two theorems about `Spec` of `ModemReady`, for any
modems, indices, PINs and bounds.

1. `Typing`: `TypeOK`, with `Polling`: a poll that has begun is one of those
   allowed, so that ending it may count it.
2. `RightPinIsSafe`: `RightPinKeepsTries`.  Only a wrong PIN takes a try, and it
   is the PIN of the index at which the modem is, at the moment it is sent.

Model-checked only: all liveness (`EveryJobSettles`, `EverySaveIsQueued`,
`EveryMessageIsPersisted`, `DeadLettersSettle`, `LettersSettle`,
`EverySmsSettles`, `SentIsNotified`, `BootEnds`,
`EveryWatcherHearsTheWorkingModem`), because fairness and ENABLED are out of
the prover's reach.  The invariants named here were checked by TLC before
they were proved; those of the proof modules are in no run of their own.

## Limits

Abstractions, by module:

- `WebhookOutbox`: one kind of message stands for the inbound and the outbound
  one, whose jobs are scheduled and drained alike; one modem's webhooks; the
  retries for one URL are one step; payloads are versions; the poll interval
  is a stutter.
- `InboundPipeline`: the last poll of a missing path and the look-up of its row
  are one step; one watcher process with one recovery thread; the snapshots of
  the listener and of the periodic recovery share one list; rotation may take
  any row; times are nondeterministic choices.
- `DeadLetters`: a persist is a choice of its outcomes; the length of the
  back-off and last_error are left out; letters of a batch are tried in any
  order.
- `OutboundDispatch`: making the modem ready is a stutter; the orphan that a
  retried create may leave on the modem is left out; the modem_index, number
  and age that an echo is matched by are free choices; one API process; a
  rotation deletes row by row.
- `ModemReady`: "registered" counts as enabled and "unknown" as disabled; the
  list and the states that a resolution reads are one step; a modem that comes
  back is locked; losses of D-Bus and the API process, which waits for modems
  too, are left out; the registry is synchronised once, since nobody reads it
  later.

Not modelled:

- The legacy inbound processor (`inbound_processor.py`): nothing starts it.
- The readiness report, the health check and the delayed restart
  (`modem_readiness.py`, `views_health.py`, `container_restart.py`): they read
  what `ModemReady` models, keep no state, and act only by ending the process,
  which is a crash of the other modules.
- `rotate_modem_sms_storage` (`services.py`): only tests call it.
- Identity and metrics: parsing, and counters for logs.
- Parsing of mmcli's output, numbers, timestamps; TLS and the normalisation of
  URLs; validation, schema and admin; settings, migrations, scripts: data and
  configuration without a protocol.
