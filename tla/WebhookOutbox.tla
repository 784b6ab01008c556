--------------------------- MODULE WebhookOutbox ---------------------------
(***************************************************************************)
(* The durable webhook queue of the gateway: the WebhookDeliveryJob table  *)
(* (src/apps/sms/models.py), the functions that schedule, claim and        *)
(* process its rows (webhook_outbox.py), the post_save signal that feeds   *)
(* it (apps.py), the threads of run_webhook_worker.py that drain it and    *)
(* the HTTP delivery they perform (webhook_delivery.py).                   *)
(*                                                                         *)
(* One action is one database transaction, or one HTTP exchange, together  *)
(* with the local computation that follows it.  What a thread has read and *)
(* keeps in memory between two of its steps is in its own record, and may  *)
(* be stale by the time the thread acts on it.                             *)
(***************************************************************************)
EXTENDS Naturals

CONSTANTS
  Sms,               \* messages that may be given a webhook job
  NoSms,             \* "no message": an idle thread's value
  Writers,           \* threads that save SMS rows (watcher children, API)
  Workers,           \* threads of the webhook worker process
  Urls,              \* URLs a webhook of the modem may be given
  MaxAttempts,       \* WEBHOOK_JOB_MAX_ATTEMPTS
  RestartAfterStale, \* TRUE: a restart comes WEBHOOK_JOB_STALE_SEC or more
                     \* after the last write of the abandoned jobs
  MaxSaves,          \* bound: notifying saves of one message
  MaxFaults,         \* bound: database errors
  MaxCrashes,        \* bound: process crashes
  MaxConfigs         \* bound: changes to the webhooks' configuration

ASSUME ConstantsAssumption ==
  /\ NoSms \notin Sms
  /\ MaxAttempts \in Nat \ {0}
  /\ RestartAfterStale \in BOOLEAN
  /\ MaxSaves \in Nat /\ MaxFaults \in Nat
  /\ MaxCrashes \in Nat /\ MaxConfigs \in Nat

VARIABLES
  row,      \* per message: its InboundSms or OutboundSms row
  version,  \* per message: how many saves changed what a payload shows
  job,      \* per message: its WebhookDeliveryJob row
  nextPk,   \* next primary key of the job table
  writer,   \* per writer thread: where it is in save and schedule
  worker,   \* per worker thread: where it is, and its in-memory job
  up,       \* whether the webhook worker process runs
  received, \* <<message, version, url>> an endpoint has received
  rounds,   \* history: delivery rounds begun for each message
  faults,   \* database errors so far
  crashes,  \* crashes so far
  active,   \* URLs of the modem's enabled webhooks
  owed,     \* history, per message: URLs enabled ever since it was saved
  configs   \* changes to the webhooks so far

hooks == <<active, owed, configs>>

vars == <<row, version, job, nextPk, writer, worker, up, received, rounds,
          faults, crashes, hooks>>

Statuses == {"none", "pending", "processing", "delivered", "failed"}

(* "none" is the absence of a job row; aged says that updated_at is older  *)
(* than WEBHOOK_JOB_STALE_SEC; pk also stands for the order of created_at.  *)
Jobs == [status : Statuses, attempts : Nat, aged : BOOLEAN, pk : Nat]

NoJob == [status |-> "none", attempts |-> 0, aged |-> FALSE, pk |-> 0]

NewJob ==
  [status |-> "pending", attempts |-> 0, aged |-> FALSE, pk |-> nextPk]

IdleWriter == [pc |-> "idle", sms |-> NoSms]

IdleWorker == [pc |-> "idle", sms |-> NoSms, attempts |-> 0, version |-> 0,
               todo |-> {}, ok |-> TRUE]

Init ==
  /\ row = [m \in Sms |-> "none"]
  /\ version = [m \in Sms |-> 0]
  /\ job = [m \in Sms |-> NoJob]
  /\ nextPk = 1
  /\ writer = [w \in Writers |-> IdleWriter]
  /\ worker = [w \in Workers |-> IdleWorker]
  /\ up = TRUE
  /\ received = {}
  /\ rounds = [m \in Sms |-> 0]
  /\ faults = 0
  /\ crashes = 0
  /\ active \in SUBSET Urls
  /\ owed = [m \in Sms |-> active]
  /\ configs = 0

-----------------------------------------------------------------------------
(* The job table.                                                          *)

Exists(m) == job[m].status # "none"

Terminal(m) == job[m].status \in {"delivered", "failed"}

(* Mutant: the claim filters on "not settled" and ignores PROCESSING.       *)
OldestPending_Unsettled(m) ==
  /\ job[m].status \in {"pending", "processing"}
  /\ \A n \in Sms : job[n].status = "pending" => job[m].pk <= job[n].pk

OldestPending(m) ==
  /\ job[m].status = "pending"
  /\ \A n \in Sms : job[n].status = "pending" => job[m].pk <= job[n].pk

(* save(update_fields=[...]) of one job: a blind UPDATE that refreshes     *)
(* updated_at and overwrites whatever the row holds by now.                *)
SetStatus(m, s) ==
  [job EXCEPT ![m] = [@ EXCEPT !.status = s, !.aged = FALSE]]

SetAttempts(m, n) ==
  [job EXCEPT ![m] = [@ EXCEPT !.attempts = n, !.aged = FALSE]]

-----------------------------------------------------------------------------
(* Writers: save the SMS row, then schedule the webhook after the commit.  *)

(* A save of a row that is ready for its webhook and is no echo: the first *)
(* one, or a patch of text, from_number or mm_state.                       *)
Save(w, m) ==
  /\ writer[w].pc = "idle"
  /\ row[m] # "deleted"
  /\ version[m] < MaxSaves
  /\ row' = [row EXCEPT ![m] = "live"]
  /\ version' = [version EXCEPT ![m] = @ + 1]
  /\ writer' = [writer EXCEPT ![w] = [pc |-> "schedule", sms |-> m]]
  /\ UNCHANGED <<job, nextPk, worker, up, received, rounds, faults, crashes,
                 hooks>>

(* Mutant: no early return after get_or_create has created the job.        *)
Schedule_Resaves(w) ==
  LET m == writer[w].sms IN
  /\ writer[w].pc = "schedule"
  /\ IF row[m] = "live" /\ ~Exists(m)
       THEN /\ job' = [job EXCEPT ![m] = NewJob]
            /\ nextPk' = nextPk + 1
       ELSE UNCHANGED <<job, nextPk>>
  /\ writer' = [writer EXCEPT ![w] =
                  IF job[m].status # "delivered"
                    THEN [pc |-> "reschedule", sms |-> m]
                    ELSE IdleWriter]
  /\ UNCHANGED <<row, version, worker, up, received, rounds, faults, crashes,
                 hooks>>

(* Mutant: only the first save of a message creates its job.               *)
Schedule_FirstOnly(w) ==
  LET m == writer[w].sms IN
  /\ writer[w].pc = "schedule"
  /\ IF row[m] = "live" /\ ~Exists(m) /\ version[m] = 1
       THEN /\ job' = [job EXCEPT ![m] = NewJob]
            /\ nextPk' = nextPk + 1
       ELSE UNCHANGED <<job, nextPk>>
  /\ writer' = [writer EXCEPT ![w] =
                  IF Exists(m) /\ job[m].status # "delivered"
                    THEN [pc |-> "reschedule", sms |-> m]
                    ELSE IdleWriter]
  /\ UNCHANGED <<row, version, worker, up, received, rounds, faults, crashes,
                 hooks>>

(* get_or_create of the job, and the early return for a delivered one.     *)
Schedule(w) ==
  LET m == writer[w].sms IN
  /\ writer[w].pc = "schedule"
  /\ IF row[m] = "live" /\ ~Exists(m)
       THEN /\ job' = [job EXCEPT ![m] = NewJob]
            /\ nextPk' = nextPk + 1
       ELSE UNCHANGED <<job, nextPk>>
  /\ writer' = [writer EXCEPT ![w] =
                  IF Exists(m) /\ job[m].status # "delivered"
                    THEN [pc |-> "reschedule", sms |-> m]
                    ELSE IdleWriter]
  /\ UNCHANGED <<row, version, worker, up, received, rounds, faults, crashes,
                 hooks>>

(* job.save() with status PENDING, whatever the status is by then; the     *)
(* save of a deleted row raises, and the receiver swallows the exception.  *)
Reschedule(w) ==
  LET m == writer[w].sms IN
  /\ writer[w].pc = "reschedule"
  /\ job' = IF Exists(m) THEN SetStatus(m, "pending") ELSE job
  /\ writer' = [writer EXCEPT ![w] = IdleWriter]
  /\ UNCHANGED <<row, version, nextPk, worker, up, received, rounds, faults,
                 crashes, hooks>>

(* A busy database: _with_sqlite_retry runs _schedule again from its read, *)
(* or the last retry raises and enqueue_to_outbox only logs it.            *)
ScheduleFault(w) ==
  /\ writer[w].pc \in {"schedule", "reschedule"}
  /\ faults < MaxFaults
  /\ faults' = faults + 1
  /\ \/ writer' = [writer EXCEPT ![w].pc = "schedule"]
     \/ writer' = [writer EXCEPT ![w] = IdleWriter]
  /\ UNCHANGED <<row, version, job, nextPk, worker, up, received, rounds,
                 crashes, hooks>>

(* Storage rotation deletes the row; its job goes with it (CASCADE).       *)
RotateRow(m) ==
  /\ row[m] = "live"
  /\ row' = [row EXCEPT ![m] = "deleted"]
  /\ job' = [job EXCEPT ![m] = NoJob]
  /\ UNCHANGED <<version, nextPk, writer, worker, up, received, rounds,
                 faults, crashes, hooks>>

-----------------------------------------------------------------------------
(* The webhooks of the modem: the requests of views_webhooks.py.  A modem  *)
(* has one webhook per URL at most; active holds the URLs of those that    *)
(* are enabled.  An update saves every field it has read: overtaken by     *)
(* another request it enables again what that has disabled or deleted,     *)
(* which Register and Unregister, allowed at any moment, cover.            *)

(* The history owed after the URLs of lost are disabled and those of       *)
(* gained enabled: nobody is owed a message saved before it was enabled.   *)
Reowed(lost, gained) ==
  [m \in Sms |->
     (owed[m] \ lost) \cup (IF version[m] = 0 THEN gained ELSE {})]

Reconfigure(lost, gained) ==
  /\ configs < MaxConfigs
  /\ configs' = configs + 1
  /\ active' = (active \ lost) \cup gained
  /\ owed' = Reowed(lost, gained)
  /\ UNCHANGED <<row, version, job, nextPk, writer, worker, up, received,
                 rounds, faults, crashes>>

(* A webhook is created, or an update enables it.                          *)
Register(u) == u \notin active /\ Reconfigure({}, {u})

(* A webhook is deleted, or an update disables it.                         *)
Unregister(u) == u \in active /\ Reconfigure({u}, {})

(* An update gives an enabled webhook another URL.                         *)
Repoint(u, v) ==
  u \in active /\ v \in Urls \ active /\ Reconfigure({u}, {v})

-----------------------------------------------------------------------------
(* Workers: claim, bump the attempts, build the payload, POST, finalize.   *)

Live(w) == worker[w].pc # "idle"

(* claim_next_job: the oldest pending job becomes PROCESSING in one        *)
(* transaction; the worker keeps a copy of the row.                        *)
Claim(w) ==
  /\ up /\ ~Live(w)
  /\ \E m \in Sms :
       /\ OldestPending(m)
       /\ job' = SetStatus(m, "processing")
       /\ worker' = [worker EXCEPT ![w] =
                       [IdleWorker EXCEPT !.pc = "bump", !.sms = m,
                                          !.attempts = job[m].attempts]]
  /\ UNCHANGED <<row, version, nextPk, writer, up, received, rounds, faults,
                 crashes, hooks>>

(* Mutant: an exhausted job is dropped on the floor before its round.      *)
Bump_SkipsExhausted(w) ==
  LET m == worker[w].sms
      n == worker[w].attempts + 1
  IN
  /\ worker[w].pc = "bump"
  /\ IF Exists(m) /\ n <= MaxAttempts
       THEN /\ job' = SetAttempts(m, n)
            /\ worker' = [worker EXCEPT ![w] =
                            [@ EXCEPT !.pc = "load", !.attempts = n]]
       ELSE /\ worker' = [worker EXCEPT ![w] = IdleWorker]
            /\ UNCHANGED job
  /\ UNCHANGED <<row, version, nextPk, writer, up, received, rounds, faults,
                 crashes, hooks>>

(* Mutant: the counter is bumped in memory and never saved.                *)
Bump_Unsaved(w) ==
  /\ worker[w].pc = "bump"
  /\ worker' = [worker EXCEPT ![w] =
                  IF Exists(worker[w].sms)
                    THEN [@ EXCEPT !.pc = "load", !.attempts = @ + 1]
                    ELSE IdleWorker]
  /\ UNCHANGED <<row, version, job, nextPk, writer, up, received, rounds,
                 faults, crashes, hooks>>

(* _bump_attempts: the copy's counter plus one overwrites the row's.  On a *)
(* deleted row the save raises a DatabaseError that worker_loop logs.      *)
Bump(w) ==
  LET m == worker[w].sms
      n == worker[w].attempts + 1
  IN
  /\ worker[w].pc = "bump"
  /\ IF Exists(m)
       THEN /\ job' = SetAttempts(m, n)
            /\ worker' = [worker EXCEPT ![w] =
                            [@ EXCEPT !.pc = "load", !.attempts = n]]
       ELSE /\ worker' = [worker EXCEPT ![w] = IdleWorker]
            /\ UNCHANGED job
  /\ UNCHANGED <<row, version, nextPk, writer, up, received, rounds, faults,
                 crashes, hooks>>

(* The save of the bump finds the database busy.  The retried function     *)
(* contains the increment, so the copy counts once per try; after the last *)
(* try the OperationalError reaches worker_loop, which logs it and leaves  *)
(* the row PROCESSING.                                                     *)
BumpFault(w) ==
  /\ worker[w].pc = "bump"
  /\ faults < MaxFaults
  /\ faults' = faults + 1
  /\ \/ worker' = [worker EXCEPT ![w].attempts = @ + 1]
     \/ worker' = [worker EXCEPT ![w] = IdleWorker]
  /\ UNCHANGED <<row, version, job, nextPk, writer, up, received, rounds,
                 crashes, hooks>>

(* job.inbound_sms is read only now, so the payload is the row's present   *)
(* content; the list of URLs is read with it.  A deleted row raises, and   *)
(* the exception counts as a failed delivery.                              *)
Load(w) ==
  LET m == worker[w].sms IN
  /\ worker[w].pc = "load"
  /\ worker' = [worker EXCEPT ![w] =
                  IF row[m] = "live"
                    THEN [@ EXCEPT !.pc = "post", !.todo = active,
                                   !.version = version[m]]
                    ELSE [@ EXCEPT !.pc = "finalize", !.ok = FALSE]]
  /\ rounds' = [rounds EXCEPT ![m] = @ + 1]
  /\ UNCHANGED <<row, version, job, nextPk, writer, up, received, faults,
                 crashes, hooks>>

(* A database error while reading the row or the URLs: caught, not ok.     *)
LoadFault(w) ==
  /\ worker[w].pc = "load"
  /\ faults < MaxFaults
  /\ faults' = faults + 1
  /\ worker' = [worker EXCEPT ![w] =
                  [@ EXCEPT !.pc = "finalize", !.ok = FALSE]]
  /\ rounds' = [rounds EXCEPT ![worker[w].sms] = @ + 1]
  /\ UNCHANGED <<row, version, job, nextPk, writer, up, received, crashes,
                 hooks>>

(* Mutant: the answer of the last URL decides.                             *)
AfterUrl_LastWins(w, u, acked) ==
  [worker[w] EXCEPT !.todo = @ \ {u}, !.ok = acked]

(* One failed URL fails the round, but the other URLs are still tried.     *)
AfterUrl(w, u, acked) ==
  [worker[w] EXCEPT !.todo = @ \ {u}, !.ok = @ /\ acked]

(* The SMS_WEBHOOK_RETRY_MAX tries for one URL.  The endpoint got the      *)
(* payload and answered 2xx, or got it and the answer was lost, or never   *)
(* got it.                                                                 *)
Post(w) ==
  LET m == worker[w].sms IN
  /\ worker[w].pc = "post"
  /\ \E u \in worker[w].todo, got, acked \in BOOLEAN :
       /\ acked => got
       /\ received' = IF got
                        THEN received \cup {<<m, worker[w].version, u>>}
                        ELSE received
       /\ worker' = [worker EXCEPT ![w] = AfterUrl(w, u, acked)]
  /\ UNCHANGED <<row, version, job, nextPk, writer, up, rounds, faults,
                 crashes, hooks>>

(* Mutant: the job is given up one round early.                            *)
AfterRound_Early(w) ==
  IF worker[w].ok THEN "delivered"
  ELSE IF worker[w].attempts >= MaxAttempts - 1 THEN "failed" ELSE "pending"

AfterRound(w) ==
  IF worker[w].ok THEN "delivered"
  ELSE IF worker[w].attempts >= MaxAttempts THEN "failed" ELSE "pending"

(* _finalize: the outcome overwrites the row's status; on a deleted row    *)
(* the save raises a DatabaseError that worker_loop logs.                  *)
Finalize(w) ==
  LET m == worker[w].sms IN
  /\ \/ worker[w].pc = "finalize"
     \/ worker[w].pc = "post" /\ worker[w].todo = {}
  /\ job' = IF Exists(m) THEN SetStatus(m, AfterRound(w)) ELSE job
  /\ worker' = [worker EXCEPT ![w] = IdleWorker]
  /\ UNCHANGED <<row, version, nextPk, writer, up, received, rounds, faults,
                 crashes, hooks>>

(* The last retry of the final save raises: the outcome of the round is    *)
(* lost and the row stays as it is.                                        *)
FinalizeFault(w) ==
  /\ \/ worker[w].pc = "finalize"
     \/ worker[w].pc = "post" /\ worker[w].todo = {}
  /\ faults < MaxFaults
  /\ faults' = faults + 1
  /\ worker' = [worker EXCEPT ![w] = IdleWorker]
  /\ UNCHANGED <<row, version, job, nextPk, writer, up, received, rounds,
                 crashes, hooks>>

-----------------------------------------------------------------------------
(* Crashes, time, and the restart of the container.                        *)

WriterCrash(w) ==
  /\ writer[w].pc # "idle"
  /\ crashes < MaxCrashes
  /\ crashes' = crashes + 1
  /\ writer' = [writer EXCEPT ![w] = IdleWriter]
  /\ UNCHANGED <<row, version, job, nextPk, worker, up, received, rounds,
                 faults, hooks>>

(* Mutant: the threads outlive their process.                              *)
WorkerCrash_ThreadsStay ==
  /\ up
  /\ crashes < MaxCrashes
  /\ crashes' = crashes + 1
  /\ up' = FALSE
  /\ UNCHANGED <<row, version, job, nextPk, writer, worker, received, rounds,
                 faults, hooks>>

(* The worker process dies, or is stopped and gives up on its daemon       *)
(* threads after the ten seconds of join: every in-memory job is gone.     *)
WorkerCrash ==
  /\ up
  /\ crashes < MaxCrashes
  /\ crashes' = crashes + 1
  /\ up' = FALSE
  /\ worker' = [w \in Workers |-> IdleWorker]
  /\ UNCHANGED <<row, version, job, nextPk, writer, received, rounds, faults,
                 hooks>>

(* WEBHOOK_JOB_STALE_SEC pass without a write to a job in PROCESSING.      *)
TimePasses(m) ==
  /\ job[m].status = "processing"
  /\ ~job[m].aged
  /\ job' = [job EXCEPT ![m].aged = TRUE]
  /\ UNCHANGED <<row, version, nextPk, writer, worker, up, received, rounds,
                 faults, crashes, hooks>>

(* Mutant: the reset at start-up takes back the jobs given up, too.        *)
Stale_Unsent(m) == job[m].status \in {"processing", "failed"}

Stale(m) == job[m].status = "processing" /\ job[m].aged

(* Mutant: the worker starts without resetting the stale jobs.             *)
Restart_NoReset ==
  /\ ~up
  /\ RestartAfterStale =>
       \A m \in Sms : job[m].status = "processing" => job[m].aged
  /\ up' = TRUE
  /\ writer' = [w \in Writers |-> IdleWriter]
  /\ UNCHANGED <<row, version, job, nextPk, worker, received, rounds, faults,
                 crashes, hooks>>

(* The entrypoint starts the webhook worker in the background and then     *)
(* becomes gunicorn: a worker that dies alone is started again only with   *)
(* the container, whenever that is, so the writers restart too.  The       *)
(* worker resets the stale jobs once, before its threads start, and never  *)
(* again.                                                                  *)
Restart ==
  /\ ~up
  /\ RestartAfterStale =>
       \A m \in Sms : job[m].status = "processing" => job[m].aged
  /\ up' = TRUE
  /\ writer' = [w \in Writers |-> IdleWriter]
  /\ job' = [m \in Sms |->
               IF Stale(m) THEN [job[m] EXCEPT !.status = "pending"]
                           ELSE job[m]]
  /\ UNCHANGED <<row, version, nextPk, worker, received, rounds, faults,
                 crashes, hooks>>

-----------------------------------------------------------------------------

WriterStep(w) == Schedule(w) \/ Reschedule(w)

WorkerStep(w) == Claim(w) \/ Bump(w) \/ Load(w) \/ Post(w) \/ Finalize(w)

WriterNext(w) ==
  \/ \E m \in Sms : Save(w, m)
  \/ Schedule(w) \/ Reschedule(w) \/ ScheduleFault(w) \/ WriterCrash(w)

WorkerNext(w) ==
  \/ Claim(w) \/ Bump(w) \/ Load(w) \/ Post(w) \/ Finalize(w)
  \/ BumpFault(w) \/ LoadFault(w) \/ FinalizeFault(w)

QueueNext ==
  \/ \E w \in Writers : WriterNext(w)
  \/ \E w \in Workers : WorkerNext(w)
  \/ \E m \in Sms : RotateRow(m) \/ TimePasses(m)
  \/ WorkerCrash \/ Restart

Configure ==
  \E u \in Urls :
    Register(u) \/ Unregister(u) \/ \E v \in Urls : Repoint(u, v)

Next == QueueNext \/ Configure

Spec == Init /\ [][Next]_vars

(* The operating system schedules every thread.  Nothing makes anyone save *)
(* a message, configure a webhook, lose an answer, meet an error or crash, *)
(* and nothing restarts a worker process that has died.                    *)
Fairness ==
  /\ \A w \in Writers : WF_vars(WriterStep(w))
  /\ \A w \in Workers : WF_vars(WorkerStep(w))

FairSpec == Spec /\ Fairness

-----------------------------------------------------------------------------
(* Properties.                                                             *)

WriterRecords ==
  [pc : {"idle", "schedule", "reschedule"}, sms : Sms \cup {NoSms}]

WorkerRecords ==
  [pc : {"idle", "bump", "load", "post", "finalize"}, sms : Sms \cup {NoSms},
   attempts : Nat, version : Nat, todo : SUBSET Urls, ok : BOOLEAN]

RowType ==
  /\ row \in [Sms -> {"none", "live", "deleted"}]
  /\ version \in [Sms -> Nat]

JobType == job \in [Sms -> Jobs] /\ nextPk \in Nat

WriterType ==
  /\ writer \in [Writers -> WriterRecords]
  /\ \A w \in Writers : writer[w].pc # "idle" => writer[w].sms \in Sms

WorkerType ==
  /\ worker \in [Workers -> WorkerRecords]
  /\ \A w \in Workers : Live(w) => worker[w].sms \in Sms
  /\ up \in BOOLEAN
  /\ ~up => \A w \in Workers : ~Live(w)

HistoryType ==
  /\ received \subseteq Sms \X Nat \X Urls
  /\ rounds \in [Sms -> Nat]
  /\ faults \in Nat
  /\ crashes \in Nat

HookType ==
  /\ active \subseteq Urls
  /\ owed \in [Sms -> SUBSET Urls]
  /\ configs \in Nat

(* The type of every variable: an idle thread holds no message, a busy one *)
(* does, and the workers of a dead process are all idle.                   *)
TypeOK ==
  /\ RowType /\ JobType /\ WriterType /\ WorkerType /\ HistoryType
  /\ HookType

Holds(w, m) == Live(w) /\ worker[w].sms = m

(* Only one save of the message has asked for its webhook so far, so       *)
(* nothing has rescheduled its job.                                        *)
OnceSaved(m) == version[m] <= 1

(* A job marked DELIVERED was delivered: one and the same content of the   *)
(* message reached every URL that has been enabled ever since the message  *)
(* was saved, whatever crashes, deletions, database errors, rival workers  *)
(* and changes to the webhooks did meanwhile (process_webhook_job trusts   *)
(* the verdict _deliver_payload_to_urls accumulates over the URLs it read).*)
DeliveredWasReceived ==
  \A m \in Sms :
    job[m].status = "delivered" =>
      \E v \in 1 .. version[m] :
        \A u \in owed[m] : <<m, v, u>> \in received

(* Two worker threads never work on the job of a message that was saved    *)
(* once: neither the claim nor the stale reset at start-up hands out a job *)
(* that a live thread still has in memory.                                 *)
ExclusiveDelivery ==
  \A m \in Sms :
    OnceSaved(m) =>
      \A w1, w2 \in Workers : Holds(w1, m) /\ Holds(w2, m) => w1 = w2

(* A job is given up only when its counter has reached the maximum, also   *)
(* when the counter was bumped by another thread or before a restart.      *)
FailedOnlyWhenExhausted ==
  \A m \in Sms :
    OnceSaved(m) /\ job[m].status = "failed" => job[m].attempts >= MaxAttempts

(* A message saved once costs its endpoints at most MaxAttempts rounds of  *)
(* POSTs, plus one for each crash: a round cut short by a crash after its  *)
(* bump is run again even when the counter is exhausted.                   *)
RoundsBounded ==
  \A m \in Sms : OnceSaved(m) => rounds[m] <= MaxAttempts + crashes

(* As long as no database error and no crash has happened, every saved     *)
(* message has a job or a thread about to schedule one, and every job in   *)
(* PROCESSING has a worker: no write of a job, however stale what it was   *)
(* computed from, leaves work that nobody owns.                            *)
WorkIsOwned ==
  faults = 0 /\ crashes = 0 =>
    \A m \in Sms :
      /\ row[m] = "live" /\ ~Exists(m) =>
           \E w \in Writers : writer[w] = [pc |-> "schedule", sms |-> m]
      /\ job[m].status = "processing" => \E w \in Workers : Holds(w, m)

(* DELIVERED and FAILED are final for a message that was saved once: only  *)
(* the deletion of the row ends them.                                      *)
TerminalIsFinal ==
  [][\A m \in Sms :
       OnceSaved(m) /\ Terminal(m) =>
         \/ job'[m].status = job[m].status
         \/ row'[m] = "deleted"]_vars

(* A message saved once is at rest when its job is DELIVERED or FAILED:    *)
(* no endpoint receives it again, no further round begins.                 *)
QuietAtRest ==
  [][\A m \in Sms :
       OnceSaved(m) /\ Terminal(m) =>
         /\ rounds'[m] = rounds[m]
         /\ \A r \in received' \ received : r[1] # m]_vars

(* A job that waits or is in a worker's hands.                             *)
AtWork(m) == job[m].status = "pending" \/ \E w \in Workers : Holds(w, m)

(* A job that waits or is in a worker's hands ends DELIVERED or FAILED,    *)
(* provided that a worker process is started again after each crash, and   *)
(* unless its message is deleted or a database error comes after that (one *)
(* that came before, to it or to another job, is no excuse).               *)
EveryJobSettles ==
  []<>up =>
    \A m \in Sms : \A n \in 0 .. MaxFaults :
      (AtWork(m) /\ faults = n) ~> (Terminal(m) \/ ~Exists(m) \/ faults > n)

(* A save that has reached its commit gives the message a job, unless the  *)
(* message is deleted, or a crash, the restart after a crash or a database *)
(* error comes after that: the schedule lives in memory until the job is   *)
(* created.  A message that has lost its job that way gets one from its    *)
(* next save.                                                              *)
EverySaveIsQueued ==
  \A m \in Sms : \A k \in 0 .. MaxFaults + MaxCrashes :
    ((\E w \in Writers : writer[w] = [pc |-> "schedule", sms |-> m])
       /\ up /\ faults + crashes = k)
      ~> (Exists(m) \/ row[m] = "deleted" \/ faults + crashes > k)

(* What schedule_inbound_webhook says it does, queue the SMS for delivery: *)
(* the content a pending job stands for is sent, unless the job fails, its *)
(* message is deleted or no URL has been enabled since it was saved.       *)
QueuedContentIsSent ==
  \A m \in Sms : \A v \in 1 .. MaxSaves :
    (job[m].status = "pending" /\ version[m] = v) ~>
      \/ owed[m] = {}
      \/ \E v2 \in v .. MaxSaves, u \in Urls : <<m, v2, u>> \in received
      \/ job[m].status = "failed"
      \/ ~Exists(m)

-----------------------------------------------------------------------------
(* The queue implements WebhookDelivery for messages until they are saved  *)
(* a second time: that and the deletion withdraw a message from it.        *)

Stage(m) ==
  IF row[m] = "deleted" \/ ~OnceSaved(m) THEN "withdrawn"
  ELSE CASE job[m].status = "none" -> "absent"
         [] job[m].status \in {"pending", "processing"} -> "queued"
         [] OTHER -> job[m].status

Got(m) == {u \in Urls : \E r \in received : r[1] = m /\ r[3] = u}

Abstract == INSTANCE WebhookDelivery
              WITH stage <- [m \in Sms |-> Stage(m)],
                   got <- [m \in Sms |-> Got(m)],
                   due <- owed

(* Every behaviour of the queue is one of WebhookDelivery.                 *)
ImplementsDelivery == Abstract!Spec
=============================================================================
