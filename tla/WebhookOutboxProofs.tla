------------------------ MODULE WebhookOutboxProofs ------------------------
(***************************************************************************)
(* Theorems about WebhookOutbox for any number of messages, writers,       *)
(* workers and URLs, any MaxAttempts and any bounds.                       *)
(***************************************************************************)
EXTENDS WebhookOutbox, TLAPS

-----------------------------------------------------------------------------
(* Type correctness.                                                       *)

(* A blind save of a job's status leaves a table of jobs.                  *)
LEMMA SetStatusType ==
  ASSUME JobType, NEW m \in Sms, NEW s \in Statuses
  PROVE  SetStatus(m, s) \in [Sms -> Jobs]
<1>1. [job[m] EXCEPT !.status = s, !.aged = FALSE] \in Jobs
  BY DEF JobType, Jobs
<1> QED
  BY <1>1 DEF SetStatus, JobType

(* So does a blind save of its attempts.                                   *)
LEMMA SetAttemptsType ==
  ASSUME JobType, NEW m \in Sms, NEW n \in Nat
  PROVE  SetAttempts(m, n) \in [Sms -> Jobs]
<1>1. [job[m] EXCEPT !.attempts = n, !.aged = FALSE] \in Jobs
  BY DEF JobType, Jobs
<1> QED
  BY <1>1 DEF SetAttempts, JobType

(* A job that get_or_create inserts is a job, and the next key a number.   *)
LEMMA NewJobType == JobType => NewJob \in Jobs /\ nextPk + 1 \in Nat
BY DEF JobType, NewJob, Jobs, Statuses

(* A busy writer may go back to the start of its schedule, or to idle.     *)
LEMMA WriterBack ==
  ASSUME WriterType, NEW w \in Writers, ScheduleFault(w)
  PROVE  WriterType'
<1>1. writer[w].sms \in Sms
  BY DEF WriterType, ScheduleFault
<1>2. [writer[w] EXCEPT !.pc = "schedule"] \in WriterRecords
  BY DEF WriterType, WriterRecords
<1>3. IdleWriter \in WriterRecords
  BY DEF WriterRecords, IdleWriter
<1> QED
  BY <1>1, <1>2, <1>3 DEF WriterType, ScheduleFault, IdleWriter, WriterRecords

(* Every step of a worker leaves it idle, or busy with a message.          *)
LEMMA WorkerMoves ==
  ASSUME WorkerType, RowType, JobType, HookType, NEW w \in Workers,
         WorkerNext(w)
  PROVE  WorkerType'
<1> DEFINE Good(r) == r \in WorkerRecords /\ (r.pc # "idle" => r.sms \in Sms)
<1>1. Good(IdleWorker)
  BY DEF IdleWorker, WorkerRecords
<1>2. Live(w) => worker[w].sms \in Sms /\ worker[w].attempts + 1 \in Nat
  BY DEF WorkerType, WorkerRecords, Live
<1>3. up /\ up' = up
  BY DEF WorkerNext, Claim, Bump, BumpFault, Load, LoadFault, Post, Finalize,
         FinalizeFault, WorkerType, Live
<1>4. ASSUME NEW r, Good(r), worker' = [worker EXCEPT ![w] = r]
      PROVE  WorkerType'
  BY <1>3, <1>4 DEF WorkerType, Live
<1>5. CASE Claim(w)
  <2>1. PICK m \in Sms :
          worker' = [worker EXCEPT ![w] =
                      [IdleWorker EXCEPT !.pc = "bump", !.sms = m,
                                         !.attempts = job[m].attempts]]
    BY <1>5 DEF Claim
  <2>2. job[m].attempts \in Nat
    BY DEF JobType, Jobs
  <2> QED
    BY <1>4, <2>1, <2>2 DEF IdleWorker, WorkerRecords
<1>6. CASE Bump(w)
  <2>1. Good([worker[w] EXCEPT !.pc = "load",
                               !.attempts = worker[w].attempts + 1])
    BY <1>2, <1>6 DEF Bump, WorkerType, WorkerRecords, Live
  <2> QED
    BY <1>1, <1>4, <1>6, <2>1 DEF Bump
<1>7. CASE BumpFault(w)
  <2>1. Good([worker[w] EXCEPT !.attempts = worker[w].attempts + 1])
    BY <1>2, <1>7 DEF BumpFault, WorkerType, WorkerRecords, Live
  <2> QED
    BY <1>1, <1>4, <1>7, <2>1 DEF BumpFault
<1>8. CASE Load(w) \/ LoadFault(w)
  <2>1. Good([worker[w] EXCEPT !.pc = "post", !.todo = active,
                               !.version = version[worker[w].sms]])
    BY <1>2, <1>8
       DEF Load, LoadFault, WorkerType, WorkerRecords, RowType, HookType, Live
  <2>2. Good([worker[w] EXCEPT !.pc = "finalize", !.ok = FALSE])
    BY <1>2, <1>8 DEF Load, LoadFault, WorkerType, WorkerRecords, Live
  <2> QED
    BY <1>4, <1>8, <2>1, <2>2 DEF Load, LoadFault
<1>9. CASE Post(w)
  <2>1. PICK u \in worker[w].todo, acked \in BOOLEAN :
          worker' = [worker EXCEPT ![w] = AfterUrl(w, u, acked)]
    BY <1>9 DEF Post
  <2>2. Good(AfterUrl(w, u, acked))
    BY <1>2, <1>9 DEF Post, AfterUrl, WorkerType, WorkerRecords, Live
  <2> QED
    BY <1>4, <2>1, <2>2
<1>10. CASE Finalize(w) \/ FinalizeFault(w)
  BY <1>1, <1>4, <1>10 DEF Finalize, FinalizeFault
<1> QED
  BY <1>5, <1>6, <1>7, <1>8, <1>9, <1>10 DEF WorkerNext

(* A worker writes nothing but a status or a counter into the job table.   *)
LEMMA WorkerJobs ==
  ASSUME WorkerType, JobType, NEW w \in Workers, WorkerNext(w)
  PROVE  JobType'
<1>1. nextPk' = nextPk
  BY DEF WorkerNext, Claim, Bump, BumpFault, Load, LoadFault, Post, Finalize,
         FinalizeFault
<1>2. Live(w) => worker[w].sms \in Sms /\ worker[w].attempts + 1 \in Nat
  BY DEF WorkerType, WorkerRecords, Live
<1>3. CASE Claim(w)
  BY <1>1, <1>3, SetStatusType DEF Claim, Statuses, JobType
<1>4. CASE Bump(w)
  BY <1>1, <1>2, <1>4, SetAttemptsType DEF Bump, JobType, Live
<1>5. CASE Finalize(w)
  <2>1. AfterRound(w) \in Statuses
    BY DEF AfterRound, Statuses
  <2> QED
    BY <1>1, <1>2, <1>5, <2>1, SetStatusType DEF Finalize, JobType, Live
<1>6. ASSUME UNCHANGED job PROVE JobType'
  BY <1>1, <1>6 DEF JobType
<1> QED
  BY <1>3, <1>4, <1>5, <1>6
     DEF WorkerNext, BumpFault, Load, LoadFault, Post, FinalizeFault

(* A worker leaves the endpoints' log and the counters well typed.         *)
LEMMA WorkerHistory ==
  ASSUME WorkerType, HistoryType, NEW w \in Workers, WorkerNext(w)
  PROVE  HistoryType'
<1>1. Live(w) => worker[w].sms \in Sms
  BY DEF WorkerType, Live
<1>2. CASE Post(w)
  <2>1. worker[w].version \in Nat /\ worker[w].todo \subseteq Urls
    BY DEF WorkerType, WorkerRecords
  <2> QED
    BY <1>1, <1>2, <2>1 DEF Post, HistoryType, Live
<1>3. CASE Load(w) \/ LoadFault(w)
  BY <1>1, <1>3 DEF Load, LoadFault, HistoryType, Live
<1>4. CASE Claim(w) \/ Bump(w) \/ Finalize(w)
  BY <1>4 DEF Claim, Bump, Finalize, HistoryType
<1>5. CASE BumpFault(w) \/ FinalizeFault(w)
  BY <1>5 DEF BumpFault, FinalizeFault, HistoryType
<1> QED
  BY <1>2, <1>3, <1>4, <1>5 DEF WorkerNext

(* The passing of time leaves a job a job.                                 *)
LEMMA AgedType ==
  ASSUME JobType, NEW m \in Sms
  PROVE  [job EXCEPT ![m].aged = TRUE] \in [Sms -> Jobs]
<1>1. [job[m] EXCEPT !.aged = TRUE] \in Jobs
  BY DEF JobType, Jobs
<1> QED
  BY <1>1 DEF JobType

(* The queue leaves the webhooks alone.                                    *)
LEMMA HooksKept == QueueNext => UNCHANGED hooks
BY DEF QueueNext, WriterNext, Save, Schedule, Reschedule, ScheduleFault,
       WriterCrash, WorkerNext, Claim, Bump, BumpFault, Load, LoadFault, Post,
       Finalize, FinalizeFault, RotateRow, TimePasses, WorkerCrash, Restart

(* The requests on the webhooks leave the queue alone.                     *)
LEMMA ConfigureFrame ==
  Configure => UNCHANGED <<row, version, job, nextPk, writer, worker, up,
                           received, rounds, faults, crashes>>
BY DEF Configure, Register, Unregister, Repoint, Reconfigure

(* What a message is owed is enabled.                                      *)
OwedIsActive == \A m \in Sms : owed[m] \subseteq active

(* They disable and enable URLs, and owe nothing new to a saved message.   *)
LEMMA HooksType ==
  ASSUME HookType, Configure
  PROVE  /\ HookType'
         /\ \A m \in Sms : version[m] # 0 => owed'[m] \subseteq owed[m]
         /\ OwedIsActive => OwedIsActive'
<1>1. PICK lost \in SUBSET Urls, gained \in SUBSET Urls :
        Reconfigure(lost, gained)
  BY DEF Configure, Register, Unregister, Repoint
<1> QED
  BY <1>1 DEF Reconfigure, Reowed, HookType, OwedIsActive

(* The variables keep their types, and only a live worker process has      *)
(* threads that hold a message (webhook_outbox.py, run_webhook_worker.py). *)
THEOREM Typing == Spec => []TypeOK
<1>1. Init => TypeOK
  BY ConstantsAssumption
     DEF Init, TypeOK, RowType, JobType, WriterType, WorkerType, HistoryType,
         HookType, Jobs, NoJob, Statuses, WriterRecords, IdleWriter, WorkerRecords,
         IdleWorker, Live
<1>2. TypeOK /\ [Next]_vars => TypeOK'
  <2> SUFFICES ASSUME TypeOK, [Next]_vars PROVE TypeOK'
    OBVIOUS
  <2> USE DEF TypeOK
  <2> DEFINE Core ==
        RowType /\ JobType /\ WriterType /\ WorkerType /\ HistoryType
  <2>1. ASSUME NEW w \in Writers, NEW m \in Sms, Save(w, m) PROVE Core'
    <3>1. RowType'
      BY <2>1 DEF Save, RowType
    <3>2. JobType' /\ WorkerType' /\ HistoryType'
      BY <2>1 DEF Save, JobType, WorkerType, HistoryType, Live
    <3>3. WriterType'
      BY <2>1 DEF Save, WriterType, WriterRecords
    <3> QED
      BY <3>1, <3>2, <3>3
  <2>2. ASSUME NEW w \in Writers, Schedule(w) PROVE Core'
    <3>1. JobType'
      BY <2>2, NewJobType DEF Schedule, JobType, WriterType
    <3>2. WriterType'
      BY <2>2 DEF Schedule, WriterType, WriterRecords, IdleWriter
    <3>3. RowType' /\ WorkerType' /\ HistoryType'
      BY <2>2 DEF Schedule, RowType, WorkerType, HistoryType, Live
    <3> QED
      BY <3>1, <3>2, <3>3
  <2>3. ASSUME NEW w \in Writers, Reschedule(w) PROVE Core'
    <3>1. JobType'
      BY <2>3, SetStatusType DEF Reschedule, JobType, WriterType, Statuses
    <3>2. WriterType'
      BY <2>3 DEF Reschedule, WriterType, WriterRecords, IdleWriter
    <3>3. RowType' /\ WorkerType' /\ HistoryType'
      BY <2>3 DEF Reschedule, RowType, WorkerType, HistoryType, Live
    <3> QED
      BY <3>1, <3>2, <3>3
  <2>4. ASSUME NEW w \in Writers, ScheduleFault(w) PROVE Core'
    <3>1. WriterType'
      BY <2>4, WriterBack
    <3>2. RowType' /\ JobType' /\ WorkerType' /\ HistoryType'
      BY <2>4 DEF ScheduleFault, RowType, JobType, WorkerType, HistoryType, Live
    <3> QED
      BY <3>1, <3>2
  <2>5. ASSUME NEW w \in Writers, WriterCrash(w) PROVE Core'
    <3>1. WriterType'
      BY <2>5 DEF WriterCrash, WriterType, WriterRecords, IdleWriter
    <3>2. RowType' /\ JobType' /\ WorkerType' /\ HistoryType'
      BY <2>5 DEF WriterCrash, RowType, JobType, WorkerType, HistoryType, Live
    <3> QED
      BY <3>1, <3>2
  <2>6. ASSUME NEW w \in Workers, WorkerNext(w) PROVE Core'
    <3>1. WorkerType'
      BY <2>6, WorkerMoves
    <3>2. RowType' /\ WriterType'
      BY <2>6 DEF WorkerNext, Claim, Bump, BumpFault, Load, LoadFault, Post, Finalize,
             FinalizeFault, RowType, WriterType
    <3>3. JobType'
      BY <2>6, WorkerJobs
    <3>4. HistoryType'
      BY <2>6, WorkerHistory
    <3> QED
      BY <3>1, <3>2, <3>3, <3>4
  <2>7. ASSUME NEW m \in Sms, RotateRow(m) PROVE Core'
    <3>1. RowType'
      BY <2>7 DEF RotateRow, RowType
    <3>2. JobType'
      BY <2>7 DEF RotateRow, JobType, Jobs, NoJob, Statuses
    <3>3. WriterType' /\ WorkerType' /\ HistoryType'
      BY <2>7 DEF RotateRow, WriterType, WorkerType, HistoryType, Live
    <3> QED
      BY <3>1, <3>2, <3>3
  <2>8. ASSUME NEW m \in Sms, TimePasses(m) PROVE Core'
    <3>1. JobType'
      BY <2>8, AgedType DEF TimePasses, JobType
    <3>2. RowType' /\ WriterType' /\ WorkerType' /\ HistoryType'
      BY <2>8 DEF TimePasses, RowType, WriterType, WorkerType, HistoryType, Live
    <3> QED
      BY <3>1, <3>2
  <2>9. ASSUME WorkerCrash PROVE Core'
    <3>1. WorkerType'
      BY <2>9 DEF WorkerCrash, WorkerType, WorkerRecords, IdleWorker, Live
    <3>2. RowType' /\ JobType' /\ WriterType' /\ HistoryType'
      BY <2>9 DEF WorkerCrash, RowType, JobType, WriterType, HistoryType
    <3> QED
      BY <3>1, <3>2
  <2>10. ASSUME Restart PROVE Core'
    <3>1. JobType'
      BY <2>10 DEF Restart, JobType, Jobs, Statuses
    <3>2. WriterType'
      BY <2>10 DEF Restart, WriterType, WriterRecords, IdleWriter
    <3>3. RowType' /\ WorkerType' /\ HistoryType'
      BY <2>10 DEF Restart, RowType, WorkerType, HistoryType, Live
    <3> QED
      BY <3>1, <3>2, <3>3
  <2>11. ASSUME UNCHANGED vars PROVE Core'
    BY <2>11 DEF vars, RowType, JobType, WriterType, WorkerType, HistoryType,
                 Live
  <2>12. ASSUME Configure PROVE Core'
    BY <2>12, ConfigureFrame
       DEF RowType, JobType, WriterType, WorkerType, HistoryType, Live
  <2>13. Core'
    BY <2>1, <2>2, <2>3, <2>4, <2>5, <2>6, <2>7, <2>8, <2>9, <2>10, <2>11,
       <2>12 DEF Next, QueueNext, WriterNext
  <2>14. HookType'
    BY HooksKept, HooksType DEF Next, hooks, vars, HookType
  <2> QED
    BY <2>13, <2>14
<1> QED
  BY <1>1, <1>2, PTL DEF Spec
-----------------------------------------------------------------------------
(* A delivered job was received by every endpoint.                         *)

AckedBy(m, v, us) == \A u \in us : <<m, v, u>> \in received

(* A row that is there has been saved.                                     *)
LiveIsSaved == \A m \in Sms : row[m] = "live" => version[m] >= 1

(* A round that is still good has reached every owed URL it is done with,  *)
(* with the content it loaded; a round that could not load is not good.    *)
RoundIsBacked ==
  \A w \in Workers :
    /\ worker[w].pc = "post" =>
         /\ worker[w].version \in 1 .. version[worker[w].sms]
         /\ worker[w].ok =>
              AckedBy(worker[w].sms, worker[w].version,
                      owed[worker[w].sms] \ worker[w].todo)
    /\ worker[w].pc = "finalize" => ~worker[w].ok

ReceivedInv ==
  TypeOK /\ OwedIsActive /\ LiveIsSaved /\ RoundIsBacked /\ DeliveredWasReceived

(* Endpoints forget nothing, versions only grow and a saved message is     *)
(* owed no more than before, so a step that leaves the job table and the   *)
(* workers alone keeps the invariant.                                      *)
LEMMA ReceivedStutter ==
  ASSUME ReceivedInv, TypeOK', OwedIsActive', received \subseteq received',
         UNCHANGED worker,
         \A m \in Sms : version[m] <= version'[m],
         \A m \in Sms : version[m] # 0 => owed'[m] \subseteq owed[m],
         \A m \in Sms : row'[m] = "live" => row[m] = "live" \/ version'[m] >= 1,
         \A m \in Sms : job'[m].status = "delivered" => job[m].status = "delivered"
  PROVE  ReceivedInv'
<1>1. LiveIsSaved'
  BY DEF ReceivedInv, LiveIsSaved, TypeOK, RowType
<1>2. RoundIsBacked'
  <2> SUFFICES ASSUME NEW w \in Workers, worker[w].pc \in {"post", "finalize"}
               PROVE  /\ worker[w].pc = "post" =>
                           /\ worker[w].version \in 1 .. version'[worker[w].sms]
                           /\ worker[w].ok => AckedBy(worker[w].sms, worker[w].version, owed[worker[w].sms] \ worker[w].todo)'
                      /\ worker[w].pc = "finalize" => ~worker[w].ok
    BY DEF RoundIsBacked, AckedBy
  <2>1. worker[w].sms \in Sms /\ worker[w].version \in Nat
    BY DEF ReceivedInv, TypeOK, WorkerType, WorkerRecords, Live
  <2>2. version[worker[w].sms] \in Nat /\ version'[worker[w].sms] \in Nat
    BY <2>1 DEF ReceivedInv, TypeOK, RowType
  <2> QED
    BY <2>1, <2>2 DEF ReceivedInv, RoundIsBacked, AckedBy
<1>3. DeliveredWasReceived'
  BY DEF ReceivedInv, DeliveredWasReceived, TypeOK, RowType
<1> QED
  BY <1>1, <1>2, <1>3 DEF ReceivedInv

(* A worker's step keeps the invariant when it leaves that worker's own    *)
(* round backed and marks no job as delivered.                             *)
LEMMA ReceivedWorker ==
  ASSUME ReceivedInv, TypeOK', NEW w \in Workers, NEW r,
         worker' = [worker EXCEPT ![w] = r],
         r.pc # "post", r.pc = "finalize" => ~r.ok,
         received \subseteq received', UNCHANGED <<row, version, owed, active>>,
         \A m \in Sms : job'[m].status = "delivered" => job[m].status = "delivered"
  PROVE  ReceivedInv'
<1>1. LiveIsSaved'
  BY DEF ReceivedInv, LiveIsSaved
<1>2. worker'[w] = r /\ \A x \in Workers \ {w} : worker'[x] = worker[x]
  BY DEF ReceivedInv, TypeOK, WorkerType
<1>3. RoundIsBacked'
  BY <1>2 DEF ReceivedInv, RoundIsBacked, AckedBy
<1>4. DeliveredWasReceived'
  BY DEF ReceivedInv, DeliveredWasReceived
<1> QED
  BY <1>1, <1>3, <1>4 DEF ReceivedInv, OwedIsActive

(* Rounds stay backed, and DELIVERED is written only from one that is.     *)
LEMMA ReceivedInvariant == Spec => []ReceivedInv
<1>1. Init => OwedIsActive /\ LiveIsSaved /\ RoundIsBacked /\ DeliveredWasReceived
  BY DEF Init, OwedIsActive, LiveIsSaved, RoundIsBacked, DeliveredWasReceived, IdleWorker,
         NoJob
<1>2. ReceivedInv /\ TypeOK' /\ [Next]_vars => ReceivedInv'
  <2> SUFFICES ASSUME ReceivedInv, TypeOK', [Next]_vars PROVE ReceivedInv'
    OBVIOUS
  <2> USE DEF ReceivedInv, hooks
  <2>owed. UNCHANGED <<owed, active>> => OwedIsActive'
    BY DEF OwedIsActive
  <2>0. \A m \in Sms : version[m] \in Nat
    BY DEF TypeOK, RowType
  <2>idle. IdleWorker.pc = "idle"
    BY DEF IdleWorker
  <2>1. ASSUME NEW w \in Writers, NEW m \in Sms, Save(w, m)
        PROVE  ReceivedInv'
    BY <2>0, <2>owed, <2>1, ReceivedStutter DEF Save, TypeOK, RowType
  <2>2. ASSUME NEW w \in Writers, Schedule(w) PROVE ReceivedInv'
    BY <2>0, <2>owed, <2>2, ReceivedStutter DEF Schedule, NewJob, TypeOK, JobType
  <2>3. ASSUME NEW w \in Writers, Reschedule(w) PROVE ReceivedInv'
    BY <2>0, <2>owed, <2>3, ReceivedStutter DEF Reschedule, SetStatus, TypeOK, JobType
  <2>4. ASSUME NEW w \in Writers, ScheduleFault(w) \/ WriterCrash(w)
        PROVE  ReceivedInv'
    BY <2>0, <2>owed, <2>4, ReceivedStutter DEF ScheduleFault, WriterCrash
  <2>5. ASSUME NEW m \in Sms, RotateRow(m) \/ TimePasses(m)
        PROVE  ReceivedInv'
    <3>1. CASE RotateRow(m)
      BY <2>0, <2>owed, <3>1, ReceivedStutter
         DEF RotateRow, NoJob, TypeOK, RowType, JobType
    <3>2. CASE TimePasses(m)
      BY <2>0, <2>owed, <3>2, ReceivedStutter DEF TimePasses, TypeOK, JobType
    <3> QED
      BY <2>5, <3>1, <3>2
  <2>6. ASSUME Restart PROVE ReceivedInv'
    BY <2>0, <2>owed, <2>6, ReceivedStutter DEF Restart, TypeOK, JobType
  <2>7. ASSUME WorkerCrash PROVE ReceivedInv'
    <3>1. RoundIsBacked'
      BY <2>7 DEF WorkerCrash, RoundIsBacked, IdleWorker
    <3> QED
      BY <2>7, <2>owed, <3>1 DEF WorkerCrash, LiveIsSaved, DeliveredWasReceived
  <2>8. ASSUME UNCHANGED vars PROVE ReceivedInv'
    BY <2>0, <2>owed, <2>8, ReceivedStutter DEF vars
  <2>17. ASSUME Configure PROVE ReceivedInv'
    BY <2>0, <2>owed, <2>17, ReceivedStutter, ConfigureFrame, HooksType DEF TypeOK
  <2>9. ASSUME NEW w \in Workers, Claim(w) PROVE ReceivedInv'
    <3> DEFINE r(m) == [IdleWorker EXCEPT !.pc = "bump", !.sms = m,
                                          !.attempts = job[m].attempts]
    <3>1. PICK m \in Sms : /\ job' = SetStatus(m, "processing")
                           /\ worker' = [worker EXCEPT ![w] = r(m)]
      BY <2>9 DEF Claim
    <3>2. \A n \in Sms :
            job'[n].status = "delivered" => job[n].status = "delivered"
      BY <3>1 DEF SetStatus, TypeOK, JobType
    <3>3. r(m).pc = "bump"
      BY DEF IdleWorker
    <3> HIDE DEF r
    <3> QED
      BY <2>9, <3>1, <3>2, <3>3, ReceivedWorker DEF Claim
  <2>10. ASSUME NEW w \in Workers, Bump(w) PROVE ReceivedInv'
    <3> DEFINE n == worker[w].attempts + 1
               r == [worker[w] EXCEPT !.pc = "load", !.attempts = n]
    <3>1. r.pc = "load"
      BY DEF TypeOK, WorkerType, WorkerRecords
    <3>2. CASE Exists(worker[w].sms)
      <4>1. job' = SetAttempts(worker[w].sms, n)
        BY <2>10, <3>2 DEF Bump
      <4>2. worker' = [worker EXCEPT ![w] = r]
        BY <2>10, <3>2 DEF Bump
      <4> HIDE DEF n, r
      <4>3. \A k \in Sms :
              job'[k].status = "delivered" => job[k].status = "delivered"
        BY <4>1 DEF SetAttempts, TypeOK, JobType, Jobs
      <4> QED
        BY <2>10, <3>1, <4>2, <4>3, ReceivedWorker DEF Bump
    <3>3. CASE ~Exists(worker[w].sms)
      BY <2>10, <2>idle, <3>3, ReceivedWorker DEF Bump
    <3> QED
      BY <3>2, <3>3
  <2>11. ASSUME NEW w \in Workers, BumpFault(w) PROVE ReceivedInv'
    <3> DEFINE r == [worker[w] EXCEPT !.attempts = @ + 1]
    <3>1. r.pc = "bump"
      BY <2>11 DEF BumpFault, TypeOK, WorkerType, WorkerRecords
    <3>2. worker' = [worker EXCEPT ![w] = r] \/ worker' = [worker EXCEPT ![w] = IdleWorker]
      BY <2>11 DEF BumpFault
    <3> HIDE DEF r
    <3> QED
      BY <2>11, <2>idle, <3>1, <3>2, ReceivedWorker DEF BumpFault
  <2>12. ASSUME NEW w \in Workers, LoadFault(w) PROVE ReceivedInv'
    <3> DEFINE r == [worker[w] EXCEPT !.pc = "finalize", !.ok = FALSE]
    <3>1. r.pc = "finalize" /\ ~r.ok
      BY <2>12 DEF LoadFault, TypeOK, WorkerType, WorkerRecords
    <3>2. worker' = [worker EXCEPT ![w] = r]
      BY <2>12 DEF LoadFault
    <3> HIDE DEF r
    <3> QED
      BY <2>12, <3>1, <3>2, ReceivedWorker DEF LoadFault
  <2>13. ASSUME NEW w \in Workers, FinalizeFault(w) PROVE ReceivedInv'
    BY <2>13, <2>idle, ReceivedWorker DEF FinalizeFault
  <2>14. ASSUME NEW w \in Workers, Load(w) PROVE ReceivedInv'
    <3>1. worker[w].sms \in Sms
      BY <2>14 DEF Load, TypeOK, WorkerType, Live
    <3>2. CASE row[worker[w].sms] = "live"
      <4> DEFINE r == [worker[w] EXCEPT !.pc = "post", !.todo = active,
                                        !.version = version[worker[w].sms]]
      <4>1. /\ r.pc = "post" /\ r.sms = worker[w].sms /\ r.todo = active
            /\ r.version \in 1 .. version[worker[w].sms]
        BY <2>0, <3>1, <3>2 DEF LiveIsSaved, TypeOK, WorkerType, WorkerRecords
      <4>2. worker' = [worker EXCEPT ![w] = r]
        BY <2>14, <3>2 DEF Load
      <4> HIDE DEF r
      <4>3. worker'[w] = r /\ \A x \in Workers \ {w} : worker'[x] = worker[x]
        BY <4>2 DEF TypeOK, WorkerType
      <4>4. UNCHANGED <<row, version, job, received, owed, active>>
        BY <2>14 DEF Load
      <4>5. RoundIsBacked'
        BY <3>1, <4>1, <4>3, <4>4 DEF RoundIsBacked, AckedBy, OwedIsActive
      <4> QED
        BY <2>owed, <4>4, <4>5 DEF LiveIsSaved, DeliveredWasReceived
    <3>3. CASE row[worker[w].sms] # "live"
      <4> DEFINE r == [worker[w] EXCEPT !.pc = "finalize", !.ok = FALSE]
      <4>1. r.pc = "finalize" /\ ~r.ok
        BY DEF TypeOK, WorkerType, WorkerRecords
      <4>2. worker' = [worker EXCEPT ![w] = r]
        BY <2>14, <3>3 DEF Load
      <4> HIDE DEF r
      <4> QED
        BY <2>14, <4>1, <4>2, ReceivedWorker DEF Load
    <3> QED
      BY <3>2, <3>3
  <2>15. ASSUME NEW w \in Workers, Post(w) PROVE ReceivedInv'
    <3> DEFINE m == worker[w].sms
               v == worker[w].version
    <3>1. PICK u \in worker[w].todo, got \in BOOLEAN, acked \in BOOLEAN :
            /\ acked => got
            /\ received' = IF got THEN received \cup {<<m, v, u>>}
                                  ELSE received
            /\ worker' = [worker EXCEPT ![w] = AfterUrl(w, u, acked)]
      BY <2>15 DEF Post
    <3> DEFINE r == AfterUrl(w, u, acked)
    <3>2. /\ r.pc = "post" /\ r.sms = m /\ r.version = v
          /\ r.todo = worker[w].todo \ {u}
          /\ r.ok => worker[w].ok /\ acked
      BY <2>15 DEF AfterUrl, Post, TypeOK, WorkerType, WorkerRecords
    <3>3. worker'[w] = r /\ \A x \in Workers \ {w} : worker'[x] = worker[x]
      BY <3>1 DEF TypeOK, WorkerType
    <3>4. received \subseteq received' /\ (acked => <<m, v, u>> \in received')
      BY <3>1
    <3>5. UNCHANGED <<row, version, job, owed, active>>
      BY <2>15 DEF Post
    <3>6. /\ worker[w].version \in 1 .. version[m]
          /\ worker[w].ok => AckedBy(m, v, owed[m] \ worker[w].todo)
      BY <2>15 DEF Post, RoundIsBacked
    <3> HIDE DEF r, m, v
    <3>7. RoundIsBacked'
      BY <3>2, <3>3, <3>4, <3>5, <3>6 DEF RoundIsBacked, AckedBy, v
    <3> QED
      BY <2>owed, <3>4, <3>5, <3>7 DEF LiveIsSaved, DeliveredWasReceived
  <2>16. ASSUME NEW w \in Workers, Finalize(w) PROVE ReceivedInv'
    <3> DEFINE m == worker[w].sms
    <3>1. m \in Sms /\ worker' = [worker EXCEPT ![w] = IdleWorker]
      BY <2>16 DEF Finalize, TypeOK, WorkerType, Live
    <3>2. UNCHANGED <<row, version, received, owed, active>>
      BY <2>16 DEF Finalize
    <3>3. RoundIsBacked'
      BY <2>idle, <3>1, <3>2 DEF RoundIsBacked, AckedBy, TypeOK, WorkerType
    <3>4. AfterRound(w) = "delivered" =>
            \E v \in 1 .. version[m] : AckedBy(m, v, owed[m])
      BY <2>16 DEF Finalize, AfterRound, RoundIsBacked, AckedBy
    <3>5. \A n \in Sms :
            job'[n].status = "delivered" =>
              \/ job[n].status = "delivered"
              \/ n = m /\ AfterRound(w) = "delivered"
      BY <2>16, <3>1 DEF Finalize, SetStatus, TypeOK, JobType, Jobs
    <3> HIDE DEF m
    <3>6. DeliveredWasReceived'
      BY <3>2, <3>4, <3>5 DEF DeliveredWasReceived, AckedBy
    <3> QED
      BY <2>owed, <3>2, <3>3, <3>6 DEF LiveIsSaved
  <2> QED
    BY <2>1, <2>2, <2>3, <2>4, <2>5, <2>6, <2>7, <2>8, <2>9, <2>10, <2>11,
       <2>12, <2>13, <2>14, <2>15, <2>16, <2>17
       DEF Next, QueueNext, WriterNext, WorkerNext
<1> QED
  BY <1>1, <1>2, Typing, PTL DEF Spec, ReceivedInv

(* DELIVERED is written only by a worker whose round reached every URL     *)
(* (process_webhook_job, _deliver_payload_to_urls).                        *)
THEOREM DeliveredSound == Spec => []DeliveredWasReceived
BY ReceivedInvariant, PTL DEF ReceivedInv
-----------------------------------------------------------------------------
(* Messages that are saved once: nobody contends for their jobs.           *)

(* A job exists only with its row, and a thread schedules a webhook only   *)
(* for a message that has been saved.                                      *)
ExistsLive == \A m \in Sms : Exists(m) => row[m] = "live"

Busy(w, m) == writer[w].pc # "idle" /\ writer[w].sms = m

WriterSaved == \A w \in Writers, m \in Sms : Busy(w, m) => version[m] >= 1

(* The one thread that saved the message creates its job and is done.      *)
OneWriter ==
  \A m \in Sms : OnceSaved(m) =>
    /\ \A w \in Writers : Busy(w, m) => writer[w].pc = "schedule" /\ ~Exists(m)
    /\ \A w1, w2 \in Writers : Busy(w1, m) /\ Busy(w2, m) => w1 = w2

(* So the row of the job a worker holds is as the worker last wrote it.    *)
HolderOwns ==
  \A m \in Sms : OnceSaved(m) =>
    \A w \in Workers : Holds(w, m) /\ Exists(m) =>
      /\ job[m].status = "processing"
      /\ worker[w].pc # "bump" => job[m].attempts = worker[w].attempts

HeldWasClaimed ==
  \A w \in Workers, m \in Sms : Holds(w, m) => Exists(m) \/ row[m] = "deleted"

OnceInv ==
  /\ TypeOK /\ LiveIsSaved /\ ExistsLive /\ WriterSaved /\ OneWriter
  /\ HolderOwns /\ HeldWasClaimed /\ ExclusiveDelivery
  /\ FailedOnlyWhenExhausted

(* The parts of OnceInv that speak of rows and writers survive a step that *)
(* leaves both alone and creates no job; the parts that speak of workers   *)
(* survive one that leaves workers, rows and held jobs alone.              *)
LEMMA OnceRows ==
  ASSUME OnceInv, UNCHANGED <<row, version, writer>>,
         \A m \in Sms : Exists(m)' = Exists(m)
  PROVE  LiveIsSaved' /\ ExistsLive' /\ WriterSaved' /\ OneWriter'
BY DEF OnceInv, LiveIsSaved, ExistsLive, WriterSaved, OneWriter, Busy, OnceSaved

(* The parts about workers, when no worker gains a job.                    *)
LEMMA OnceWorkers ==
  ASSUME OnceInv, TypeOK',
         \A w \in Workers, m \in Sms : Holds(w, m)' => Holds(w, m) /\ worker'[w] = worker[w],
         \A m \in Sms : OnceSaved(m)' => OnceSaved(m),
         \A m \in Sms : row[m] = "deleted" => row'[m] = "deleted",
         \A m \in Sms : Exists(m)' \/ ~Exists(m) \/ row'[m] = "deleted",
         \A m \in Sms : OnceSaved(m)' /\ Exists(m)' /\ ~Exists(m) =>
           row[m] # "deleted" /\ job'[m].status # "failed",
         \A m \in Sms : OnceSaved(m)' /\ Exists(m)' /\ Exists(m) =>
           /\ job'[m].attempts = job[m].attempts
           /\ job'[m].status = "failed" => job[m].status = "failed"
           /\ (\E w \in Workers : Holds(w, m)') => job'[m].status = job[m].status
  PROVE  HolderOwns' /\ HeldWasClaimed' /\ ExclusiveDelivery' /\ FailedOnlyWhenExhausted'
<1>1. HolderOwns'
  BY DEF OnceInv, HolderOwns, HeldWasClaimed
<1>2. HeldWasClaimed'
  BY DEF OnceInv, HeldWasClaimed
<1>3. ExclusiveDelivery'
  BY DEF OnceInv, ExclusiveDelivery
<1>4. FailedOnlyWhenExhausted'
  BY DEF OnceInv, FailedOnlyWhenExhausted, Exists
<1> QED
  BY <1>1, <1>2, <1>3, <1>4

(* What one status write does to each job.                                 *)
LEMMA SetStatusAt ==
  ASSUME JobType, NEW m \in Sms, NEW s
  PROVE  /\ SetStatus(m, s)[m].status = s
         /\ SetStatus(m, s)[m].attempts = job[m].attempts
         /\ \A n \in Sms \ {m} : SetStatus(m, s)[n] = job[n]
BY DEF SetStatus, JobType, Jobs

(* Every step of a writer keeps the single-save invariant.                 *)
LEMMA OnceWriterStep ==
  ASSUME OnceInv, TypeOK', NEW w \in Writers,
         \/ \E m \in Sms : Save(w, m)
         \/ Schedule(w) \/ Reschedule(w) \/ ScheduleFault(w) \/ WriterCrash(w)
  PROVE  OnceInv'
<1> USE DEF OnceInv
<1>1. \A m \in Sms : version[m] \in Nat
  BY DEF TypeOK, RowType
<1>2. \A x \in Writers : x # w => writer'[x] = writer[x]
  BY DEF TypeOK, WriterType, Save, Schedule, Reschedule, ScheduleFault,
         WriterCrash
<1>3. CASE \E m \in Sms : Save(w, m)
  <2>1. PICK m \in Sms : Save(w, m)
    BY <1>3
  <2>2. /\ row[m] # "deleted" /\ UNCHANGED <<job, worker>>
        /\ row' = [row EXCEPT ![m] = "live"]
        /\ version' = [version EXCEPT ![m] = version[m] + 1]
        /\ writer'[w] = [pc |-> "schedule", sms |-> m]
    BY <2>1 DEF Save, TypeOK, WriterType
  <2>3. LiveIsSaved' /\ ExistsLive' /\ WriterSaved'
    BY <1>1, <1>2, <2>2
       DEF LiveIsSaved, ExistsLive, WriterSaved, Busy, Exists, TypeOK, RowType
  <2>4. OnceSaved(m)' => ~Exists(m) /\ \A x \in Writers : ~Busy(x, m)
    BY <1>1, <2>2
       DEF LiveIsSaved, ExistsLive, WriterSaved, OnceSaved, TypeOK, RowType
  <2>5. \A n \in Sms \ {m} : version'[n] = version[n]
    BY <2>2 DEF TypeOK, RowType
  <2>6. OneWriter'
    BY <1>2, <2>2, <2>4, <2>5 DEF OneWriter, Busy, OnceSaved, Exists
  <2>7. \A n \in Sms : /\ OnceSaved(n)' => OnceSaved(n)
                       /\ row[n] = "deleted" => row'[n] = "deleted"
    BY <1>1, <2>2 DEF OnceSaved, TypeOK, RowType
  <2>8. HolderOwns' /\ HeldWasClaimed' /\ ExclusiveDelivery'
          /\ FailedOnlyWhenExhausted'
    BY <2>2, <2>7, OnceWorkers DEF Holds, Live, Exists
  <2> QED
    BY <2>3, <2>6, <2>8
<1>4. CASE Schedule(w)
  <2>0. PICK m \in Sms : m = writer[w].sms
    BY <1>4 DEF Schedule, TypeOK, WriterType
  <2>1. Busy(w, m)
    BY <1>4, <2>0 DEF Schedule, Busy
  <2>2. /\ UNCHANGED <<row, version, worker>>
        /\ writer'[w] = IF Exists(m) /\ job[m].status # "delivered"
                          THEN [pc |-> "reschedule", sms |-> m]
                          ELSE IdleWriter
        /\ \A n \in Sms \ {m} : job'[n] = job[n]
    BY <1>4, <2>0 DEF Schedule, TypeOK, WriterType, JobType
  <2>3. \/ job' = job
        \/ row[m] = "live" /\ ~Exists(m) /\ job'[m] = NewJob
    BY <1>4, <2>0 DEF Schedule, TypeOK, JobType
  <2>4. NewJob.status = "pending"
    BY DEF NewJob
  <2>5. LiveIsSaved' /\ ExistsLive'
    BY <2>2, <2>3 DEF LiveIsSaved, ExistsLive, Exists
  <2>6. \A x \in Writers, n \in Sms : Busy(x, n)' => Busy(x, n)
    BY <1>2, <2>1, <2>2 DEF Busy, IdleWriter
  <2>7. WriterSaved'
    BY <2>2, <2>6 DEF WriterSaved
  <2>8. OnceSaved(m) => ~Busy(w, m)'
    BY <2>1, <2>2 DEF OneWriter, Busy, IdleWriter
  <2>9. OneWriter'
    <3> SUFFICES ASSUME NEW n \in Sms, OnceSaved(n)'
                 PROVE  /\ \A x \in Writers : Busy(x, n)' =>
                             writer'[x].pc = "schedule" /\ ~Exists(n)'
                        /\ \A x, y \in Writers :
                             Busy(x, n)' /\ Busy(y, n)' => x = y
      BY DEF OneWriter
    <3>1. OnceSaved(n)
      BY <2>2 DEF OnceSaved
    <3>2. CASE n = m
      BY <2>1, <2>6, <2>8, <3>1, <3>2 DEF OneWriter
    <3>3. CASE n # m
      <4>1. \A x \in Writers : Busy(x, n)' => Busy(x, n) /\ x # w
        BY <2>2, <2>6, <3>3 DEF Busy, IdleWriter
      <4>2. Exists(n)' = Exists(n)
        BY <2>2, <3>3 DEF Exists
      <4> QED
        BY <1>2, <3>1, <4>1, <4>2 DEF OneWriter
    <3> QED
      BY <3>2, <3>3
  <2>10. HolderOwns' /\ HeldWasClaimed' /\ ExclusiveDelivery'
           /\ FailedOnlyWhenExhausted'
    BY <2>2, <2>3, <2>4, OnceWorkers DEF Holds, Live, Exists, OnceSaved
  <2> QED
    BY <2>5, <2>7, <2>9, <2>10
<1>5. CASE Reschedule(w)
  <2>0. PICK m \in Sms : m = writer[w].sms
    BY <1>5 DEF Reschedule, TypeOK, WriterType
  <2>1. Busy(w, m) /\ writer[w].pc = "reschedule"
    BY <1>5, <2>0 DEF Reschedule, Busy
  <2>2. ~OnceSaved(m)
    BY <2>1 DEF OneWriter
  <2>3. /\ UNCHANGED <<row, version, worker>>
        /\ writer'[w] = IdleWriter
        /\ job' = IF Exists(m) THEN SetStatus(m, "pending") ELSE job
    BY <1>5, <2>0 DEF Reschedule, TypeOK, WriterType
  <2>4. /\ \A n \in Sms \ {m} : job'[n] = job[n]
        /\ \A n \in Sms : Exists(n)' = Exists(n)
    BY <2>1, <2>3, SetStatusAt DEF Exists, TypeOK
  <2>5. LiveIsSaved' /\ ExistsLive' /\ WriterSaved'
    BY <1>2, <2>3, <2>4 DEF LiveIsSaved, ExistsLive, WriterSaved, Busy, IdleWriter
  <2>6. OneWriter'
    BY <1>2, <2>3, <2>4 DEF OneWriter, OnceSaved, Busy, IdleWriter
  <2>7. HolderOwns' /\ HeldWasClaimed' /\ ExclusiveDelivery'
          /\ FailedOnlyWhenExhausted'
    BY <2>2, <2>3, <2>4, OnceWorkers DEF Holds, Live, OnceSaved
  <2> QED
    BY <2>5, <2>6, <2>7
<1>6. CASE ScheduleFault(w) \/ WriterCrash(w)
  <2>1. UNCHANGED <<row, version, job, worker>>
    BY <1>6 DEF ScheduleFault, WriterCrash
  <2>2. writer'[w] = IdleWriter \/ (writer'[w].pc = "schedule" /\ writer'[w].sms = writer[w].sms /\ writer[w].pc # "idle")
    BY <1>6 DEF ScheduleFault, WriterCrash, TypeOK, WriterType, WriterRecords
  <2>3. LiveIsSaved' /\ ExistsLive' /\ WriterSaved'
    BY <1>2, <2>1, <2>2
       DEF LiveIsSaved, ExistsLive, Exists, WriterSaved, Busy, IdleWriter
  <2>4. OneWriter'
    BY <1>2, <2>1, <2>2 DEF OneWriter, OnceSaved, Exists, Busy, IdleWriter
  <2>5. HolderOwns' /\ HeldWasClaimed' /\ ExclusiveDelivery'
          /\ FailedOnlyWhenExhausted'
    BY <2>1, OnceWorkers DEF Holds, Live, OnceSaved, Exists
  <2> QED
    BY <2>3, <2>4, <2>5
<1> QED
  BY <1>3, <1>4, <1>5, <1>6

(* Every step of a worker keeps the single-save invariant.                 *)
LEMMA OnceWorkerStep ==
  ASSUME OnceInv, TypeOK', NEW w \in Workers, WorkerNext(w)
  PROVE  OnceInv'
<1> USE DEF OnceInv
<1>0. UNCHANGED <<row, version, writer>>
  BY DEF WorkerNext, Claim, Bump, BumpFault, Load, LoadFault, Post, Finalize,
         FinalizeFault
<1>1. worker'[w] \in WorkerRecords
      /\ \A x \in Workers : x # w => worker'[x] = worker[x]
  BY DEF TypeOK, WorkerType, WorkerNext, Claim, Bump, BumpFault, Load,
         LoadFault, Post, Finalize, FinalizeFault
<1>2. CASE Claim(w)
  <2> DEFINE r(m) == [IdleWorker EXCEPT !.pc = "bump", !.sms = m,
                                        !.attempts = job[m].attempts]
  <2>1. PICK m \in Sms : /\ OldestPending(m)
                         /\ job' = SetStatus(m, "processing")
                         /\ worker' = [worker EXCEPT ![w] = r(m)]
    BY <1>2 DEF Claim
  <2>2. r(m).pc = "bump" /\ r(m).sms = m
    BY DEF IdleWorker
  <2> HIDE DEF r
  <2>3. worker'[w].pc = "bump" /\ worker'[w].sms = m
    BY <2>1, <2>2 DEF TypeOK, WorkerType
  <2>4. /\ job'[m].status = "processing"
        /\ \A n \in Sms \ {m} : job'[n] = job[n]
    BY <2>1, SetStatusAt DEF TypeOK
  <2>5. Exists(m) /\ job[m].status = "pending"
    BY <2>1 DEF OldestPending, Exists
  <2>6. \A n \in Sms : Exists(n)' = Exists(n)
    BY <2>4, <2>5 DEF Exists
  <2>7. OnceSaved(m) => \A x \in Workers : ~Holds(x, m)
    BY <2>5 DEF HolderOwns
  <2>8. \A x \in Workers, n \in Sms :
          Holds(x, n)' <=> (x = w /\ n = m) \/ (x # w /\ Holds(x, n))
    BY <1>1, <2>3 DEF Holds, Live
  <2>9. HolderOwns'
    BY <1>0, <1>1, <2>3, <2>4, <2>6, <2>7, <2>8 DEF HolderOwns, OnceSaved
  <2>10. HeldWasClaimed'
    BY <1>0, <2>5, <2>6, <2>8 DEF HeldWasClaimed
  <2>11. ExclusiveDelivery'
    BY <1>0, <2>7, <2>8 DEF ExclusiveDelivery, OnceSaved
  <2>12. FailedOnlyWhenExhausted'
    BY <1>0, <2>4 DEF FailedOnlyWhenExhausted, OnceSaved
  <2> QED
    BY <1>0, <2>6, <2>9, <2>10, <2>11, <2>12, OnceRows
<1>3. CASE Bump(w)
  <2> DEFINE k == worker[w].attempts + 1
             r == [worker[w] EXCEPT !.pc = "load", !.attempts = k]
  <2>0. PICK m \in Sms : m = worker[w].sms
    BY <1>3 DEF Bump, Live, TypeOK, WorkerType
  <2>1. Holds(w, m)
    BY <1>3, <2>0 DEF Bump, Holds, Live
  <2>2. CASE ~Exists(m)
    <3>1. worker'[w] = IdleWorker /\ job' = job
      BY <1>3, <2>0, <2>2 DEF Bump, TypeOK, WorkerType
    <3>2. \A x \in Workers, n \in Sms :
            Holds(x, n)' => Holds(x, n) /\ worker'[x] = worker[x]
      BY <1>1, <3>1 DEF Holds, Live, IdleWorker
    <3>3. \A n \in Sms : Exists(n)' = Exists(n)
      BY <3>1 DEF Exists
    <3> QED
      BY <1>0, <3>1, <3>2, <3>3, OnceRows, OnceWorkers DEF OnceSaved
  <2>3. CASE Exists(m)
    <3>1. worker' = [worker EXCEPT ![w] = r] /\ job' = SetAttempts(m, k)
      BY <1>3, <2>0, <2>3 DEF Bump
    <3>2. r.pc = "load" /\ r.sms = m /\ r.attempts = k
      BY <2>0 DEF TypeOK, WorkerType, WorkerRecords
    <3> HIDE DEF r
    <3>3. /\ worker'[w].pc = "load" /\ worker'[w].sms = m
          /\ worker'[w].attempts = worker[w].attempts + 1
      BY <3>1, <3>2 DEF TypeOK, WorkerType
    <3>4. /\ job'[m].status = job[m].status /\ job'[m].attempts = worker[w].attempts + 1
          /\ \A n \in Sms \ {m} : job'[n] = job[n]
      BY <2>1, <3>1 DEF SetAttempts, TypeOK, JobType, Jobs
    <3>5. \A n \in Sms : Exists(n)' = Exists(n)
      BY <3>4 DEF Exists
    <3>6. \A x \in Workers, n \in Sms : Holds(x, n)' <=> Holds(x, n)
      BY <1>1, <2>1, <3>3 DEF Holds, Live
    <3>7. OnceSaved(m) => /\ \A x \in Workers : Holds(x, m) => x = w
                          /\ job[m].status = "processing"
      BY <2>1, <2>3 DEF ExclusiveDelivery, HolderOwns
    <3>8. HolderOwns'
      <4> SUFFICES ASSUME NEW n \in Sms, NEW x \in Workers, OnceSaved(n)',
                          Holds(x, n)', Exists(n)'
                   PROVE  /\ job'[n].status = "processing"
                          /\ worker'[x].pc # "bump" =>
                               job'[n].attempts = worker'[x].attempts
        BY DEF HolderOwns
      <4>1. OnceSaved(n) /\ Holds(x, n) /\ Exists(n)
        BY <1>0, <3>5, <3>6 DEF OnceSaved
      <4>2. CASE n = m
        BY <3>3, <3>4, <3>7, <4>1, <4>2
      <4>3. CASE n # m
        <5>1. x # w
          BY <2>1, <4>1, <4>3 DEF Holds
        <5> QED
          BY <1>1, <3>4, <4>1, <4>3, <5>1 DEF HolderOwns
      <4> QED
        BY <4>2, <4>3
    <3>9. HeldWasClaimed' /\ ExclusiveDelivery'
      BY <1>0, <3>5, <3>6 DEF HeldWasClaimed, ExclusiveDelivery, OnceSaved
    <3>10. FailedOnlyWhenExhausted'
      BY <1>0, <3>4, <3>7 DEF FailedOnlyWhenExhausted, OnceSaved
    <3> QED
      BY <1>0, <3>5, <3>8, <3>9, <3>10, OnceRows
  <2> QED
    BY <2>2, <2>3
<1>4. CASE BumpFault(w) \/ Load(w) \/ LoadFault(w) \/ Post(w) \/ FinalizeFault(w)
  <2>0. PICK m \in Sms : m = worker[w].sms
    BY <1>4 DEF BumpFault, Load, LoadFault, Post, FinalizeFault, Live, TypeOK,
                WorkerType
  <2>1. Holds(w, m) /\ job' = job
    BY <1>4, <2>0
       DEF BumpFault, Load, LoadFault, Post, FinalizeFault, Holds, Live
  <2> DEFINE Same(r) == r.sms = m /\ r.pc \notin {"idle", "bump"}
                          /\ r.attempts = worker[w].attempts
  <2>2. \/ worker'[w].pc = "idle"
        \/ worker[w].pc = "bump" /\ worker'[w].pc = "bump" /\ worker'[w].sms = m
        \/ worker[w].pc # "bump" /\ Same(worker'[w])
    <3>1. worker[w] \in WorkerRecords
      BY DEF TypeOK, WorkerType
    <3>2. CASE BumpFault(w)
      BY <2>0, <3>1, <3>2
         DEF BumpFault, IdleWorker, TypeOK, WorkerType, WorkerRecords
    <3>3. CASE Load(w) \/ LoadFault(w)
      <4> DEFINE r1 == [worker[w] EXCEPT !.pc = "post", !.todo = active,
                                         !.version = version[m]]
                 r2 == [worker[w] EXCEPT !.pc = "finalize", !.ok = FALSE]
      <4>1. Same(r1) /\ Same(r2)
        BY <2>0, <3>1 DEF WorkerRecords
      <4>2. worker' = [worker EXCEPT ![w] = r1]
              \/ worker' = [worker EXCEPT ![w] = r2]
        BY <2>0, <3>3 DEF Load, LoadFault
      <4>3. worker[w].pc = "load"
        BY <3>3 DEF Load, LoadFault
      <4> HIDE DEF r1, r2
      <4> QED
        BY <4>1, <4>2, <4>3 DEF TypeOK, WorkerType
    <3>4. CASE Post(w)
      BY <2>0, <3>1, <3>4
         DEF Post, AfterUrl, TypeOK, WorkerType, WorkerRecords
    <3>5. CASE FinalizeFault(w)
      BY <3>5 DEF FinalizeFault, IdleWorker, TypeOK, WorkerType
    <3> QED
      BY <1>4, <3>2, <3>3, <3>4, <3>5
  <2>3. \A x \in Workers, n \in Sms : Holds(x, n)' => Holds(x, n)
    BY <1>1, <2>1, <2>2 DEF Holds, Live
  <2>4. \A n \in Sms : Exists(n)' = Exists(n)
    BY <2>1 DEF Exists
  <2>5. HolderOwns'
    BY <1>0, <1>1, <2>1, <2>2, <2>3, <2>4 DEF HolderOwns, OnceSaved, Holds, Live
  <2>6. HeldWasClaimed' /\ ExclusiveDelivery'
    BY <1>0, <2>3, <2>4 DEF HeldWasClaimed, ExclusiveDelivery, OnceSaved
  <2>7. FailedOnlyWhenExhausted'
    BY <1>0, <2>1 DEF FailedOnlyWhenExhausted, OnceSaved
  <2> QED
    BY <1>0, <2>4, <2>5, <2>6, <2>7, OnceRows
<1>5. CASE Finalize(w)
  <2>0. PICK m \in Sms : m = worker[w].sms
    BY <1>5 DEF Finalize, Live, TypeOK, WorkerType
  <2>1. Holds(w, m)
    BY <1>5, <2>0 DEF Finalize, Holds, Live
  <2>2. /\ worker'[w] = IdleWorker
        /\ job' = IF Exists(m) THEN SetStatus(m, AfterRound(w)) ELSE job
    BY <1>5, <2>0 DEF Finalize, TypeOK, WorkerType
  <2>3. AfterRound(w) \in {"delivered", "failed", "pending"}
    BY DEF AfterRound
  <2>4. AfterRound(w) = "failed" => worker[w].attempts >= MaxAttempts
    BY DEF AfterRound
  <2>5. worker[w].pc # "bump"
    BY <1>5 DEF Finalize
  <2>6. /\ \A n \in Sms \ {m} : job'[n] = job[n]
        /\ job'[m].attempts = job[m].attempts
        /\ Exists(m) => job'[m].status = AfterRound(w)
        /\ \A n \in Sms : Exists(n)' = Exists(n)
    BY <2>1, <2>2, <2>3, SetStatusAt DEF Exists, TypeOK
  <2>7. \A x \in Workers, n \in Sms : Holds(x, n)' => Holds(x, n) /\ x # w
    BY <1>1, <2>2 DEF Holds, Live, IdleWorker
  <2>8. OnceSaved(m) => \A x \in Workers : ~Holds(x, m)'
    BY <2>1, <2>7 DEF ExclusiveDelivery
  <2>9. HolderOwns'
    BY <1>0, <1>1, <2>6, <2>7, <2>8 DEF HolderOwns, OnceSaved
  <2>10. HeldWasClaimed' /\ ExclusiveDelivery'
    BY <1>0, <2>6, <2>7 DEF HeldWasClaimed, ExclusiveDelivery, OnceSaved
  <2>11. OnceSaved(m) /\ Exists(m) => job[m].attempts = worker[w].attempts
    BY <2>1, <2>5 DEF HolderOwns
  <2>12. FailedOnlyWhenExhausted'
    BY <1>0, <2>2, <2>4, <2>6, <2>11 DEF FailedOnlyWhenExhausted, OnceSaved
  <2> QED
    BY <1>0, <2>6, <2>9, <2>10, <2>12, OnceRows
<1> QED
  BY <1>2, <1>3, <1>4, <1>5 DEF WorkerNext

(* The single-save invariant is inductive: get_or_create, claim_next_job,  *)
(* process_webhook_job and the stale reset at the start of                 *)
(* run_webhook_worker cannot undo each other on such a message.            *)
LEMMA OnceInvariant == Spec => []OnceInv
<1>1. Init => LiveIsSaved /\ ExistsLive /\ WriterSaved /\ OneWriter
              /\ HolderOwns /\ HeldWasClaimed /\ ExclusiveDelivery
              /\ FailedOnlyWhenExhausted
  BY DEF Init, LiveIsSaved, ExistsLive, WriterSaved, OneWriter, HolderOwns,
         HeldWasClaimed, ExclusiveDelivery, FailedOnlyWhenExhausted, Exists,
         Busy, Holds, Live, IdleWriter, IdleWorker, NoJob
<1>2. OnceInv /\ TypeOK' /\ [Next]_vars => OnceInv'
  <2> SUFFICES ASSUME OnceInv, TypeOK', [Next]_vars PROVE OnceInv'
    OBVIOUS
  <2> USE DEF OnceInv
  <2>1. ASSUME NEW m \in Sms, RotateRow(m) PROVE OnceInv'
    <3>1. /\ row'[m] = "deleted" /\ row[m] = "live"
          /\ \A n \in Sms \ {m} : row'[n] = row[n] /\ job'[n] = job[n]
          /\ ~Exists(m)' /\ UNCHANGED <<version, writer, worker>>
      BY <2>1 DEF RotateRow, Exists, NoJob, TypeOK, RowType, JobType
    <3>2. LiveIsSaved' /\ ExistsLive' /\ WriterSaved' /\ OneWriter'
      BY <3>1 DEF LiveIsSaved, ExistsLive, WriterSaved, OneWriter, Busy,
                  OnceSaved, Exists
    <3>3. HolderOwns' /\ HeldWasClaimed' /\ ExclusiveDelivery'
            /\ FailedOnlyWhenExhausted'
      BY <3>1, OnceWorkers DEF Holds, Live, OnceSaved, Exists
    <3> QED
      BY <3>2, <3>3
  <2>2. ASSUME NEW m \in Sms, TimePasses(m) PROVE OnceInv'
    <3>1. /\ UNCHANGED <<row, version, writer, worker>>
          /\ \A n \in Sms : /\ job'[n].status = job[n].status
                            /\ job'[n].attempts = job[n].attempts
      BY <2>2 DEF TimePasses, TypeOK, JobType, Jobs
    <3> QED
      BY <3>1, OnceRows, OnceWorkers DEF Holds, Live, OnceSaved, Exists
  <2>3. ASSUME WorkerCrash PROVE OnceInv'
    <3>1. /\ UNCHANGED <<row, version, writer, job>>
          /\ \A w \in Workers, m \in Sms : ~Holds(w, m)'
      BY <2>3 DEF WorkerCrash, Holds, Live, IdleWorker
    <3> QED
      BY <3>1, OnceRows, OnceWorkers DEF OnceSaved, Exists
  <2>4. ASSUME Restart PROVE OnceInv'
    <3>1. /\ UNCHANGED <<row, version, worker>>
          /\ \A w \in Workers, m \in Sms : ~Holds(w, m)'
      BY <2>4 DEF Restart, Holds, Live, TypeOK, WorkerType
    <3>2. \A m \in Sms :
            /\ Exists(m)' = Exists(m)
            /\ job'[m].attempts = job[m].attempts
            /\ job'[m].status = "failed" => job[m].status = "failed"
      BY <2>4 DEF Restart, Exists, Stale, TypeOK, JobType, Jobs
    <3>3. \A w \in Writers, m \in Sms : ~Busy(w, m)'
      BY <2>4 DEF Restart, Busy, IdleWriter
    <3>4. LiveIsSaved' /\ ExistsLive' /\ WriterSaved' /\ OneWriter'
      <4>1. LiveIsSaved'
        BY <3>1 DEF LiveIsSaved
      <4>2. ExistsLive'
        BY <3>1, <3>2 DEF ExistsLive
      <4>3. WriterSaved' /\ OneWriter'
        BY <3>3 DEF WriterSaved, OneWriter
      <4> QED
        BY <4>1, <4>2, <4>3
    <3>5. HolderOwns' /\ HeldWasClaimed' /\ ExclusiveDelivery'
      BY <3>1 DEF HolderOwns, HeldWasClaimed, ExclusiveDelivery
    <3>6. FailedOnlyWhenExhausted'
      BY <3>1, <3>2 DEF FailedOnlyWhenExhausted, OnceSaved, Exists
    <3> QED
      BY <3>4, <3>5, <3>6
  <2>5. ASSUME UNCHANGED vars \/ Configure PROVE OnceInv'
    BY <2>5, ConfigureFrame, OnceRows, OnceWorkers
       DEF vars, Holds, Live, OnceSaved, Exists
  <2> QED
    BY <2>1, <2>2, <2>3, <2>4, <2>5, OnceWriterStep, OnceWorkerStep
       DEF Next, QueueNext, WriterNext
<1> QED
  BY <1>1, <1>2, Typing, PTL DEF Spec, OnceInv

(* Two worker threads never hold the job of a message saved once           *)
(* (claim_next_job, reset_stale_processing_jobs).                          *)
THEOREM Exclusive == Spec => []ExclusiveDelivery
BY OnceInvariant, PTL DEF OnceInv

(* Nor is such a job marked FAILED before its counter reaches the maximum  *)
(* (_finalize in process_webhook_job).                                     *)
THEOREM FailsExhausted == Spec => []FailedOnlyWhenExhausted
BY OnceInvariant, PTL DEF OnceInv

(* A settled job of a message saved once is in no thread's hands.          *)
LEMMA SettledIsFree ==
  ASSUME OnceInv, NEW m \in Sms, OnceSaved(m), Terminal(m)
  PROVE  /\ Exists(m)
         /\ \A w \in Workers : ~Holds(w, m)
         /\ \A w \in Writers : ~Busy(w, m)
<1>1. Exists(m)
  BY DEF Terminal, Exists
<1>2. \A w \in Workers : ~Holds(w, m)
  BY <1>1 DEF OnceInv, HolderOwns, Terminal
<1>3. \A w \in Writers : ~Busy(w, m)
  BY <1>1 DEF OnceInv, OneWriter
<1> QED
  BY <1>1, <1>2, <1>3

(* DELIVERED and FAILED are final for a message saved once: neither the    *)
(* blind saves of process_webhook_job nor reset_stale_processing_jobs      *)
(* take them back.                                                         *)
THEOREM Final == Spec => TerminalIsFinal
<1>1. OnceInv /\ [Next]_vars =>
        [\A m \in Sms : OnceSaved(m) /\ Terminal(m) =>
           \/ job'[m].status = job[m].status
           \/ row'[m] = "deleted"]_vars
  <2> SUFFICES ASSUME OnceInv, Next, NEW m \in Sms, OnceSaved(m), Terminal(m)
               PROVE  job'[m].status = job[m].status \/ row'[m] = "deleted"
    BY DEF vars
  <2>1. TypeOK /\ job[m].status \in {"delivered", "failed"}
    BY DEF OnceInv, Terminal
  <2>2. ASSUME NEW w \in Writers, WriterNext(w)
        PROVE  job'[m].status = job[m].status
    <3>1. writer[w].pc # "idle" => writer[w].sms # m
      BY SettledIsFree DEF Busy
    <3>2. CASE Schedule(w)
      BY <2>1, <3>1, <3>2 DEF Schedule, TypeOK, JobType
    <3>3. CASE Reschedule(w)
      BY <2>1, <3>1, <3>3 DEF Reschedule, SetStatus, TypeOK, JobType
    <3> QED
      BY <2>2, <3>2, <3>3 DEF WriterNext, Save, ScheduleFault, WriterCrash
  <2>3. ASSUME NEW w \in Workers, WorkerNext(w)
        PROVE  job'[m].status = job[m].status
    <3>1. Live(w) => worker[w].sms # m
      BY SettledIsFree DEF Holds
    <3>2. CASE Claim(w)
      BY <2>1, <3>2 DEF Claim, OldestPending, SetStatus, TypeOK, JobType
    <3>3. CASE Bump(w)
      BY <2>1, <3>1, <3>3 DEF Bump, SetAttempts, TypeOK, JobType, Live
    <3>4. CASE Finalize(w)
      BY <2>1, <3>1, <3>4 DEF Finalize, SetStatus, TypeOK, JobType, Live
    <3> QED
      BY <2>3, <3>2, <3>3, <3>4
         DEF WorkerNext, BumpFault, Load, LoadFault, Post, FinalizeFault
  <2>4. ASSUME NEW n \in Sms, RotateRow(n) \/ TimePasses(n)
        PROVE  job'[m].status = job[m].status \/ row'[m] = "deleted"
    <3>1. CASE RotateRow(n)
      BY <2>1, <3>1 DEF RotateRow, TypeOK, JobType, RowType
    <3>2. CASE TimePasses(n)
      BY <2>1, <3>2 DEF TimePasses, TypeOK, JobType, Jobs
    <3> QED
      BY <2>4, <3>1, <3>2
  <2>5. ASSUME WorkerCrash \/ Restart PROVE job'[m].status = job[m].status
    BY <2>1, <2>5 DEF WorkerCrash, Restart, Stale, TypeOK, JobType
  <2>6. ASSUME Configure PROVE job'[m].status = job[m].status
    BY <2>6, ConfigureFrame
  <2> QED
    BY <2>2, <2>3, <2>4, <2>5, <2>6 DEF Next, QueueNext
<1> QED
  BY <1>1, OnceInvariant, PTL DEF Spec, TerminalIsFinal

(* And nothing is sent for such a job any more (_deliver_payload_to_urls). *)
THEOREM Quiet == Spec => QuietAtRest
<1>1. OnceInv /\ [Next]_vars =>
        [\A m \in Sms : OnceSaved(m) /\ Terminal(m) =>
           /\ rounds'[m] = rounds[m]
           /\ \A r \in received' \ received : r[1] # m]_vars
  <2> SUFFICES ASSUME OnceInv, Next, NEW m \in Sms, OnceSaved(m), Terminal(m)
               PROVE  /\ rounds'[m] = rounds[m]
                      /\ \A r \in received' \ received : r[1] # m
    BY DEF vars
  <2> USE SettledIsFree DEF OnceInv
  <2>1. ASSUME NEW w \in Workers, Load(w) \/ LoadFault(w)
        PROVE  rounds'[m] = rounds[m] /\ received' = received
    <3>1. worker[w].sms # m
      BY <2>1 DEF Load, LoadFault, Holds, Live
    <3> QED
      BY <2>1, <3>1 DEF Load, LoadFault, TypeOK, HistoryType
  <2>2. ASSUME NEW w \in Workers, Post(w)
        PROVE  /\ rounds'[m] = rounds[m]
               /\ \A r \in received' \ received : r[1] # m
    <3>1. worker[w].sms # m
      BY <2>2 DEF Post, Holds, Live
    <3> QED
      BY <2>2, <3>1 DEF Post
  <2> QED
    BY <2>1, <2>2, ConfigureFrame
       DEF Next, QueueNext, WriterNext, Save, Schedule, Reschedule, ScheduleFault,
           WriterCrash, WorkerNext, Claim, Bump, BumpFault, Finalize,
           FinalizeFault, RotateRow, TimePasses, WorkerCrash, Restart
<1> QED
  BY <1>1, OnceInvariant, PTL DEF Spec, QuietAtRest

=============================================================================
