----------------------- MODULE WebhookDeliveryProofs -----------------------
(***************************************************************************)
(* More theorems about WebhookOutbox, for any number of messages, writers, *)
(* workers and URLs: that its work always has an owner, how many rounds a  *)
(* message can cost, and that it implements WebhookDelivery.               *)
(***************************************************************************)
EXTENDS WebhookOutboxProofs

-----------------------------------------------------------------------------
(* Every message's work has an owner.                                      *)

Scheduled(m) == \E w \in Writers : writer[w] = [pc |-> "schedule", sms |-> m]

Held(m) == \E w \in Workers : Holds(w, m)

Owned(m) ==
  /\ row[m] = "live" /\ ~Exists(m) => Scheduled(m)
  /\ job[m].status = "processing" => Held(m)

(* Only a crash takes the worker process down.                             *)
UpUnlessCrashed == crashes = 0 => up

OwnedInv == TypeOK /\ UpUnlessCrashed /\ WorkIsOwned

(* A writer's step takes a message from no one but the writer itself, and  *)
(* that one leaves only after get_or_create.                               *)
LEMMA OwnedWriterStep ==
  ASSUME TypeOK, NEW m \in Sms, Owned(m), NEW w \in Writers,
         WriterNext(w), faults' = 0, crashes' = 0
  PROVE  Owned(m)'
<1> DEFINE me == [pc |-> "schedule", sms |-> m]
<1>1. \A x \in Writers : x # w => writer'[x] = writer[x]
  BY DEF TypeOK, WriterType, WriterNext, Save, Schedule, Reschedule,
         ScheduleFault, WriterCrash
<1>2. UNCHANGED worker
  BY DEF WriterNext, Save, Schedule, Reschedule, ScheduleFault, WriterCrash
<1>3. Held(m)' <=> Held(m)
  BY <1>2 DEF Held, Holds, Live
<1>4. ASSUME writer[w] # me, UNCHANGED <<row, job>> PROVE Owned(m)'
  BY <1>1, <1>3, <1>4 DEF Owned, Scheduled, Exists
<1>5. CASE \E n \in Sms : Save(w, n)
  <2>1. PICK n \in Sms : Save(w, n)
    BY <1>5
  <2>2. CASE n = m
    <3>1. Scheduled(m)'
      BY <2>1, <2>2 DEF Save, Scheduled, TypeOK, WriterType
    <3>2. UNCHANGED job
      BY <2>1 DEF Save
    <3> QED
      BY <1>3, <3>1, <3>2 DEF Owned
  <2>3. CASE n # m
    <3>1. row'[m] = row[m] /\ UNCHANGED job /\ writer[w] # me
      BY <2>1, <2>3 DEF Save, TypeOK, RowType
    <3> QED
      BY <1>1, <1>3, <3>1 DEF Owned, Scheduled, Exists
  <2> QED
    BY <2>2, <2>3
<1>6. CASE Schedule(w)
  <2>1. PICK n \in Sms : n = writer[w].sms
    BY <1>6 DEF Schedule, TypeOK, WriterType
  <2>2. UNCHANGED row
    BY <1>6 DEF Schedule
  <2>3. CASE n = m
    <3>1. CASE row[m] = "live" /\ ~Exists(m)
      <4>1. job'[m] = NewJob
        BY <1>6, <2>1, <2>3, <3>1 DEF Schedule, TypeOK, JobType
      <4> QED
        BY <4>1 DEF Owned, Exists, NewJob
    <3>2. CASE ~(row[m] = "live" /\ ~Exists(m))
      <4>1. UNCHANGED job
        BY <1>6, <2>1, <2>3, <3>2 DEF Schedule
      <4> QED
        BY <1>3, <2>2, <3>2, <4>1 DEF Owned, Exists
    <3> QED
      BY <3>1, <3>2
  <2>4. CASE n # m
    <3>1. job'[m] = job[m] /\ writer[w] # me
      BY <1>6, <2>1, <2>4 DEF Schedule, TypeOK, JobType
    <3> QED
      BY <1>1, <1>3, <2>2, <3>1 DEF Owned, Scheduled, Exists
  <2> QED
    BY <2>3, <2>4
<1>7. CASE Reschedule(w)
  <2>1. writer[w] # me /\ UNCHANGED row
    BY <1>7 DEF Reschedule
  <2>2. PICK n \in Sms : n = writer[w].sms
    BY <1>7 DEF Reschedule, TypeOK, WriterType
  <2>3. \/ job'[m] = job[m]
        \/ Exists(m) /\ job'[m].status = "pending"
    BY <1>7, <2>2, SetStatusAt DEF Reschedule, TypeOK
  <2> QED
    BY <1>1, <1>3, <2>1, <2>3 DEF Owned, Scheduled, Exists
<1>8. CASE ScheduleFault(w) \/ WriterCrash(w)
  BY <1>8 DEF ScheduleFault, WriterCrash, TypeOK, HistoryType
<1> QED
  BY <1>5, <1>6, <1>7, <1>8 DEF WriterNext

(* A worker that lets a message go has just written its outcome, or found  *)
(* its job deleted; a claim that makes a job PROCESSING holds it.          *)
LEMMA OwnedWorkerStep ==
  ASSUME TypeOK, TypeOK', NEW m \in Sms, Owned(m), NEW w \in Workers,
         WorkerNext(w), faults' = 0
  PROVE  Owned(m)'
<1>1. UNCHANGED <<row, writer>>
  BY DEF WorkerNext, Claim, Bump, BumpFault, Load, LoadFault, Post, Finalize,
         FinalizeFault
<1>2. Scheduled(m)' <=> Scheduled(m)
  BY <1>1 DEF Scheduled
<1>3. \A x \in Workers : x # w => worker'[x] = worker[x]
  BY DEF TypeOK, WorkerType, WorkerNext, Claim, Bump, BumpFault, Load,
         LoadFault, Post, Finalize, FinalizeFault
<1>4. ASSUME job'[m].status = job[m].status,
             Holds(w, m) => Holds(w, m)' \/ job[m].status # "processing"
      PROVE  Owned(m)'
  BY <1>1, <1>2, <1>3, <1>4 DEF Owned, Held, Holds, Live, Exists
<1>5. worker[w] \in WorkerRecords /\ (Live(w) => worker[w].sms \in Sms)
  BY DEF TypeOK, WorkerType
<1>6. CASE Claim(w)
  <2> DEFINE r(n) == [IdleWorker EXCEPT !.pc = "bump", !.sms = n,
                                        !.attempts = job[n].attempts]
  <2>1. PICK n \in Sms : /\ OldestPending(n)
                         /\ job' = SetStatus(n, "processing")
                         /\ worker' = [worker EXCEPT ![w] = r(n)]
    BY <1>6 DEF Claim
  <2>2. r(n).pc = "bump" /\ r(n).sms = n
    BY DEF IdleWorker
  <2> HIDE DEF r
  <2>3. Holds(w, n)'
    BY <2>1, <2>2 DEF Holds, Live, TypeOK, WorkerType
  <2>4. ~Live(w)
    BY <1>6 DEF Claim
  <2>5. CASE n = m
    <3>1. job'[m].status = "processing" /\ Held(m)'
      BY <2>1, <2>3, <2>5, SetStatusAt DEF Held, TypeOK
    <3> QED
      BY <3>1 DEF Owned, Exists
  <2>6. CASE n # m
    <3>1. job'[m] = job[m]
      BY <2>1, <2>6, SetStatusAt DEF TypeOK
    <3> QED
      BY <1>4, <2>4, <3>1 DEF Holds
  <2> QED
    BY <2>5, <2>6
<1>7. CASE Bump(w)
  <2> DEFINE k == worker[w].attempts + 1
             r == [worker[w] EXCEPT !.pc = "load", !.attempts = k]
  <2>1. PICK n \in Sms : n = worker[w].sms
    BY <1>5, <1>7 DEF Bump, Live
  <2>2. CASE ~Exists(n)
    <3>1. UNCHANGED job
      BY <1>7, <2>1, <2>2 DEF Bump
    <3>2. Holds(w, m) => job[m].status # "processing"
      BY <2>1, <2>2 DEF Holds, Exists
    <3> QED
      BY <1>4, <3>1, <3>2
  <2>3. CASE Exists(n)
    <3>1. r.pc = "load" /\ r.sms = n
      BY <1>5, <2>1 DEF WorkerRecords
    <3>2. worker' = [worker EXCEPT ![w] = r] /\ job' = SetAttempts(n, k)
      BY <1>7, <2>1, <2>3 DEF Bump
    <3> HIDE DEF r, k
    <3>3. Holds(w, m) => Holds(w, m)'
      BY <2>1, <3>1, <3>2 DEF Holds, Live, TypeOK, WorkerType
    <3>4. job'[m].status = job[m].status
      BY <3>2 DEF SetAttempts, TypeOK, JobType, Jobs
    <3> QED
      BY <1>4, <3>3, <3>4
  <2> QED
    BY <2>2, <2>3
<1>8. CASE Load(w)
  <2> DEFINE r1 == [worker[w] EXCEPT !.pc = "post", !.todo = active,
                                     !.version = version[worker[w].sms]]
             r2 == [worker[w] EXCEPT !.pc = "finalize", !.ok = FALSE]
  <2>1. /\ r1.pc = "post" /\ r1.sms = worker[w].sms
        /\ r2.pc = "finalize" /\ r2.sms = worker[w].sms
    BY <1>5 DEF WorkerRecords
  <2>2. /\ UNCHANGED job
        /\ \/ worker' = [worker EXCEPT ![w] = r1]
           \/ worker' = [worker EXCEPT ![w] = r2]
    BY <1>8 DEF Load
  <2> HIDE DEF r1, r2
  <2>3. Holds(w, m) => Holds(w, m)'
    BY <2>1, <2>2 DEF Holds, Live, TypeOK, WorkerType
  <2> QED
    BY <1>4, <2>2, <2>3
<1>9. CASE Post(w)
  <2>1. PICK u \in worker[w].todo, acked \in BOOLEAN :
          worker' = [worker EXCEPT ![w] = AfterUrl(w, u, acked)]
    BY <1>9 DEF Post
  <2>2. AfterUrl(w, u, acked).pc = "post"
          /\ AfterUrl(w, u, acked).sms = worker[w].sms
    BY <1>5, <1>9 DEF AfterUrl, Post, WorkerRecords
  <2>3. Holds(w, m) => Holds(w, m)'
    BY <2>1, <2>2 DEF Holds, Live, TypeOK, WorkerType
  <2> QED
    BY <1>4, <1>9, <2>3 DEF Post
<1>10. CASE Finalize(w)
  <2>1. PICK n \in Sms : n = worker[w].sms
    BY <1>5, <1>10 DEF Finalize, Live
  <2>2. job' = IF Exists(n) THEN SetStatus(n, AfterRound(w)) ELSE job
    BY <1>10, <2>1 DEF Finalize
  <2>3. AfterRound(w) \in {"delivered", "failed", "pending"}
    BY DEF AfterRound
  <2>4. CASE n = m /\ Exists(m)
    <3>1. job'[m].status = AfterRound(w)
      BY <2>2, <2>4, SetStatusAt DEF TypeOK
    <3> QED
      BY <2>3, <3>1 DEF Owned, Exists
  <2>5. CASE n # m \/ ~Exists(m)
    <3>1. job'[m] = job[m]
      BY <2>2, <2>5, SetStatusAt DEF TypeOK
    <3>2. Holds(w, m) => job[m].status # "processing"
      BY <2>1, <2>5 DEF Holds, Exists
    <3> QED
      BY <1>4, <3>1, <3>2
  <2> QED
    BY <2>4, <2>5
<1>11. CASE BumpFault(w) \/ LoadFault(w) \/ FinalizeFault(w)
  BY <1>11 DEF BumpFault, LoadFault, FinalizeFault, TypeOK, HistoryType
<1> QED
  BY <1>6, <1>7, <1>8, <1>9, <1>10, <1>11 DEF WorkerNext

(* The counters of errors and crashes only grow, by one at a time.         *)
LEMMA CountersGrow ==
  ASSUME [Next]_vars
  PROVE  /\ faults' = faults \/ faults' = faults + 1
         /\ crashes' = crashes \/ crashes' = crashes + 1
         /\ WorkerCrash => crashes' = crashes + 1
BY ConfigureFrame
   DEF Next, QueueNext, WriterNext, Save, Schedule, Reschedule, ScheduleFault,
       WriterCrash, WorkerNext, Claim, Bump, BumpFault, Load, LoadFault, Post,
       Finalize, FinalizeFault, RotateRow, TimePasses, WorkerCrash, Restart,
       vars

(* While nothing has failed, every saved message has a job or a thread     *)
(* about to create one, and every job in PROCESSING has a worker           *)
(* (_schedule, claim_next_job, process_webhook_job).                       *)
THEOREM NothingAbandoned == Spec => []WorkIsOwned
<1>1. Init => UpUnlessCrashed /\ WorkIsOwned
  BY DEF Init, UpUnlessCrashed, WorkIsOwned, NoJob
<1>2. OwnedInv /\ TypeOK' /\ [Next]_vars => OwnedInv'
  <2> SUFFICES ASSUME OwnedInv, TypeOK', [Next]_vars PROVE OwnedInv'
    OBVIOUS
  <2> USE DEF OwnedInv
  <2>1. faults \in Nat /\ crashes \in Nat
    BY DEF TypeOK, HistoryType
  <2>2. /\ faults' = 0 => faults = 0
        /\ crashes' = 0 => crashes = 0 /\ ~WorkerCrash
    BY <2>1, CountersGrow
  <2>3. UpUnlessCrashed'
    BY <2>2, ConfigureFrame
       DEF UpUnlessCrashed, Next, QueueNext, WriterNext, Save, Schedule,
           Reschedule, ScheduleFault, WriterCrash, WorkerNext, Claim, Bump,
           BumpFault, Load, LoadFault, Post, Finalize, FinalizeFault,
           RotateRow, TimePasses, WorkerCrash, Restart, vars
  <2>4. ASSUME faults' = 0, crashes' = 0, NEW m \in Sms PROVE Owned(m)'
    <3>1. Owned(m)
      BY <2>2, <2>4 DEF WorkIsOwned, Owned, Scheduled, Held
    <3>2. CASE \E w \in Writers : WriterNext(w)
      BY <2>4, <3>1, <3>2, OwnedWriterStep
    <3>3. CASE \E w \in Workers : WorkerNext(w)
      BY <2>4, <3>1, <3>3, OwnedWorkerStep
    <3>4. ASSUME NEW n \in Sms, RotateRow(n) PROVE Owned(m)'
      <4>1. UNCHANGED <<writer, worker>>
        BY <3>4 DEF RotateRow
      <4>2. \/ row'[m] = "deleted" /\ job'[m].status = "none"
            \/ row'[m] = row[m] /\ job'[m] = job[m]
        BY <3>4 DEF RotateRow, NoJob, TypeOK, RowType, JobType
      <4> QED
        BY <3>1, <4>1, <4>2 DEF Owned, Scheduled, Held, Holds, Live, Exists
    <3>5. ASSUME NEW n \in Sms, TimePasses(n) PROVE Owned(m)'
      <4>1. UNCHANGED <<row, writer, worker>>
        BY <3>5 DEF TimePasses
      <4>2. job'[m].status = job[m].status
        BY <3>5 DEF TimePasses, TypeOK, JobType, Jobs
      <4> QED
        BY <3>1, <4>1, <4>2 DEF Owned, Scheduled, Held, Holds, Live, Exists
    <3>6. ~WorkerCrash /\ ~Restart
      BY <2>2, <2>4 DEF UpUnlessCrashed, Restart
    <3>7. CASE Configure \/ UNCHANGED vars
      BY <3>1, <3>7, ConfigureFrame
         DEF vars, Owned, Scheduled, Held, Holds, Live, Exists
    <3> QED
      BY <3>2, <3>3, <3>4, <3>5, <3>6, <3>7 DEF Next, QueueNext
  <2>5. WorkIsOwned'
    BY <2>4 DEF WorkIsOwned, Owned, Scheduled, Held
  <2> QED
    BY <2>3, <2>5
<1> QED
  BY <1>1, <1>2, Typing, PTL DEF Spec, OwnedInv
-----------------------------------------------------------------------------
(* Rounds of deliveries.                                                   *)

(* The job may be handed out, or has been and its round has not begun.     *)
RoundLeft(m) ==
  \/ job[m].status = "pending"
  \/ ~up
  \/ \E w \in Workers : Holds(w, m) /\ worker[w].pc \in {"bump", "load"}

(* Every round was counted in the row before it began: by the thread that  *)
(* runs it, whose copy of the counter is not behind the row's.             *)
Counted(m) ==
  /\ Exists(m) => rounds[m] <= job[m].attempts
  /\ row[m] # "deleted" /\ ~Exists(m) => rounds[m] = 0
  /\ \A w \in Workers : Holds(w, m) /\ Exists(m) =>
       /\ worker[w].pc = "load" => rounds[m] < job[m].attempts
       /\ worker[w].pc = "bump" => job[m].attempts <= worker[w].attempts

(* And a job that has a round left has not used them all.                  *)
Limited(m) ==
  /\ rounds[m] <= MaxAttempts + crashes
  /\ RoundLeft(m) => rounds[m] < MaxAttempts + crashes

Metered(m) == Counted(m) /\ Limited(m)

MeteredOnce == \A m \in Sms : OnceSaved(m) => Metered(m)

(* A step that begins no round of the message, leaves its counter alone    *)
(* and hands its job to no one keeps it metered.                           *)
LEMMA MeteredFrame ==
  ASSUME TypeOK, TypeOK', NEW m \in Sms, Metered(m),
         rounds'[m] = rounds[m], crashes <= crashes', up' = up,
         row'[m] = row[m] \/ row[m] # "deleted",
         job'[m].attempts = job[m].attempts, Exists(m)' = Exists(m),
         job'[m].status = "pending" => job[m].status = "pending",
         \A w \in Workers : Holds(w, m)' =>
           /\ Holds(w, m)
           /\ worker'[w].pc \in {"bump", "load"} =>
                /\ worker'[w].pc = worker[w].pc
                /\ worker[w].attempts <= worker'[w].attempts
  PROVE  Metered(m)'
<1>1. /\ job[m].attempts \in Nat
      /\ \A w \in Workers : worker[w].attempts \in Nat /\ worker'[w].attempts \in Nat
  BY DEF TypeOK, JobType, Jobs, WorkerType, WorkerRecords
<1>2. Counted(m)'
  BY <1>1 DEF Metered, Counted
<1>3. RoundLeft(m)' => RoundLeft(m)
  BY DEF RoundLeft
<1>4. Limited(m)'
  <2>1. /\ rounds[m] \in Nat /\ crashes \in Nat /\ crashes' \in Nat
        /\ MaxAttempts \in Nat
    BY ConstantsAssumption DEF TypeOK, HistoryType
  <2> QED
    BY <1>3, <2>1 DEF Metered, Limited
<1> QED
  BY <1>2, <1>4 DEF Metered

(* A writer gives a message saved once its job, and no more than that.     *)
LEMMA MeteredWriterStep ==
  ASSUME OnceInv, TypeOK', NEW m \in Sms, OnceSaved(m), Metered(m),
         NEW w \in Writers, WriterNext(w)
  PROVE  Metered(m)'
<1> USE DEF OnceInv
<1>1. UNCHANGED <<worker, up, rounds>>
  BY DEF WriterNext, Save, Schedule, Reschedule, ScheduleFault, WriterCrash
<1>2. crashes \in Nat /\ (crashes' = crashes \/ crashes' = crashes + 1)
  BY DEF WriterNext, Save, Schedule, Reschedule, ScheduleFault, WriterCrash,
         TypeOK, HistoryType
<1>3. ASSUME job'[m] = job[m],
             row'[m] = row[m] \/ row[m] # "deleted"
      PROVE  Metered(m)'
  <2>1. \A x \in Workers : worker[x].attempts <= worker[x].attempts
    BY DEF TypeOK, WorkerType, WorkerRecords
  <2>2. crashes <= crashes'
    BY <1>2
  <2> QED
    BY <1>1, <1>3, <2>1, <2>2, MeteredFrame DEF Holds, Live, Exists
<1>4. CASE \E n \in Sms : Save(w, n)
  BY <1>3, <1>4 DEF Save, TypeOK, RowType
<1>5. CASE Schedule(w)
  <2>1. UNCHANGED row
    BY <1>5 DEF Schedule
  <2>2. \/ job'[m] = job[m]
        \/ row[m] = "live" /\ ~Exists(m) /\ job'[m] = NewJob
    BY <1>5 DEF Schedule, TypeOK, JobType, WriterType
  <2>3. CASE row[m] = "live" /\ ~Exists(m) /\ job'[m] = NewJob
    <3>1. rounds[m] = 0 /\ \A x \in Workers : ~Holds(x, m)
      BY <2>3 DEF Metered, Counted, HeldWasClaimed
    <3>2. Exists(m)' /\ job'[m].attempts = 0
      BY <2>3 DEF Exists, NewJob
    <3>3. Counted(m)'
      BY <1>1, <3>1, <3>2 DEF Counted, Holds, Live
    <3>4. MaxAttempts + crashes' \in Nat \ {0}
      BY <1>2, ConstantsAssumption
    <3>5. Limited(m)'
      BY <1>1, <3>1, <3>4 DEF Limited
    <3> QED
      BY <3>3, <3>5 DEF Metered
  <2> QED
    BY <1>3, <2>1, <2>2, <2>3
<1>6. CASE Reschedule(w)
  <2>1. PICK n \in Sms : n = writer[w].sms
    BY <1>6 DEF Reschedule, TypeOK, WriterType
  <2>2. n # m
    BY <1>6, <2>1 DEF Reschedule, OneWriter, Busy
  <2>3. job'[m] = job[m] /\ row' = row
    BY <1>6, <2>1, <2>2, SetStatusAt DEF Reschedule, TypeOK
  <2> QED
    BY <1>3, <2>3
<1>7. CASE ScheduleFault(w) \/ WriterCrash(w)
  BY <1>3, <1>7 DEF ScheduleFault, WriterCrash
<1> QED
  BY <1>4, <1>5, <1>6, <1>7 DEF WriterNext

(* The one worker that holds such a message counts each round in the row   *)
(* before it begins it, and takes back a job only below the maximum.       *)
LEMMA MeteredWorkerStep ==
  ASSUME OnceInv, OnceInv', NEW m \in Sms, OnceSaved(m), Metered(m),
         NEW w \in Workers, WorkerNext(w)
  PROVE  Metered(m)'
<1> USE DEF OnceInv
<1>1. UNCHANGED <<row, up, crashes>> /\ crashes \in Nat
  BY DEF WorkerNext, Claim, Bump, BumpFault, Load, LoadFault, Post, Finalize,
         FinalizeFault, TypeOK, HistoryType
<1>2. \A x \in Workers : x # w => worker'[x] = worker[x]
  BY DEF TypeOK, WorkerType, WorkerNext, Claim, Bump, BumpFault, Load,
         LoadFault, Post, Finalize, FinalizeFault
<1>3. /\ worker[w] \in WorkerRecords /\ worker'[w] \in WorkerRecords
      /\ \A x \in Workers : worker[x].attempts \in Nat
      /\ Live(w) => worker[w].sms \in Sms /\ up
      /\ job[m].attempts \in Nat /\ rounds[m] \in Nat
      /\ MaxAttempts \in Nat
  BY ConstantsAssumption
     DEF TypeOK, WorkerType, WorkerRecords, JobType, Jobs, HistoryType
<1>4. ASSUME job'[m] = job[m], rounds'[m] = rounds[m],
             Holds(w, m)' =>
               /\ Holds(w, m)
               /\ worker'[w].pc \in {"bump", "load"} =>
                    /\ worker'[w].pc = worker[w].pc
                    /\ worker[w].attempts <= worker'[w].attempts
      PROVE  Metered(m)'
  <2>1. \A x \in Workers : Holds(x, m)' =>
           /\ Holds(x, m)
           /\ worker'[x].pc \in {"bump", "load"} =>
                /\ worker'[x].pc = worker[x].pc
                /\ worker[x].attempts <= worker'[x].attempts
    BY <1>2, <1>3, <1>4 DEF Holds, Live
  <2> QED
    BY <1>1, <1>4, <2>1, MeteredFrame DEF Exists
<1>5. CASE Claim(w)
  <2> DEFINE r(n) == [IdleWorker EXCEPT !.pc = "bump", !.sms = n,
                                        !.attempts = job[n].attempts]
  <2>1. PICK n \in Sms : /\ OldestPending(n)
                         /\ job' = SetStatus(n, "processing")
                         /\ worker' = [worker EXCEPT ![w] = r(n)]
    BY <1>5 DEF Claim
  <2>2. r(n).pc = "bump" /\ r(n).sms = n /\ r(n).attempts = job[n].attempts
    BY DEF IdleWorker
  <2> HIDE DEF r
  <2>3. /\ worker'[w].pc = "bump" /\ worker'[w].sms = n
        /\ worker'[w].attempts = job[n].attempts
    BY <2>1, <2>2 DEF TypeOK, WorkerType
  <2>4. rounds' = rounds
    BY <1>5 DEF Claim
  <2>5. CASE n # m
    <3>1. job'[m] = job[m]
      BY <2>1, <2>5, SetStatusAt DEF TypeOK
    <3> QED
      BY <1>4, <2>3, <2>4, <2>5, <3>1 DEF Holds
  <2>6. CASE n = m
    <3>1. Exists(m) /\ job[m].status = "pending"
      BY <2>1, <2>6 DEF OldestPending, Exists
    <3>2. \A x \in Workers : ~Holds(x, m)
      BY <3>1 DEF HolderOwns
    <3>3. Exists(m)' /\ job'[m].attempts = job[m].attempts
      BY <2>1, <2>6, SetStatusAt DEF TypeOK, Exists
    <3>4. \A x \in Workers : Holds(x, m)' => x = w
      BY <1>2, <3>2 DEF Holds, Live
    <3>5. Counted(m)'
      BY <1>3, <2>3, <2>4, <2>6, <3>1, <3>3, <3>4 DEF Metered, Counted
    <3>6. rounds[m] < MaxAttempts + crashes
      BY <3>1 DEF Metered, Limited, RoundLeft
    <3> QED
      BY <1>1, <1>3, <2>4, <3>5, <3>6 DEF Metered, Limited
  <2> QED
    BY <2>5, <2>6
<1>6. CASE Bump(w)
  <2> DEFINE k == worker[w].attempts + 1
             r == [worker[w] EXCEPT !.pc = "load", !.attempts = k]
  <2>1. PICK n \in Sms : n = worker[w].sms
    BY <1>3, <1>6 DEF Bump, Live
  <2>2. worker[w].pc = "bump" /\ Holds(w, n) /\ rounds' = rounds
    BY <1>6, <2>1 DEF Bump, Holds, Live
  <2>3. CASE ~Exists(n)
    <3>1. job' = job /\ worker'[w].pc = "idle"
      BY <1>6, <2>1, <2>3 DEF Bump, IdleWorker, TypeOK, WorkerType
    <3> QED
      BY <1>4, <2>2, <3>1 DEF Holds, Live
  <2>4. CASE Exists(n)
    <3>1. r.pc = "load" /\ r.sms = n /\ r.attempts = k
      BY <1>3, <2>1 DEF WorkerRecords
    <3>2. worker' = [worker EXCEPT ![w] = r] /\ job' = SetAttempts(n, k)
      BY <1>6, <2>1, <2>4 DEF Bump
    <3> HIDE DEF r
    <3>3. /\ worker'[w].pc = "load" /\ worker'[w].sms = n
          /\ worker'[w].attempts = worker[w].attempts + 1
      BY <3>1, <3>2 DEF TypeOK, WorkerType
    <3>4. CASE n # m
      <4>1. job'[m] = job[m]
        BY <3>2, <3>4 DEF SetAttempts, TypeOK, JobType
      <4> QED
        BY <1>4, <2>2, <3>3, <3>4, <4>1 DEF Holds
    <3>5. CASE n = m
      <4>1. Exists(m)' /\ job'[m].attempts = worker[w].attempts + 1
        BY <2>4, <3>2, <3>5 DEF SetAttempts, TypeOK, JobType, Jobs, Exists
      <4>2. \A x \in Workers : Holds(x, m)' => x = w
        BY <1>2, <2>2, <3>5 DEF Holds, Live, ExclusiveDelivery
      <4>3. rounds[m] <= job[m].attempts /\ job[m].attempts <= worker[w].attempts
        BY <2>2, <2>4, <3>5 DEF Metered, Counted
      <4>4. rounds[m] < worker[w].attempts + 1
        BY <1>3, <4>3
      <4>5. Counted(m)'
        BY <1>3, <2>2, <3>3, <4>1, <4>2, <4>4 DEF Counted
      <4>6. rounds[m] < MaxAttempts + crashes
        BY <2>2, <3>5 DEF Metered, Limited, RoundLeft
      <4> QED
        BY <1>1, <1>3, <2>2, <4>5, <4>6 DEF Metered, Limited
    <3> QED
      BY <3>4, <3>5
  <2> QED
    BY <2>3, <2>4
<1>7. CASE BumpFault(w)
  <2> DEFINE r == [worker[w] EXCEPT !.attempts = worker[w].attempts + 1]
  <2>1. r.pc = worker[w].pc /\ r.sms = worker[w].sms
          /\ r.attempts = worker[w].attempts + 1
    BY <1>3 DEF WorkerRecords
  <2>2. /\ worker' = [worker EXCEPT ![w] = r]
             \/ worker' = [worker EXCEPT ![w] = IdleWorker]
        /\ UNCHANGED <<job, rounds>>
    BY <1>7 DEF BumpFault
  <2> HIDE DEF r
  <2>3. \/ worker'[w].pc = "idle"
        \/ /\ worker'[w].pc = worker[w].pc /\ worker'[w].sms = worker[w].sms
           /\ worker'[w].attempts = worker[w].attempts + 1
    BY <2>1, <2>2 DEF IdleWorker, TypeOK, WorkerType
  <2> QED
    BY <1>3, <1>4, <2>2, <2>3 DEF Holds, Live
<1>8. CASE Load(w) \/ LoadFault(w)
  <2> DEFINE r1 == [worker[w] EXCEPT !.pc = "post", !.todo = active,
                                     !.version = version[worker[w].sms]]
             r2 == [worker[w] EXCEPT !.pc = "finalize", !.ok = FALSE]
  <2>1. PICK n \in Sms : n = worker[w].sms
    BY <1>3, <1>8 DEF Load, LoadFault, Live
  <2>2. /\ r1.pc = "post" /\ r1.sms = worker[w].sms
        /\ r2.pc = "finalize" /\ r2.sms = worker[w].sms
    BY <1>3 DEF WorkerRecords
  <2>3. /\ worker[w].pc = "load" /\ UNCHANGED job
        /\ \/ worker' = [worker EXCEPT ![w] = r1]
           \/ worker' = [worker EXCEPT ![w] = r2]
        /\ rounds' = [rounds EXCEPT ![n] = rounds[n] + 1]
    BY <1>8, <2>1 DEF Load, LoadFault
  <2> HIDE DEF r1, r2
  <2>4. worker'[w].pc \in {"post", "finalize"} /\ worker'[w].sms = n
    BY <2>1, <2>2, <2>3 DEF TypeOK, WorkerType
  <2>5. CASE n # m
    <3>1. rounds'[m] = rounds[m]
      BY <2>3, <2>5 DEF TypeOK, HistoryType
    <3> QED
      BY <1>4, <2>3, <2>4, <2>5, <3>1 DEF Holds
  <2>6. CASE n = m
    <3>1. Holds(w, m) /\ rounds'[m] = rounds[m] + 1
      BY <2>1, <2>3, <2>6 DEF Holds, Live, TypeOK, HistoryType
    <3>2. \A x \in Workers : Holds(x, m)' => worker'[x].pc \notin {"bump", "load"}
      BY <1>2, <2>4, <3>1 DEF Holds, Live, ExclusiveDelivery
    <3>3. Exists(m) => rounds[m] < job[m].attempts /\ job[m].status = "processing"
      BY <2>3, <3>1 DEF Metered, Counted, HolderOwns
    <3>4. Exists(m) \/ row[m] = "deleted"
      BY <3>1 DEF HeldWasClaimed
    <3>5. Counted(m)'
      BY <1>1, <1>3, <2>3, <3>1, <3>2, <3>3, <3>4 DEF Counted, Exists
    <3>6. rounds[m] < MaxAttempts + crashes
      BY <2>3, <3>1 DEF Metered, Limited, RoundLeft
    <3>7. ~RoundLeft(m)'
      BY <1>1, <1>3, <2>3, <3>1, <3>2, <3>3, <3>4
         DEF RoundLeft, Exists, Holds
    <3>8. Limited(m)'
      BY <1>1, <1>3, <3>1, <3>6, <3>7 DEF Limited
    <3> QED
      BY <3>5, <3>8 DEF Metered
  <2> QED
    BY <2>5, <2>6
<1>9. CASE Post(w)
  <2>1. PICK u \in worker[w].todo, acked \in BOOLEAN :
          worker' = [worker EXCEPT ![w] = AfterUrl(w, u, acked)]
    BY <1>9 DEF Post
  <2>2. AfterUrl(w, u, acked).pc = "post"
          /\ AfterUrl(w, u, acked).sms = worker[w].sms
    BY <1>3, <1>9 DEF AfterUrl, Post, WorkerRecords
  <2>3. worker'[w].pc = "post" /\ worker'[w].sms = worker[w].sms
          /\ worker[w].pc = "post" /\ UNCHANGED <<job, rounds>>
    BY <1>9, <2>1, <2>2 DEF Post, TypeOK, WorkerType
  <2> QED
    BY <1>4, <2>3 DEF Holds, Live
<1>10. CASE Finalize(w)
  <2>1. PICK n \in Sms : n = worker[w].sms
    BY <1>3, <1>10 DEF Finalize, Live
  <2>2. /\ worker'[w].pc = "idle" /\ worker[w].pc # "bump" /\ Holds(w, n)
        /\ job' = IF Exists(n) THEN SetStatus(n, AfterRound(w)) ELSE job
        /\ rounds' = rounds
    BY <1>10, <2>1 DEF Finalize, IdleWorker, Holds, Live, TypeOK, WorkerType
  <2>3. CASE n # m \/ ~Exists(m)
    <3>1. job'[m] = job[m]
      BY <2>2, <2>3, SetStatusAt DEF TypeOK
    <3> QED
      BY <1>4, <2>2, <3>1 DEF Holds, Live
  <2>4. CASE n = m /\ Exists(m)
    <3>1. /\ job'[m].status = AfterRound(w)
          /\ job'[m].attempts = job[m].attempts
      BY <2>2, <2>4, SetStatusAt DEF TypeOK
    <3>2. AfterRound(w) = "pending" => worker[w].attempts < MaxAttempts
      BY <1>3 DEF AfterRound
    <3>3. AfterRound(w) # "none"
      BY DEF AfterRound
    <3>4. \A x \in Workers : ~Holds(x, m)'
      BY <1>2, <2>2, <2>4 DEF Holds, Live, ExclusiveDelivery
    <3>5. job[m].attempts = worker[w].attempts /\ rounds[m] <= job[m].attempts
      BY <2>2, <2>4 DEF HolderOwns, Metered, Counted
    <3>6. Counted(m)'
      BY <2>2, <3>1, <3>3, <3>4, <3>5 DEF Counted, Exists
    <3>7. RoundLeft(m)' => rounds[m] < MaxAttempts
      BY <1>1, <1>3, <2>2, <3>1, <3>2, <3>4, <3>5 DEF RoundLeft, Holds
    <3>8. Limited(m)'
      BY <1>1, <1>3, <2>2, <3>7 DEF Metered, Limited
    <3> QED
      BY <3>6, <3>8 DEF Metered
  <2> QED
    BY <2>3, <2>4
<1>11. CASE FinalizeFault(w)
  <2>1. worker'[w].pc = "idle" /\ UNCHANGED <<job, rounds>>
    BY <1>11 DEF FinalizeFault, IdleWorker, TypeOK, WorkerType
  <2> QED
    BY <1>4, <2>1 DEF Holds, Live
<1> QED
  BY <1>5, <1>6, <1>7, <1>8, <1>9, <1>10, <1>11 DEF WorkerNext

(* Nothing but a save changes what a payload shows.                        *)
LEMMA OnlySavesCount ==
  [Next]_vars => UNCHANGED version \/ \E w \in Writers, m \in Sms : Save(w, m)
BY ConfigureFrame
   DEF Next, QueueNext, WriterNext, Schedule, Reschedule, ScheduleFault,
       WriterCrash, WorkerNext, Claim, Bump, BumpFault, Load, LoadFault, Post,
       Finalize, FinalizeFault, RotateRow, TimePasses, WorkerCrash, Restart,
       vars

(* A message saved once costs at most MaxAttempts rounds and one for each  *)
(* crash, whatever errors the database answers with (bump_attempts,        *)
(* _finalize, reset_stale_processing_jobs).                                *)
THEOREM RoundsLimited == Spec => []RoundsBounded
<1>1. Init => MeteredOnce
  BY ConstantsAssumption
     DEF Init, MeteredOnce, Metered, Counted, Limited, RoundLeft, Exists, NoJob,
         Holds, Live, IdleWorker
<1>2. OnceInv /\ OnceInv' /\ MeteredOnce /\ [Next]_vars => MeteredOnce'
  <2> SUFFICES ASSUME OnceInv, OnceInv', MeteredOnce, [Next]_vars,
                      NEW m \in Sms, OnceSaved(m)'
               PROVE  Metered(m)'
    BY DEF MeteredOnce
  <2> USE DEF OnceInv
  <2>1. OnceSaved(m) /\ Metered(m)
    <3>1. version[m] \in Nat /\ version'[m] \in Nat
      BY DEF TypeOK, RowType
    <3>2. version'[m] = version[m] \/ version'[m] = version[m] + 1
      BY OnlySavesCount DEF Save, TypeOK, RowType
    <3> QED
      BY <3>1, <3>2 DEF OnceSaved, MeteredOnce
  <2>2. /\ crashes \in Nat /\ rounds[m] \in Nat /\ MaxAttempts \in Nat
        /\ \A x \in Workers : worker[x].attempts <= worker[x].attempts
        /\ crashes <= crashes
    BY ConstantsAssumption DEF TypeOK, HistoryType, WorkerType, WorkerRecords
  <2>3. ASSUME NEW n \in Sms, RotateRow(n) PROVE Metered(m)'
    <3>1. UNCHANGED <<worker, up, rounds, crashes>>
      BY <2>3 DEF RotateRow
    <3>2. CASE n # m
      <4>1. row'[m] = row[m] /\ job'[m] = job[m]
        BY <2>3, <3>2 DEF RotateRow, TypeOK, RowType, JobType
      <4> QED
        BY <2>1, <2>2, <3>1, <4>1, MeteredFrame DEF Holds, Live, Exists
    <3>3. CASE n = m
      <4>1. row'[m] = "deleted" /\ ~Exists(m)' /\ job'[m].status = "none"
        BY <2>3, <3>3 DEF RotateRow, NoJob, Exists, TypeOK, RowType, JobType
      <4>2. RoundLeft(m)' => RoundLeft(m)
        BY <3>1, <4>1 DEF RoundLeft, Holds, Live
      <4> QED
        BY <2>1, <3>1, <4>1, <4>2 DEF Metered, Counted, Limited
    <3> QED
      BY <3>2, <3>3
  <2>4. ASSUME NEW n \in Sms, TimePasses(n) PROVE Metered(m)'
    <3>1. UNCHANGED <<row, worker, up, rounds, crashes>>
      BY <2>4 DEF TimePasses
    <3>2. job'[m].status = job[m].status /\ job'[m].attempts = job[m].attempts
      BY <2>4 DEF TimePasses, TypeOK, JobType, Jobs
    <3> QED
      BY <2>1, <2>2, <3>1, <3>2, MeteredFrame DEF Holds, Live, Exists
  <2>5. ASSUME WorkerCrash PROVE Metered(m)'
    <3>1. UNCHANGED <<row, job, rounds>> /\ crashes' = crashes + 1
      BY <2>5 DEF WorkerCrash
    <3>2. \A x \in Workers : ~Holds(x, m)'
      BY <2>5 DEF WorkerCrash, IdleWorker, Holds, Live
    <3> QED
      BY <2>1, <2>2, <3>1, <3>2 DEF Metered, Counted, Limited, Exists
  <2>6. ASSUME Restart PROVE Metered(m)'
    <3>1. ~up /\ UNCHANGED <<row, rounds, crashes, worker>>
      BY <2>6 DEF Restart
    <3>2. \A x \in Workers : ~Holds(x, m) /\ ~Holds(x, m)'
      BY <3>1 DEF TypeOK, WorkerType, Holds, Live
    <3>3. job'[m].attempts = job[m].attempts /\ Exists(m)' = Exists(m)
      BY <2>6 DEF Restart, Stale, Exists, TypeOK, JobType, Jobs
    <3> QED
      BY <2>1, <3>1, <3>2, <3>3 DEF Metered, Counted, Limited, RoundLeft
  <2>7. CASE UNCHANGED vars \/ Configure
    <3>1. UNCHANGED <<row, job, worker, up, rounds, crashes>>
      BY <2>7, ConfigureFrame DEF vars
    <3> QED
      BY <2>1, <2>2, <3>1, MeteredFrame DEF Holds, Live, Exists
  <2> QED
    BY <2>1, <2>3, <2>4, <2>5, <2>6, <2>7, MeteredWriterStep,
       MeteredWorkerStep DEF Next, QueueNext
<1>3. MeteredOnce => RoundsBounded
  BY DEF MeteredOnce, RoundsBounded, Metered, Limited
<1> QED
  BY <1>1, <1>2, <1>3, OnceInvariant, PTL DEF Spec
-----------------------------------------------------------------------------
(* The queue implements WebhookDelivery.                                   *)

(* A message that no save has touched is new: it has not been deleted.     *)
UnsavedIsNew == \A m \in Sms : version[m] = 0 => row[m] = "none"

LinkInv == OnceInv /\ ReceivedInv /\ UnsavedIsNew

(* It stays so: only a row that was saved is deleted.                      *)
LEMMA UnsavedInvariant == Spec => []UnsavedIsNew
<1>1. Init => UnsavedIsNew
  BY DEF Init, UnsavedIsNew
<1>2. TypeOK /\ UnsavedIsNew /\ [Next]_vars => UnsavedIsNew'
  <2> SUFFICES ASSUME TypeOK, UnsavedIsNew, [Next]_vars PROVE UnsavedIsNew'
    OBVIOUS
  <2>1. ASSUME NEW w \in Writers, NEW m \in Sms, Save(w, m)
        PROVE  UnsavedIsNew'
    BY <2>1 DEF Save, UnsavedIsNew, TypeOK, RowType
  <2>2. ASSUME NEW m \in Sms, RotateRow(m) PROVE UnsavedIsNew'
    BY <2>2 DEF RotateRow, UnsavedIsNew, TypeOK, RowType
  <2>3. ASSUME UNCHANGED <<row, version>> PROVE UnsavedIsNew'
    BY <2>3 DEF UnsavedIsNew
  <2>4. \/ \E w \in Writers, m \in Sms : Save(w, m)
        \/ \E m \in Sms : RotateRow(m)
        \/ UNCHANGED <<row, version>>
    BY ConfigureFrame
       DEF Next, QueueNext, WriterNext, Schedule, Reschedule, ScheduleFault,
           WriterCrash, WorkerNext, Claim, Bump, BumpFault, Load, LoadFault,
           Post, Finalize, FinalizeFault, TimePasses, WorkerCrash, Restart,
           vars
  <2> QED
    BY <2>1, <2>2, <2>3, <2>4
<1> QED
  BY <1>1, <1>2, Typing, PTL DEF Spec

(* The stage of a message, case by case.                                   *)
LEMMA StageCases ==
  ASSUME TypeOK, NEW m \in Sms
  PROVE  /\ row[m] = "deleted" \/ ~OnceSaved(m) => Stage(m) = "withdrawn"
         /\ row[m] # "deleted" /\ OnceSaved(m) =>
              /\ job[m].status = "none" => Stage(m) = "absent"
              /\ job[m].status \in {"pending", "processing"} =>
                   Stage(m) = "queued"
              /\ job[m].status = "delivered" => Stage(m) = "delivered"
              /\ job[m].status = "failed" => Stage(m) = "failed"
         /\ Stage(m) \in Abstract!Stages
         /\ Stage(m) = "withdrawn" => row[m] = "deleted" \/ ~OnceSaved(m)
<1>1. job[m].status \in Statuses
  BY DEF TypeOK, JobType, Jobs
<1> QED
  BY <1>1 DEF Stage, Statuses, Abstract!Stages

(* A change of one message's stage is a move of the abstract queue.        *)
LEMMA StageMoves ==
  ASSUME NEW m \in Sms, NEW from, NEW to,
         Stage(m) \in from, Stage(m)' = to,
         \A n \in Sms \ {m} : Stage(n)' = Stage(n),
         UNCHANGED <<received, owed>>
  PROVE  Abstract!Move(m, from, to)
BY DEF Abstract!Move, Got

(* A step that changes no stage and sends nothing is a stutter.            *)
LEMMA StageStays ==
  ASSUME \A m \in Sms : Stage(m)' = Stage(m), UNCHANGED <<received, owed>>
  PROVE  UNCHANGED Abstract!vars
BY DEF Abstract!vars, Got

(* What a stage is made of: states that agree on it agree on the stage.    *)
LEMMA StageKept ==
  ASSUME TypeOK, TypeOK', NEW m \in Sms,
         row'[m] = "deleted" <=> row[m] = "deleted",
         OnceSaved(m)' = OnceSaved(m),
         \/ job'[m].status = job[m].status
         \/ {job[m].status, job'[m].status} \subseteq {"pending", "processing"}
         \/ ~OnceSaved(m)
  PROVE  Stage(m)' = Stage(m)
BY DEF Stage, OnceSaved

(* A save of a new message changes nothing yet; a second one withdraws it. *)
LEMMA SaveImplements ==
  ASSUME LinkInv, LinkInv', NEW w \in Writers, NEW m \in Sms, Save(w, m)
  PROVE  [Abstract!Next]_(Abstract!vars)
<1> USE DEF LinkInv, OnceInv
<1>1. /\ row[m] # "deleted" /\ row'[m] = "live"
      /\ version[m] \in Nat /\ version'[m] = version[m] + 1
      /\ \A n \in Sms \ {m} : row'[n] = row[n] /\ version'[n] = version[n]
      /\ UNCHANGED <<job, received, owed>>
  BY DEF Save, TypeOK, RowType, hooks
<1>2. \A n \in Sms \ {m} : Stage(n)' = Stage(n)
  BY <1>1, StageKept DEF OnceSaved
<1>3. CASE version[m] = 1
  <2>1. Stage(m)' = "withdrawn"
    BY <1>1, <1>3 DEF Stage, OnceSaved
  <2>2. Stage(m) \in Abstract!Stages \ {"withdrawn"}
    BY <1>1, <1>3, StageCases DEF OnceSaved
  <2>3. Abstract!Withdraw(m)
    BY <1>1, <1>2, <2>1, <2>2, StageMoves DEF Abstract!Withdraw
  <2> QED
    BY <2>3 DEF Abstract!Next
<1>4. CASE version[m] # 1
  <2>1. OnceSaved(m)' = OnceSaved(m)
    BY <1>1, <1>4 DEF OnceSaved
  <2>2. Stage(m)' = Stage(m)
    BY <1>1, <2>1, StageKept
  <2> QED
    BY <1>1, <1>2, <2>2, StageStays
<1> QED
  BY <1>3, <1>4

(* get_or_create submits a message; a writer's other steps change nothing  *)
(* for a message saved once.                                               *)
LEMMA WriterImplements ==
  ASSUME LinkInv, LinkInv', NEW w \in Writers, WriterNext(w)
  PROVE  [Abstract!Next]_(Abstract!vars)
<1> USE DEF LinkInv, OnceInv
<1>1. CASE \E m \in Sms : Save(w, m)
  BY <1>1, SaveImplements
<1>2. CASE Schedule(w)
  <2>1. PICK m \in Sms : m = writer[w].sms
    BY <1>2 DEF Schedule, TypeOK, WriterType
  <2>2. UNCHANGED <<row, version, received, owed>>
    BY <1>2 DEF Schedule, hooks
  <2>3. \A n \in Sms \ {m} : job'[n] = job[n]
    BY <1>2, <2>1 DEF Schedule, TypeOK, JobType
  <2>4. \A n \in Sms \ {m} : Stage(n)' = Stage(n)
    BY <2>2, <2>3, StageKept DEF OnceSaved
  <2>5. \/ job' = job
        \/ row[m] = "live" /\ ~Exists(m) /\ job'[m].status = "pending"
    BY <1>2, <2>1 DEF Schedule, NewJob, TypeOK, JobType
  <2>6. CASE job' = job \/ ~OnceSaved(m)
    <3>1. Stage(m)' = Stage(m)
      BY <2>2, <2>6, StageKept DEF OnceSaved
    <3> QED
      BY <2>2, <2>4, <3>1, StageStays
  <2>7. CASE row[m] = "live" /\ ~Exists(m) /\ job'[m].status = "pending"
               /\ OnceSaved(m)
    <3>1. Stage(m) = "absent"
      BY <2>7, StageCases DEF Exists
    <3>2. Stage(m)' = "queued"
      BY <2>2, <2>7 DEF Stage, OnceSaved
    <3>3. Abstract!Submit(m)
      BY <2>2, <2>4, <3>1, <3>2, StageMoves DEF Abstract!Submit
    <3> QED
      BY <3>3 DEF Abstract!Next
  <2> QED
    BY <2>5, <2>6, <2>7
<1>3. CASE Reschedule(w)
  <2>1. PICK m \in Sms : m = writer[w].sms
    BY <1>3 DEF Reschedule, TypeOK, WriterType
  <2>2. ~OnceSaved(m)
    BY <1>3, <2>1 DEF Reschedule, OneWriter, Busy
  <2>3. UNCHANGED <<row, version, received, owed>>
    BY <1>3 DEF Reschedule, hooks
  <2>4. \A n \in Sms \ {m} : job'[n] = job[n]
    BY <1>3, <2>1, SetStatusAt DEF Reschedule, TypeOK
  <2>5. \A n \in Sms : Stage(n)' = Stage(n)
    BY <2>2, <2>3, <2>4, StageKept DEF OnceSaved
  <2> QED
    BY <2>3, <2>5, StageStays
<1>4. CASE ScheduleFault(w) \/ WriterCrash(w)
  <2>1. UNCHANGED <<row, version, job, received, owed>>
    BY <1>4 DEF ScheduleFault, WriterCrash, hooks
  <2>2. \A n \in Sms : Stage(n)' = Stage(n)
    BY <2>1, StageKept DEF OnceSaved
  <2> QED
    BY <2>1, <2>2, StageStays
<1> QED
  BY <1>1, <1>2, <1>3, <1>4 DEF WriterNext

(* A message in a worker's hands is queued, or withdrawn.                  *)
LEMMA HeldIsQueued ==
  ASSUME LinkInv, NEW w \in Workers, NEW m \in Sms, Holds(w, m)
  PROVE  Stage(m) \in {"queued", "withdrawn"}
<1>1. row[m] # "deleted" /\ OnceSaved(m) => job[m].status = "processing"
  BY DEF LinkInv, OnceInv, HolderOwns, HeldWasClaimed
<1> QED
  BY <1>1, StageCases DEF LinkInv, OnceInv

(* A POST that arrives is a send.                                          *)
LEMMA PostImplements ==
  ASSUME LinkInv, LinkInv', NEW w \in Workers, Post(w)
  PROVE  [Abstract!Next]_(Abstract!vars)
<1> USE DEF LinkInv, OnceInv
<1>1. PICK m \in Sms : m = worker[w].sms
  BY DEF Post, TypeOK, WorkerType, Live
<1>2. PICK u \in worker[w].todo, got \in BOOLEAN :
        received' = IF got THEN received \cup {<<m, worker[w].version, u>>}
                           ELSE received
  BY <1>1 DEF Post
<1>3. u \in Urls
  BY DEF TypeOK, WorkerType, WorkerRecords
<1>4. UNCHANGED <<row, version, job, owed>>
  BY DEF Post, hooks
<1>5. \A n \in Sms : Stage(n)' = Stage(n)
  BY <1>4, StageKept DEF OnceSaved
<1>6. CASE ~got
  BY <1>2, <1>4, <1>5, <1>6, StageStays
<1>7. CASE got
  <2>1. Stage(m) \in {"queued", "withdrawn"}
    BY <1>1, HeldIsQueued DEF Post, Holds, Live
  <2> DEFINE r == <<m, worker[w].version, u>>
  <2>2. received' = received \cup {r} /\ r[1] = m /\ r[3] = u
    BY <1>2, <1>7
  <2> HIDE DEF r
  <2>3. /\ Got(m)' = Got(m) \cup {u}
        /\ \A n \in Sms \ {m} : Got(n)' = Got(n)
    BY <1>3, <2>2 DEF Got
  <2>4. Abstract!Send(m, u)
    BY <1>4, <1>5, <2>1, <2>3 DEF Abstract!Send
  <2> QED
    BY <1>3, <2>4 DEF Abstract!Next
<1> QED
  BY <1>6, <1>7

(* A final save of a message saved once completes it, gives it up or       *)
(* leaves it queued; it completes only what its endpoints have received.   *)
LEMMA FinalizeImplements ==
  ASSUME LinkInv, LinkInv', NEW w \in Workers, Finalize(w)
  PROVE  [Abstract!Next]_(Abstract!vars)
<1> USE DEF LinkInv, OnceInv
<1>1. PICK m \in Sms : m = worker[w].sms
  BY DEF Finalize, TypeOK, WorkerType, Live
<1>2. /\ UNCHANGED <<row, version, received, owed>>
      /\ job' = IF Exists(m) THEN SetStatus(m, AfterRound(w)) ELSE job
      /\ Holds(w, m)
  BY <1>1 DEF Finalize, hooks, Holds, Live
<1>3. \A n \in Sms \ {m} : job'[n] = job[n]
  BY <1>2, SetStatusAt DEF TypeOK
<1>4. \A n \in Sms \ {m} : Stage(n)' = Stage(n)
  BY <1>2, <1>3, StageKept DEF OnceSaved
<1>5. ASSUME Stage(m)' = Stage(m) PROVE [Abstract!Next]_(Abstract!vars)
  BY <1>2, <1>4, <1>5, StageStays
<1>6. CASE ~OnceSaved(m) \/ ~Exists(m)
  BY <1>2, <1>5, <1>6, StageKept DEF OnceSaved
<1>7. CASE OnceSaved(m) /\ Exists(m)
  <2>1. job[m].status = "processing" /\ row[m] = "live"
    BY <1>2, <1>7 DEF HolderOwns, ExistsLive
  <2>2. Stage(m) = "queued"
    BY <1>7, <2>1, StageCases
  <2>3. job'[m].status = AfterRound(w)
    BY <1>2, <1>7, SetStatusAt DEF TypeOK
  <2>4. row'[m] # "deleted" /\ OnceSaved(m)'
    BY <1>2, <1>7, <2>1 DEF OnceSaved
  <2>5. CASE AfterRound(w) = "pending"
    BY <1>2, <1>5, <2>1, <2>3, <2>5, StageKept DEF OnceSaved
  <2>6. CASE AfterRound(w) = "failed"
    <3>1. Stage(m)' = "failed"
      BY <2>3, <2>4, <2>6 DEF Stage
    <3>2. Abstract!GiveUp(m)
      BY <1>2, <1>4, <2>2, <3>1, StageMoves DEF Abstract!GiveUp
    <3> QED
      BY <3>2 DEF Abstract!Next
  <2>7. CASE AfterRound(w) = "delivered"
    <3>1. Stage(m)' = "delivered"
      BY <2>3, <2>4, <2>7 DEF Stage
    <3>2. AckedBy(m, worker[w].version, owed[m])
      BY <1>1, <2>7
         DEF ReceivedInv, RoundIsBacked, AfterRound, Finalize, AckedBy
    <3>3. owed[m] \subseteq Got(m)
      BY <3>2 DEF AckedBy, Got, TypeOK, HookType
    <3>4. Abstract!Complete(m)
      BY <1>2, <1>4, <2>2, <3>1, <3>3, StageMoves DEF Abstract!Complete
    <3> QED
      BY <3>4 DEF Abstract!Next
  <2> QED
    BY <2>5, <2>6, <2>7 DEF AfterRound
<1> QED
  BY <1>6, <1>7

(* A worker's other steps are its own business.                            *)
LEMMA WorkerImplements ==
  ASSUME LinkInv, LinkInv', NEW w \in Workers, WorkerNext(w)
  PROVE  [Abstract!Next]_(Abstract!vars)
<1> USE DEF LinkInv, OnceInv
<1>1. ASSUME UNCHANGED <<row, version, received, owed>>,
             \A m \in Sms :
               \/ job'[m].status = job[m].status
               \/ {job[m].status, job'[m].status}
                    \subseteq {"pending", "processing"}
      PROVE  UNCHANGED Abstract!vars
  <2>1. \A m \in Sms : Stage(m)' = Stage(m)
    BY <1>1, StageKept DEF OnceSaved
  <2> QED
    BY <1>1, <2>1, StageStays
<1>2. CASE Claim(w)
  <2>1. PICK m \in Sms : OldestPending(m) /\ job' = SetStatus(m, "processing")
    BY <1>2 DEF Claim
  <2>2. \A n \in Sms :
          \/ job'[n] = job[n]
          \/ job[n].status = "pending" /\ job'[n].status = "processing"
    BY <2>1, SetStatusAt DEF OldestPending, TypeOK
  <2> QED
    BY <1>1, <1>2, <2>2 DEF Claim, hooks
<1>3. CASE Bump(w)
  <2> DEFINE k == worker[w].attempts + 1
  <2>1. PICK m \in Sms : UNCHANGED job \/ job' = SetAttempts(m, k)
    BY <1>3 DEF Bump, TypeOK, WorkerType, Live
  <2> HIDE DEF k
  <2>2. \A n \in Sms : SetAttempts(m, k)[n].status = job[n].status
    BY DEF SetAttempts, TypeOK, JobType, Jobs
  <2>3. \A n \in Sms : job'[n].status = job[n].status
    BY <2>1, <2>2
  <2> QED
    BY <1>1, <1>3, <2>3 DEF Bump, hooks
<1>4. CASE BumpFault(w) \/ Load(w) \/ LoadFault(w) \/ FinalizeFault(w)
  BY <1>1, <1>4 DEF BumpFault, Load, LoadFault, FinalizeFault, hooks
<1>5. CASE Post(w) \/ Finalize(w)
  BY <1>5, PostImplements, FinalizeImplements
<1> QED
  BY <1>2, <1>3, <1>4, <1>5 DEF WorkerNext

(* A URL becomes due only to messages that no save has touched yet, and    *)
(* those are not queued.                                                   *)
LEMMA ConfigureImplements ==
  ASSUME LinkInv, LinkInv', Configure
  PROVE  Abstract!Reconfigure
<1> USE DEF LinkInv, OnceInv
<1>1. UNCHANGED <<row, version, job, received>>
  BY ConfigureFrame
<1>2. \A m \in Sms : Stage(m)' = Stage(m) /\ Got(m)' = Got(m)
  BY <1>1, StageKept DEF OnceSaved, Got
<1>3. owed' \in [Sms -> SUBSET Urls]
  BY DEF TypeOK, HookType
<1>4. ASSUME NEW m \in Sms, Stage(m) # "absent" PROVE owed'[m] \subseteq owed[m]
  <2>1. version[m] # 0
    <3> SUFFICES ASSUME version[m] = 0 PROVE FALSE
      OBVIOUS
    <3>1. row[m] = "none" /\ OnceSaved(m)
      BY DEF UnsavedIsNew, OnceSaved
    <3>2. job[m].status = "none"
      BY <3>1 DEF ExistsLive, Exists
    <3> QED
      BY <1>4, <3>1, <3>2, StageCases
  <2> QED
    BY <2>1, HooksType DEF TypeOK
<1> QED
  BY <1>2, <1>3, <1>4 DEF Abstract!Reconfigure

(* Every behaviour of the queue is one of WebhookDelivery, whatever        *)
(* crashes, errors, deletions, saves and changes to the webhooks it has    *)
(* (the whole of webhook_outbox.py, with the threads of                    *)
(* run_webhook_worker.py).                                                 *)
THEOREM Implements == Spec => ImplementsDelivery
<1>1. Init => Abstract!Init
  <2> SUFFICES ASSUME Init PROVE Abstract!Init
    OBVIOUS
  <2>1. ASSUME NEW m \in Sms PROVE Stage(m) = "absent" /\ Got(m) = {}
    <3>1. Got(m) = {}
      BY DEF Init, Got
    <3>2. row[m] = "none" /\ version[m] = 0 /\ job[m].status = "none"
      BY DEF Init, NoJob
    <3> QED
      BY <3>1, <3>2 DEF Stage, OnceSaved
  <2>2. owed \in [Sms -> SUBSET Urls]
    BY DEF Init
  <2> QED
    BY <2>1, <2>2 DEF Abstract!Init
<1>2. LinkInv /\ LinkInv' /\ [Next]_vars => [Abstract!Next]_(Abstract!vars)
  <2> SUFFICES ASSUME LinkInv, LinkInv', [Next]_vars
               PROVE  [Abstract!Next]_(Abstract!vars)
    OBVIOUS
  <2> USE DEF LinkInv, OnceInv
  <2>1. ASSUME NEW m \in Sms, RotateRow(m)
        PROVE  [Abstract!Next]_(Abstract!vars)
    <3>1. /\ row[m] = "live" /\ row'[m] = "deleted"
          /\ \A n \in Sms \ {m} : row'[n] = row[n] /\ job'[n] = job[n]
          /\ UNCHANGED <<version, received, owed>>
      BY <2>1 DEF RotateRow, TypeOK, RowType, JobType, hooks
    <3>2. \A n \in Sms \ {m} : Stage(n)' = Stage(n)
      BY <3>1, StageKept DEF OnceSaved
    <3>3. Stage(m)' = "withdrawn"
      BY <3>1 DEF Stage
    <3>4. CASE Stage(m) = "withdrawn"
      BY <3>1, <3>2, <3>3, <3>4, StageStays
    <3>5. CASE Stage(m) # "withdrawn"
      <4>1. Stage(m) \in Abstract!Stages \ {"withdrawn"}
        BY <3>5, StageCases
      <4>2. Abstract!Withdraw(m)
        BY <3>1, <3>2, <3>3, <4>1, StageMoves DEF Abstract!Withdraw
      <4> QED
        BY <4>2 DEF Abstract!Next
    <3> QED
      BY <3>4, <3>5
  <2>2. ASSUME \/ \E m \in Sms : TimePasses(m)
               \/ WorkerCrash \/ Restart \/ UNCHANGED vars
        PROVE  UNCHANGED Abstract!vars
    <3>1. UNCHANGED <<row, version, received, owed>>
      BY <2>2 DEF TimePasses, WorkerCrash, Restart, vars, hooks
    <3>2. \A n \in Sms :
            \/ job'[n].status = job[n].status
            \/ job[n].status = "processing" /\ job'[n].status = "pending"
      BY <2>2 DEF TimePasses, WorkerCrash, Restart, Stale, vars, TypeOK,
                  JobType, Jobs
    <3>3. \A n \in Sms : Stage(n)' = Stage(n)
      BY <3>1, <3>2, StageKept DEF OnceSaved
    <3> QED
      BY <3>1, <3>3, StageStays
  <2>3. CASE Configure
    BY <2>3, ConfigureImplements DEF Abstract!Next
  <2> QED
    BY <2>1, <2>2, <2>3, WriterImplements, WorkerImplements
       DEF Next, QueueNext
<1> QED
  BY <1>1, <1>2, OnceInvariant, ReceivedInvariant, UnsavedInvariant, PTL
     DEF Spec, ImplementsDelivery, Abstract!Spec, LinkInv
=============================================================================
