-------------------------- MODULE OutboundDispatch --------------------------
(***************************************************************************)
(* How an SMS that a client posts leaves through the modem: SendSmsView    *)
(* (views.py), the queue and workers of outbound_processor.py, and         *)
(* dispatch_outbound_mmcli (services.py) with the retries of mmcli --send  *)
(* (mmcli_client.py).  Beside them the watcher process, which finds the    *)
(* SMS object on the modem, stores it as if it had been received, and asks *)
(* inbound_filters.py whether it is such an echo.                          *)
(*                                                                         *)
(* One action is one call of mmcli, one database statement or one queue    *)
(* operation.                                                              *)
(***************************************************************************)
EXTENDS Naturals, Sequences, FiniteSets

CONSTANTS
  Sms,          \* SMS that clients post
  None,         \* no SMS, and no thread
  Requests,     \* request threads of the API process
  Workers,      \* threads of OutboundProcessorQueue
  QueueSize,    \* OUTBOUND_PROCESSOR_MAX_SIZE
  MaxTries,     \* MMCLI_RETRY_MAX
  Limit,        \* rows that rotation keeps: SMS_MAX_MESSAGES_PER_MODEM / 2
  MaxFaults     \* bound: failures of mmcli, database errors, crashes and
                \* rotated rows, all together

ASSUME ConstantsAssumption ==
  /\ None \notin Sms \cup Requests \cup Workers
  /\ Requests \cap Workers = {}
  /\ QueueSize \in Nat \ {0} /\ MaxTries \in Nat \ {0}
  /\ Limit \in Nat \ {0} /\ MaxFaults \in Nat

VARIABLES
  async,     \* whether OUTBOUND_ASYNC_ENABLED and HIWAVETEL_QUEUE_ENABLED
             \* are set; otherwise the request dispatches
  row,       \* OutboundSms.state of each SMS, or "none", or "gone"
  kept,      \* the SMS whose rows are in the table, oldest first
  named,     \* the SMS whose mm_path is saved
  object,    \* ModemManager: the state of its SMS object, or "none"
  aired,     \* history: how often the modem transmitted it
  lost,      \* history: transmissions that mmcli reported as failures
  queue,     \* the processor's queue, in memory
  refused,   \* history: the SMS that a full queue refused
  flight,    \* _in_flight
  thread,    \* per thread: where it is, with which SMS, tries of --send
  holder,    \* the thread inside mmcli_serial
  jobs,      \* the SMS with an outbound webhook job
  echo,      \* InboundSms.mm_state of its echo, or "none"
  watcher,   \* the persist thread of the watcher process
  echoed,    \* the SMS whose echo has a webhook job
  abandoned, \* history: the SMS that a database error or a crash stopped
  faults     \* how many faults there were

rows == <<row, kept, named, jobs>>
modem == <<object, aired, lost>>
waiting == <<async, queue, refused>>
process == <<waiting, flight, thread, holder>>
watching == <<echo, watcher, echoed>>
faulty == <<abandoned, faults>>
vars == <<rows, modem, process, watching, faulty>>

Threads == Requests \cup Workers

States == {"created", "sending", "sent", "failed"}

Objects == {"none", "unknown", "sent"}

Idle == [pc |-> "idle", sms |-> None, tries |-> 0]

Resting == [pc |-> "idle", sms |-> None, seen |-> "none"]

Init ==
  /\ async \in BOOLEAN
  /\ row = [m \in Sms |-> "none"] /\ kept = <<>>
  /\ named = {} /\ jobs = {}
  /\ object = [m \in Sms |-> "none"]
  /\ aired = [m \in Sms |-> 0] /\ lost = [m \in Sms |-> 0]
  /\ queue = <<>> /\ refused = {} /\ flight = {}
  /\ thread = [t \in Threads |-> Idle] /\ holder = None
  /\ echo = [m \in Sms |-> "none"] /\ watcher = Resting /\ echoed = {}
  /\ abandoned = {} /\ faults = 0

-----------------------------------------------------------------------------
(* The request, and the processor's queue.                                 *)

At(t, pc) == thread[t].pc = pc

Goto(t, pc) == thread' = [thread EXCEPT ![t].pc = pc]

SetRow(m, state) == row' = [row EXCEPT ![m] = state]

Fault == faults < MaxFaults /\ faults' = faults + 1

(* Mutant: a repeated request takes up the row that is still CREATED.      *)
Accept_Repeats(t, m) ==
  /\ t \in Requests /\ At(t, "idle") /\ row[m] \in {"none", "created"}
  /\ SetRow(m, "created")
  /\ kept' = Append(kept, m)
  /\ thread' = [thread EXCEPT ![t] =
                  [pc |-> IF async THEN "put" ELSE "lock", sms |-> m,
                   tries |-> 0]]
  /\ UNCHANGED <<named, jobs, modem, waiting, flight, holder, watching,
                 faulty>>

(* SendSmsView.post creates the row, and dispatches or enqueues it.        *)
Accept(t, m) ==
  /\ t \in Requests /\ At(t, "idle") /\ row[m] = "none"
  /\ SetRow(m, "created")
  /\ kept' = Append(kept, m)
  /\ thread' = [thread EXCEPT ![t] =
                  [pc |-> IF async THEN "put" ELSE "lock", sms |-> m,
                   tries |-> 0]]
  /\ UNCHANGED <<named, jobs, modem, waiting, flight, holder, watching,
                 faulty>>

(* OutboundProcessorQueue.enqueue: the row is marked as in flight, unless  *)
(* it is already.                                                          *)
Put(t) ==
  LET m == thread[t].sms IN
  /\ At(t, "put")
  /\ IF m \in flight
       THEN thread' = [thread EXCEPT ![t] = Idle] /\ UNCHANGED flight
       ELSE Goto(t, "enqueue") /\ flight' = flight \cup {m}
  /\ UNCHANGED <<waiting, rows, modem, holder, watching, faulty>>

(* Then it is queued, or refused and unmarked by a full queue; the view    *)
(* does not look at the result.                                            *)
Enqueue(t) ==
  LET m == thread[t].sms IN
  /\ At(t, "enqueue")
  /\ \/ /\ Len(queue) < QueueSize
        /\ queue' = Append(queue, m)
        /\ UNCHANGED <<refused, flight>>
     \/ /\ Len(queue) >= QueueSize
        /\ refused' = refused \cup {m}
        /\ flight' = flight \ {m}
        /\ UNCHANGED queue
  /\ thread' = [thread EXCEPT ![t] = Idle]
  /\ UNCHANGED <<async, rows, modem, holder, watching, faulty>>

Take(w) ==
  /\ w \in Workers /\ At(w, "idle") /\ queue # <<>>
  /\ queue' = Tail(queue)
  /\ thread' = [thread EXCEPT ![w] =
                  [pc |-> "load", sms |-> Head(queue), tries |-> 0]]
  /\ UNCHANGED <<async, refused, rows, modem, flight, holder, watching,
                 faulty>>

(* Where a thread is that holds mmcli_serial.                              *)
Inside == {"resolve", "create", "name", "send", "sent", "notify", "fail"}

(* The end of a dispatch, good or bad: mmcli_serial and _in_flight are     *)
(* released.                                                               *)
End(t) ==
  /\ thread' = [thread EXCEPT ![t] = Idle]
  /\ holder' = IF holder = t THEN None ELSE holder
  /\ flight' = flight \ (IF t \in Workers THEN {thread[t].sms} ELSE {})

(* outbound.save(update_fields), which raises when the row was rotated     *)
(* away.                                                                   *)
Save(t, state, pc) ==
  IF row[thread[t].sms] = "gone"
    THEN End(t) /\ UNCHANGED row
    ELSE /\ SetRow(thread[t].sms, state)
         /\ Goto(t, pc)
         /\ UNCHANGED <<flight, holder>>

(* _process_outbound_pk leaves a row alone that is not CREATED, or gone.   *)
Load(w) ==
  /\ At(w, "load")
  /\ IF row[thread[w].sms] = "created"
       THEN Goto(w, "lock") /\ UNCHANGED <<holder, flight>>
       ELSE End(w)
  /\ UNCHANGED <<rows, modem, waiting, watching, faulty>>

-----------------------------------------------------------------------------
(* dispatch_outbound_mmcli in thread t.                                    *)

(* Mutant: mmcli is not serialised.                                        *)
Lock_Free(t) ==
  /\ At(t, "lock")
  /\ holder' = t
  /\ Goto(t, "resolve")
  /\ UNCHANGED <<rows, modem, waiting, flight, watching, faulty>>

Lock(t) ==
  /\ At(t, "lock") /\ holder = None
  /\ holder' = t
  /\ Goto(t, "resolve")
  /\ UNCHANGED <<rows, modem, waiting, flight, watching, faulty>>

(* The index of the modem is looked up, and saved if it has changed, which *)
(* raises when the row was rotated away.                                   *)
Resolve(t) ==
  /\ At(t, "resolve")
  /\ \/ Goto(t, "create") /\ UNCHANGED <<flight, holder>>
     \/ row[thread[t].sms] = "gone" /\ End(t)
  /\ UNCHANGED <<rows, modem, waiting, watching, faulty>>

SetObject(m, state) == object' = [object EXCEPT ![m] = state]

(* The modem is made ready and the SMS object created.                     *)
Create(t) ==
  /\ At(t, "create")
  /\ SetObject(thread[t].sms, "unknown")
  /\ Goto(t, "name")
  /\ UNCHANGED <<rows, aired, lost, waiting, flight, holder, watching, faulty>>

(* MmcliError: the modem is not found or not ready, or the call that       *)
(* creates the object fails, maybe after it was created.                   *)
CreateTrouble(t) ==
  /\ thread[t].pc \in {"resolve", "create"} /\ Fault
  /\ \/ UNCHANGED object
     \/ At(t, "create") /\ SetObject(thread[t].sms, "unknown")
  /\ Goto(t, "fail")
  /\ UNCHANGED <<rows, aired, lost, waiting, flight, holder, watching,
                 abandoned>>

(* Mutant: the outcome is saved before --send.                             *)
Name_Sent(t) ==
  /\ At(t, "name")
  /\ named' = named \cup {thread[t].sms}
  /\ Save(t, "sent", "send")
  /\ UNCHANGED <<kept, jobs, modem, waiting, watching, faulty>>

Name(t) ==
  /\ At(t, "name")
  /\ named' = named \cup {thread[t].sms}
  /\ Save(t, "sending", "send")
  /\ UNCHANGED <<kept, jobs, modem, waiting, watching, faulty>>

(* Mutant: --send runs again after a success.                              *)
Send_Again(t) ==
  LET m == thread[t].sms
      tries == thread[t].tries + 1
  IN
  /\ At(t, "send")
  /\ aired' = [aired EXCEPT ![m] = @ + 1]
  /\ SetObject(m, "sent")
  /\ IF tries < MaxTries
       THEN thread' = [thread EXCEPT ![t].tries = tries]
       ELSE Goto(t, "sent")
  /\ UNCHANGED <<rows, lost, waiting, flight, holder, watching, faulty>>

Send(t) ==
  LET m == thread[t].sms IN
  /\ At(t, "send")
  /\ aired' = [aired EXCEPT ![m] = @ + 1]
  /\ SetObject(m, "sent")
  /\ Goto(t, "sent")
  /\ UNCHANGED <<rows, lost, waiting, flight, holder, watching, faulty>>

(* --send fails, before or after the modem transmitted.  Its error text    *)
(* says whether it is tried again ("timed out" is); a timeout of the mmcli *)
(* process itself is not.                                                  *)
SendTrouble(t) ==
  LET m == thread[t].sms
      tries == thread[t].tries + 1
  IN
  /\ At(t, "send") /\ Fault
  /\ \/ UNCHANGED modem
     \/ /\ aired' = [aired EXCEPT ![m] = @ + 1]
        /\ lost' = [lost EXCEPT ![m] = @ + 1]
        /\ UNCHANGED object \/ SetObject(m, "sent")
  /\ \/ Goto(t, "fail")
     \/ tries < MaxTries /\ thread' = [thread EXCEPT ![t].tries = tries]
  /\ UNCHANGED <<rows, waiting, flight, holder, watching, abandoned>>

(* Mutant: the success is saved and no webhook is queued.                  *)
Sent_Silent(t) ==
  /\ At(t, "sent")
  /\ row' = [row EXCEPT ![thread[t].sms] = IF @ = "gone" THEN @ ELSE "sent"]
  /\ End(t)
  /\ UNCHANGED <<kept, named, jobs, modem, waiting, watching, faulty>>

Sent(t) ==
  /\ At(t, "sent")
  /\ Save(t, "sent", "notify")
  /\ UNCHANGED <<kept, named, jobs, modem, waiting, watching, faulty>>

(* The on_commit callback: schedule_outbound_webhook, which fails when the *)
(* row is gone.                                                            *)
Notify(t) ==
  LET m == thread[t].sms IN
  /\ At(t, "notify")
  /\ jobs' = IF row[m] = "gone" THEN jobs ELSE jobs \cup {m}
  /\ End(t)
  /\ UNCHANGED <<row, kept, named, modem, waiting, watching, faulty>>

(* Mutants: an MmcliError is only logged; its webhook is queued, too.       *)
Fail_Logs(t) ==
  /\ At(t, "fail")
  /\ End(t)
  /\ UNCHANGED <<rows, modem, waiting, watching, faulty>>

Fail_Notifies(t) ==
  /\ At(t, "fail")
  /\ SetRow(thread[t].sms, "failed")
  /\ jobs' = jobs \cup {thread[t].sms}
  /\ End(t)
  /\ UNCHANGED <<kept, named, modem, waiting, watching, faulty>>

(* MmcliError.                                                             *)
Fail(t) ==
  /\ At(t, "fail")
  /\ IF row[thread[t].sms] = "gone" THEN UNCHANGED row
                                    ELSE SetRow(thread[t].sms, "failed")
  /\ End(t)
  /\ UNCHANGED <<kept, named, jobs, modem, waiting, watching, faulty>>

(* A database error, or an OSError when mmcli cannot be started: no        *)
(* handler in dispatch_outbound_mmcli; _process_job, _queue_webhook or the *)
(* request logs it.                                                        *)
Abandon(t) ==
  /\ thread[t].pc \in Inside \cup {"load"} /\ Fault
  /\ abandoned' = abandoned \cup {thread[t].sms}
  /\ End(t)
  /\ UNCHANGED <<rows, modem, waiting, watching>>

Crash ==
  /\ Fault
  /\ abandoned' = abandoned \cup flight
                   \cup ({thread[t].sms : t \in Threads} \ {None})
  /\ queue' = <<>> /\ flight' = {}
  /\ thread' = [t \in Threads |-> Idle] /\ holder' = None
  /\ UNCHANGED <<async, refused, rows, modem, watching>>

(* Storage rotation, in a process of its own, deletes rows that have at    *)
(* least as many newer ones as the limit, and with CASCADE their webhook   *)
(* jobs, whatever state they are in.                                       *)
Rotate ==
  /\ Fault
  /\ \E i \in 1 .. Len(kept) - Limit :
       /\ SetRow(kept[i], "gone")
       /\ kept' = SubSeq(kept, 1, i - 1) \o SubSeq(kept, i + 1, Len(kept))
       /\ jobs' = jobs \ {kept[i]}
  /\ UNCHANGED <<named, modem, process, watching, abandoned>>

-----------------------------------------------------------------------------
(* The watcher process: a persist of the SMS object, see InboundPipeline.  *)

(* A fetch that finds what is stored already changes nothing.              *)
EchoFetch(m) ==
  /\ watcher.pc = "idle" /\ object[m] # echo[m]
  /\ watcher' = [pc |-> "store", sms |-> m, seen |-> object[m]]
  /\ UNCHANGED <<rows, modem, process, echo, echoed, faulty>>

(* get_or_create, or the patch of mm_state once it says more than          *)
(* "unknown"; the post_save signal follows either.                         *)
EchoStore ==
  /\ watcher.pc = "store"
  /\ echo' = [echo EXCEPT ![watcher.sms] = watcher.seen]
  /\ watcher' = [watcher EXCEPT !.pc = "filter"]
  /\ UNCHANGED <<rows, modem, process, echoed, faulty>>

(* find_matching_outbound: by mm_path; or near, that is with the same text *)
(* and modem and created within _ECHO_WINDOW_MINUTES, and then by the      *)
(* echo's mm_state or, if the echo bears its number, by the row's SENT.    *)
Matches(m, near, numbered) ==
  /\ row[m] \notin {"failed", "gone"}
  /\ \/ m \in named
     \/ near /\ echo[m] = "sent"
     \/ near /\ numbered /\ row[m] = "sent"

EchoFilter ==
  /\ watcher.pc = "filter"
  /\ \E near, numbered \in BOOLEAN :
       echoed' = IF Matches(watcher.sms, near, numbered)
                   THEN echoed ELSE echoed \cup {watcher.sms}
  /\ watcher' = Resting
  /\ UNCHANGED <<rows, modem, process, echo, faulty>>

-----------------------------------------------------------------------------

DispatchStep(t) ==
  Put(t) \/ Enqueue(t) \/ Take(t) \/ Load(t) \/ Resolve(t) \/ Create(t)
    \/ Name(t) \/ Send(t) \/ Sent(t) \/ Notify(t) \/ Fail(t)

TroubleStep(t) == CreateTrouble(t) \/ SendTrouble(t) \/ Abandon(t)

EchoStep == EchoStore \/ EchoFilter \/ \E m \in Sms : EchoFetch(m)

Next ==
  \/ \E t \in Threads : DispatchStep(t) \/ Lock(t) \/ TroubleStep(t)
  \/ \E t \in Requests, m \in Sms : Accept(t, m)
  \/ EchoStep
  \/ Rotate
  \/ Crash

Spec == Init /\ [][Next]_vars

(* Threads are scheduled; a threading.Lock comes to everyone who waits for *)
(* it.  Nothing makes a client post or the watcher look.                   *)
Fairness ==
  \A t \in Threads : WF_vars(DispatchStep(t)) /\ SF_vars(Lock(t))

FairSpec == Spec /\ Fairness

-----------------------------------------------------------------------------
(* Properties.                                                             *)

Pcs == Inside \cup {"idle", "put", "enqueue", "load", "lock"}

DataType ==
  /\ row \in [Sms -> States \cup {"none", "gone"}] /\ kept \in Seq(Sms)
  /\ named \subseteq Sms /\ jobs \subseteq Sms
  /\ object \in [Sms -> Objects]
  /\ aired \in [Sms -> Nat] /\ lost \in [Sms -> Nat]
  /\ async \in BOOLEAN /\ refused \subseteq Sms /\ flight \subseteq Sms
  /\ queue \in Seq(Sms) /\ Len(queue) <= QueueSize
  /\ abandoned \subseteq Sms /\ faults \in 0 .. MaxFaults

ThreadRecords ==
  [pc : Pcs, sms : Sms \cup {None}, tries : 0 .. MaxTries - 1]

ThreadType ==
  /\ thread \in [Threads -> ThreadRecords]
  /\ \A t \in Threads : At(t, "idle") <=> thread[t].sms = None
  /\ holder \in Threads \cup {None}
  /\ \A t \in Threads : holder = t <=> thread[t].pc \in Inside

EchoType ==
  /\ echo \in [Sms -> Objects]
  /\ watcher \in [pc : {"idle", "store", "filter"}, sms : Sms \cup {None},
                  seen : Objects]
  /\ watcher.pc # "idle" => watcher.sms \in Sms
  /\ echoed \subseteq Sms

(* The type of every variable; mmcli_serial is held by the one thread that *)
(* is between its acquisition and its release.                             *)
TypeOK == DataType /\ ThreadType /\ EchoType

(* The client is told the truth of a success: an SMS that the API reports  *)
(* as sent was transmitted, through every retry, error and crash.          *)
SentWasAired == \A m \in Sms : row[m] = "sent" => aired[m] > 0

(* A recipient gets an SMS twice only if mmcli reported a transmission as  *)
(* a failure; neither workers nor requests dispatch a row again.           *)
AiredOnce == \A m \in Sms : aired[m] <= 1 + lost[m]

(* Only a successful send notifies the webhooks.                           *)
NotifiedWasSent == \A m \in jobs : row[m] = "sent"

(* No SMS is taken up by two threads: what a thread holds is not queued    *)
(* again and no one else holds it.                                         *)
OneDispatcher ==
  \A t \in Threads : ~At(t, "idle") =>
    /\ \A u \in Threads \ {t} : thread[u].sms # thread[t].sms
    /\ \A i \in 1 .. Len(queue) : queue[i] # thread[t].sms

(* What the description of POST /api/sms/send/ promises, a record that is  *)
(* submitted and settles as sent or failed, holds unless the queue was     *)
(* full, the database failed or the process crashed: nothing looks for the *)
(* rows these leave behind.                                                *)
EverySmsSettles ==
  \A m \in Sms :
    row[m] = "created" ~>
      \/ row[m] \in {"sent", "failed", "gone"}
      \/ m \in refused \cup abandoned

(* The success of a send reaches the outbound webhooks' queue, unless the  *)
(* row is rotated away or a database error or a crash comes in between.    *)
SentIsNotified ==
  \A m \in Sms :
    row[m] = "sent" ~> (m \in jobs \/ row[m] = "gone" \/ m \in abandoned)

(* What docs/comunicacao.md says of the echo: it notifies nobody, only the *)
(* successful send does.                                                   *)
EchoIsSilent == echoed = {}
=============================================================================
