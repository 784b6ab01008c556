---------------------------- MODULE DeadLetters ----------------------------
(***************************************************************************)
(* The dead-letter queue of inbound messages as its processes share it:    *)
(* one sms_dlq table in one SQLite file, and in every process that uses it *)
(* an SmsDeadLetterQueue object with a lock and a recovery thread of its   *)
(* own (src/apps/sms/dead_letter_queue.py).  The processes are a watcher   *)
(* per modem and the operator's recover_missing_sms --check-dlq, whose     *)
(* main thread retries a batch beside the recovery thread.  The lock       *)
(* orders the operations of one process only.  InboundPipeline has one     *)
(* such process in full; here a thread's work is reduced to what it does   *)
(* to the table.                                                           *)
(*                                                                         *)
(* A message is the path ModemManager gave it.  sqlite3 opens transactions *)
(* for writes only, so a SELECT and the write that depends on it are two   *)
(* steps between which another process may write.                          *)
(***************************************************************************)
EXTENDS Naturals, FiniteSets

CONSTANTS
  Msgs,        \* SMS paths
  NoMsg,       \* "no message": an idle thread's value
  Procs,       \* processes that open the table
  Threads,     \* threads that persist SMS: queue workers, listeners
  Owner,       \* the process of each thread
  Retriers,    \* threads that retry letters: recovery threads and Mains
  Mains,       \* main threads of recover_missing_sms
  Host,        \* the process of each retrier
  DlqSize,     \* SMS_DLQ_MAX_SIZE
  MaxRetries,  \* SMS_DLQ_MAX_RETRIES
  BatchSize,   \* the limit of process_batch: 50, or 500 by the operator
  MaxJobs,     \* bound: persists by threads and runs of the command
  MaxFaults,   \* bound: database errors
  MaxCrashes   \* bound: process crashes

ASSUME DeadLettersAssumption ==
  /\ NoMsg \notin Msgs
  /\ IsFiniteSet(Msgs) /\ IsFiniteSet(Procs) /\ Procs # {}
  /\ Owner \in [Threads -> Procs]
  /\ IsFiniteSet(Retriers) /\ Mains \subseteq Retriers
  /\ Host \in [Retriers -> Procs]
  /\ DlqSize \in Nat \ {0} /\ MaxRetries \in Nat \ {0}
  /\ BatchSize \in Nat \ {0}
  /\ MaxJobs \in Nat /\ MaxFaults \in Nat /\ MaxCrashes \in Nat

VARIABLES
  letter,   \* per message: its row of sms_dlq
  lastId,   \* the largest id AUTOINCREMENT has given
  clock,    \* order of the enqueues: what failed_at is compared by
  thread,   \* per thread: where it is after its persist
  rec,      \* per retrier: where it is and what it has read
  awake,    \* per process: whether get_sms_dlq has started its recovery
  returned, \* history: messages some persist_inbound_sms returned for
  tried,    \* history: retries of each message since its row was inserted
  jobs,     \* persists by threads and runs of the command so far
  faults,   \* database errors so far
  crashes   \* crashes so far

vars == <<letter, lastId, clock, thread, rec, awake, returned, tried, jobs,
          faults, crashes>>

(* id 0 is the absence of a row; due says that next_retry_at has passed.   *)
Letters == [id : Nat, count : Nat, due : BOOLEAN, at : Nat]

NoLetter == [id |-> 0, count |-> 0, due |-> FALSE, at |-> 0]

OldLetter == [id |-> 1, count |-> 0, due |-> TRUE, at |-> 1]

IdleThread == [pc |-> "idle", msg |-> NoMsg]

(* A retrier holds the batch it has read and still has to retry,           *)
(* the letter it works on and, in mark_retry_failed, the count it has read.*)
IdleRec == [pc |-> "idle", batch |-> {}, id |-> 0, msg |-> NoMsg, count |-> 0]

(* The file outlives its processes: old is what an earlier run may have    *)
(* left in it.                                                             *)
Init ==
  /\ \E old \in Msgs \cup {NoMsg} :
       letter = [m \in Msgs |-> IF m = old THEN OldLetter ELSE NoLetter]
  /\ lastId = 1
  /\ clock = 1
  /\ thread = [t \in Threads |-> IdleThread]
  /\ rec = [r \in Retriers |-> IdleRec]
  /\ awake = [p \in Procs |-> FALSE]
  /\ returned = {}
  /\ tried = [m \in Msgs |-> 0]
  /\ jobs = 0
  /\ faults = 0
  /\ crashes = 0

-----------------------------------------------------------------------------
(* The table and the locks.                                                *)

Present(m) == letter[m].id # 0

Table == {m \in Msgs : Present(m)}

(* DELETE ... WHERE sms_path = ?                                           *)
DeletePath(m) == letter' = [letter EXCEPT ![m] = NoLetter]

(* DELETE ... WHERE id = ?                                                 *)
DeleteId(i) ==
  letter' = [m \in Msgs |-> IF letter[m].id = i THEN NoLetter ELSE letter[m]]

(* Mutant: an id is one more than the largest in the table, which is what  *)
(* SQLite gives without AUTOINCREMENT.                                     *)
FreshId_Reused ==
  CHOOSE i \in {letter[m].id + 1 : m \in Msgs} :
    \A m \in Msgs : letter[m].id < i

FreshId == lastId + 1

(* self._lock of the process, held from the SELECT to the write.           *)
Locked(p) ==
  \/ \E t \in Threads : Owner[t] = p /\ thread[t].pc = "insert"
  \/ \E r \in Retriers : Host[r] = p /\ rec[r].pc = "write"

-----------------------------------------------------------------------------
(* Threads: persist a message, then put it into the table or take it out.  *)

Take(t) ==
  /\ thread[t].pc = "idle"
  /\ jobs < MaxJobs
  /\ jobs' = jobs + 1

(* get_sms_dlq starts the recovery thread of its process when it is first  *)
(* called.                                                                 *)
Go(t, pc, m) ==
  /\ thread' = [thread EXCEPT ![t] = [pc |-> pc, msg |-> m]]
  /\ awake' = [awake EXCEPT ![Owner[t]] = TRUE]

(* persist_inbound_sms raises, or the persist queue is full, and the       *)
(* thread calls enqueue_persist_failure.                                   *)
PersistFails(t, m) ==
  /\ Take(t)
  /\ Go(t, "count", m)
  /\ UNCHANGED <<letter, lastId, clock, rec, returned, tried, faults, crashes>>

(* It stores the message and goes on to remove_by_path.                    *)
PersistStores(t, m) ==
  /\ Take(t)
  /\ Go(t, "remove", m)
  /\ returned' = returned \cup {m}
  /\ UNCHANGED <<letter, lastId, clock, rec, tried, faults, crashes>>

(* It returns without that: the whitelist rejects the sender, or the path  *)
(* is gone and its row is there.                                           *)
PersistReturns(t, m) ==
  /\ Take(t)
  /\ returned' = returned \cup {m}
  /\ UNCHANGED <<letter, lastId, clock, thread, rec, awake, tried, faults,
                 crashes>>

(* Mutant: the capacity test lets one row too many in.                     *)
HasRoom_OneMore == Cardinality(Table) <= DlqSize

HasRoom == Cardinality(Table) < DlqSize

(* enqueue, SELECT COUNT: a full table refuses the path, also one that is  *)
(* in the table already.                                                   *)
Count(t) ==
  /\ thread[t].pc = "count"
  /\ ~Locked(Owner[t])
  /\ thread' = [thread EXCEPT ![t] = IF HasRoom THEN [@ EXCEPT !.pc = "insert"]
                                                ELSE IdleThread]
  /\ UNCHANGED <<letter, lastId, clock, rec, awake, returned, tried, jobs,
                 faults, crashes>>

(* Mutant: the conflict counts the failed persist as a retry.              *)
Upserted_Counts(m) ==
  IF Present(m)
    THEN [letter[m] EXCEPT !.count = @ + 1, !.due = TRUE, !.at = clock + 1]
    ELSE [id |-> FreshId, count |-> 0, due |-> TRUE, at |-> clock + 1]

Upserted(m) ==
  IF Present(m)
    THEN [letter[m] EXCEPT !.due = TRUE, !.at = clock + 1]
    ELSE [id |-> FreshId, count |-> 0, due |-> TRUE, at |-> clock + 1]

(* enqueue, INSERT ... ON CONFLICT: the row of the path keeps its id and   *)
(* its retry_count, and is due at once.                                    *)
Insert(t) ==
  LET m == thread[t].msg IN
  /\ thread[t].pc = "insert"
  /\ letter' = [letter EXCEPT ![m] = Upserted(m)]
  /\ lastId' = IF Present(m) THEN lastId ELSE FreshId
  /\ tried' = IF Present(m) THEN tried ELSE [tried EXCEPT ![m] = 0]
  /\ clock' = clock + 1
  /\ thread' = [thread EXCEPT ![t] = IdleThread]
  /\ UNCHANGED <<rec, awake, returned, jobs, faults, crashes>>

(* remove_by_path after a persist that stored the message.                 *)
Remove(t) ==
  /\ thread[t].pc = "remove"
  /\ ~Locked(Owner[t])
  /\ DeletePath(thread[t].msg)
  /\ thread' = [thread EXCEPT ![t] = IdleThread]
  /\ UNCHANGED <<lastId, clock, rec, awake, returned, tried, jobs, faults,
                 crashes>>

-----------------------------------------------------------------------------
(* Recovery: read a batch, then retry its letters one by one.              *)

(* Mutant: a letter that has been retried once is not found again.         *)
Due_FirstOnly(m) == Present(m) /\ letter[m].due /\ letter[m].count = 0

Due(m) == Present(m) /\ letter[m].due /\ letter[m].count < MaxRetries

(* ORDER BY failed_at LIMIT ?                                              *)
InBatch(m) ==
  Due(m) /\ Cardinality({n \in Msgs : Due(n) /\ letter[n].at < letter[m].at})
              < BatchSize

Batch == {<<letter[m].id, m>> : m \in {n \in Msgs : InBatch(n)}}

(* dequeue_batch takes no row out of the table and marks none as taken, so *)
(* another retrier may read the same letters.                              *)
Dequeue(r) ==
  /\ r \notin Mains
  /\ awake[Host[r]]
  /\ rec[r] = IdleRec
  /\ ~Locked(Host[r])
  /\ \E m \in Msgs : Due(m)
  /\ rec' = [rec EXCEPT ![r].batch = Batch]
  /\ UNCHANGED <<letter, lastId, clock, thread, awake, returned, tried, jobs,
                 faults, crashes>>

(* The operator runs recover_missing_sms: get_sms_dlq starts the recovery  *)
(* thread of the command's process, and its main thread reads a batch.     *)
RunCommand(r) ==
  /\ r \in Mains
  /\ jobs < MaxJobs
  /\ jobs' = jobs + 1
  /\ rec[r] = IdleRec
  /\ ~Locked(Host[r])
  /\ awake' = [awake EXCEPT ![Host[r]] = TRUE]
  /\ rec' = [rec EXCEPT ![r].batch = Batch]
  /\ UNCHANGED <<letter, lastId, clock, thread, returned, tried, faults,
                 crashes>>

(* persist_inbound_sms of one letter of the batch: it raises, or stores    *)
(* the message and goes on to remove_by_path, or returns without that.     *)
(* Letters of a batch are tried in failed_at order; any order is allowed   *)
(* here.                                                                   *)
Retry(r) ==
  /\ rec[r].pc = "idle"
  /\ \E b \in rec[r].batch, pc \in {"failed", "remove", "recovered"} :
       /\ rec' = [rec EXCEPT ![r] = [pc |-> pc, batch |-> @.batch \ {b},
                                     id |-> b[1], msg |-> b[2], count |-> 0]]
       /\ returned' = IF pc = "failed" THEN returned
                                       ELSE returned \cup {b[2]}
       /\ tried' = IF letter[b[2]].id = b[1]
                     THEN [tried EXCEPT ![b[2]] = @ + 1]
                     ELSE tried
  /\ UNCHANGED <<letter, lastId, clock, thread, awake, jobs, faults, crashes>>

(* The letter is done with; the thread goes on with its batch.             *)
NextLetter(r) ==
  rec' = [rec EXCEPT ![r] = [IdleRec EXCEPT !.batch = rec[r].batch]]

RetryRemoves(r) ==
  /\ rec[r].pc = "remove"
  /\ ~Locked(Host[r])
  /\ DeletePath(rec[r].msg)
  /\ rec' = [rec EXCEPT ![r].pc = "recovered"]
  /\ UNCHANGED <<lastId, clock, thread, awake, returned, tried, jobs, faults,
                 crashes>>

(* mark_recovered deletes by id, whatever row has the id by now.           *)
MarkRecovered(r) ==
  /\ rec[r].pc = "recovered"
  /\ ~Locked(Host[r])
  /\ DeleteId(rec[r].id)
  /\ NextLetter(r)
  /\ UNCHANGED <<lastId, clock, thread, awake, returned, tried, jobs, faults,
                 crashes>>

(* mark_retry_failed, SELECT retry_count: nothing to do when the row has   *)
(* been deleted.                                                           *)
ReadCount(r) ==
  /\ rec[r].pc = "failed"
  /\ ~Locked(Host[r])
  /\ IF \E m \in Msgs : letter[m].id = rec[r].id
       THEN \E m \in Msgs :
              /\ letter[m].id = rec[r].id
              /\ rec' = [rec EXCEPT ![r] = [@ EXCEPT !.pc = "write",
                                              !.count = letter[m].count]]
       ELSE NextLetter(r)
  /\ UNCHANGED <<letter, lastId, clock, thread, awake, returned, tried, jobs,
                 faults, crashes>>

AfterRetry(r, row) == [row EXCEPT !.count = rec[r].count + 1, !.due = FALSE]

(* mark_retry_failed, UPDATE ... WHERE id = ?: the count read before, plus *)
(* one, overwrites what another process may have written since.            *)
WriteCount(r) ==
  /\ rec[r].pc = "write"
  /\ letter' = [m \in Msgs |-> IF letter[m].id = rec[r].id
                                 THEN AfterRetry(r, letter[m])
                                 ELSE letter[m]]
  /\ NextLetter(r)
  /\ UNCHANGED <<lastId, clock, thread, awake, returned, tried, jobs, faults,
                 crashes>>

(* next_retry_at passes.                                                   *)
Elapse(m) ==
  /\ Present(m) /\ ~letter[m].due
  /\ letter' = [letter EXCEPT ![m].due = TRUE]
  /\ UNCHANGED <<lastId, clock, thread, rec, awake, returned, tried, jobs,
                 faults, crashes>>

-----------------------------------------------------------------------------
(* Failures.                                                               *)

(* The database stays busy for 30 seconds in a thread's operation.  The    *)
(* exception of remove_by_path leaves persist_inbound_sms, whose caller    *)
(* calls enqueue_persist_failure; the one of enqueue reaches the thread's  *)
(* loop, which logs it.                                                    *)
ThreadFault(t) ==
  /\ thread[t].pc # "idle"
  /\ faults < MaxFaults
  /\ faults' = faults + 1
  /\ thread' = [thread EXCEPT ![t] = IF @.pc = "remove"
                                       THEN [@ EXCEPT !.pc = "count"]
                                       ELSE IdleThread]
  /\ UNCHANGED <<letter, lastId, clock, rec, awake, returned, tried, jobs,
                 crashes>>

(* The same in a retrier: a letter that could not be deleted counts as a   *)
(* failed retry; an exception of mark_retry_failed ends the batch.         *)
RecoveryFault(r) ==
  /\ rec[r].pc # "idle"
  /\ faults < MaxFaults
  /\ faults' = faults + 1
  /\ rec' = [rec EXCEPT ![r] = IF @.pc \in {"remove", "recovered"}
                                 THEN [@ EXCEPT !.pc = "failed"]
                                 ELSE IdleRec]
  /\ UNCHANGED <<letter, lastId, clock, thread, awake, returned, tried, jobs,
                 crashes>>

(* The threads of a process end with it, at whatever step they are.        *)
Dies(p) ==
  /\ thread' = [t \in Threads |-> IF Owner[t] = p THEN IdleThread
                                                  ELSE thread[t]]
  /\ rec' = [r \in Retriers |-> IF Host[r] = p THEN IdleRec ELSE rec[r]]
  /\ awake' = [awake EXCEPT ![p] = FALSE]

(* Mutant: the threads outlive their process.                              *)
Crash_ThreadsStay(p) ==
  /\ crashes < MaxCrashes
  /\ crashes' = crashes + 1
  /\ rec' = [r \in Retriers |-> IF Host[r] = p THEN IdleRec ELSE rec[r]]
  /\ awake' = [awake EXCEPT ![p] = FALSE]
  /\ UNCHANGED <<letter, lastId, clock, thread, returned, tried, jobs, faults>>

(* A process dies between two steps; its supervisor starts a watcher       *)
(* again, the operator a command.                                          *)
Crash(p) ==
  /\ crashes < MaxCrashes
  /\ crashes' = crashes + 1
  /\ Dies(p)
  /\ UNCHANGED <<letter, lastId, clock, returned, tried, jobs, faults>>

(* The command ends when its main thread has tried its batch; its recovery *)
(* thread, a daemon, ends with it.                                         *)
Exit(p) ==
  /\ awake[p]
  /\ \E r \in Mains : Host[r] = p
  /\ \A r \in Mains : Host[r] = p => rec[r] = IdleRec
  /\ \A t \in Threads : Owner[t] = p => thread[t].pc = "idle"
  /\ Dies(p)
  /\ UNCHANGED <<letter, lastId, clock, returned, tried, jobs, faults, crashes>>

-----------------------------------------------------------------------------

ThreadStep(t) == Count(t) \/ Insert(t) \/ Remove(t)

ThreadNext(t) ==
  \/ \E m \in Msgs :
       PersistFails(t, m) \/ PersistStores(t, m) \/ PersistReturns(t, m)
  \/ Count(t) \/ Insert(t) \/ Remove(t) \/ ThreadFault(t)

RecoveryStep(r) ==
  \/ Dequeue(r) \/ Retry(r) \/ RetryRemoves(r) \/ MarkRecovered(r)
  \/ ReadCount(r) \/ WriteCount(r)

RetrierNext(r) ==
  \/ Dequeue(r) \/ RunCommand(r) \/ Retry(r) \/ RetryRemoves(r)
  \/ MarkRecovered(r) \/ ReadCount(r) \/ WriteCount(r) \/ RecoveryFault(r)

Next ==
  \/ \E t \in Threads : ThreadNext(t)
  \/ \E r \in Retriers : RetrierNext(r)
  \/ \E p \in Procs : Crash(p) \/ Exit(p)
  \/ \E m \in Msgs : Elapse(m)

Spec == Init /\ [][Next]_vars

(* Threads are scheduled, recovery threads read batch after batch, and     *)
(* time passes; nobody has to persist a message or run the command, and a  *)
(* retry need not succeed.                                                 *)
Fairness ==
  /\ \A t \in Threads : WF_vars(ThreadStep(t))
  /\ \A r \in Retriers : WF_vars(RecoveryStep(r))
  /\ \A m \in Msgs : WF_vars(Elapse(m))

FairSpec == Spec /\ Fairness

-----------------------------------------------------------------------------
(* Properties.                                                             *)

ThreadRecords ==
  [pc : {"idle", "count", "insert", "remove"}, msg : Msgs \cup {NoMsg}]

RecRecords ==
  [pc : {"idle", "remove", "recovered", "failed", "write"},
   batch : SUBSET ((Nat \ {0}) \X Msgs), id : Nat, msg : Msgs \cup {NoMsg},
   count : Nat]

TableType == letter \in [Msgs -> Letters] /\ lastId \in Nat /\ clock \in Nat

ThreadType ==
  /\ thread \in [Threads -> ThreadRecords]
  /\ \A t \in Threads :
       thread[t].pc # "idle" => thread[t].msg \in Msgs /\ awake[Owner[t]]

RecType ==
  /\ rec \in [Retriers -> RecRecords]
  /\ \A r \in Retriers :
       /\ rec[r].pc # "idle" => rec[r].id > 0 /\ rec[r].msg \in Msgs
       /\ rec[r] # IdleRec => awake[Host[r]]

HistoryType ==
  /\ awake \in [Procs -> BOOLEAN]
  /\ returned \subseteq Msgs
  /\ tried \in [Msgs -> Nat]
  /\ jobs \in Nat /\ faults \in Nat /\ crashes \in Nat

(* The type of every variable; a busy thread has a message and a process   *)
(* that has opened the table, a busy retrier also an id.                   *)
TypeOK == TableType /\ ThreadType /\ RecType /\ HistoryType

(* The table outgrows SMS_DLQ_MAX_SIZE by less than one row per process,   *)
(* the rows that threads have found room for and not inserted yet counted: *)
(* the lock admits one thread of a process between the count and the       *)
(* insert of enqueue, but nothing keeps several processes from it.         *)
TableBounded ==
  Cardinality(Table) + Cardinality({t \in Threads : thread[t].pc = "insert"})
    < DlqSize + Cardinality(Procs)

(* retry_count never exceeds the retries that were made of the row: no     *)
(* letter is given up, with its message lost, before SMS_DLQ_MAX_RETRIES   *)
(* tries, whatever increments overwrite each other and however often its   *)
(* path is enqueued again.                                                 *)
CountedWasTried == \A m \in Msgs : letter[m].count <= tried[m]

(* A letter leaves the table only when persist_inbound_sms has returned    *)
(* for its message: a deletion by path or by id, decided long before by a  *)
(* thread of another process, never hits the letter of another message.    *)
NothingVanishes ==
  [][\A m \in Msgs : Present(m) /\ ~Present(m)' => m \in returned]_vars

(* Every letter leaves the table or uses up its retries, as long as some   *)
(* process has called get_sms_dlq since it started.                        *)
LettersSettle ==
  \A m \in Msgs :
    Present(m) ~> \/ ~Present(m) \/ letter[m].count >= MaxRetries
                  \/ \A p \in Procs : ~awake[p]
=============================================================================
