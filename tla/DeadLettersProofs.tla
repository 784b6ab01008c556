------------------------- MODULE DeadLettersProofs -------------------------
(***************************************************************************)
(* Theorems about DeadLetters for any number of messages, processes,       *)
(* threads and retriers, any capacity, retry limit and batch size, and any *)
(* bounds.                                                                 *)
(***************************************************************************)
EXTENDS DeadLetters, FiniteSetTheorems, TLAPS

-----------------------------------------------------------------------------
(* Type correctness.                                                       *)

(* The rows that enqueue and mark_retry_failed write are rows.             *)
LEMMA RowsWritten ==
  ASSUME TypeOK
  PROVE  /\ \A m \in Msgs : Upserted(m) \in Letters
         /\ \A r \in Retriers, m \in Msgs : AfterRetry(r, letter[m]) \in Letters
<1>1. ASSUME NEW m \in Msgs PROVE Upserted(m) \in Letters
  <2>1. letter[m] \in Letters /\ clock + 1 \in Nat /\ lastId + 1 \in Nat
    BY DEF TypeOK, TableType
  <2> QED
    BY <2>1 DEF Upserted, Letters, FreshId
<1>2. ASSUME NEW r \in Retriers, NEW m \in Msgs
      PROVE  AfterRetry(r, letter[m]) \in Letters
  <2>1. letter[m] \in Letters /\ rec[r].count + 1 \in Nat
    BY DEF TypeOK, TableType, RecType, RecRecords
  <2> QED
    BY <2>1 DEF AfterRetry, Letters
<1> QED
  BY <1>1, <1>2

(* Every step leaves a table of rows.                                      *)
LEMMA TableStep == TypeOK /\ Next => TableType'
<1> SUFFICES ASSUME TypeOK, Next PROVE TableType'
  OBVIOUS
<1>1. NoLetter \in Letters
  BY DEF NoLetter, Letters
<1>2. ASSUME NEW t \in Threads, Insert(t) PROVE TableType'
  <2>1. thread[t].msg \in Msgs
    BY <1>2 DEF Insert, TypeOK, ThreadType
  <2> QED
    BY <1>2, <2>1, RowsWritten DEF Insert, TypeOK, TableType, FreshId
<1>3. ASSUME NEW t \in Threads, Remove(t) PROVE TableType'
  BY <1>1, <1>3 DEF Remove, DeletePath, TypeOK, TableType
<1>4. ASSUME NEW r \in Retriers, RetryRemoves(r) PROVE TableType'
  BY <1>1, <1>4 DEF RetryRemoves, DeletePath, TypeOK, TableType
<1>5. ASSUME NEW r \in Retriers, MarkRecovered(r) PROVE TableType'
  BY <1>1, <1>5 DEF MarkRecovered, DeleteId, TypeOK, TableType
<1>6. ASSUME NEW r \in Retriers, WriteCount(r) PROVE TableType'
  BY <1>6, RowsWritten DEF WriteCount, TypeOK, TableType
<1>7. ASSUME NEW m \in Msgs, Elapse(m) PROVE TableType'
  <2>1. [letter[m] EXCEPT !.due = TRUE] \in Letters
    BY DEF TypeOK, TableType, Letters
  <2> QED
    BY <1>7, <2>1 DEF Elapse, TypeOK, TableType
<1>8. ASSUME UNCHANGED <<letter, lastId, clock>> PROVE TableType'
  BY <1>8 DEF TypeOK, TableType
<1> QED
  BY <1>2, <1>3, <1>4, <1>5, <1>6, <1>7, <1>8
     DEF Next, ThreadNext, RetrierNext, PersistFails, PersistStores,
         PersistReturns, Count, ThreadFault, Dequeue, RunCommand, Retry,
         ReadCount, RecoveryFault, Crash, Exit

(* Every step leaves a busy thread with a message and an open table.       *)
LEMMA ThreadStepType == TypeOK /\ Next => ThreadType'
<1> SUFFICES ASSUME TypeOK, Next PROVE ThreadType'
  OBVIOUS
<1> USE DeadLettersAssumption
<1>1. IdleThread \in ThreadRecords /\ IdleThread.pc = "idle"
  BY DEF IdleThread, ThreadRecords
<1>2. ASSUME NEW t \in Threads, NEW m \in Msgs,
             PersistFails(t, m) \/ PersistStores(t, m) \/ PersistReturns(t, m)
      PROVE  ThreadType'
  <2>1. CASE Go(t, "count", m) \/ Go(t, "remove", m)
    <3>1. PICK pc \in {"count", "remove"} :
            /\ thread' = [thread EXCEPT ![t] = [pc |-> pc, msg |-> m]]
            /\ awake' = [awake EXCEPT ![Owner[t]] = TRUE]
      BY <2>1 DEF Go
    <3>2. [pc |-> pc, msg |-> m] \in ThreadRecords
      BY DEF ThreadRecords
    <3>3. awake'[Owner[t]] /\ \A p \in Procs : awake[p] => awake'[p]
      BY <3>1 DEF TypeOK, HistoryType
    <3> QED
      BY <3>1, <3>2, <3>3 DEF TypeOK, ThreadType
  <2>2. CASE UNCHANGED <<thread, awake>>
    BY <2>2 DEF TypeOK, ThreadType
  <2> QED
    BY <1>2, <2>1, <2>2 DEF PersistFails, PersistStores, PersistReturns
<1>3. ASSUME NEW t \in Threads, Count(t) PROVE ThreadType'
  <2>1. thread[t] \in ThreadRecords /\ thread[t].msg \in Msgs /\ awake[Owner[t]]
    BY <1>3 DEF Count, TypeOK, ThreadType
  <2>2. [thread[t] EXCEPT !.pc = "insert"] \in ThreadRecords
    BY <2>1 DEF ThreadRecords
  <2>3. [thread[t] EXCEPT !.pc = "insert"].msg = thread[t].msg
    BY <2>1 DEF ThreadRecords
  <2>4. \/ thread' = [thread EXCEPT ![t] = [thread[t] EXCEPT !.pc = "insert"]]
        \/ thread' = [thread EXCEPT ![t] = IdleThread]
    BY <1>3 DEF Count
  <2>5. awake' = awake
    BY <1>3 DEF Count
  <2> QED
    BY <1>1, <2>1, <2>2, <2>3, <2>4, <2>5 DEF TypeOK, ThreadType
<1>4. ASSUME NEW t \in Threads, Insert(t) \/ Remove(t) \/ ThreadFault(t)
      PROVE  ThreadType'
  <2>1. /\ [thread[t] EXCEPT !.pc = "count"] \in ThreadRecords
        /\ [thread[t] EXCEPT !.pc = "count"].msg = thread[t].msg
    BY DEF ThreadRecords, TypeOK, ThreadType
  <2>2. thread[t].pc # "idle" /\ awake' = awake
    BY <1>4 DEF Insert, Remove, ThreadFault
  <2>3. \/ thread' = [thread EXCEPT ![t] = [thread[t] EXCEPT !.pc = "count"]]
        \/ thread' = [thread EXCEPT ![t] = IdleThread]
    BY <1>4 DEF Insert, Remove, ThreadFault
  <2> QED
    BY <1>1, <2>1, <2>2, <2>3 DEF TypeOK, ThreadType
<1>5. ASSUME NEW p \in Procs, Crash(p) \/ Exit(p) PROVE ThreadType'
  <2>1. \A t \in Threads : /\ Owner[t] = p => thread'[t] = IdleThread
                           /\ Owner[t] # p => thread'[t] = thread[t]
                           /\ Owner[t] # p => awake'[Owner[t]] = awake[Owner[t]]
    BY <1>5 DEF Crash, Exit, Dies, TypeOK, HistoryType
  <2>2. thread' \in [Threads -> ThreadRecords]
    BY <1>1, <1>5 DEF Crash, Exit, Dies, TypeOK, ThreadType
  <2> QED
    BY <1>1, <2>1, <2>2 DEF TypeOK, ThreadType
<1>6. ASSUME NEW r \in Retriers, RunCommand(r) PROVE ThreadType'
  <2>1. /\ thread' = thread
        /\ \A p \in Procs : awake[p] => awake'[p]
    BY <1>6 DEF RunCommand, TypeOK, HistoryType
  <2> QED
    BY <2>1 DEF TypeOK, ThreadType
<1>7. ASSUME UNCHANGED <<thread, awake>> PROVE ThreadType'
  BY <1>7 DEF TypeOK, ThreadType
<1> QED
  BY <1>2, <1>3, <1>4, <1>5, <1>6, <1>7
     DEF Next, ThreadNext, RetrierNext, Elapse, Dequeue, Retry, RetryRemoves,
         MarkRecovered, ReadCount, WriteCount, RecoveryFault

(* A retrier of an awake process moves to another record with an id and a  *)
(* message.                                                                *)
LEMMA RecMoves ==
  ASSUME TypeOK, NEW r \in Retriers, awake'[Host[r]],
         \A p \in Procs : awake[p] => awake'[p],
         NEW new \in RecRecords, new.pc # "idle" => new.id > 0 /\ new.msg \in Msgs,
         rec' = [rec EXCEPT ![r] = new]
  PROVE  RecType'
BY DeadLettersAssumption DEF TypeOK, RecType

(* Every step leaves a busy retrier with an id and a message.      *)
LEMMA RecStepType == TypeOK /\ Next => RecType'
<1> SUFFICES ASSUME TypeOK, Next PROVE RecType'
  OBVIOUS
<1>1. IdleRec \in RecRecords /\ IdleRec.pc = "idle"
  BY DEF IdleRec, RecRecords
<1>2. ASSUME NEW r \in Retriers
      PROVE  /\ [IdleRec EXCEPT !.batch = rec[r].batch] \in RecRecords
             /\ [IdleRec EXCEPT !.batch = rec[r].batch].pc = "idle"
             /\ rec[r] \in RecRecords
             /\ rec[r].pc # "idle" => awake[Host[r]] /\ rec[r].id > 0
                                       /\ rec[r].msg \in Msgs
  BY <1>1 DEF TypeOK, RecType, RecRecords, IdleRec
<1>3. ASSUME NEW r \in Retriers, Dequeue(r) \/ RunCommand(r) PROVE RecType'
  <2>1. Batch \in SUBSET ((Nat \ {0}) \X Msgs)
    <3>1. \A m \in Msgs : InBatch(m) => letter[m].id \in Nat \ {0}
      BY DEF TypeOK, TableType, Letters, InBatch, Due, Present
    <3> QED
      BY <3>1 DEF Batch
  <2>2. [IdleRec EXCEPT !.batch = Batch] \in RecRecords
    BY <2>1 DEF IdleRec, RecRecords
  <2>3. [IdleRec EXCEPT !.batch = Batch].pc = "idle"
    BY DEF IdleRec
  <2>4. rec' = [rec EXCEPT ![r] = [IdleRec EXCEPT !.batch = Batch]]
    BY <1>3 DEF Dequeue, RunCommand
  <2>5. awake'[Host[r]] /\ \A p \in Procs : awake[p] => awake'[p]
    BY <1>3, DeadLettersAssumption
       DEF Dequeue, RunCommand, TypeOK, HistoryType
  <2> QED
    BY <2>2, <2>3, <2>4, <2>5, RecMoves
<1>4. ASSUME NEW r \in Retriers, Retry(r) PROVE RecType'
  <2>1. PICK b \in rec[r].batch, pc \in {"failed", "remove", "recovered"} :
          rec' = [rec EXCEPT ![r] = [pc |-> pc, batch |-> rec[r].batch \ {b},
                                     id |-> b[1], msg |-> b[2], count |-> 0]]
    BY <1>4 DEF Retry
  <2> DEFINE new == [pc |-> pc, batch |-> rec[r].batch \ {b},
                   id |-> b[1], msg |-> b[2], count |-> 0]
  <2>2. rec[r].batch \in SUBSET ((Nat \ {0}) \X Msgs)
    BY <1>2 DEF RecRecords
  <2>3. b[1] \in Nat /\ b[1] > 0 /\ b[2] \in Msgs
    BY <2>2
  <2>4. new \in RecRecords /\ new.id > 0 /\ new.msg \in Msgs
    BY <2>2, <2>3 DEF RecRecords
  <2>5. awake[Host[r]] /\ awake' = awake
    <3>1. rec[r] # IdleRec
      BY <2>1 DEF IdleRec
    <3> QED
      BY <1>4, <3>1 DEF Retry, TypeOK, RecType
  <2> HIDE DEF new
  <2> QED
    BY <2>1, <2>4, <2>5, RecMoves DEF new
<1>5. ASSUME NEW r \in Retriers, RetryRemoves(r) PROVE RecType'
  <2>1. [rec[r] EXCEPT !.pc = "recovered"] \in RecRecords
    BY <1>2 DEF RecRecords
  <2>2. /\ [rec[r] EXCEPT !.pc = "recovered"].id = rec[r].id
        /\ [rec[r] EXCEPT !.pc = "recovered"].msg = rec[r].msg
    BY <1>2 DEF RecRecords
  <2> QED
    BY <1>2, <1>5, <2>1, <2>2, RecMoves DEF RetryRemoves
<1>6. ASSUME NEW r \in Retriers, NextLetter(r), rec[r].pc # "idle",
             awake' = awake
      PROVE  RecType'
  BY <1>2, <1>6, RecMoves DEF NextLetter
<1>7. ASSUME NEW r \in Retriers, ReadCount(r) PROVE RecType'
  <2>1. CASE NextLetter(r)
    BY <1>6, <1>7, <2>1 DEF ReadCount
  <2>2. CASE ~NextLetter(r)
    <3>1. PICK m \in Msgs :
            rec' = [rec EXCEPT ![r] = [rec[r] EXCEPT !.pc = "write",
                                              !.count = letter[m].count]]
      BY <1>7, <2>2 DEF ReadCount
    <3> DEFINE new == [rec[r] EXCEPT !.pc = "write", !.count = letter[m].count]
    <3>2. letter[m].count \in Nat
      BY DEF TypeOK, TableType, Letters
    <3>3. new \in RecRecords /\ new.id = rec[r].id /\ new.msg = rec[r].msg
      BY <1>2, <3>2 DEF RecRecords
    <3>4. awake' = awake /\ rec[r].pc # "idle"
      BY <1>7 DEF ReadCount
    <3> HIDE DEF new
    <3> QED
      BY <1>2, <3>1, <3>3, <3>4, RecMoves DEF new
  <2> QED
    BY <2>1, <2>2
<1>8. ASSUME NEW r \in Retriers, RecoveryFault(r) PROVE RecType'
  <2>1. /\ [rec[r] EXCEPT !.pc = "failed"] \in RecRecords
        /\ [rec[r] EXCEPT !.pc = "failed"].id = rec[r].id
        /\ [rec[r] EXCEPT !.pc = "failed"].msg = rec[r].msg
    BY <1>2 DEF RecRecords
  <2>2. \/ rec' = [rec EXCEPT ![r] = [rec[r] EXCEPT !.pc = "failed"]]
        \/ rec' = [rec EXCEPT ![r] = IdleRec]
    BY <1>8 DEF RecoveryFault
  <2>3. awake' = awake /\ rec[r].pc # "idle"
    BY <1>8 DEF RecoveryFault
  <2> QED
    BY <1>1, <1>2, <2>1, <2>2, <2>3, RecMoves
<1>9. ASSUME NEW p \in Procs, Crash(p) \/ Exit(p) PROVE RecType'
  <2>1. Dies(p)
    BY <1>9 DEF Crash, Exit
  <2>2. \A r \in Retriers : rec'[r] = IF Host[r] = p THEN IdleRec ELSE rec[r]
    BY <2>1 DEF Dies
  <2>3. \A r \in Retriers : Host[r] # p => awake'[Host[r]] = awake[Host[r]]
    BY <2>1 DEF Dies, TypeOK, HistoryType
  <2>4. rec' \in [Retriers -> RecRecords]
    BY <1>1, <2>1 DEF Dies, TypeOK, RecType
  <2> QED
    BY <1>1, <2>2, <2>3, <2>4 DEF TypeOK, RecType
<1>10. ASSUME NEW t \in Threads, NEW m \in Msgs,
              PersistFails(t, m) \/ PersistStores(t, m) \/ PersistReturns(t, m)
       PROVE  RecType'
  <2>1. rec' = rec /\ \A p \in Procs : awake[p] => awake'[p]
    <3>1. rec' = rec /\ (awake' = awake \/ awake' = [awake EXCEPT ![Owner[t]] = TRUE])
      BY <1>10 DEF PersistFails, PersistStores, PersistReturns, Go
    <3> QED
      BY <3>1 DEF TypeOK, HistoryType
  <2> QED
    BY <2>1, DeadLettersAssumption DEF TypeOK, RecType
<1>11. ASSUME UNCHANGED <<rec, awake>> PROVE RecType'
  BY <1>11 DEF TypeOK, RecType
<1> QED
  BY <1>3, <1>4, <1>5, <1>6, <1>7, <1>8, <1>9, <1>10, <1>11
     DEF Next, ThreadNext, RetrierNext, Elapse, Count, Insert, Remove,
         ThreadFault, MarkRecovered, WriteCount

(* Every step leaves the histories and the counters well typed.            *)
LEMMA HistoryStep == TypeOK /\ Next => HistoryType'
<1> SUFFICES ASSUME TypeOK, Next PROVE HistoryType'
  OBVIOUS
<1> USE DeadLettersAssumption
<1>1. ASSUME NEW t \in Threads, NEW m \in Msgs,
             PersistFails(t, m) \/ PersistStores(t, m) \/ PersistReturns(t, m)
      PROVE  HistoryType'
  <2>1. awake' \in [Procs -> BOOLEAN]
    <3>1. awake' = awake \/ awake' = [awake EXCEPT ![Owner[t]] = TRUE]
      BY <1>1 DEF PersistFails, PersistStores, PersistReturns, Go
    <3> QED
      BY <3>1 DEF TypeOK, HistoryType
  <2>2. returned' \subseteq Msgs /\ jobs' \in Nat
    BY <1>1 DEF PersistFails, PersistStores, PersistReturns, Take, TypeOK,
                HistoryType
  <2>3. UNCHANGED <<tried, faults, crashes>>
    BY <1>1 DEF PersistFails, PersistStores, PersistReturns
  <2> QED
    BY <2>1, <2>2, <2>3 DEF TypeOK, HistoryType
<1>2. ASSUME NEW t \in Threads, Insert(t) PROVE HistoryType'
  BY <1>2 DEF Insert, TypeOK, HistoryType
<1>3. ASSUME NEW r \in Retriers, Retry(r) PROVE HistoryType'
  <2>1. PICK b \in rec[r].batch, pc \in {"failed", "remove", "recovered"} :
          /\ returned' = IF pc = "failed" THEN returned
                                          ELSE returned \cup {b[2]}
          /\ tried' = IF letter[b[2]].id = b[1]
                        THEN [tried EXCEPT ![b[2]] = @ + 1]
                        ELSE tried
    BY <1>3 DEF Retry
  <2>2. rec[r].batch \in SUBSET ((Nat \ {0}) \X Msgs)
    BY DEF TypeOK, RecType, RecRecords
  <2>3. b[2] \in Msgs
    BY <2>2
  <2>4. returned' \subseteq Msgs
    BY <2>1, <2>3 DEF TypeOK, HistoryType
  <2>5. tried' \in [Msgs -> Nat]
    BY <2>1, <2>3 DEF TypeOK, HistoryType
  <2>6. UNCHANGED <<awake, jobs, faults, crashes>>
    BY <1>3 DEF Retry
  <2> QED
    BY <2>4, <2>5, <2>6 DEF TypeOK, HistoryType
<1>4. ASSUME NEW t \in Threads, ThreadFault(t) PROVE HistoryType'
  BY <1>4 DEF ThreadFault, TypeOK, HistoryType
<1>5. ASSUME NEW p \in Procs, Crash(p) \/ Exit(p) PROVE HistoryType'
  <2>1. awake' \in [Procs -> BOOLEAN]
    BY <1>5 DEF Crash, Exit, Dies, TypeOK, HistoryType
  <2>2. crashes' \in Nat
    BY <1>5 DEF Crash, Exit, TypeOK, HistoryType
  <2>3. UNCHANGED <<returned, tried, jobs, faults>>
    BY <1>5 DEF Crash, Exit
  <2> QED
    BY <2>1, <2>2, <2>3 DEF TypeOK, HistoryType
<1>6. ASSUME NEW r \in Retriers, RecoveryFault(r) \/ RunCommand(r)
      PROVE  HistoryType'
  <2>1. CASE RecoveryFault(r)
    BY <2>1 DEF RecoveryFault, TypeOK, HistoryType
  <2>2. CASE RunCommand(r)
    <3>1. awake' \in [Procs -> BOOLEAN] /\ jobs' \in Nat
      BY <2>2 DEF RunCommand, TypeOK, HistoryType
    <3> QED
      BY <2>2, <3>1 DEF RunCommand, TypeOK, HistoryType
  <2> QED
    BY <1>6, <2>1, <2>2
<1>7. ASSUME UNCHANGED <<awake, returned, tried, jobs, faults, crashes>>
      PROVE  HistoryType'
  BY <1>7 DEF TypeOK, HistoryType
<1> QED
  BY <1>1, <1>2, <1>3, <1>4, <1>5, <1>6, <1>7
     DEF Next, ThreadNext, RetrierNext, Elapse, Count, Remove, Dequeue,
         RetryRemoves, MarkRecovered, ReadCount, WriteCount

(* TypeOK holds at the start, whatever letter is there, and every step     *)
(* keeps it.                                                               *)
LEMMA TypeInit == Init => TypeOK
BY DEF Init, TypeOK, TableType, ThreadType, RecType, HistoryType, Letters,
       OldLetter, NoLetter, IdleThread, IdleRec, ThreadRecords, RecRecords

(* Every step keeps the types.                                             *)
LEMMA TypeNext == TypeOK /\ [Next]_vars => TypeOK'
<1>1. TypeOK /\ Next => TypeOK'
  BY TableStep, ThreadStepType, RecStepType, HistoryStep DEF TypeOK
<1>2. TypeOK /\ UNCHANGED vars => TypeOK'
  BY DEF TypeOK, TableType, ThreadType, RecType, HistoryType, vars
<1> QED
  BY <1>1, <1>2

(* Every variable keeps its type; a busy thread has a message and the      *)
(* table open, a busy retrier also the id of a letter.             *)
THEOREM Typing == Spec => []TypeOK
BY TypeInit, TypeNext, PTL DEF Spec

-----------------------------------------------------------------------------
(* Deletions hit the letter they were meant for.                           *)

(* Ids are given once: two letters have different ids, an id held by a     *)
(* retrier, in its batch or at work, belongs to no message but the         *)
(* one it was read with, and no id exceeds the last one given.             *)
IdsInv ==
  /\ \A m \in Msgs : letter[m].id <= lastId
  /\ \A m, n \in Msgs : Present(m) /\ letter[m].id = letter[n].id => m = n
  /\ \A r \in Retriers : \A b \in rec[r].batch :
       b[1] <= lastId /\ \A m \in Msgs : letter[m].id = b[1] => m = b[2]
  /\ \A r \in Retriers : rec[r].pc # "idle" =>
       /\ rec[r].id <= lastId
       /\ \A m \in Msgs : letter[m].id = rec[r].id => m = rec[r].msg

(* Whoever is about to delete has seen persist_inbound_sms return.         *)
ReturnedInv ==
  /\ \A t \in Threads : thread[t].pc = "remove" => thread[t].msg \in returned
  /\ \A r \in Retriers :
       rec[r].pc \in {"remove", "recovered"} => rec[r].msg \in returned

(* A step that gives no new id and lets no retrier take an id it           *)
(* did not have, with its message, keeps IdsInv.                           *)
LEMMA IdsKept ==
  ASSUME TypeOK, TypeOK', IdsInv, lastId' = lastId,
         \A m \in Msgs : letter'[m].id \in {letter[m].id, 0},
         \A r \in Retriers : rec'[r].batch \subseteq rec[r].batch,
         \A r \in Retriers :
           rec'[r].pc # "idle" =>
             \/ /\ rec[r].pc # "idle"
                /\ rec'[r].id = rec[r].id /\ rec'[r].msg = rec[r].msg
             \/ \E b \in rec[r].batch :
                  rec'[r].id = b[1] /\ rec'[r].msg = b[2]
  PROVE  IdsInv'
<1>1. \A m \in Msgs : letter'[m].id # 0 => letter'[m].id = letter[m].id
  OBVIOUS
<1>2. (\A m \in Msgs : letter[m].id <= lastId)'
  BY DEF IdsInv, TypeOK, TableType
<1>3. (\A m, n \in Msgs : Present(m) /\ letter[m].id = letter[n].id => m = n)'
  BY <1>1 DEF IdsInv, Present
<1>4. ASSUME NEW r \in Retriers, NEW b \in rec'[r].batch
      PROVE  /\ b[1] <= lastId'
             /\ \A m \in Msgs : letter'[m].id = b[1] => m = b[2]
  <2>1. b \in rec[r].batch /\ b[1] # 0
    BY DEF TypeOK, RecType, RecRecords
  <2> QED
    BY <1>1, <2>1 DEF IdsInv
<1>5. ASSUME NEW r \in Retriers, rec'[r].pc # "idle"
      PROVE  /\ rec'[r].id <= lastId'
             /\ \A m \in Msgs : letter'[m].id = rec'[r].id => m = rec'[r].msg
  <2>1. rec'[r].id # 0
    BY <1>5 DEF TypeOK, RecType, RecRecords
  <2> QED
    BY <1>1, <1>5, <2>1 DEF IdsInv
<1> QED
  BY <1>2, <1>3, <1>4, <1>5 DEF IdsInv

(* Every step keeps the ids apart.                                         *)
LEMMA IdsStep == TypeOK /\ TypeOK' /\ IdsInv /\ Next => IdsInv'
<1> SUFFICES ASSUME TypeOK, TypeOK', IdsInv, Next PROVE IdsInv'
  OBVIOUS
<1> DEFINE SameIds == \A m \in Msgs : letter'[m].id \in {letter[m].id, 0}
           SameRec(r) ==
             /\ rec'[r].batch \subseteq rec[r].batch
             /\ rec'[r].pc # "idle" =>
                  /\ rec[r].pc # "idle"
                  /\ rec'[r].id = rec[r].id /\ rec'[r].msg = rec[r].msg
<1>1. ASSUME lastId' = lastId, SameIds, \A r \in Retriers : SameRec(r)
      PROVE  IdsInv'
  BY <1>1, IdsKept
<1>2. letter = letter' => SameIds
  OBVIOUS
<1>3. ASSUME NEW r \in Retriers, NEW q \in Retriers,
             rec' = [rec EXCEPT ![r] = rec'[r]], SameRec(r)
      PROVE  SameRec(q)
  BY <1>3 DEF TypeOK, RecType
<1>4. ASSUME NEW r \in Retriers, NextLetter(r)
      PROVE  SameRec(r) /\ rec' = [rec EXCEPT ![r] = rec'[r]]
  BY <1>4 DEF NextLetter, IdleRec, TypeOK, RecType
<1>5. ASSUME NEW r \in Retriers, NEW q \in Retriers, NextLetter(r) PROVE SameRec(q)
  BY <1>3, <1>4, <1>5
<1>6. ASSUME NEW m \in Msgs, DeletePath(m) PROVE SameIds
  BY <1>6 DEF DeletePath, NoLetter, TypeOK, TableType
<1>7. rec' = rec => \A r \in Retriers : SameRec(r)
  OBVIOUS
<1>8. ASSUME NEW t \in Threads, Insert(t) PROVE IdsInv'
  <2> DEFINE n == thread[t].msg
  <2>1. n \in Msgs /\ letter' = [letter EXCEPT ![n] = Upserted(n)]
    BY <1>8 DEF Insert, TypeOK, ThreadType
  <2>2. CASE Present(n)
    <3>1. Upserted(n).id = letter[n].id
      BY <2>1, <2>2 DEF Upserted, TypeOK, TableType, Letters
    <3>2. \A m \in Msgs : letter'[m].id = letter[m].id
      BY <2>1, <3>1 DEF TypeOK, TableType
    <3> QED
      BY <1>1, <1>7, <1>8, <2>2, <3>2 DEF Insert
  <2>3. CASE ~Present(n)
    <3>1. Upserted(n).id = lastId + 1
      BY <2>3 DEF Upserted, FreshId
    <3>2. letter'[n].id = lastId + 1
      BY <2>1, <3>1 DEF TypeOK, TableType
    <3>3. \A m \in Msgs : m # n => letter'[m].id = letter[m].id
      BY <2>1 DEF TypeOK, TableType
    <3>4. lastId' = lastId + 1 /\ rec' = rec /\ lastId \in Nat
      BY <1>8, <2>3 DEF Insert, FreshId, TypeOK, TableType
    <3>5. \A m \in Msgs : letter[m].id \in Nat /\ letter[m].id <= lastId
      BY DEF TypeOK, TableType, Letters, IdsInv
    <3>6. \A m \in Msgs : letter'[m].id <= lastId'
      BY <2>1, <3>2, <3>3, <3>4, <3>5
    <3>7. ASSUME NEW m \in Msgs, NEW k \in Msgs,
                 letter'[m].id # 0, letter'[m].id = letter'[k].id
          PROVE  m = k
      BY <2>1, <3>2, <3>3, <3>4, <3>5, <3>7 DEF IdsInv, Present
    <3>8. ASSUME NEW i \in Nat, NEW k \in Msgs, i <= lastId,
                 \A m \in Msgs : letter[m].id = i => m = k
          PROVE  i <= lastId' /\ \A m \in Msgs : letter'[m].id = i => m = k
      BY <2>1, <3>2, <3>3, <3>4, <3>5, <3>8
    <3>9. \A r \in Retriers : \A b \in rec[r].batch : b[1] \in Nat /\ b[2] \in Msgs
      <4>1. \A r \in Retriers : rec[r].batch \in SUBSET ((Nat \ {0}) \X Msgs)
        BY DEF TypeOK, RecType, RecRecords
      <4> QED
        BY <4>1
    <3>10. \A r \in Retriers : rec[r].pc # "idle" =>
                rec[r].id \in Nat /\ rec[r].msg \in Msgs
      BY DEF TypeOK, RecType, RecRecords
    <3> QED
      BY <3>4, <3>6, <3>7, <3>8, <3>9, <3>10 DEF IdsInv, Present
  <2> QED
    BY <2>2, <2>3
<1>9. ASSUME NEW r \in Retriers, Dequeue(r) \/ RunCommand(r) PROVE IdsInv'
  <2>1. /\ rec' = [rec EXCEPT ![r] = [rec[r] EXCEPT !.batch = Batch]]
        /\ letter' = letter /\ lastId' = lastId /\ rec[r].pc = "idle"
    BY <1>9 DEF Dequeue, RunCommand, IdleRec
  <2>2. ASSUME NEW b \in Batch
        PROVE  b[1] <= lastId /\ \A m \in Msgs : letter[m].id = b[1] => m = b[2]
    <3>1. PICK k \in Msgs : InBatch(k) /\ b = <<letter[k].id, k>>
      BY <2>2 DEF Batch
    <3>2. Present(k)
      BY <3>1 DEF InBatch, Due
    <3> QED
      BY <3>1, <3>2 DEF IdsInv
  <2>3. rec'[r].pc = "idle" /\ rec'[r].batch = Batch
    BY <2>1 DEF TypeOK, RecType, RecRecords
  <2>4. \A q \in Retriers : q # r => rec'[q] = rec[q]
    BY <2>1 DEF TypeOK, RecType
  <2> QED
    BY <2>1, <2>2, <2>3, <2>4 DEF IdsInv, Present
<1>10. ASSUME NEW r \in Retriers, Retry(r) PROVE IdsInv'
  <2>1. PICK b \in rec[r].batch, pc \in {"failed", "remove", "recovered"} :
          rec' = [rec EXCEPT ![r] = [pc |-> pc, batch |-> rec[r].batch \ {b},
                                     id |-> b[1], msg |-> b[2], count |-> 0]]
    BY <1>10 DEF Retry
  <2>2. /\ rec'[r].batch = rec[r].batch \ {b}
        /\ rec'[r].id = b[1] /\ rec'[r].msg = b[2]
    BY <2>1 DEF TypeOK, RecType
  <2>3. \A q \in Retriers : q # r => rec'[q] = rec[q]
    BY <2>1 DEF TypeOK, RecType
  <2>4. letter' = letter /\ lastId' = lastId
    BY <1>10 DEF Retry
  <2> QED
    BY <2>1, <2>2, <2>3, <2>4, IdsKept
<1>11. ASSUME NEW t \in Threads, Remove(t) PROVE IdsInv'
  <2>1. thread[t].msg \in Msgs
    BY <1>11 DEF Remove, TypeOK, ThreadType
  <2> QED
    BY <1>1, <1>6, <1>7, <1>11, <2>1 DEF Remove
<1>12. ASSUME NEW r \in Retriers, RetryRemoves(r) PROVE IdsInv'
  <2>1. rec[r].msg \in Msgs
    BY <1>12 DEF RetryRemoves, TypeOK, RecType
  <2>2. SameRec(r) /\ rec' = [rec EXCEPT ![r] = rec'[r]]
    BY <1>12 DEF RetryRemoves, TypeOK, RecType, RecRecords
  <2> QED
    BY <1>1, <1>3, <1>6, <1>12, <2>1, <2>2 DEF RetryRemoves
<1>13. ASSUME NEW r \in Retriers, MarkRecovered(r) PROVE IdsInv'
  <2>1. SameIds
    BY <1>13 DEF MarkRecovered, DeleteId, NoLetter
  <2> QED
    BY <1>1, <1>5, <1>13, <2>1 DEF MarkRecovered
<1>14. ASSUME NEW r \in Retriers, ReadCount(r) PROVE IdsInv'
  <2>1. SameRec(r) /\ rec' = [rec EXCEPT ![r] = rec'[r]]
    <3>1. CASE NextLetter(r)
      BY <1>4, <3>1
    <3>2. CASE ~NextLetter(r)
      <4>1. PICK m \in Msgs :
              rec' = [rec EXCEPT ![r] = [rec[r] EXCEPT !.pc = "write",
                                                !.count = letter[m].count]]
        BY <1>14, <3>2 DEF ReadCount
      <4> QED
        BY <1>14, <4>1 DEF ReadCount, TypeOK, RecType, RecRecords
    <3> QED
      BY <3>1, <3>2
  <2> QED
    BY <1>1, <1>2, <1>3, <1>14, <2>1 DEF ReadCount
<1>15. ASSUME NEW r \in Retriers, WriteCount(r) PROVE IdsInv'
  <2>1. \A m \in Msgs : letter'[m].id = letter[m].id
    BY <1>15 DEF WriteCount, AfterRetry, TypeOK, TableType, Letters
  <2> QED
    BY <1>1, <1>5, <1>15, <2>1 DEF WriteCount
<1>16. ASSUME NEW m \in Msgs, Elapse(m) PROVE IdsInv'
  <2>1. \A n \in Msgs : letter'[n].id = letter[n].id
    BY <1>16 DEF Elapse, TypeOK, TableType, Letters
  <2> QED
    BY <1>1, <1>7, <1>16, <2>1 DEF Elapse
<1>17. ASSUME NEW r \in Retriers, RecoveryFault(r) PROVE IdsInv'
  <2>1. SameRec(r) /\ rec' = [rec EXCEPT ![r] = rec'[r]]
    <3>1. \/ rec' = [rec EXCEPT ![r] = [rec[r] EXCEPT !.pc = "failed"]]
          \/ rec' = [rec EXCEPT ![r] = IdleRec]
      BY <1>17 DEF RecoveryFault
    <3> QED
      BY <1>17, <3>1
         DEF RecoveryFault, IdleRec, TypeOK, RecType, RecRecords
  <2> QED
    BY <1>1, <1>2, <1>3, <1>17, <2>1 DEF RecoveryFault
<1>18. ASSUME NEW p \in Procs, Crash(p) \/ Exit(p) PROVE IdsInv'
  <2>1. \A r \in Retriers : SameRec(r)
    BY <1>18 DEF Crash, Exit, Dies, IdleRec
  <2> QED
    BY <1>1, <1>2, <1>18, <2>1 DEF Crash, Exit
<1>19. ASSUME UNCHANGED <<letter, lastId, rec>> PROVE IdsInv'
  BY <1>1, <1>2, <1>7, <1>19
<1> QED
  BY <1>8, <1>9, <1>10, <1>11, <1>12, <1>13, <1>14, <1>15, <1>16, <1>17,
     <1>18, <1>19
     DEF Next, ThreadNext, RetrierNext, PersistFails, PersistStores,
         PersistReturns, Count, ThreadFault

(* Every step keeps the promise that a deletion rests on.                  *)
LEMMA ReturnedStep == TypeOK /\ ReturnedInv /\ Next => ReturnedInv'
<1> SUFFICES ASSUME TypeOK, ReturnedInv, Next PROVE ReturnedInv'
  OBVIOUS
<1>1. ASSUME returned \subseteq returned',
             \A t \in Threads : thread'[t].pc = "remove" =>
               thread'[t] = thread[t] \/ thread'[t].msg \in returned',
             \A r \in Retriers : rec'[r].pc \in {"remove", "recovered"} =>
               \/ rec[r].pc \in {"remove", "recovered"} /\ rec'[r].msg = rec[r].msg
               \/ rec'[r].msg \in returned'
      PROVE  ReturnedInv'
  BY <1>1 DEF ReturnedInv
<1>2. ASSUME NEW t \in Threads, ThreadNext(t) PROVE ReturnedInv'
  <2>1. returned \subseteq returned' /\ rec' = rec
    BY <1>2 DEF ThreadNext, PersistFails, PersistStores, PersistReturns, Count,
                Insert, Remove, ThreadFault
  <2>2. ASSUME NEW s \in Threads, thread'[s].pc = "remove"
        PROVE  thread'[s] = thread[s] \/ thread'[s].msg \in returned'
    BY <1>2, <2>2
       DEF ThreadNext, PersistFails, PersistStores, PersistReturns, Count,
           Insert, Remove, ThreadFault, Go, IdleThread, TypeOK, ThreadType,
           ThreadRecords
  <2> QED
    BY <1>1, <2>1, <2>2
<1>3. ASSUME NEW r \in Retriers, RetrierNext(r) PROVE ReturnedInv'
  <2>1. returned \subseteq returned'
    BY <1>3 DEF RetrierNext, Dequeue, RunCommand, Retry, RetryRemoves, MarkRecovered,
                ReadCount, WriteCount, RecoveryFault
  <2>2. thread' = thread
    BY <1>3 DEF RetrierNext, Dequeue, RunCommand, Retry, RetryRemoves,
                MarkRecovered, ReadCount, WriteCount, RecoveryFault
  <2>3. ASSUME NEW q \in Retriers, rec'[q].pc \in {"remove", "recovered"}
        PROVE  \/ rec[q].pc \in {"remove", "recovered"} /\ rec'[q].msg = rec[q].msg
               \/ rec'[q].msg \in returned'
    <3>1. CASE q # r
      BY <1>3, <2>3, <3>1
         DEF RetrierNext, Dequeue, RunCommand, Retry, RetryRemoves, MarkRecovered, ReadCount,
             WriteCount, RecoveryFault, NextLetter, TypeOK, RecType
    <3>2. CASE q = r /\ Retry(r)
      BY <2>3, <3>2 DEF Retry, TypeOK, RecType
    <3>3. CASE q = r /\ RetryRemoves(r)
      BY <2>3, <3>3 DEF RetryRemoves, TypeOK, RecType, RecRecords
    <3>4. CASE q = r /\ ReadCount(r)
      <4>1. CASE NextLetter(r)
        BY <2>3, <3>4, <4>1
           DEF NextLetter, IdleRec, TypeOK, RecType, RecRecords
      <4>2. CASE ~NextLetter(r)
        <5>1. PICK m \in Msgs :
                rec' = [rec EXCEPT ![r] = [rec[r] EXCEPT !.pc = "write",
                                                  !.count = letter[m].count]]
          BY <3>4, <4>2 DEF ReadCount
        <5>2. rec'[r].pc = "write"
          BY <5>1 DEF TypeOK, RecType, RecRecords
        <5> QED
          BY <2>3, <3>4, <5>2
      <4> QED
        BY <4>1, <4>2
    <3>5. CASE q = r /\ (MarkRecovered(r) \/ WriteCount(r))
      BY <2>3, <3>5
         DEF MarkRecovered, WriteCount, NextLetter, IdleRec, TypeOK, RecType,
             RecRecords
    <3>6. CASE q = r /\ (Dequeue(r) \/ RecoveryFault(r) \/ RunCommand(r))
      BY <2>3, <3>6
         DEF Dequeue, RunCommand, RecoveryFault, IdleRec, TypeOK, RecType, RecRecords
    <3> QED
      BY <1>3, <3>1, <3>2, <3>3, <3>4, <3>5, <3>6 DEF RetrierNext
  <2> QED
    BY <1>1, <2>1, <2>2, <2>3
<1>4. ASSUME NEW p \in Procs, Crash(p) \/ Exit(p) PROVE ReturnedInv'
  <2>1. /\ \A t \in Threads : thread'[t] \in {thread[t], IdleThread}
        /\ \A r \in Retriers : rec'[r] \in {rec[r], IdleRec}
        /\ returned' = returned
    BY <1>4 DEF Crash, Exit, Dies
  <2> QED
    BY <2>1 DEF ReturnedInv, IdleThread, IdleRec
<1>5. ASSUME NEW m \in Msgs, Elapse(m) PROVE ReturnedInv'
  BY <1>5 DEF Elapse, ReturnedInv
<1> QED
  BY <1>2, <1>3, <1>4, <1>5 DEF Next

(* TypeOK, the ids and the promise, which every step keeps together.       *)
HeldInv == TypeOK /\ IdsInv /\ ReturnedInv

(* HeldInv holds of the initial state.                                     *)
LEMMA HeldInit == Init => HeldInv
<1> SUFFICES ASSUME Init PROVE HeldInv
  OBVIOUS
<1>1. TypeOK
  BY TypeInit
<1>2. PICK old \in Msgs \cup {NoMsg} :
        letter = [m \in Msgs |-> IF m = old THEN OldLetter ELSE NoLetter]
  BY DEF Init
<1>3. \A m \in Msgs : letter[m].id = IF m = old THEN 1 ELSE 0
  BY <1>2 DEF OldLetter, NoLetter
<1>4. IdsInv
  BY <1>3 DEF IdsInv, Init, IdleRec, Present
<1>5. ReturnedInv
  BY DEF ReturnedInv, Init, IdleThread, IdleRec
<1> QED
  BY <1>1, <1>4, <1>5 DEF HeldInv

(* Every step keeps HeldInv.                                               *)
LEMMA HeldNext == HeldInv /\ [Next]_vars => HeldInv'
<1>1. ASSUME HeldInv, Next PROVE HeldInv'
  BY <1>1, TypeNext, IdsStep, ReturnedStep DEF HeldInv
<1>2. ASSUME HeldInv, UNCHANGED vars PROVE HeldInv'
  <2>1. IdsInv'
    BY <1>2 DEF HeldInv, IdsInv, Present, vars
  <2>2. ReturnedInv'
    BY <1>2 DEF HeldInv, ReturnedInv, vars
  <2> QED
    BY <1>2, <2>1, <2>2, TypeNext DEF HeldInv
<1> QED
  BY <1>1, <1>2

(* A row is deleted only by a deletion that knows its message is safe.     *)
LEMMA DeletionsJustified ==
  HeldInv /\ [Next]_vars =>
    \A m \in Msgs : Present(m) /\ ~Present(m)' => m \in returned
<1> SUFFICES ASSUME HeldInv, [Next]_vars, NEW m \in Msgs,
                    letter[m].id # 0, letter'[m].id = 0
             PROVE  m \in returned
  BY DEF Present
<1>1. ASSUME NEW n \in Msgs, DeletePath(n) PROVE m = n
  BY <1>1 DEF DeletePath, HeldInv, TypeOK, TableType
<1>2. ASSUME NEW t \in Threads, Remove(t) PROVE m \in returned
  BY <1>1, <1>2 DEF Remove, HeldInv, ReturnedInv, TypeOK, ThreadType
<1>3. ASSUME NEW r \in Retriers, RetryRemoves(r) PROVE m \in returned
  BY <1>1, <1>3 DEF RetryRemoves, HeldInv, ReturnedInv, TypeOK, RecType
<1>4. ASSUME NEW r \in Retriers, MarkRecovered(r) PROVE m \in returned
  <2>1. letter[m].id = rec[r].id
    BY <1>4 DEF MarkRecovered, DeleteId
  <2> QED
    BY <1>4, <2>1 DEF MarkRecovered, HeldInv, IdsInv, ReturnedInv
<1>5. ASSUME NEW t \in Threads, Insert(t) PROVE FALSE
  BY <1>5 DEF Insert, Upserted, FreshId, Present, HeldInv, TypeOK, TableType,
              ThreadType, Letters
<1>6. ASSUME NEW r \in Retriers, WriteCount(r) PROVE FALSE
  BY <1>6 DEF WriteCount, AfterRetry, HeldInv, TypeOK, TableType, Letters
<1>7. ASSUME NEW n \in Msgs, Elapse(n) PROVE FALSE
  BY <1>7 DEF Elapse, HeldInv, TypeOK, TableType, Letters
<1>8. ~UNCHANGED letter
  OBVIOUS
<1> QED
  BY <1>2, <1>3, <1>4, <1>5, <1>6, <1>7, <1>8
     DEF Next, ThreadNext, RetrierNext, PersistFails, PersistStores,
         PersistReturns, Count, ThreadFault, Dequeue, RunCommand, Retry,
         ReadCount, RecoveryFault, Crash, Exit, vars

(* A letter leaves the table only when persist_inbound_sms has returned    *)
(* for its message: AUTOINCREMENT never gives an id again, so the deletion *)
(* by id of a batch read long ago meets its own letter or none.            *)
THEOREM Vanishes == Spec => NothingVanishes
<1>1. HeldInv /\ [Next]_vars =>
        [\A m \in Msgs : Present(m) /\ ~Present(m)' => m \in returned]_vars
  BY DeletionsJustified
<1> QED
  BY <1>1, HeldInit, HeldNext, PTL DEF Spec, NothingVanishes

-----------------------------------------------------------------------------
(* A retry is counted at most once.                                        *)

(* The retriers between a retry of the letter of m and its end.            *)
Working(m) ==
  {r \in Retriers : rec[r].pc # "idle" /\ rec[r].id = letter[m].id}

(* The count of a letter, or the one a thread is about to overwrite it     *)
(* from, leaves room for every retry that may still be counted.            *)
CountInv(m) ==
  Present(m) =>
    /\ letter[m].count + Cardinality(Working(m)) <= tried[m]
    /\ \A r \in Working(m) :
         rec[r].pc = "write" =>
           rec[r].count + Cardinality(Working(m)) <= tried[m]

CountsInv == \A m \in Msgs : CountInv(m)

(* The working are finitely many, and of fewer there are no more.          *)
LEMMA FewerWorking ==
  ASSUME NEW S \in SUBSET Retriers, NEW T \in SUBSET S
  PROVE  /\ IsFiniteSet(S) /\ Cardinality(S) \in Nat
         /\ Cardinality(T) \in Nat /\ Cardinality(T) <= Cardinality(S)
<1>1. IsFiniteSet(S)
  BY DeadLettersAssumption, FS_Subset
<1>2. IsFiniteSet(T) /\ Cardinality(T) <= Cardinality(S)
  BY <1>1, FS_Subset
<1> QED
  BY <1>1, <1>2, FS_CardinalityType

(* A step that counts and retries nothing of m, and reads no count, keeps  *)
(* the bound of m: threads may only give up.                               *)
LEMMA CountKept ==
  ASSUME TypeOK, TypeOK', NEW m \in Msgs, CountInv(m),
         letter'[m].id \in {letter[m].id, 0},
         letter'[m].id # 0 => letter'[m].count = letter[m].count,
         tried'[m] = tried[m],
         \A r \in Retriers :
           rec'[r].pc # "idle" =>
             rec[r].pc # "idle" /\ rec'[r].id = rec[r].id,
         \A r \in Retriers :
           rec'[r].pc = "write" =>
             rec[r].pc = "write" /\ rec'[r].count = rec[r].count
  PROVE  CountInv(m)'
<1> SUFFICES ASSUME letter'[m].id # 0
             PROVE  /\ letter'[m].count + Cardinality(Working(m)') <= tried'[m]
                    /\ \A r \in Working(m)' :
                         rec'[r].pc = "write" =>
                           rec'[r].count + Cardinality(Working(m)') <= tried'[m]
  BY DEF CountInv, Present
<1>1. Working(m)' \subseteq Working(m)
  BY DEF Working
<1>2. /\ Cardinality(Working(m)) \in Nat /\ Cardinality(Working(m)') \in Nat
      /\ Cardinality(Working(m)') <= Cardinality(Working(m))
  <2>1. Working(m) \in SUBSET Retriers
    BY DEF Working
  <2> QED
    BY <1>1, <2>1, FewerWorking
<1>3. letter[m].count \in Nat /\ tried[m] \in Nat
  BY DEF TypeOK, TableType, Letters, HistoryType
<1>4. \A r \in Retriers : rec[r].count \in Nat
  BY DEF TypeOK, RecType, RecRecords
<1>5. \A r \in Working(m)' : r \in Retriers
  BY DEF Working
<1> QED
  BY <1>1, <1>2, <1>3, <1>4, <1>5 DEF CountInv, Present

(* Every step keeps the bounds.                                            *)
LEMMA CountsStep ==
  TypeOK /\ TypeOK' /\ IdsInv /\ IdsInv' /\ CountsInv /\ Next => CountsInv'
<1> SUFFICES ASSUME TypeOK, TypeOK', IdsInv, IdsInv', CountsInv, Next,
                    NEW m \in Msgs
             PROVE  CountInv(m)'
  BY DEF CountsInv
<1> DEFINE SameRow ==
             /\ letter'[m].id \in {letter[m].id, 0}
             /\ letter'[m].id # 0 => letter'[m].count = letter[m].count
           SameRec(r) ==
             /\ rec'[r].pc # "idle" =>
                  rec[r].pc # "idle" /\ rec'[r].id = rec[r].id
             /\ rec'[r].pc = "write" =>
                  rec[r].pc = "write" /\ rec'[r].count = rec[r].count
<1>1. ASSUME SameRow, tried' = tried, \A r \in Retriers : SameRec(r)
      PROVE  CountInv(m)'
  BY <1>1, CountKept DEF CountsInv
<1>2. letter' = letter => SameRow
  OBVIOUS
<1>3. ASSUME NEW r \in Retriers, NEW q \in Retriers,
             rec' = [rec EXCEPT ![r] = rec'[r]], SameRec(r)
      PROVE  SameRec(q)
  BY <1>3 DEF TypeOK, RecType
<1>4. ASSUME NEW r \in Retriers, NextLetter(r)
      PROVE  SameRec(r) /\ rec' = [rec EXCEPT ![r] = rec'[r]]
  BY <1>4 DEF NextLetter, IdleRec, TypeOK, RecType
<1>5. ASSUME NEW r \in Retriers, NEW q \in Retriers, NextLetter(r) PROVE SameRec(q)
  BY <1>3, <1>4, <1>5
<1>6. ASSUME NEW n \in Msgs, DeletePath(n) PROVE SameRow
  BY <1>6 DEF DeletePath, NoLetter, TypeOK, TableType
<1>7. rec' = rec => \A r \in Retriers : SameRec(r)
  OBVIOUS
<1>8. /\ Working(m) \in SUBSET Retriers
      /\ IsFiniteSet(Working(m)) /\ Cardinality(Working(m)) \in Nat
  <2>1. Working(m) \in SUBSET Retriers
    BY DEF Working
  <2> QED
    BY <2>1, FewerWorking
<1>9. letter[m].count \in Nat /\ tried[m] \in Nat
  BY DEF TypeOK, TableType, Letters, HistoryType
<1>10. ASSUME NEW t \in Threads, Insert(t) PROVE CountInv(m)'
  <2> DEFINE n == thread[t].msg
  <2>1. n \in Msgs /\ letter' = [letter EXCEPT ![n] = Upserted(n)] /\ rec' = rec
    BY <1>10 DEF Insert, TypeOK, ThreadType
  <2>2. CASE Present(n)
    <3>1. Upserted(n).id = letter[n].id /\ Upserted(n).count = letter[n].count
      BY <2>1, <2>2 DEF Upserted, TypeOK, TableType, Letters
    <3>2. letter'[m].id = letter[m].id /\ letter'[m].count = letter[m].count
      BY <2>1, <3>1 DEF TypeOK, TableType
    <3> QED
      BY <1>1, <1>7, <1>10, <2>1, <2>2, <3>2 DEF Insert
  <2>3. CASE ~Present(n) /\ m # n
    <3>1. letter'[m] = letter[m] /\ tried'[m] = tried[m]
      BY <1>10, <2>1, <2>3 DEF Insert, TypeOK, TableType, HistoryType
    <3> QED
      BY <2>1, <3>1, CountKept DEF CountsInv
  <2>4. CASE ~Present(n) /\ m = n
    <3>1. letter'[m].id = lastId + 1 /\ letter'[m].count = 0 /\ tried'[m] = 0
      BY <1>10, <2>1, <2>4
         DEF Insert, Upserted, FreshId, TypeOK, TableType, HistoryType
    <3>2. Working(m)' = {}
      BY <2>1, <3>1
         DEF Working, IdsInv, TypeOK, TableType, RecType, RecRecords
    <3> QED
      BY <3>1, <3>2, FS_EmptySet DEF CountInv
  <2> QED
    BY <2>2, <2>3, <2>4
<1>11. ASSUME NEW r \in Retriers, Retry(r) PROVE CountInv(m)'
  <2>1. PICK b \in rec[r].batch, pc \in {"failed", "remove", "recovered"} :
          /\ rec' = [rec EXCEPT ![r] = [pc |-> pc, batch |-> rec[r].batch \ {b},
                                     id |-> b[1], msg |-> b[2], count |-> 0]]
          /\ tried' = IF letter[b[2]].id = b[1]
                        THEN [tried EXCEPT ![b[2]] = tried[b[2]] + 1]
                        ELSE tried
    BY <1>11 DEF Retry
  <2>2. b[1] # 0 /\ b[2] \in Msgs
    BY DEF TypeOK, RecType, RecRecords
  <2>3. rec'[r].pc \notin {"idle", "write"} /\ rec'[r].id = b[1]
    BY <2>1 DEF TypeOK, RecType
  <2>4. \A q \in Retriers : q # r => rec'[q] = rec[q]
    BY <2>1 DEF TypeOK, RecType
  <2>5. letter' = letter /\ rec[r].pc = "idle"
    BY <1>11 DEF Retry
  <2>6. CASE letter[m].id = b[1]
    <3>1. m = b[2] /\ Present(m)
      BY <2>2, <2>6 DEF IdsInv, Present
    <3>2. tried'[m] = tried[m] + 1
      BY <2>1, <2>6, <3>1 DEF TypeOK, HistoryType
    <3>3. Working(m)' = Working(m) \cup {r} /\ r \notin Working(m)
      BY <2>3, <2>4, <2>5, <2>6 DEF Working
    <3>4. Cardinality(Working(m)') = Cardinality(Working(m)) + 1
      BY <1>8, <3>3, FS_AddElement
    <3>5. \A q \in Retriers : rec[q].count \in Nat
      BY DEF TypeOK, RecType, RecRecords
    <3>6. \A q \in Working(m)' :
            rec'[q].pc = "write" => q \in Working(m) /\ rec'[q] = rec[q]
      BY <1>8, <2>3, <2>4, <3>3
    <3> QED
      BY <1>8, <1>9, <2>5, <3>1, <3>2, <3>4, <3>5, <3>6
         DEF CountsInv, CountInv, Present
  <2>7. CASE letter[m].id # b[1]
    <3>1. tried'[m] = tried[m]
      BY <2>1, <2>2, <2>7 DEF TypeOK, HistoryType
    <3>2. Working(m)' = Working(m)
      BY <2>3, <2>4, <2>5, <2>7 DEF Working
    <3>3. \A q \in Working(m)' : q # r
      BY <2>5, <3>2 DEF Working
    <3>4. \A q \in Working(m)' : q \in Retriers
      BY DEF Working
    <3> QED
      BY <2>4, <2>5, <3>1, <3>2, <3>3, <3>4 DEF CountsInv, CountInv, Present
  <2> QED
    BY <2>6, <2>7
<1>12. ASSUME NEW r \in Retriers, ReadCount(r) PROVE CountInv(m)'
  <2>1. CASE NextLetter(r)
    BY <1>1, <1>2, <1>5, <1>12, <2>1 DEF ReadCount
  <2>2. CASE ~NextLetter(r)
    <3>1. PICK n \in Msgs :
            /\ letter[n].id = rec[r].id
            /\ rec' = [rec EXCEPT ![r] = [rec[r] EXCEPT !.pc = "write",
                                              !.count = letter[n].count]]
      BY <1>12, <2>2 DEF ReadCount
    <3>2. /\ rec'[r].pc = "write" /\ rec'[r].count = letter[n].count
          /\ rec'[r].id = rec[r].id
      BY <3>1 DEF TypeOK, RecType, RecRecords
    <3>3. \A q \in Retriers : q # r => rec'[q] = rec[q]
      BY <3>1 DEF TypeOK, RecType
    <3>4. letter' = letter /\ tried' = tried /\ rec[r].pc # "idle"
      BY <1>12 DEF ReadCount
    <3>5. Working(m)' = Working(m)
      BY <3>2, <3>3, <3>4 DEF Working
    <3>6. r \in Working(m) /\ Present(m) => n = m
      BY <3>1, <3>4 DEF Working, IdsInv, Present
    <3> QED
      BY <1>8, <3>2, <3>3, <3>4, <3>5, <3>6 DEF CountsInv, CountInv, Present
  <2> QED
    BY <2>1, <2>2
<1>13. ASSUME NEW r \in Retriers, WriteCount(r) PROVE CountInv(m)'
  <2>1. NextLetter(r) /\ tried' = tried /\ rec[r].pc = "write"
    BY <1>13 DEF WriteCount
  <2>2. CASE letter[m].id # rec[r].id
    <3>1. letter'[m] = letter[m]
      BY <1>13, <2>2 DEF WriteCount
    <3> QED
      BY <1>1, <1>5, <2>1, <3>1
  <2>3. CASE letter[m].id = rec[r].id
    <3>1. /\ letter'[m].id = letter[m].id
          /\ letter'[m].count = rec[r].count + 1
      BY <1>13, <2>3 DEF WriteCount, AfterRetry, TypeOK, TableType, Letters
    <3>2. r \in Working(m) /\ Present(m)
      BY <2>1, <2>3 DEF Working, Present, TypeOK, RecType
    <3>3. /\ rec'[r].pc = "idle"
          /\ \A q \in Retriers : q # r => rec'[q] = rec[q]
      BY <2>1 DEF NextLetter, IdleRec, TypeOK, RecType
    <3>4. Working(m)' = Working(m) \ {r}
      BY <3>1, <3>3 DEF Working
    <3>5. Cardinality(Working(m)') = Cardinality(Working(m)) - 1
      BY <1>8, <3>2, <3>4, FS_RemoveElement
    <3>6. \A q \in Retriers : rec[q].count \in Nat
      BY DEF TypeOK, RecType, RecRecords
    <3>7. \A q \in Working(m)' : q \in Working(m) /\ rec'[q] = rec[q]
      BY <1>8, <3>3, <3>4
    <3> QED
      BY <1>8, <1>9, <2>1, <3>1, <3>2, <3>5, <3>6, <3>7
         DEF CountsInv, CountInv, Present
  <2> QED
    BY <2>2, <2>3
<1>14. ASSUME NEW t \in Threads, Remove(t) PROVE CountInv(m)'
  BY <1>1, <1>6, <1>7, <1>14 DEF Remove, TypeOK, ThreadType
<1>15. ASSUME NEW r \in Retriers, RetryRemoves(r) PROVE CountInv(m)'
  <2>1. rec[r].msg \in Msgs
    BY <1>15 DEF RetryRemoves, TypeOK, RecType
  <2>2. SameRec(r) /\ rec' = [rec EXCEPT ![r] = rec'[r]]
    BY <1>15 DEF RetryRemoves, TypeOK, RecType, RecRecords
  <2> QED
    BY <1>1, <1>3, <1>6, <1>15, <2>1, <2>2 DEF RetryRemoves
<1>16. ASSUME NEW r \in Retriers, MarkRecovered(r) PROVE CountInv(m)'
  <2>1. SameRow
    BY <1>16 DEF MarkRecovered, DeleteId, NoLetter
  <2> QED
    BY <1>1, <1>5, <1>16, <2>1 DEF MarkRecovered
<1>17. ASSUME NEW n \in Msgs, Elapse(n) PROVE CountInv(m)'
  <2>1. letter'[m].id = letter[m].id /\ letter'[m].count = letter[m].count
    BY <1>17 DEF Elapse, TypeOK, TableType, Letters
  <2> QED
    BY <1>1, <1>7, <1>17, <2>1 DEF Elapse
<1>18. ASSUME NEW r \in Retriers,
              Dequeue(r) \/ RunCommand(r) \/ RecoveryFault(r)
       PROVE  CountInv(m)'
  <2>1. SameRec(r)
    BY <1>18 DEF Dequeue, RunCommand, RecoveryFault, IdleRec, TypeOK, RecType,
                 RecRecords
  <2>2. rec' = [rec EXCEPT ![r] = rec'[r]] /\ letter' = letter /\ tried' = tried
    BY <1>18 DEF Dequeue, RunCommand, RecoveryFault, TypeOK, RecType
  <2> QED
    BY <1>1, <1>2, <1>3, <2>1, <2>2
<1>19. ASSUME NEW p \in Procs, Crash(p) \/ Exit(p) PROVE CountInv(m)'
  <2>1. \A r \in Retriers : SameRec(r)
    BY <1>19 DEF Crash, Exit, Dies, IdleRec
  <2> QED
    BY <1>1, <1>2, <1>19, <2>1 DEF Crash, Exit
<1>20. ASSUME UNCHANGED <<letter, rec, tried>> PROVE CountInv(m)'
  BY <1>1, <1>2, <1>7, <1>20
<1> QED
  BY <1>10, <1>11, <1>12, <1>13, <1>14, <1>15, <1>16, <1>17, <1>18, <1>19,
     <1>20
     DEF Next, ThreadNext, RetrierNext, PersistFails, PersistStores,
         PersistReturns, Count, ThreadFault

(* CountsInv holds of the initial state.                                   *)
LEMMA CountsInit == Init => CountsInv
<1> SUFFICES ASSUME Init, NEW m \in Msgs PROVE CountInv(m)
  BY DEF CountsInv
<1>1. Working(m) = {}
  BY DEF Working, Init, IdleRec
<1>2. letter[m].count = 0 /\ tried[m] = 0
  BY DEF Init, OldLetter, NoLetter
<1> QED
  BY <1>1, <1>2, FS_EmptySet DEF CountInv

(* The bounds give the property: a missing row counts nothing.             *)
EmptyRowsInv == \A m \in Msgs : ~Present(m) => letter[m].count = 0

(* Every step keeps EmptyRowsInv.                                          *)
LEMMA EmptyRowsStep == TypeOK /\ EmptyRowsInv /\ Next => EmptyRowsInv'
<1> SUFFICES ASSUME TypeOK, EmptyRowsInv, Next, NEW m \in Msgs,
                    letter'[m].id = 0
             PROVE  letter'[m].count = 0
  BY DEF EmptyRowsInv, Present
<1>1. ASSUME NEW t \in Threads, Insert(t) PROVE letter'[m] = letter[m]
  BY <1>1 DEF Insert, Upserted, FreshId, Present, TypeOK, TableType,
              ThreadType, Letters
<1>2. ASSUME NEW n \in Msgs, DeletePath(n)
      PROVE  letter'[m] \in {letter[m], NoLetter}
  BY <1>2 DEF DeletePath, TypeOK, TableType
<1>3. ASSUME NEW t \in Threads, Remove(t)
      PROVE  letter'[m] \in {letter[m], NoLetter}
  BY <1>2, <1>3 DEF Remove, TypeOK, ThreadType
<1>4. ASSUME NEW r \in Retriers, RetryRemoves(r)
      PROVE  letter'[m] \in {letter[m], NoLetter}
  BY <1>2, <1>4 DEF RetryRemoves, TypeOK, RecType
<1>5. ASSUME NEW r \in Retriers, MarkRecovered(r)
      PROVE  letter'[m] \in {letter[m], NoLetter}
  BY <1>5 DEF MarkRecovered, DeleteId
<1>6. ASSUME NEW r \in Retriers, WriteCount(r) PROVE letter'[m] = letter[m]
  <2>1. letter[m].id # rec[r].id
    <3>1. rec[r].id # 0
      BY <1>6 DEF WriteCount, TypeOK, RecType, RecRecords
    <3>2. CASE letter[m].id = rec[r].id
      BY <1>6, <3>1, <3>2 DEF WriteCount, AfterRetry, TypeOK, TableType, Letters
    <3> QED
      BY <3>2
  <2> QED
    BY <1>6, <2>1 DEF WriteCount
<1>7. ASSUME NEW n \in Msgs, Elapse(n) PROVE letter'[m] = letter[m]
  BY <1>7 DEF Elapse, Present, TypeOK, TableType, Letters
<1>8. letter'[m] \in {letter[m], NoLetter}
  BY <1>1, <1>3, <1>4, <1>5, <1>6, <1>7
     DEF Next, ThreadNext, RetrierNext, PersistFails, PersistStores,
         PersistReturns, Count, ThreadFault, Dequeue, RunCommand, Retry,
         ReadCount, RecoveryFault, Crash, Exit
<1> QED
  BY <1>8 DEF EmptyRowsInv, Present, NoLetter

(* retry_count never exceeds the retries made of the row, for any number   *)
(* of processes and whatever writes of theirs overwrite each other.        *)
THEOREM Counted == Spec => []CountedWasTried
<1> DEFINE Inv == HeldInv /\ CountsInv /\ EmptyRowsInv
<1>1. Init => Inv
  <2>1. Init => EmptyRowsInv
    BY DEF Init, EmptyRowsInv, OldLetter, NoLetter
  <2> QED
    BY <2>1, HeldInit, CountsInit
<1>2. Inv /\ [Next]_vars => Inv'
  <2>1. ASSUME Inv, Next PROVE Inv'
    BY <2>1, HeldNext, CountsStep, EmptyRowsStep DEF HeldInv
  <2>2. ASSUME Inv, UNCHANGED vars PROVE Inv'
    <3>1. CountsInv' /\ EmptyRowsInv'
      BY <2>2 DEF CountsInv, CountInv, EmptyRowsInv, Working, Present, vars
    <3> QED
      BY <2>2, <3>1, HeldNext
  <2> QED
    BY <2>1, <2>2
<1>3. Inv => CountedWasTried
  <2> SUFFICES ASSUME Inv, NEW m \in Msgs PROVE letter[m].count <= tried[m]
    BY DEF CountedWasTried
  <2>1. letter[m].count \in Nat /\ tried[m] \in Nat
    BY DEF HeldInv, TypeOK, TableType, Letters, HistoryType
  <2>2. Cardinality(Working(m)) \in Nat
    BY FewerWorking DEF Working
  <2> QED
    BY <2>1, <2>2 DEF CountsInv, CountInv, EmptyRowsInv
<1> QED
  BY <1>1, <1>2, <1>3, PTL DEF Spec

-----------------------------------------------------------------------------
(* The table's size.                                                       *)

(* The threads that have found room and not inserted yet.                  *)
Inserting == {t \in Threads : thread[t].pc = "insert"}

(* The lock of a process admits one of them.                               *)
LockInv == \A s, t \in Inserting : Owner[s] = Owner[t] => s = t

RoomInv ==
  /\ LockInv
  /\ Cardinality(Table) + Cardinality(Inserting) < DlqSize + Cardinality(Procs)

(* So there are no more of them than processes.                            *)
LEMMA OnePerProcess ==
  ASSUME NEW S \in SUBSET Threads,
         \A s, t \in S : Owner[s] = Owner[t] => s = t
  PROVE  /\ IsFiniteSet(S) /\ Cardinality(S) \in Nat
         /\ Cardinality(S) <= Cardinality(Procs)
<1> DEFINE f == [t \in S |-> Owner[t]]
<1>1. f \in Injection(S, Procs)
  BY DeadLettersAssumption DEF Injection, IsInjective
<1>2. IsFiniteSet(S) /\ Cardinality(S) <= Cardinality(Procs)
  BY <1>1, DeadLettersAssumption, FS_Injection
<1> QED
  BY <1>2, FS_CardinalityType

(* A subset of the table is finite, and not larger.                        *)
LEMMA SmallerTable ==
  ASSUME NEW S \in SUBSET Msgs, NEW T \in SUBSET S
  PROVE  /\ IsFiniteSet(S) /\ Cardinality(S) \in Nat
         /\ Cardinality(T) \in Nat /\ Cardinality(T) <= Cardinality(S)
<1>1. IsFiniteSet(S)
  BY DeadLettersAssumption, FS_Subset
<1>2. IsFiniteSet(T) /\ Cardinality(T) <= Cardinality(S)
  BY <1>1, FS_Subset
<1> QED
  BY <1>1, <1>2, FS_CardinalityType

(* A step that adds no row and lets no thread begin to insert keeps the    *)
(* bound.                                                                  *)
LEMMA RoomKept ==
  ASSUME RoomInv, Table' \subseteq Table, Inserting' \subseteq Inserting
  PROVE  RoomInv'
<1>1. LockInv'
  BY DEF RoomInv, LockInv
<1>2. Inserting \in SUBSET Threads /\ Inserting' \in SUBSET Inserting
  BY DEF Inserting
<1>3. IsFiniteSet(Inserting) /\ Cardinality(Inserting) \in Nat
  BY <1>2, OnePerProcess DEF RoomInv, LockInv
<1>4. /\ Cardinality(Inserting') \in Nat
      /\ Cardinality(Inserting') <= Cardinality(Inserting)
  BY <1>2, <1>3, FS_Subset, FS_CardinalityType
<1>5. /\ Cardinality(Table) \in Nat /\ Cardinality(Table') \in Nat
      /\ Cardinality(Table') <= Cardinality(Table)
  <2>1. Table \in SUBSET Msgs /\ Table' \in SUBSET Table
    BY DEF Table
  <2> QED
    BY <2>1, SmallerTable
<1>6. Cardinality(Procs) \in Nat /\ DlqSize \in Nat
  BY DeadLettersAssumption, FS_CardinalityType
<1> QED
  BY <1>1, <1>3, <1>4, <1>5, <1>6 DEF RoomInv

(* Every step keeps RoomInv.                                               *)
LEMMA RoomStep == TypeOK /\ RoomInv /\ Next => RoomInv'
<1> SUFFICES ASSUME TypeOK, RoomInv, Next PROVE RoomInv'
  OBVIOUS
<1>1. Cardinality(Procs) \in Nat /\ DlqSize \in Nat
  BY DeadLettersAssumption, FS_CardinalityType
<1>2. /\ Inserting \in SUBSET Threads
      /\ IsFiniteSet(Inserting) /\ Cardinality(Inserting) \in Nat
  <2>1. Inserting \in SUBSET Threads
    BY DEF Inserting
  <2> QED
    BY <2>1, OnePerProcess DEF RoomInv, LockInv
<1>3. Table \in SUBSET Msgs /\ IsFiniteSet(Table) /\ Cardinality(Table) \in Nat
  <2>1. Table \in SUBSET Msgs
    BY DEF Table
  <2> QED
    BY <2>1, SmallerTable
<1>4. ASSUME NEW t \in Threads, Count(t) PROVE RoomInv'
  <2>1. Table' = Table
    BY <1>4 DEF Count, Table, Present
  <2>2. CASE HasRoom
    <3>1. thread'[t].pc = "insert"
      BY <1>4, <2>2 DEF Count, TypeOK, ThreadType, ThreadRecords
    <3>2. \A s \in Threads : s # t => thread'[s] = thread[s]
      BY <1>4 DEF Count, TypeOK, ThreadType
    <3>3. Inserting' = Inserting \cup {t}
      BY <3>1, <3>2 DEF Inserting
    <3>4. \A s \in Inserting : Owner[s] # Owner[t]
      BY <1>4 DEF Count, Locked, Inserting
    <3>5. LockInv'
      BY <3>3, <3>4 DEF RoomInv, LockInv
    <3>6. /\ Cardinality(Inserting') \in Nat
          /\ Cardinality(Inserting') <= Cardinality(Procs)
      BY <1>2, <3>3, <3>5, OnePerProcess DEF LockInv
    <3>7. Cardinality(Table) < DlqSize
      BY <2>2 DEF HasRoom
    <3> QED
      BY <1>1, <1>3, <2>1, <3>5, <3>6, <3>7 DEF RoomInv
  <2>3. CASE ~HasRoom
    <3>1. Inserting' \subseteq Inserting
      BY <1>4, <2>3 DEF Count, Inserting, IdleThread, TypeOK, ThreadType
    <3> QED
      BY <2>1, <3>1, RoomKept
  <2> QED
    BY <2>2, <2>3
<1>5. ASSUME NEW t \in Threads, Insert(t) PROVE RoomInv'
  <2> DEFINE n == thread[t].msg
  <2>1. n \in Msgs /\ letter' = [letter EXCEPT ![n] = Upserted(n)]
    BY <1>5 DEF Insert, TypeOK, ThreadType
  <2>2. Table' \subseteq Table \cup {n}
    BY <2>1 DEF Table, Present, TypeOK, TableType
  <2>3. Inserting' = Inserting \ {t} /\ t \in Inserting
    BY <1>5 DEF Insert, Inserting, IdleThread, TypeOK, ThreadType
  <2>4. Cardinality(Inserting') = Cardinality(Inserting) - 1
    BY <1>2, <2>3, FS_RemoveElement
  <2>5. LockInv'
    BY <2>3 DEF RoomInv, LockInv
  <2>6. /\ Cardinality(Table \cup {n}) \in Nat
        /\ Cardinality(Table \cup {n}) <= Cardinality(Table) + 1
    <3>1. Cardinality(Table \cup {n}) =
            IF n \in Table THEN Cardinality(Table) ELSE Cardinality(Table) + 1
      BY <1>3, FS_AddElement
    <3> QED
      BY <1>3, <3>1
  <2>7. /\ Cardinality(Table') \in Nat
        /\ Cardinality(Table') <= Cardinality(Table \cup {n})
    <3>1. Table \cup {n} \in SUBSET Msgs
      BY <1>3, <2>1
    <3> QED
      BY <2>2, <3>1, SmallerTable
  <2> QED
    BY <1>1, <1>2, <1>3, <2>4, <2>5, <2>6, <2>7 DEF RoomInv
<1>6. ASSUME NEW t \in Threads,
             \/ \E m \in Msgs : \/ PersistFails(t, m) \/ PersistStores(t, m)
                                \/ PersistReturns(t, m)
             \/ ThreadFault(t)
      PROVE  RoomInv'
  <2>1. Table' = Table
    BY <1>6 DEF PersistFails, PersistStores, PersistReturns, ThreadFault, Table,
                Present
  <2>2. \A s \in Threads : thread'[s].pc = "insert" => thread'[s] = thread[s]
    <3>1. CASE ThreadFault(t)
      <4>1. thread[t] \in ThreadRecords
        BY DEF TypeOK, ThreadType
      <4>2. [thread[t] EXCEPT !.pc = "count"].pc = "count"
        BY <4>1 DEF ThreadRecords
      <4>3. thread'[t].pc # "insert"
        BY <3>1, <4>2 DEF ThreadFault, IdleThread, TypeOK, ThreadType
      <4> QED
        BY <3>1, <4>3 DEF ThreadFault, TypeOK, ThreadType
    <3>2. CASE \E m \in Msgs : \/ PersistFails(t, m) \/ PersistStores(t, m)
                              \/ PersistReturns(t, m)
      BY <3>2 DEF PersistFails, PersistStores, PersistReturns, Go, TypeOK,
                  ThreadType
    <3> QED
      BY <1>6, <3>1, <3>2
  <2>3. Inserting' \subseteq Inserting
    BY <2>2 DEF Inserting
  <2> QED
    BY <2>1, <2>3, RoomKept
<1>7. ASSUME NEW m \in Msgs, DeletePath(m) PROVE Table' \subseteq Table
  BY <1>7 DEF DeletePath, NoLetter, Table, Present, TypeOK, TableType
<1>8. ASSUME NEW t \in Threads, Remove(t) PROVE RoomInv'
  <2>1. Inserting' \subseteq Inserting
    BY <1>8 DEF Remove, Inserting, IdleThread, TypeOK, ThreadType
  <2> QED
    BY <1>7, <1>8, <2>1, RoomKept DEF Remove, TypeOK, ThreadType
<1>9. ASSUME NEW r \in Retriers, RetrierNext(r) PROVE RoomInv'
  <2>1. Table' \subseteq Table
    <3>1. CASE RetryRemoves(r)
      BY <1>7, <3>1 DEF RetryRemoves, TypeOK, RecType
    <3>2. CASE MarkRecovered(r)
      BY <3>2 DEF MarkRecovered, DeleteId, NoLetter, Table, Present
    <3>3. CASE WriteCount(r)
      BY <3>3 DEF WriteCount, AfterRetry, Table, Present, TypeOK, TableType,
                  Letters
    <3>4. CASE letter' = letter
      BY <3>4 DEF Table, Present
    <3> QED
      BY <1>9, <3>1, <3>2, <3>3, <3>4
         DEF RetrierNext, Dequeue, RunCommand, Retry, ReadCount, RecoveryFault
  <2>2. Inserting' = Inserting
    BY <1>9 DEF RetrierNext, Dequeue, RunCommand, Retry, RetryRemoves,
                MarkRecovered, ReadCount, WriteCount, RecoveryFault, Inserting
  <2> QED
    BY <2>1, <2>2, RoomKept
<1>10. ASSUME NEW m \in Msgs, Elapse(m) PROVE RoomInv'
  <2>1. Table' \subseteq Table /\ Inserting' = Inserting
    BY <1>10 DEF Elapse, Table, Inserting, Present, TypeOK, TableType, Letters
  <2> QED
    BY <2>1, RoomKept
<1>11. ASSUME NEW p \in Procs, Crash(p) \/ Exit(p) PROVE RoomInv'
  <2>1. Table' = Table
    BY <1>11 DEF Crash, Exit, Table, Present
  <2>2. Inserting' \subseteq Inserting
    BY <1>11 DEF Crash, Exit, Dies, Inserting, IdleThread
  <2> QED
    BY <2>1, <2>2, RoomKept
<1> QED
  BY <1>4, <1>5, <1>6, <1>8, <1>9, <1>10, <1>11 DEF Next, ThreadNext

(* RoomInv holds of the initial state.                                     *)
LEMMA RoomInit == Init => RoomInv
<1> SUFFICES ASSUME Init PROVE RoomInv
  OBVIOUS
<1>1. PICK old \in Msgs \cup {NoMsg} :
        letter = [m \in Msgs |-> IF m = old THEN OldLetter ELSE NoLetter]
  BY DEF Init
<1>2. Table \subseteq {old}
  BY <1>1 DEF Table, Present, NoLetter
<1>3. Cardinality(Table) \in Nat /\ Cardinality(Table) <= 1
  <2>1. IsFiniteSet({old}) /\ Cardinality({old}) = 1
    BY FS_Singleton
  <2>2. IsFiniteSet(Table) /\ Cardinality(Table) <= 1
    BY <1>2, <2>1, FS_Subset
  <2> QED
    BY <2>2, FS_CardinalityType
<1>4. Inserting = {}
  BY DEF Init, Inserting, IdleThread
<1>5. Cardinality(Inserting) = 0
  BY <1>4, FS_EmptySet
<1>6. /\ Cardinality(Procs) \in Nat /\ Cardinality(Procs) # 0
      /\ DlqSize \in Nat /\ DlqSize # 0
  BY DeadLettersAssumption, FS_CardinalityType, FS_EmptySet
<1>7. LockInv
  BY <1>4 DEF LockInv
<1> QED
  BY <1>3, <1>5, <1>6, <1>7 DEF RoomInv

(* The table outgrows SMS_DLQ_MAX_SIZE by less than one row per process,   *)
(* although the lock around the count and the insert is local to each.     *)
THEOREM Bounded == Spec => []TableBounded
<1>1. TypeOK /\ RoomInv /\ [Next]_vars => RoomInv'
  <2>1. ASSUME RoomInv, UNCHANGED vars PROVE RoomInv'
    BY <2>1 DEF RoomInv, LockInv, Inserting, Table, Present, vars
  <2> QED
    BY <2>1, RoomStep
<1>2. RoomInv => TableBounded
  BY DEF RoomInv, TableBounded, Inserting
<1> QED
  BY <1>1, <1>2, RoomInit, TypeInit, TypeNext, PTL DEF Spec
=============================================================================
