----------------------- MODULE InboundPipelineProofs -----------------------
(***************************************************************************)
(* Theorems about InboundPipeline for any messages, paths and persist      *)
(* threads, any sizes of its queues, any number of retries, and any number *)
(* of faults, crashes, rotations, renumberings and disconnections.         *)
(***************************************************************************)
EXTENDS InboundPipeline, FiniteSetTheorems, TLAPS

-----------------------------------------------------------------------------
(* Steps.                                                                  *)

(* A step with the thread that makes it, whoever's it is.                  *)
LEMMA Steps ==
  ASSUME Next
  PROVE  \/ ModemNext \/ ListenerStep \/ Disconnect \/ SnapshotFault
         \/ RecoveryStep \/ Mark \/ Crash
         \/ \E w \in Workers : Take(w)
         \/ \E due \in SUBSET Paths : DequeueBatch(due)
         \/ \E p \in Paths : Retry(p) \/ OnAdded(p) \/ RotateRow(p)
         \/ \E t \in Threads : PersistStep(t) \/ FetchFault(t) \/ StoreFault(t)
BY DEF Next, RecovererStep, WorkerStep, Threads

-----------------------------------------------------------------------------
(* Type correctness.                                                       *)

(* The records a thread starts from and goes back to.                      *)
LEMMA BlankRecords ==
  /\ Blank \in Rows
  /\ Idle \in ThreadRecords
  /\ Idle.pc = "idle" /\ Idle.path = NoPath /\ Idle.seen = Blank
  /\ Idle.fields = {}
BY ConstantsAssumption
   DEF Blank, Idle, Rows, MmStates, ThreadRecords, Pcs

(* What mmcli shows of a message is a row.                                 *)
LEMMA ShownIsRow ==
  ASSUME ModemType, NEW p \in Paths, at[p] # NoMsg
  PROVE  Shown(p) \in Rows
BY ConstantsAssumption DEF ModemType, Shown, Rows, MmStates

(* A thread moves to another record that fits it.                          *)
LEMMA ThreadMoves ==
  ASSUME ThreadType, NEW t \in Threads, NEW r \in ThreadRecords,
         r.pc # "idle" => r.path \in Paths,
         r.pc = "done" => t = Recoverer,
         thread' = [thread EXCEPT ![t] = r]
  PROVE  ThreadType'
BY DEF ThreadType

(* A call of persist_inbound_sms starts with its path.                     *)
LEMMA CallType ==
  ASSUME ThreadType, NEW t \in Threads, NEW p \in Paths, Call(t, p)
  PROVE  ThreadType'
<1> DEFINE r == [Idle EXCEPT !.pc = "fetch", !.path = p]
<1>1. r \in ThreadRecords /\ r.pc = "fetch" /\ r.path = p
  BY BlankRecords DEF ThreadRecords, Pcs
<1> QED
  BY <1>1, ThreadMoves DEF Call

(* A persist goes on with its path.                                        *)
LEMMA GotoType ==
  ASSUME ThreadType, NEW t \in Threads, thread[t].pc # "idle",
         NEW pc \in Pcs \ {"idle", "done"}, Goto(t, pc)
  PROVE  ThreadType'
<1> DEFINE r == [Idle EXCEPT !.pc = pc, !.path = thread[t].path]
<1>1. thread[t].path \in Paths
  BY DEF ThreadType
<1>2. r \in ThreadRecords /\ r.pc = pc /\ r.path = thread[t].path
  BY <1>1, BlankRecords DEF ThreadRecords
<1> QED
  BY <1>1, <1>2, ThreadMoves DEF Goto

(* A persist that succeeds leaves only process_batch with something to do. *)
LEMMA ReturnType ==
  ASSUME ThreadType, NEW t \in Threads, thread[t].pc # "idle", Return(t)
  PROVE  ThreadType'
<1> DEFINE r == [Idle EXCEPT !.pc = "done", !.path = thread[t].path]
<1>1. thread[t].path \in Paths
  BY DEF ThreadType
<1>2. r \in ThreadRecords /\ r.pc = "done" /\ r.path = thread[t].path
  BY <1>1, BlankRecords DEF ThreadRecords, Pcs
<1> QED
  BY <1>1, <1>2, BlankRecords, ThreadMoves DEF Return

(* Every step leaves the threads with records that fit them.               *)
LEMMA ThreadStepType == TypeOK /\ Next => ThreadType'
<1> SUFFICES ASSUME TypeOK, Next PROVE ThreadType'
  OBVIOUS
<1> USE DEF TypeOK
<1>1. CASE UNCHANGED thread
  BY <1>1 DEF ThreadType
<1>2. CASE \E w \in Workers : Take(w)
  BY <1>2, CallType DEF Take, QueueType, Threads
<1>3. CASE \E p \in Paths : Retry(p) \/ RefreshRow(p)
  BY <1>3, CallType DEF Retry, RefreshRow, Threads
<1>4. CASE Crash
  BY <1>4, BlankRecords DEF Crash, ThreadType
<1>5. CASE Mark
  BY <1>5, BlankRecords, ThreadMoves DEF Mark, Threads
<1>6. ASSUME NEW t \in Threads, PersistStep(t) \/ FetchFault(t) \/ StoreFault(t)
      PROVE  ThreadType'
  <2> USE DEF Pcs
  <2>0. thread[t] \in ThreadRecords
    BY DEF ThreadType
  <2>1. CASE Fetch(t)
    <3>1. thread[t].path \in Paths /\ Shown(thread[t].path) \in Rows
      BY <2>1, ShownIsRow DEF Fetch, ThreadType
    <3> DEFINE r == [thread[t] EXCEPT !.pc = "store",
                                      !.seen = Shown(thread[t].path)]
    <3>2. r \in ThreadRecords /\ r.pc = "store" /\ r.path = thread[t].path
      BY <2>0, <3>1 DEF ThreadRecords
    <3>3. thread' = [thread EXCEPT ![t] = r]
      BY <2>0, <2>1 DEF Fetch, ThreadType, ThreadRecords
    <3> QED
      BY <3>1, <3>2, <3>3, ThreadMoves
  <2>2. CASE FetchFault(t)
    <3> DEFINE r == [thread[t] EXCEPT !.pc = "store", !.seen = Blank]
    <3>1. r \in ThreadRecords /\ r.pc = "store" /\ r.path = thread[t].path
      BY <2>0, BlankRecords DEF ThreadRecords
    <3> QED
      BY <2>2, <3>1, ThreadMoves DEF FetchFault, ThreadType
  <2>3. CASE Missing(t) \/ MarkGone(t)
    BY <2>3, GotoType, ReturnType DEF Missing, MarkGone
  <2>4. CASE Reject(t)
    BY <2>4, ReturnType DEF Reject
  <2>5. CASE Store(t)
    <3>1. CASE Goto(t, "clear")
      BY <2>5, <3>1, GotoType DEF Store
    <3>2. CASE ~Goto(t, "clear")
      <4> DEFINE p == thread[t].path
                 f == Patched(row[p], thread[t].seen)
                 r == [thread[t] EXCEPT !.pc = "patch", !.fields = f]
      <4>1. f \subseteq DOMAIN Blank
        BY DEF Patched, Blank
      <4>2. r \in ThreadRecords /\ r.pc = "patch" /\ r.path = p
        BY <2>0, <4>1 DEF ThreadRecords
      <4>3. thread' = [thread EXCEPT ![t] = r]
        BY <2>0, <2>5, <3>2 DEF Store, ThreadType, ThreadRecords
      <4>4. p \in Paths
        BY <2>5 DEF Store, ThreadType
      <4> QED
        BY <4>2, <4>3, <4>4, ThreadMoves
    <3> QED
      BY <3>1, <3>2
  <2>6. CASE Patch(t)
    BY <2>6, GotoType DEF Patch
  <2>7. CASE StoreFault(t)
    BY <2>7, GotoType DEF StoreFault
  <2>8. CASE Clear(t)
    BY <2>8, ReturnType DEF Clear
  <2>9. CASE Fail(t)
    BY <2>9, BlankRecords, ThreadMoves DEF Fail
  <2> QED
    BY <1>6, <2>1, <2>2, <2>3, <2>4, <2>5, <2>6, <2>7, <2>8, <2>9
       DEF PersistStep
<1>7. CASE ModemNext \/ ListenerStep \/ Disconnect \/ SnapshotFault
  BY <1>7, <1>1 DEF ModemNext, Arrive, Assemble, Vanish, Renumber,
     ListenerStep, Subscribe, FirstSnapshot, LastSnapshot, Disconnect,
     SnapshotFault, memory
<1>8. CASE RecoveryStep
  BY <1>8, <1>1, <1>3
     DEF RecoveryStep, Snapshot, Listed, SnapshotPut, Refresh, RefreshEnd
<1>9. CASE \/ \E due \in SUBSET Paths : DequeueBatch(due)
           \/ \E p \in Paths : OnAdded(p) \/ RotateRow(p)
  BY <1>9, <1>1 DEF DequeueBatch, OnAdded, RotateRow, memory
<1> QED
  BY <1>2, <1>3, <1>4, <1>5, <1>6, <1>7, <1>8, <1>9, Steps

(* ModemManager's own steps, and the listener's and the recovery's lists.  *)
LEMMA ModemStepType == TypeOK /\ Next => ModemType' /\ BusType'
<1> SUFFICES ASSUME TypeOK, Next PROVE ModemType' /\ BusType'
  OBVIOUS
<1> USE DEF TypeOK
<1>1. CASE UNCHANGED <<modem, bus>>
  BY <1>1 DEF ModemType, BusType, modem, bus
<1>2. CASE \E m \in Msgs, p \in Paths : Arrive(m, p)
  BY <1>2 DEF Arrive, ModemType, BusType
<1>3. CASE \E m \in Msgs : Assemble(m)
  BY <1>3, ConstantsAssumption DEF Assemble, ModemType, BusType, bus
<1>4. CASE \E p \in Paths : Vanish(p)
  BY <1>4 DEF Vanish, ModemType, BusType, bus
<1>5. CASE Renumber
  <2>1. PICK new \in [Held -> Paths] :
          /\ used' = {new[p] : p \in Held}
          /\ at' = [q \in Paths |->
                      IF q \in used'
                        THEN at[CHOOSE p \in Held : new[p] = q] ELSE NoMsg]
    BY <1>5 DEF Renumber
  <2>2. \A q \in used' : (CHOOSE p \in Held : new[p] = q) \in Held
    BY <2>1
  <2>3. used' \subseteq Paths /\ Held \subseteq Paths
    BY <2>1 DEF Held
  <2>4. at' \in [Paths -> Msgs \cup {NoMsg}]
    BY <2>1, <2>2, <2>3 DEF ModemType
  <2> QED
    BY <1>5, <2>3, <2>4 DEF Renumber, ModemType, BusType
<1>6. CASE ListenerStep
  BY <1>6 DEF ListenerStep, Subscribe, FirstSnapshot, LastSnapshot, modem,
     ModemType, BusType
<1>7. CASE Disconnect
  BY <1>7 DEF Disconnect, modem, ModemType, BusType
<1>8. CASE SnapshotFault \/ RecoveryStep
  BY <1>8, <1>1 DEF SnapshotFault, RecoveryStep, Snapshot, Listed, SnapshotPut,
     Refresh, RefreshRow, RefreshEnd
<1>9. CASE Crash
  BY <1>9 DEF Crash, modem, ModemType, BusType
<1>10. CASE \E p \in Paths : OnAdded(p)
  BY <1>10 DEF OnAdded, modem, ModemType, BusType
<1>11. CASE \/ Mark \/ \E w \in Workers : Take(w)
            \/ \E due \in SUBSET Paths : DequeueBatch(due)
            \/ \E p \in Paths : Retry(p) \/ RotateRow(p)
  BY <1>11, <1>1 DEF Mark, Take, DequeueBatch, Retry, RotateRow
<1>12. CASE \E t \in Threads : PersistStep(t) \/ FetchFault(t) \/ StoreFault(t)
  BY <1>12, <1>1 DEF PersistStep, FetchFault, StoreFault, Fetch, Missing,
     MarkGone, Reject, Store, Patch, Clear, Fail
<1> QED
  BY <1>2, <1>3, <1>4, <1>5, <1>6, <1>7, <1>8, <1>9, <1>10, <1>11, <1>12,
     Steps DEF ModemNext

(* Every path that is listed, queued or to be retried is a path.           *)
LEMMA RecoveryStepType == TypeOK /\ Next => RecoveryType' /\ QueueType'
<1> SUFFICES ASSUME TypeOK, Next PROVE RecoveryType' /\ QueueType'
  OBVIOUS
<1> USE DEF TypeOK
<1>1. CASE UNCHANGED <<batch, phase, listing, stale, queue>>
  BY <1>1 DEF RecoveryType, QueueType
<1>2. ASSUME NEW p \in Paths, Enqueue(p) PROVE QueueType'
  <2>1. CASE Len(queue) < QueueSize
    <3>1. queue' = Append(queue, p) /\ queue \in Seq(Paths)
      BY <1>2, <2>1 DEF Enqueue, QueueType
    <3>2. queue' \in Seq(Paths) /\ Len(queue') = Len(queue) + 1
      BY <3>1
    <3> QED
      BY <2>1, <3>1, <3>2, ConstantsAssumption DEF QueueType
  <2>2. CASE ~(Len(queue) < QueueSize)
    BY <1>2, <2>2 DEF Enqueue, QueueType
  <2> QED
    BY <2>1, <2>2
<1>3. CASE ListenerStep \/ Disconnect \/ SnapshotFault
  BY <1>3 DEF ListenerStep, Subscribe, FirstSnapshot, LastSnapshot, memory,
     Disconnect, SnapshotFault, RecoveryType, QueueType, Held
<1>4. CASE RecoveryStep
  BY <1>4, <1>2 DEF RecoveryStep, Snapshot, Listed, SnapshotPut, Refresh,
     RefreshRow, RefreshEnd, RecoveryType, QueueType, RowType, Held
<1>5. CASE Crash
  BY <1>5, ConstantsAssumption DEF Crash, RecoveryType, QueueType
<1>6. CASE \E w \in Workers : Take(w)
  BY <1>6, ConstantsAssumption DEF Take, RecoveryType, QueueType
<1>7. CASE \E due \in SUBSET Paths : DequeueBatch(due)
  BY <1>7 DEF DequeueBatch, RecoveryType, QueueType
<1>8. CASE \E p \in Paths : Retry(p) \/ OnAdded(p) \/ RotateRow(p)
  BY <1>8, <1>2 DEF Retry, OnAdded, RotateRow, memory, RecoveryType,
     QueueType
<1>9. CASE ModemNext \/ Mark
  BY <1>9, <1>1 DEF ModemNext, Arrive, Assemble, Vanish, Renumber, Mark,
     memory
<1>10. CASE \E t \in Threads : PersistStep(t) \/ FetchFault(t) \/ StoreFault(t)
  BY <1>10, <1>1 DEF PersistStep, FetchFault, StoreFault, Fetch, Missing,
     MarkGone, Reject, Store, Patch, Clear, Fail
<1> QED
  BY <1>3, <1>4, <1>5, <1>6, <1>7, <1>8, <1>9, <1>10, Steps

(* A letter that the recovery thread may still count has a retry left.     *)
HeldMayRetry == \A p \in held : dlq[p] < MaxRetries

(* A dead letter keeps its count, or starts with none.                     *)
LEMMA DeadLetterType ==
  ASSUME TypeOK, HeldMayRetry, NEW p \in Paths, DeadLetter(p), UNCHANGED held
  PROVE  DlqType' /\ HeldMayRetry' /\ dropped' \subseteq Paths
BY ConstantsAssumption
   DEF TypeOK, HeldMayRetry, DeadLetter, Retries, DlqType, HistoryType

(* A dead letter that is deleted is no longer held.                        *)
LEMMA DeleteType ==
  ASSUME TypeOK, HeldMayRetry, NEW p \in Paths, Delete(p)
  PROVE  DlqType' /\ HeldMayRetry'
BY DEF TypeOK, HeldMayRetry, Delete, DlqType

(* Every step keeps the retry counts in their range.                       *)
LEMMA DlqStepType ==
  TypeOK /\ HeldMayRetry /\ Next => DlqType' /\ HeldMayRetry'
<1> SUFFICES ASSUME TypeOK, HeldMayRetry, Next
             PROVE  DlqType' /\ HeldMayRetry'
  OBVIOUS
<1>1. CASE UNCHANGED <<dlq, held>>
  BY <1>1 DEF TypeOK, DlqType, HeldMayRetry
<1>2. ASSUME NEW p \in Paths, Enqueue(p), UNCHANGED held
      PROVE  DlqType' /\ HeldMayRetry'
  BY <1>1, <1>2, DeadLetterType DEF Enqueue
<1>3. CASE Mark
  <2> DEFINE p == thread[Recoverer].path
  <2>1. p \in Paths
    BY <1>3 DEF Mark, TypeOK, ThreadType, Threads
  <2>2. CASE p \notin held
    BY <1>1, <1>3, <2>2 DEF Mark
  <2>3. CASE Delete(p)
    BY <2>1, <2>3, DeleteType
  <2>4. CASE p \in held /\ dlq' = [dlq EXCEPT ![p] = @ + 1]
             /\ held' = held \ {p}
    BY <2>1, <2>4, ConstantsAssumption DEF TypeOK, DlqType, HeldMayRetry
  <2> QED
    BY <1>3, <2>2, <2>3, <2>4 DEF Mark
<1>4. CASE Crash
  BY <1>4 DEF Crash, tables, TypeOK, DlqType, HeldMayRetry
<1>5. CASE \E due \in SUBSET Paths : DequeueBatch(due)
  BY <1>5 DEF DequeueBatch, tables, TypeOK, DlqType, HeldMayRetry
<1>6. CASE \E p \in Paths : Retry(p) \/ OnAdded(p) \/ RotateRow(p)
  BY <1>1, <1>2, <1>6 DEF Retry, OnAdded, RotateRow, tables, memory
<1>7. CASE RecoveryStep
  BY <1>1, <1>2, <1>7 DEF RecoveryStep, Snapshot, Listed, SnapshotPut, Refresh,
     RefreshRow, RefreshEnd, tables
<1>8. CASE ModemNext \/ ListenerStep \/ Disconnect \/ SnapshotFault
           \/ \E w \in Workers : Take(w)
  BY <1>1, <1>8 DEF ModemNext, Arrive, Assemble, Vanish, Renumber,
     ListenerStep, Subscribe, FirstSnapshot, LastSnapshot, Disconnect,
     SnapshotFault, Take, tables, memory
<1>9. ASSUME NEW t \in Threads, PersistStep(t) \/ FetchFault(t) \/ StoreFault(t)
      PROVE  DlqType' /\ HeldMayRetry'
  <2>1. thread[t].pc # "idle" => thread[t].path \in Paths
    BY DEF TypeOK, ThreadType
  <2>2. CASE Clear(t)
    BY <2>1, <2>2, DeleteType DEF Clear
  <2>3. CASE Fail(t)
    BY <1>1, <2>1, <2>3, DeadLetterType DEF Fail
  <2>4. CASE ~Clear(t) /\ ~Fail(t)
    BY <1>1, <1>9, <2>4 DEF PersistStep, FetchFault, StoreFault, Fetch,
       Missing, MarkGone, Reject, Store, Patch, tables
  <2> QED
    BY <2>2, <2>3, <2>4
<1> QED
  BY <1>3, <1>4, <1>5, <1>6, <1>7, <1>8, <1>9, Steps

(* Every row is one mmcli showed, patched field by field with another.     *)
LEMMA RowStepType == TypeOK /\ Next => RowType'
<1> SUFFICES ASSUME TypeOK, Next PROVE RowType'
  OBVIOUS
<1> USE DEF TypeOK
<1>1. CASE UNCHANGED row
  BY <1>1 DEF RowType
<1>2. CASE \E p \in Paths : Retry(p) \/ OnAdded(p) \/ RotateRow(p)
  BY <1>1, <1>2 DEF Retry, OnAdded, RotateRow, tables, RowType
<1>3. CASE \/ RecoveryStep \/ \E w \in Workers : Take(w)
           \/ \E due \in SUBSET Paths : DequeueBatch(due)
  BY <1>1, <1>3 DEF RecoveryStep, Snapshot, Listed, SnapshotPut, Refresh,
     RefreshRow, RefreshEnd, Take, DequeueBatch, tables
<1>4. CASE ModemNext \/ ListenerStep \/ Disconnect \/ SnapshotFault \/ Mark
           \/ Crash
  BY <1>1, <1>4 DEF ModemNext, Arrive, Assemble, Vanish, Renumber,
     ListenerStep, Subscribe, FirstSnapshot, LastSnapshot, Disconnect,
     SnapshotFault, Mark, Crash, tables
<1>5. ASSUME NEW t \in Threads, PersistStep(t) \/ FetchFault(t) \/ StoreFault(t)
      PROVE  RowType'
  <2>1. /\ thread[t].pc # "idle" => thread[t].path \in Paths
        /\ thread[t].seen \in Rows
    BY DEF ThreadType, ThreadRecords
  <2>2. CASE MarkGone(t)
    <3> DEFINE p == thread[t].path
               new == [row[p] EXCEPT !.state = "unavailable"]
    <3>1. CASE p \notin DOMAIN row
      BY <1>1, <2>2, <3>1 DEF MarkGone
    <3>2. CASE p \in DOMAIN row
      <4>1. row' = [row EXCEPT ![p] = new]
        BY <2>2, <3>2 DEF MarkGone
      <4>2. new \in Rows
        BY <3>2 DEF RowType, Rows, MmStates
      <4> HIDE DEF new
      <4> QED
        BY <4>1, <4>2 DEF RowType
    <3> QED
      BY <3>1, <3>2
  <2>3. CASE Store(t)
    BY <1>1, <2>1, <2>3 DEF Store, RowType
  <2>4. CASE Patch(t) /\ thread[t].path \in DOMAIN row
    <3> DEFINE p == thread[t].path
               new == [f \in DOMAIN Blank |->
                         IF f \in thread[t].fields THEN thread[t].seen[f]
                                                   ELSE row[p][f]]
    <3>1. row' = [row EXCEPT ![p] = new]
      BY <2>4 DEF Patch
    <3>2. row[p] \in Rows
      BY <2>4 DEF RowType
    <3>3. new = [sender |-> new.sender, of |-> new.of, text |-> new.text,
                 state |-> new.state]
      BY DEF Blank
    <3>4. new \in Rows
      BY <2>1, <3>2, <3>3 DEF Rows, Blank
    <3> HIDE DEF new
    <3> QED
      BY <3>1, <3>4 DEF RowType
  <2>5. CASE /\ ~MarkGone(t) /\ ~Store(t)
             /\ ~(Patch(t) /\ thread[t].path \in DOMAIN row)
    BY <1>1, <1>5, <2>5 DEF PersistStep, FetchFault, StoreFault, Fetch,
       Missing, Reject, Patch, Clear, Fail, tables
  <2> QED
    BY <2>2, <2>3, <2>4, <2>5
<1> QED
  BY <1>2, <1>3, <1>4, <1>5, Steps

(* The histories and the bounds.                                           *)
LEMMA HistoryStepType ==
  TypeOK /\ HeldMayRetry /\ Next => HistoryType' /\ BoundsType'
<1> SUFFICES ASSUME TypeOK, HeldMayRetry, Next
             PROVE  HistoryType' /\ BoundsType'
  OBVIOUS
<1> USE DEF TypeOK
<1> USE ConstantsAssumption
<1>1. CASE UNCHANGED history /\ UNCHANGED bounds
  BY <1>1 DEF HistoryType, BoundsType, history, bounds
<1>2. ASSUME NEW p \in Paths, Enqueue(p), UNCHANGED created, UNCHANGED bounds
      PROVE  HistoryType' /\ BoundsType'
  BY <1>2 DEF Enqueue, DeadLetter, HistoryType, BoundsType, bounds
<1>3. CASE ModemNext \/ ListenerStep
  BY <1>3 DEF ModemNext, Arrive, Assemble, Vanish, Renumber, ListenerStep,
     Subscribe, FirstSnapshot, LastSnapshot, history, bounds, HistoryType,
     BoundsType
<1>4. CASE Disconnect \/ SnapshotFault \/ Crash
  BY <1>4 DEF Disconnect, SnapshotFault, Crash, history, HistoryType,
     BoundsType
<1>5. CASE RecoveryStep
  BY <1>1, <1>2, <1>5 DEF RecoveryStep, Snapshot, Listed, SnapshotPut, Refresh,
     RefreshRow, RefreshEnd
<1>6. CASE \/ Mark \/ \E w \in Workers : Take(w)
           \/ \E due \in SUBSET Paths : DequeueBatch(due)
           \/ \E p \in Paths : Retry(p)
  BY <1>1, <1>6 DEF Mark, Take, DequeueBatch, Retry
<1>7. CASE \E p \in Paths : OnAdded(p) \/ RotateRow(p)
  BY <1>2, <1>7 DEF OnAdded, RotateRow, HistoryType, BoundsType
<1>8. ASSUME NEW t \in Threads, PersistStep(t) \/ FetchFault(t) \/ StoreFault(t)
      PROVE  HistoryType' /\ BoundsType'
  <2>1. thread[t].pc # "idle" => thread[t].path \in Paths
    BY DEF ThreadType
  <2>2. CASE Store(t)
    BY <2>2 DEF Store, HistoryType, BoundsType, bounds
  <2>3. CASE Fail(t) \/ Reject(t)
    BY <2>1, <2>3 DEF Fail, DeadLetter, Reject, HistoryType, BoundsType, bounds
  <2>4. CASE FetchFault(t) \/ StoreFault(t)
    BY <2>4 DEF FetchFault, StoreFault, history, HistoryType, BoundsType
  <2>5. CASE Fetch(t) \/ Missing(t) \/ MarkGone(t) \/ Patch(t) \/ Clear(t)
    BY <1>1, <2>5 DEF Fetch, Missing, MarkGone, Patch, Clear, history,
       Return, Goto
  <2> QED
    BY <1>8, <2>2, <2>3, <2>4, <2>5 DEF PersistStep
<1> QED
  BY <1>3, <1>4, <1>5, <1>6, <1>7, <1>8, Steps

(* The first conjunct is inductive only with the second: a failure is      *)
(* counted for a row that had a retry left when it was read.               *)
Typed == TypeOK /\ HeldMayRetry

(* The types hold of the initial state.                                    *)
LEMMA TypedInit == Init => Typed
BY ConstantsAssumption, BlankRecords
   DEF Init, Typed, TypeOK, HeldMayRetry, ModemType, BusType, QueueType,
       DlqType, RowType, ThreadType, RecoveryType, HistoryType, BoundsType

(* Every step keeps the types.                                             *)
LEMMA TypedStep == Typed /\ [Next]_vars => Typed'
<1>1. Typed /\ Next => Typed'
  BY ThreadStepType, ModemStepType, RecoveryStepType, DlqStepType,
     RowStepType, HistoryStepType DEF Typed, TypeOK
<1>2. Typed /\ UNCHANGED vars => Typed'
  BY DEF Typed, TypeOK, HeldMayRetry, ModemType, BusType, QueueType,
     DlqType, RowType, ThreadType, RecoveryType, HistoryType, BoundsType,
     vars, modem, bus, tables, memory, history, bounds
<1> QED
  BY <1>1, <1>2

(* Every variable has its type: no retry_count ever exceeds the maximum,   *)
(* every busy thread has a path, every row is one mmcli can show, and the  *)
(* persist queue never holds more than its size.                           *)
THEOREM Typing == Spec => []TypeOK
<1>1. Typed => TypeOK
  BY DEF Typed
<1> QED
  BY <1>1, TypedInit, TypedStep, PTL DEF Spec

(* What the other proofs start from.                                       *)
LEMMA AlwaysTyped == Spec => []Typed
BY TypedInit, TypedStep, PTL DEF Spec

-----------------------------------------------------------------------------
(* No announcement is missed.                                              *)

(* No message on the modem is outside of what the listener was told, what  *)
(* the snapshots have listed and what the queue was given.                 *)
THEOREM NoneUnheard == Spec => []NothingUnheard
<1>1. Init => NothingUnheard
  BY DEF Init, NothingUnheard
<1>2. Typed /\ NothingUnheard /\ Next => NothingUnheard'
  <2> SUFFICES ASSUME Typed, NothingUnheard, Next PROVE NothingUnheard'
    OBVIOUS
  <2> USE DEF NothingUnheard, Held
  <2>1. ASSUME UNCHANGED link, UNCHANGED faults, UNCHANGED at,
               signals \cup listing \cup taken
                 \subseteq (signals \cup listing \cup taken)'
        PROVE  NothingUnheard'
    BY <2>1
  <2>2. CASE ModemNext
    <3>1. CASE \E m \in Msgs, p \in Paths : Arrive(m, p)
      BY <3>1 DEF Arrive, Subscribed, memory, history, bounds
    <3>2. CASE Renumber
      <4>1. PICK new \in [Held -> Paths] :
              /\ used' = {new[p] : p \in Held}
              /\ at' = [q \in Paths |->
                          IF q \in used'
                            THEN at[CHOOSE p \in Held : new[p] = q] ELSE NoMsg]
        BY <3>2 DEF Renumber
      <4>2. Held' \subseteq used'
        BY <4>1
      <4> QED
        BY <3>2, <4>2 DEF Renumber, Subscribed
    <3>3. CASE \E m \in Msgs : Assemble(m)
      BY <3>3 DEF Assemble, bus, memory, history, bounds
    <3>4. CASE \E p \in Paths : Vanish(p)
      BY <3>4 DEF Vanish, bus, memory, history, bounds, Typed, TypeOK,
         ModemType
    <3> QED
      BY <2>2, <3>1, <3>2, <3>3, <3>4 DEF ModemNext
  <2>3. CASE ListenerStep \/ Disconnect \/ Crash
    BY <2>3 DEF ListenerStep, Subscribe, FirstSnapshot, LastSnapshot,
       Disconnect, Crash, modem, history, bounds
  <2>4. CASE SnapshotFault
    BY <2>4 DEF SnapshotFault, Typed, TypeOK, BoundsType
  <2>5. CASE RecoveryStep
    BY <2>1, <2>5 DEF RecoveryStep, Snapshot, Listed, SnapshotPut, Refresh,
       RefreshRow, RefreshEnd, Enqueue, modem, bus, history, bounds
  <2>6. CASE \/ Mark \/ \E w \in Workers : Take(w)
             \/ \E due \in SUBSET Paths : DequeueBatch(due)
             \/ \E p \in Paths : Retry(p) \/ OnAdded(p) \/ RotateRow(p)
    BY <2>1, <2>6 DEF Mark, Take, DequeueBatch, Retry, OnAdded, RotateRow,
       Enqueue, modem, bus, memory, history, bounds
  <2>7. ASSUME NEW t \in Threads,
               PersistStep(t) \/ FetchFault(t) \/ StoreFault(t)
        PROVE  NothingUnheard'
    <3>1. /\ UNCHANGED modem /\ UNCHANGED bus /\ UNCHANGED listing
          /\ UNCHANGED taken
      BY <2>7 DEF PersistStep, FetchFault, StoreFault, Fetch, Missing,
         MarkGone, Reject, Store, Patch, Clear, Fail, history
    <3>2. faults' = 0 => faults = 0
      BY <2>7 DEF PersistStep, FetchFault, StoreFault, Fetch, Missing,
         MarkGone, Reject, Store, Patch, Clear, Fail, bounds, Typed, TypeOK,
         BoundsType
    <3> QED
      BY <3>1, <3>2 DEF modem, bus
  <2> QED
    BY <2>2, <2>3, <2>4, <2>5, <2>6, <2>7, Steps
<1>3. NothingUnheard /\ UNCHANGED vars => NothingUnheard'
  BY DEF NothingUnheard, Held, vars, modem, bus, memory, history, bounds
<1> QED
  BY <1>1, <1>2, <1>3, AlwaysTyped, PTL DEF Spec

-----------------------------------------------------------------------------
(* Nothing that was taken is lost.                                         *)

(* The persist of path p came to an end: a row, or a decision against one. *)
Safe(p) == p \in DOMAIN row \/ p \in dropped

Kept(p) == p \in DOMAIN dlq \/ Safe(p)

IdleIsBlank == \A t \in Threads : thread[t].pc = "idle" => thread[t] = Idle

(* Who is about to remove a dead letter knows that its path is safe.       *)
ClearedIsSafe ==
  \A t \in Threads :
    thread[t].pc \in {"clear", "done"} => Safe(thread[t].path)

(* The refresh, which logs a failure and no more, only has safe paths.     *)
RefreshIsSafe ==
  /\ \A p \in stale : Safe(p)
  /\ thread[Refresher].pc # "idle" => Safe(thread[Refresher].path)

(* The recovery thread, which drops a path whose row id is dead, only has  *)
(* paths that another thread has made safe or that are in the table still. *)
RetryIsKept ==
  /\ \A p \in batch : Kept(p)
  /\ thread[Recoverer].pc # "idle" => Kept(thread[Recoverer].path)

Tracking == IdleIsBlank /\ ClearedIsSafe /\ RefreshIsSafe /\ RetryIsKept

(* What a row or a decision says of a path is final.                       *)
LEMMA SafeStays ==
  ASSUME Typed, Next, NEW p, Safe(p)
  PROVE  Safe(p)'
<1> USE DEF Safe
<1>1. CASE DOMAIN row \subseteq DOMAIN row' /\ dropped \subseteq dropped'
  BY <1>1
<1>2. ASSUME NEW q \in Paths, Enqueue(q) PROVE dropped \subseteq dropped'
  BY <1>2 DEF Enqueue, DeadLetter
<1>3. CASE ModemNext \/ ListenerStep \/ Disconnect \/ SnapshotFault \/ Mark
           \/ Crash
  BY <1>1, <1>3 DEF ModemNext, Arrive, Assemble, Vanish, Renumber,
     ListenerStep, Subscribe, FirstSnapshot, LastSnapshot, Disconnect,
     SnapshotFault, Mark, Crash, tables, history
<1>4. CASE RecoveryStep
  BY <1>1, <1>2, <1>4 DEF RecoveryStep, Snapshot, Listed, SnapshotPut, Refresh,
     RefreshRow, RefreshEnd, tables, history
<1>5. CASE \/ \E w \in Workers : Take(w)
           \/ \E due \in SUBSET Paths : DequeueBatch(due)
           \/ \E q \in Paths : Retry(q) \/ OnAdded(q)
  BY <1>1, <1>2, <1>5 DEF Take, DequeueBatch, Retry, OnAdded, tables, history
<1>6. CASE \E q \in Paths : RotateRow(q)
  BY <1>6 DEF RotateRow
<1>7. ASSUME NEW t \in Threads, PersistStep(t) \/ FetchFault(t) \/ StoreFault(t)
      PROVE  Safe(p)'
  <2>1. CASE Store(t) \/ Missing(t) \/ MarkGone(t) \/ Patch(t)
    BY <1>1, <2>1 DEF Store, Missing, MarkGone, Patch, tables, history
  <2>2. CASE Fail(t) \/ Reject(t)
    BY <1>1, <2>2 DEF Fail, DeadLetter, Reject, tables
  <2>3. CASE Fetch(t) \/ Clear(t) \/ FetchFault(t) \/ StoreFault(t)
    BY <1>1, <2>3 DEF Fetch, Clear, FetchFault, StoreFault, tables, history
  <2> QED
    BY <1>7, <2>1, <2>2, <2>3 DEF PersistStep
<1> QED
  BY <1>3, <1>4, <1>5, <1>6, <1>7, Steps

(* A dead letter is removed for a path that is safe, and for no other.     *)
LEMMA RemovedIsSafe ==
  ASSUME Typed, ClearedIsSafe, Next, NEW p \in DOMAIN dlq, p \notin DOMAIN dlq'
  PROVE  Safe(p)
<1>1. CASE UNCHANGED dlq
  BY <1>1
<1>2. ASSUME NEW q \in Paths, DeadLetter(q)
      PROVE  DOMAIN dlq \subseteq DOMAIN dlq'
  BY <1>2 DEF DeadLetter
<1>3. ASSUME NEW q \in Paths, Enqueue(q)
      PROVE  DOMAIN dlq \subseteq DOMAIN dlq'
  BY <1>2, <1>3 DEF Enqueue
<1>4. CASE ModemNext \/ ListenerStep \/ Disconnect \/ SnapshotFault \/ Crash
  BY <1>1, <1>4 DEF ModemNext, Arrive, Assemble, Vanish, Renumber,
     ListenerStep, Subscribe, FirstSnapshot, LastSnapshot, Disconnect,
     SnapshotFault, Crash, tables
<1>5. CASE RecoveryStep
  BY <1>1, <1>3, <1>5 DEF RecoveryStep, Snapshot, Listed, SnapshotPut, Refresh,
     RefreshRow, RefreshEnd, tables
<1>6. CASE \/ \E w \in Workers : Take(w)
           \/ \E due \in SUBSET Paths : DequeueBatch(due)
           \/ \E q \in Paths : Retry(q) \/ OnAdded(q) \/ RotateRow(q)
  BY <1>1, <1>3, <1>6 DEF Take, DequeueBatch, Retry, OnAdded, RotateRow, tables
<1>7. CASE Mark
  <2>1. CASE thread[Recoverer].pc = "done" /\ Delete(thread[Recoverer].path)
    BY <2>1 DEF Delete, ClearedIsSafe, Threads
  <2>2. CASE ~(thread[Recoverer].pc = "done" /\ Delete(thread[Recoverer].path))
    BY <1>1, <1>7, <2>2 DEF Mark
  <2> QED
    BY <2>1, <2>2
<1>8. ASSUME NEW t \in Threads, PersistStep(t) \/ FetchFault(t) \/ StoreFault(t)
      PROVE  Safe(p)
  <2>1. CASE Clear(t)
    BY <2>1 DEF Clear, Delete, ClearedIsSafe
  <2>2. CASE Fail(t)
    BY <1>1, <1>2, <2>2 DEF Fail, Typed, TypeOK, ThreadType
  <2>3. CASE ~Clear(t) /\ ~Fail(t)
    BY <1>1, <1>8, <2>3 DEF PersistStep, FetchFault, StoreFault, Fetch,
       Missing, MarkGone, Reject, Store, Patch, tables
  <2> QED
    BY <2>1, <2>2, <2>3
<1> QED
  BY <1>4, <1>5, <1>6, <1>7, <1>8, Steps

(* A path that is a dead letter or safe stays one or the other.            *)
LEMMA KeptStays ==
  ASSUME Typed, ClearedIsSafe, Next, NEW p, Kept(p)
  PROVE  Kept(p)'
BY RemovedIsSafe, SafeStays DEF Kept

(* What becomes of thread t in a step: it is called, it goes on with its   *)
(* path, or it ends, and then a persist thread has made its path safe or   *)
(* has it in the dead-letter queue.                                        *)
Called(t) ==
  /\ thread[t].pc = "idle"
  /\ thread'[t].pc = "fetch" /\ thread'[t].path \in Paths
  /\ t = Refresher => thread'[t].path \in stale
  /\ t = Recoverer => thread'[t].path \in batch

GoesOn(t, p) ==
  /\ thread[t].pc # "idle" /\ thread[t].path = p
  /\ thread'[t].pc # "idle" /\ thread'[t].path = p
  /\ thread'[t].pc \in {"clear", "done"} => Safe(p)'

Ends(t, p) ==
  /\ thread[t].pc # "idle" /\ thread[t].path = p
  /\ thread'[t] = Idle
  /\ t \in Workers => Kept(p)'

(* A thread that goes on; what the other threads do is nothing.            *)
LEMMA GotoGoesOn ==
  ASSUME Typed, NEW t \in Threads, NEW p, thread[t].path = p,
         thread[t].pc # "idle", NEW pc, pc # "idle",
         Goto(t, pc), pc \in {"clear", "done"} => Safe(p)'
  PROVE  /\ GoesOn(t, p)
         /\ \A u \in Threads \ {t} : thread'[u] = thread[u]
BY DEF Goto, GoesOn, Typed, TypeOK, ThreadType, Idle

(* A thread that returns with success, its path safe.                      *)
LEMMA ReturnEnds ==
  ASSUME Typed, NEW t \in Threads, NEW p, thread[t].path = p,
         thread[t].pc # "idle", Return(t), Safe(p)'
  PROVE  /\ GoesOn(t, p) \/ Ends(t, p)
         /\ \A u \in Threads \ {t} : thread'[u] = thread[u]
BY DEF Return, GoesOn, Ends, Kept, Typed, TypeOK, ThreadType, Idle

(* A thread that is called.                                                *)
LEMMA CallCalls ==
  ASSUME Typed, NEW t \in Threads, thread[t].pc = "idle", NEW p \in Paths,
         Call(t, p), t = Refresher => p \in stale, t = Recoverer => p \in batch
  PROVE  /\ Called(t)
         /\ \A u \in Threads \ {t} : thread'[u] = thread[u]
BY DEF Call, Called, Typed, TypeOK, ThreadType, Idle

(* One step of one thread's persist.                                       *)
LEMMA PersistMoves ==
  ASSUME Typed, ClearedIsSafe, NEW t \in Threads, NEW p, thread[t].path = p,
         PersistStep(t) \/ FetchFault(t) \/ StoreFault(t)
  PROVE  /\ GoesOn(t, p) \/ Ends(t, p)
         /\ \A u \in Threads \ {t} : thread'[u] = thread[u]
<1>0. /\ thread \in [Threads -> ThreadRecords] /\ thread[t] \in ThreadRecords
      /\ thread[t].pc # "idle" => p \in Paths
  BY DEF Typed, TypeOK, ThreadType
<1>1. CASE Fetch(t)
  BY <1>0, <1>1 DEF Fetch, GoesOn, ThreadRecords
<1>2. CASE FetchFault(t)
  BY <1>0, <1>2 DEF FetchFault, GoesOn, ThreadRecords
<1>3. CASE Missing(t) \/ MarkGone(t)
  BY <1>0, <1>3, GotoGoesOn, ReturnEnds DEF Missing, MarkGone, Safe, tables
<1>4. CASE Reject(t)
  BY <1>4, ReturnEnds DEF Reject, Safe
<1>5. CASE Store(t)
  <2>1. CASE Goto(t, "clear")
    <3>1. Safe(p)'
      BY <1>5, <2>1, <1>0 DEF Store, Safe, Goto, Idle
    <3> QED
      BY <1>5, <2>1, <3>1, GotoGoesOn DEF Store
  <2>2. CASE ~Goto(t, "clear")
    BY <1>0, <1>5, <2>2 DEF Store, GoesOn, ThreadRecords
  <2> QED
    BY <2>1, <2>2
<1>6. CASE Patch(t)
  BY <1>0, <1>6, GotoGoesOn DEF Patch, Safe
<1>7. CASE StoreFault(t)
  BY <1>7, GotoGoesOn DEF StoreFault
<1>8. CASE Clear(t)
  <2>1. Safe(p)'
    BY <1>8 DEF Clear, ClearedIsSafe, Safe, history
  <2> QED
    BY <1>8, <2>1, ReturnEnds DEF Clear
<1>9. CASE Fail(t)
  <2>1. t \in Workers => Kept(p)'
    BY <1>9, ConstantsAssumption DEF Fail, DeadLetter, Kept, Safe
  <2> QED
    BY <1>0, <1>9, <2>1 DEF Fail, Ends
<1> QED
  BY <1>1, <1>2, <1>3, <1>4, <1>5, <1>6, <1>7, <1>8, <1>9 DEF PersistStep

(* Every change of a thread but by a crash is one of the three.            *)
LEMMA ThreadStep ==
  ASSUME Typed, ClearedIsSafe, Next, NEW t \in Threads,
         ~Crash, thread'[t] # thread[t]
  PROVE  Called(t) \/ \E p \in Paths : GoesOn(t, p) \/ Ends(t, p)
<1>1. CASE ModemNext \/ ListenerStep \/ Disconnect \/ SnapshotFault
  BY <1>1 DEF ModemNext, Arrive, Assemble, Vanish, Renumber, ListenerStep,
     Subscribe, FirstSnapshot, LastSnapshot, Disconnect, SnapshotFault, memory
<1>2. CASE RecoveryStep
  BY <1>2, CallCalls, ConstantsAssumption DEF RecoveryStep, Snapshot, Listed,
     SnapshotPut, Refresh, RefreshRow, RefreshEnd, Threads
<1>3. CASE \E w \in Workers : Take(w)
  BY <1>3, CallCalls, ConstantsAssumption DEF Take, Threads, Typed, TypeOK,
     QueueType
<1>4. CASE \/ \E due \in SUBSET Paths : DequeueBatch(due)
           \/ \E p \in Paths : Retry(p) \/ OnAdded(p) \/ RotateRow(p)
  BY <1>4, CallCalls, ConstantsAssumption DEF DequeueBatch, Retry, OnAdded,
     RotateRow, Threads, memory
<1>5. CASE Mark
  BY <1>5, ConstantsAssumption
     DEF Mark, Ends, Threads, Typed, TypeOK, ThreadType
<1>6. CASE \E u \in Threads : PersistStep(u) \/ FetchFault(u) \/ StoreFault(u)
  BY <1>6, PersistMoves DEF GoesOn, Ends, Typed, TypeOK, ThreadType
<1> QED
  BY <1>1, <1>2, <1>3, <1>4, <1>5, <1>6, Steps

(* The refresh is only given rows, the recovery thread only dead letters.  *)
LEMMA ListsStay ==
  ASSUME Typed, Tracking, Next
  PROVE  /\ \A p \in stale' : Safe(p)'
         /\ \A p \in batch' : Kept(p)'
<1>1. ASSUME NEW p PROVE /\ Safe(p) => Safe(p)'
                         /\ Kept(p) => Kept(p)'
  BY SafeStays, KeptStays DEF Tracking
<1>2. \A p \in stale' : Safe(p)
  <2>1. CASE stale' \subseteq stale
    BY <2>1 DEF Tracking, RefreshIsSafe
  <2>2. CASE Refresh
    BY <2>2 DEF Refresh, Safe
  <2>3. CASE ~Refresh
    <3>1. CASE ModemNext \/ ListenerStep \/ Disconnect \/ SnapshotFault \/ Mark
               \/ Crash
      BY <3>1, <2>1 DEF ModemNext, Arrive, Assemble, Vanish, Renumber,
         ListenerStep, Subscribe, FirstSnapshot, LastSnapshot, Disconnect,
         SnapshotFault, Mark, Crash, memory
    <3>2. CASE \/ RecoveryStep \/ \E w \in Workers : Take(w)
               \/ \E due \in SUBSET Paths : DequeueBatch(due)
               \/ \E p \in Paths : Retry(p) \/ OnAdded(p) \/ RotateRow(p)
      BY <3>2, <2>1, <2>3 DEF RecoveryStep, Snapshot, Listed, SnapshotPut,
         RefreshRow, RefreshEnd, Take, DequeueBatch, Retry, OnAdded,
         RotateRow, memory
    <3>3. CASE \E t \in Threads :
                 PersistStep(t) \/ FetchFault(t) \/ StoreFault(t)
      BY <3>3, <2>1 DEF PersistStep, FetchFault, StoreFault, Fetch, Missing,
         MarkGone, Reject, Store, Patch, Clear, Fail
    <3> QED
      BY <3>1, <3>2, <3>3, Steps
  <2> QED
    BY <2>2, <2>3
<1>3. \A p \in batch' : Kept(p)
  <2>1. CASE batch' \subseteq batch
    BY <2>1 DEF Tracking, RetryIsKept
  <2>2. CASE \E due \in SUBSET Paths : DequeueBatch(due)
    BY <2>2 DEF DequeueBatch, Kept
  <2>3. CASE ModemNext \/ ListenerStep \/ Disconnect \/ SnapshotFault \/ Mark
             \/ Crash
    BY <2>3, <2>1 DEF ModemNext, Arrive, Assemble, Vanish, Renumber,
       ListenerStep, Subscribe, FirstSnapshot, LastSnapshot, Disconnect,
       SnapshotFault, Mark, Crash, memory
  <2>4. CASE \/ RecoveryStep \/ \E w \in Workers : Take(w)
             \/ \E p \in Paths : Retry(p) \/ OnAdded(p) \/ RotateRow(p)
    BY <2>4, <2>1 DEF RecoveryStep, Snapshot, Listed, SnapshotPut, Refresh,
       RefreshRow, RefreshEnd, Take, Retry, OnAdded, RotateRow, memory
  <2>5. CASE \E t \in Threads : PersistStep(t) \/ FetchFault(t) \/ StoreFault(t)
    BY <2>5, <2>1 DEF PersistStep, FetchFault, StoreFault, Fetch, Missing,
       MarkGone, Reject, Store, Patch, Clear, Fail
  <2> QED
    BY <2>2, <2>3, <2>4, <2>5, Steps
<1> QED
  BY <1>1, <1>2, <1>3

(* Every step keeps what the threads know of their paths.                  *)
LEMMA TrackingStep == Typed /\ Tracking /\ Next => Tracking'
<1> SUFFICES ASSUME Typed, Tracking, Next PROVE Tracking'
  OBVIOUS
<1> USE DEF Tracking
<1>0. /\ Recoverer \in Threads /\ Refresher \in Threads
      /\ Idle.pc = "idle" /\ thread \in [Threads -> ThreadRecords]
  BY BlankRecords DEF Threads, Typed, TypeOK, ThreadType
<1>1. CASE Crash
  BY <1>1, <1>0 DEF Crash, IdleIsBlank, ClearedIsSafe, RefreshIsSafe,
     RetryIsKept
<1>2. CASE ~Crash
  <2>1. ASSUME NEW t \in Threads
        PROVE  \/ thread'[t] = thread[t] \/ Called(t)
               \/ \E p \in Paths : GoesOn(t, p) \/ Ends(t, p)
    BY <1>2, ThreadStep
  <2>2. ASSUME NEW p PROVE /\ Safe(p) => Safe(p)'
                           /\ Kept(p) => Kept(p)'
    BY SafeStays, KeptStays
  <2>3. IdleIsBlank'
    BY <1>0, <2>1 DEF IdleIsBlank, Called, GoesOn, Ends
  <2>4. ClearedIsSafe'
    <3> SUFFICES ASSUME NEW t \in Threads, NEW p, thread'[t].path = p,
                        thread'[t].pc \in {"clear", "done"}
                 PROVE  Safe(p)'
      BY DEF ClearedIsSafe
    <3> QED
      BY <1>0, <2>1, <2>2 DEF ClearedIsSafe, Called, GoesOn, Ends
  <2>5. RefreshIsSafe'
    <3>1. ASSUME NEW p, thread'[Refresher].path = p,
                 thread'[Refresher].pc # "idle"
          PROVE  Safe(p)
      BY <1>0, <2>1, <3>1 DEF RefreshIsSafe, Called, GoesOn, Ends
    <3> QED
      BY <2>2, <3>1, ListsStay DEF RefreshIsSafe
  <2>6. RetryIsKept'
    <3>1. ASSUME NEW p, thread'[Recoverer].path = p,
                 thread'[Recoverer].pc # "idle"
          PROVE  Kept(p)
      BY <1>0, <2>1, <3>1 DEF RetryIsKept, Called, GoesOn, Ends
    <3> QED
      BY <2>2, <3>1, ListsStay DEF RetryIsKept
  <2> QED
    BY <2>3, <2>4, <2>5, <2>6
<1> QED
  BY <1>1, <1>2

(* Tracking, with the types it is inductive under.                         *)
LEMMA AlwaysTracking == Spec => [](Typed /\ Tracking)
<1> USE DEF Tracking, IdleIsBlank, ClearedIsSafe, RefreshIsSafe, RetryIsKept
<1>1. Init => Tracking
  BY BlankRecords DEF Init, Threads
<1>2. Tracking /\ UNCHANGED vars => Tracking'
  BY DEF vars, tables, memory, history, Kept, Safe
<1> HIDE DEF Tracking
<1> QED
  BY <1>1, <1>2, TrackingStep, AlwaysTyped, PTL DEF Spec

(* No dead letter is removed before its path is safe: not by a recovery    *)
(* thread that marks by a row id, not by a persist thread that clears by   *)
(* path, not by both at the same time.                                     *)
THEOREM NoDeadLetterLost == Spec => DlqLosesNothing
<1> DEFINE Lossless == \A p \in DOMAIN dlq \ DOMAIN dlq' :
                         p \in DOMAIN row \/ p \in dropped
<1>1. Typed /\ Tracking /\ [Next]_vars => Lossless
  BY RemovedIsSafe DEF Tracking, Safe, vars, tables
<1>2. Typed /\ Tracking /\ [Next]_vars => [Lossless]_vars
  BY <1>1
<1> HIDE DEF Lossless
<1>3. Spec => [][Lossless]_vars
  BY <1>2, AlwaysTracking, PTL DEF Spec
<1> QED
  BY <1>3 DEF Lossless, DlqLosesNothing

(* Where a path that was taken may be.                                     *)
Queued(p) == \E i \in 1 .. Len(queue) : queue[i] = p

(* A path that is enqueued is in the queue, a dead letter or refused.      *)
LEMMA EnqueueTracks ==
  ASSUME Typed, NEW p \in Paths, Enqueue(p)
  PROVE  Queued(p)' \/ Kept(p)'
<1>1. CASE Len(queue) < QueueSize
  <2>1. queue' = Append(queue, p) /\ queue \in Seq(Paths)
    BY <1>1 DEF Enqueue, Typed, TypeOK, QueueType
  <2>2. Len(queue') = Len(queue) + 1 /\ queue'[Len(queue) + 1] = p
    BY <2>1
  <2> QED
    BY <2>1, <2>2 DEF Queued
<1>2. CASE ~(Len(queue) < QueueSize)
  BY <1>2 DEF Enqueue, DeadLetter, Kept, Safe
<1> QED
  BY <1>1, <1>2

(* What a step does to the queue and to the paths taken.                   *)
LEMMA QueueStep ==
  ASSUME Next, ~Crash
  PROVE  \/ UNCHANGED <<queue, taken>>
         \/ \E p \in Paths : Enqueue(p)
         \/ UNCHANGED taken /\ \E w \in Workers : Take(w)
<1>1. CASE ModemNext \/ ListenerStep \/ Disconnect \/ SnapshotFault \/ Mark
  BY <1>1 DEF ModemNext, Arrive, Assemble, Vanish, Renumber, ListenerStep,
     Subscribe, FirstSnapshot, LastSnapshot, Disconnect, SnapshotFault, Mark,
     memory, history
<1>2. CASE \/ RecoveryStep \/ \E w \in Workers : Take(w)
           \/ \E due \in SUBSET Paths : DequeueBatch(due)
           \/ \E p \in Paths : Retry(p) \/ OnAdded(p) \/ RotateRow(p)
  BY <1>2 DEF RecoveryStep, Snapshot, Listed, SnapshotPut, Refresh, RefreshRow,
     RefreshEnd, Take, DequeueBatch, Retry, OnAdded, RotateRow, memory, history
<1>3. CASE \E t \in Threads : PersistStep(t) \/ FetchFault(t) \/ StoreFault(t)
  BY <1>3 DEF PersistStep, FetchFault, StoreFault, Fetch, Missing, MarkGone,
     Reject, Store, Patch, Clear, Fail, history
<1> QED
  BY <1>1, <1>2, <1>3, Steps

(* A path in the queue stays there, or a persist thread has it.            *)
LEMMA QueuedStays ==
  ASSUME Typed, Next, ~Crash, NEW p \in Paths, Queued(p)
  PROVE  Queued(p)' \/ Busy(p)'
<1>0. queue \in Seq(Paths)
  BY DEF Typed, TypeOK, QueueType
<1>1. PICK i \in 1 .. Len(queue) : queue[i] = p
  BY DEF Queued
<1>2. CASE UNCHANGED queue
  BY <1>2 DEF Queued
<1>3. ASSUME NEW q \in Paths, Enqueue(q) PROVE Queued(p)'
  <2>1. CASE queue' = Append(queue, q)
    <3>1. Len(queue') = Len(queue) + 1 /\ queue'[i] = queue[i]
      BY <1>0, <1>1, <2>1
    <3>2. i \in 1 .. Len(queue')
      BY <1>0, <3>1
    <3> QED
      BY <1>1, <3>1, <3>2 DEF Queued
  <2>2. CASE UNCHANGED queue
    BY <2>2 DEF Queued
  <2> QED
    BY <1>3, <2>1, <2>2 DEF Enqueue
<1>4. ASSUME NEW w \in Workers, Take(w) PROVE Queued(p)' \/ Busy(p)'
  <2>1. CASE i = 1
    <3>1. thread'[w].path = p
      BY <1>0, <1>1, <1>4, <2>1
         DEF Take, Call, Threads, Typed, TypeOK, ThreadType, Idle
    <3> QED
      BY <3>1 DEF Busy, Threads
  <2>2. CASE i # 1
    <3>1. queue' = Tail(queue) /\ queue # <<>>
      BY <1>4 DEF Take
    <3>2. Len(queue') = Len(queue) - 1 /\ i - 1 \in 1 .. Len(queue')
      BY <1>0, <1>1, <2>2, <3>1
    <3>3. queue'[i - 1] = queue[i]
      BY <1>0, <1>1, <2>2, <3>1, <3>2
    <3> QED
      BY <1>1, <3>2, <3>3 DEF Queued
  <2> QED
    BY <2>1, <2>2
<1> QED
  BY <1>2, <1>3, <1>4, QueueStep

(* A path in a thread's hands stays there until it is safe or a dead       *)
(* letter.                                                                 *)
LEMMA BusyStays ==
  ASSUME Typed, Tracking, Next, ~Crash, NEW p \in Paths, Busy(p)
  PROVE  Busy(p)' \/ Kept(p)'
<1>1. PICK t \in Threads : thread[t].path = p
  BY DEF Busy
<1>2. thread[t].pc # "idle"
  BY <1>1, BlankRecords, ConstantsAssumption DEF Tracking, IdleIsBlank
<1>3. CASE thread'[t] = thread[t] \/ GoesOn(t, p)
  BY <1>1, <1>3 DEF Busy, GoesOn
<1>4. CASE Ends(t, p)
  <2>1. CASE t \in Workers
    BY <1>4, <2>1 DEF Ends
  <2>2. CASE t \notin Workers
    <3>1. Kept(p)
      BY <1>1, <1>2, <2>2 DEF Threads, Tracking, RefreshIsSafe, RetryIsKept,
         Kept
    <3> QED
      BY <3>1, KeptStays DEF Tracking
  <2> QED
    BY <2>1, <2>2
<1> QED
  BY <1>1, <1>2, <1>3, <1>4, ThreadStep
     DEF Tracking, Called, GoesOn, Ends

(* From the queue to the thread, from the thread to the table or to the    *)
(* dead-letter queue, and from there to the table: a path that was taken   *)
(* is never out of sight.                                                  *)
THEOREM AlwaysTracked == Spec => []TakenIsTracked
<1>1. Init => TakenIsTracked
  BY DEF Init, TakenIsTracked
<1>2. TakenIsTracked <=> \A p \in taken : Queued(p) \/ Busy(p) \/ Kept(p)
  BY DEF TakenIsTracked, Queued, Kept, Safe
<1>3. TakenIsTracked' <=>
        \A p \in taken' : Queued(p)' \/ Busy(p)' \/ Kept(p)'
  BY DEF TakenIsTracked, Queued, Kept, Safe, Busy
<1>4. Typed /\ Tracking /\ TakenIsTracked /\ Next => TakenIsTracked'
  <2> SUFFICES ASSUME Typed, Tracking, TakenIsTracked, Next
               PROVE  TakenIsTracked'
    OBVIOUS
  <2>1. CASE Crash
    BY <2>1 DEF Crash, TakenIsTracked
  <2>2. ASSUME ~Crash, NEW p \in taken'
        PROVE  Queued(p)' \/ Busy(p)' \/ Kept(p)'
    <3>1. CASE p \in taken
      <4>1. p \in Paths
        BY <3>1 DEF Typed, TypeOK, HistoryType
      <4> QED
        BY <1>2, <2>2, <3>1, <4>1, QueuedStays, BusyStays, KeptStays
           DEF Tracking
    <3>2. CASE p \notin taken
      <4>1. p \in Paths /\ Enqueue(p)
        BY <2>2, <3>2, QueueStep DEF Enqueue
      <4> QED
        BY <4>1, EnqueueTracks
    <3> QED
      BY <3>1, <3>2
  <2> QED
    BY <1>3, <2>1, <2>2
<1>5. TakenIsTracked /\ UNCHANGED vars => TakenIsTracked'
  BY DEF TakenIsTracked, Busy, vars, tables, memory, history
<1> QED
  BY <1>1, <1>4, <1>5, AlwaysTracking, PTL DEF Spec

-----------------------------------------------------------------------------
(* What is stored was received.                                            *)

(* A snapshot or a row has no more text than its message has.              *)
Received(s) == s.text > 0 => s.of \in Msgs /\ s.text <= text[s.of]

(* It is true of the snapshots in the threads' hands, however old they     *)
(* are, and a patch takes the text with the message it is from.            *)
SeenIsReceived ==
  \A t \in Threads :
    /\ Received(thread[t].seen)
    /\ "text" \in thread[t].fields <=> "of" \in thread[t].fields

(* A text only grows.                                                      *)
LEMMA TextGrows ==
  ASSUME Typed, Next
  PROVE  \A m \in Msgs : text[m] <= text'[m]
<1>1. CASE UNCHANGED text
  BY <1>1 DEF Typed, TypeOK, ModemType
<1>2. CASE \E m \in Msgs : Assemble(m)
  BY <1>2 DEF Assemble, Typed, TypeOK, ModemType
<1>3. CASE ModemNext /\ ~\E m \in Msgs : Assemble(m)
  BY <1>1, <1>3 DEF ModemNext, Arrive, Vanish, Renumber
<1>4. CASE ListenerStep \/ Disconnect \/ SnapshotFault \/ Mark \/ Crash
  BY <1>1, <1>4 DEF ListenerStep, Subscribe, FirstSnapshot, LastSnapshot,
     Disconnect, SnapshotFault, Mark, Crash, modem
<1>5. CASE \/ RecoveryStep \/ \E w \in Workers : Take(w)
           \/ \E due \in SUBSET Paths : DequeueBatch(due)
           \/ \E p \in Paths : Retry(p) \/ OnAdded(p) \/ RotateRow(p)
  BY <1>1, <1>5 DEF RecoveryStep, Snapshot, Listed, SnapshotPut, Refresh,
     RefreshRow, RefreshEnd, Take, DequeueBatch, Retry, OnAdded, RotateRow,
     modem
<1>6. CASE \E t \in Threads : PersistStep(t) \/ FetchFault(t) \/ StoreFault(t)
  BY <1>1, <1>6 DEF PersistStep, FetchFault, StoreFault, Fetch, Missing,
     MarkGone, Reject, Store, Patch, Clear, Fail, modem
<1> QED
  BY <1>2, <1>3, <1>4, <1>5, <1>6, Steps

(* What was received stays received, for a text only grows.                *)
LEMMA ReceivedStays ==
  ASSUME Typed, Next, NEW s \in Rows, Received(s)
  PROVE  Received(s)'
<1>1. CASE s.text > 0
  <2>1. s.of \in Msgs /\ s.text <= text[s.of] /\ s.text \in Nat
    BY <1>1 DEF Received, Rows
  <2>2. text[s.of] <= text'[s.of] /\ text[s.of] \in Nat /\ text'[s.of] \in Nat
    BY <2>1, TextGrows, ModemStepType DEF Typed, TypeOK, ModemType
  <2> QED
    BY <2>1, <2>2 DEF Received
<1> QED
  BY <1>1 DEF Received

(* Where the snapshot in a thread's hands comes from: mmcli showed it when *)
(* the path was fetched, or it is the empty one.                           *)
Fetched(t, p) ==
  /\ at[p] # NoMsg
  /\ thread'[t].pc = "store"
  /\ thread'[t].path = p /\ thread'[t].seen = Shown(p)
  /\ thread'[t].fields = thread[t].fields
  /\ UNCHANGED <<modem, tables, history, bounds>>

(* It is kept when a row is there to be compared with it.                  *)
Compared(t) ==
  LET p == thread[t].path IN
  /\ p \in DOMAIN row /\ UNCHANGED row
  /\ thread'[t].pc = "patch"
  /\ thread'[t].path = p /\ thread'[t].seen = thread[t].seen
  /\ thread'[t].fields = Patched(row[p], thread[t].seen)

(* The thread's next snapshot, for every step.                             *)
LEMMA SeenFrom ==
  ASSUME Typed, Next, NEW t \in Threads
  PROVE  \/ thread'[t] = thread[t]
         \/ /\ thread'[t].seen = Blank
            /\ thread'[t].fields \in {{}, thread[t].fields}
            /\ thread'[t].pc # "patch"
         \/ Compared(t)
         \/ \E p \in Paths : Fetched(t, p)
<1>0. thread \in [Threads -> ThreadRecords] /\ thread[t] \in ThreadRecords
  BY DEF Typed, TypeOK, ThreadType
<1> DEFINE Left(u) == \/ thread'[u] = thread[u]
                      \/ /\ thread'[u].seen = Blank /\ thread'[u].fields = {}
                         /\ thread'[u].pc # "patch"
<1>1. ASSUME NEW u \in Threads, NEW pc, pc # "patch",
             Goto(u, pc) \/ Return(u)
      PROVE  Left(t)
  <2>1. CASE Goto(u, pc)
    BY <1>0, <1>1, <2>1 DEF Goto, Idle
  <2>2. CASE Return(u)
    BY <1>0, <2>2 DEF Return, Idle
  <2> QED
    BY <1>1, <2>1, <2>2
<1>2. ASSUME NEW u \in Threads, NEW p, Call(u, p) PROVE Left(t)
  BY <1>0, <1>2 DEF Call, Idle
<1>3. CASE ModemNext \/ ListenerStep \/ Disconnect \/ SnapshotFault
  BY <1>3 DEF ModemNext, Arrive, Assemble, Vanish, Renumber, ListenerStep,
     Subscribe, FirstSnapshot, LastSnapshot, Disconnect, SnapshotFault, memory
<1>4. CASE Mark \/ Crash
  BY <1>0, <1>4, BlankRecords DEF Mark, Crash
<1>5. CASE \/ RecoveryStep \/ \E w \in Workers : Take(w)
           \/ \E due \in SUBSET Paths : DequeueBatch(due)
           \/ \E p \in Paths : Retry(p) \/ OnAdded(p) \/ RotateRow(p)
  BY <1>2, <1>5 DEF RecoveryStep, Snapshot, Listed, SnapshotPut, Refresh,
     RefreshRow, RefreshEnd, Take, DequeueBatch, Retry, OnAdded, RotateRow,
     memory, Threads
<1>6. ASSUME NEW u \in Threads, t # u,
             PersistStep(u) \/ FetchFault(u) \/ StoreFault(u)
      PROVE  thread'[t] = thread[t]
  BY <1>0, <1>6 DEF PersistStep, FetchFault, StoreFault, Fetch, Missing,
     MarkGone, Reject, Store, Patch, Clear, Fail, Goto, Return
<1>7. CASE Fetch(t)
  <2>1. thread[t].path \in Paths
    BY <1>7 DEF Fetch, Typed, TypeOK, ThreadType
  <2> QED
    BY <1>0, <1>7, <2>1 DEF Fetch, Fetched, ThreadRecords
<1>8. CASE FetchFault(t)
  BY <1>0, <1>8 DEF FetchFault, ThreadRecords
<1>9. CASE Store(t) /\ ~Goto(t, "clear")
  BY <1>0, <1>9 DEF Store, Compared, ThreadRecords
<1>10. CASE Fail(t)
  BY <1>0, <1>10, BlankRecords DEF Fail
<1>11. CASE Goto(t, "failed") \/ Goto(t, "gone") \/ Goto(t, "clear") \/ Return(t)
  BY <1>1, <1>11
<1>12. CASE PersistStep(t) \/ StoreFault(t)
  BY <1>7, <1>9, <1>10, <1>11, <1>12 DEF PersistStep, StoreFault, Missing,
     MarkGone, Reject, Store, Patch, Clear
<1> QED
  BY <1>3, <1>4, <1>5, <1>6, <1>8, <1>12, Steps

(* What a thread has in its hands was received.                            *)
LEMMA SeenStep ==
  ASSUME Typed, SeenIsReceived, Next, NEW t \in Threads
  PROVE  /\ thread'[t].seen \in Rows /\ Received(thread'[t].seen)
         /\ "text" \in thread'[t].fields <=> "of" \in thread'[t].fields
<1>1. /\ thread[t].seen \in Rows /\ Received(thread[t].seen)
      /\ "text" \in thread[t].fields <=> "of" \in thread[t].fields
  BY DEF Typed, TypeOK, ThreadType, ThreadRecords, SeenIsReceived
<1>2. Received(Blank)
  BY DEF Blank, Received
<1>3. \A r, x : "text" \in Patched(r, x) <=> "of" \in Patched(r, x)
  BY DEF Patched
<1>4. ASSUME NEW p \in Paths, Fetched(t, p)
      PROVE  Shown(p) \in Rows /\ Received(Shown(p))
  <2>1. at[p] \in Msgs /\ text[at[p]] \in 0 .. Whole
    BY <1>4 DEF Fetched, Typed, TypeOK, ModemType
  <2> QED
    BY <1>4, <2>1, ShownIsRow DEF Fetched, Shown, Received, Typed, TypeOK
<1> QED
  BY <1>1, <1>2, <1>3, <1>4, BlankRecords, SeenFrom DEF Fetched, Compared

(* Thread t writes the text it has seen, and the message it is from, into  *)
(* the row of path p.                                                      *)
Writes(t, p) ==
  /\ thread[t].path = p /\ row'[p].of = thread[t].seen.of
  /\ row'[p].text = thread[t].seen.text
  /\ p \in DOMAIN row =>
       thread[t].pc = "patch" /\ "text" \in thread[t].fields

(* Where the text of a row comes from.                                     *)
LEMMA RowFrom ==
  ASSUME Typed, SeenIsReceived, Next, NEW p \in DOMAIN row'
  PROVE  \/ /\ p \in DOMAIN row
            /\ row'[p].of = row[p].of /\ row'[p].text = row[p].text
         \/ \E t \in Threads : Writes(t, p)
<1>0. \A q \in DOMAIN row : row[q] \in Rows
  BY DEF Typed, TypeOK, RowType
<1> DEFINE Same == /\ p \in DOMAIN row
                   /\ row'[p].of = row[p].of /\ row'[p].text = row[p].text
<1>1. CASE UNCHANGED row
  BY <1>1
<1>2. CASE ModemNext \/ ListenerStep \/ Disconnect \/ SnapshotFault \/ Mark
           \/ Crash
  BY <1>1, <1>2 DEF ModemNext, Arrive, Assemble, Vanish, Renumber,
     ListenerStep, Subscribe, FirstSnapshot, LastSnapshot, Disconnect,
     SnapshotFault, Mark, Crash, tables
<1>3. CASE \/ RecoveryStep \/ \E w \in Workers : Take(w)
           \/ \E due \in SUBSET Paths : DequeueBatch(due)
           \/ \E q \in Paths : Retry(q) \/ OnAdded(q)
  BY <1>1, <1>3 DEF RecoveryStep, Snapshot, Listed, SnapshotPut, Refresh,
     RefreshRow, RefreshEnd, Take, DequeueBatch, Retry, OnAdded, tables
<1>4. CASE \E q \in Paths : RotateRow(q)
  BY <1>4 DEF RotateRow
<1>5. ASSUME NEW t \in Threads, PersistStep(t) \/ FetchFault(t) \/ StoreFault(t)
      PROVE  Same \/ Writes(t, p)
  <2> DEFINE s == thread[t].seen
             q == thread[t].path
  <2>1. CASE MarkGone(t)
    <3>1. CASE q \in DOMAIN row
      <4>1. row' = [row EXCEPT ![q].state = "unavailable"]
        BY <2>1, <3>1 DEF MarkGone
      <4>2. p \in DOMAIN row
        BY <4>1
      <4> QED
        BY <1>0, <4>1, <4>2 DEF Rows
    <3>2. CASE q \notin DOMAIN row
      BY <1>1, <2>1, <3>2 DEF MarkGone
    <3> QED
      BY <3>1, <3>2
  <2>2. CASE Store(t)
    BY <1>1, <2>2 DEF Store, Writes
  <2>3. CASE Patch(t) /\ q \in DOMAIN row
    <3> DEFINE new == [f \in DOMAIN Blank |->
                         IF f \in thread[t].fields THEN s[f] ELSE row[q][f]]
    <3>1. row' = [row EXCEPT ![q] = new] /\ thread[t].pc = "patch"
      BY <2>3 DEF Patch
    <3>2. \/ /\ new.text = s.text /\ new.of = s.of
             /\ "text" \in thread[t].fields
          \/ new.text = row[q].text /\ new.of = row[q].of
      BY DEF SeenIsReceived, Blank
    <3> HIDE DEF new
    <3> QED
      BY <3>1, <3>2 DEF Writes
  <2>4. CASE ~MarkGone(t) /\ ~Store(t) /\ ~(Patch(t) /\ q \in DOMAIN row)
    BY <1>1, <1>5, <2>4 DEF PersistStep, FetchFault, StoreFault, Fetch,
       Missing, Reject, Patch, Clear, Fail, tables
  <2> QED
    BY <2>1, <2>2, <2>3, <2>4
<1> QED
  BY <1>2, <1>3, <1>4, <1>5, Steps

(* So what a row shows was received.                                       *)
LEMMA RowStep ==
  ASSUME Typed, SeenIsReceived, TextWasReceived, Next, NEW p \in DOMAIN row'
  PROVE  Received(row'[p])
BY RowFrom DEF TextWasReceived, SeenIsReceived, Received, Writes

(* Rows and snapshots are always of that kind.                             *)
LEMMA AlwaysReceived == Spec => [](TextWasReceived /\ SeenIsReceived)
<1> DEFINE Inv == TextWasReceived /\ SeenIsReceived
<1>1. Init => Inv
  <2>1. Received(Blank)
    BY DEF Received, Blank
  <2> QED
    BY <2>1, BlankRecords DEF Init, TextWasReceived, SeenIsReceived
<1>2. Typed /\ Inv /\ Next => Inv'
  <2> SUFFICES ASSUME Typed, Inv, Next PROVE Inv'
    OBVIOUS
  <2>1. SeenIsReceived'
    <3> SUFFICES ASSUME NEW t \in Threads
                 PROVE  /\ Received(thread[t].seen)'
                        /\ ("text" \in thread[t].fields
                             <=> "of" \in thread[t].fields)'
      BY DEF SeenIsReceived
    <3>1. \A s \in Rows : Received(s) => Received(s)'
      BY ReceivedStays
    <3> QED
      BY <3>1, SeenStep DEF Received
  <2>2. TextWasReceived'
    <3> SUFFICES ASSUME NEW p \in DOMAIN row' PROVE Received(row[p])'
      BY DEF TextWasReceived, Received
    <3>1. row'[p] \in Rows /\ Received(row'[p])
      BY RowStep, RowStepType DEF Typed, RowType
    <3>2. PICK s \in Rows : s = row'[p]
      BY <3>1
    <3>3. Received(s)'
      BY <3>1, <3>2, ReceivedStays DEF Received
    <3> QED
      BY <3>2, <3>3 DEF Received
  <2> QED
    BY <2>1, <2>2
<1>3. Inv /\ UNCHANGED vars => Inv'
  BY DEF TextWasReceived, SeenIsReceived, Received, vars, modem, tables, memory
<1> QED
  BY <1>1, <1>2, <1>3, AlwaysTyped, PTL DEF Spec

(* No row has more text than its message, however old the snapshots that   *)
(* are patched into it are and whatever message they show.                 *)
THEOREM OnlyReceivedText == Spec => []TextWasReceived
BY AlwaysReceived, PTL

-----------------------------------------------------------------------------
(* A message gets one row.                                                 *)

(* Thread t is about to store what it saw of message m under path p.       *)
InHand(t, p, m) ==
  thread[t].pc = "store" /\ thread[t].path = p /\ thread[t].seen.of = m

(* The paths that may still get a row with the text of message m.          *)
Candidates(m) ==
  {p \in Paths \ DOMAIN row :
     at[p] = m \/ \E t \in Threads : InHand(t, p, m)}

(* Each of them may get its row, and that is no more than one row, and one *)
(* for each rotation and renumbering.                                      *)
Room(m) ==
  /\ IsFiniteSet(Candidates(m))
  /\ created[m] + Cardinality(Candidates(m)) <= 1 + rotations + renumberings

(* A message has one object on the modem.                                  *)
OneObject == \A p, q \in Paths : at[p] = at[q] /\ at[p] # NoMsg => p = q

(* There is none of a message that has not arrived, nor was it ever seen.  *)
FromArrived ==
  /\ \A p \in Paths : at[p] \in arrived \cup {NoMsg}
  /\ \A t \in Threads : thread[t].seen.of \in arrived \cup {NoMsg}
  /\ \A m \in Msgs \ arrived : created[m] = 0

RowsLeft == OneObject /\ FromArrived /\ \A m \in arrived : Room(m)

(* The counters are numbers.                                               *)
LEMMA Counts ==
  ASSUME Typed, NEW m \in Msgs
  PROVE  created[m] \in Nat /\ rotations \in Nat /\ renumberings \in Nat
BY DEF Typed, TypeOK, HistoryType, BoundsType

(* One more candidate has room when one more was made.                     *)
LEMMA OneMore ==
  ASSUME NEW c \in Nat, NEW d \in Nat, NEW k \in Nat, NEW r \in Nat,
         NEW n \in Nat, NEW u \in Nat, NEW v \in Nat,
         d <= c + 1, k + c <= 1 + r + n, r + n + 1 <= u + v
  PROVE  k + d <= 1 + u + v
OBVIOUS

(* Room is kept when no candidate is added and no row is created; when one *)
(* candidate is added for a rotation or renumbering; and when a candidate  *)
(* gets its row.                                                           *)
LEMMA RoomKept ==
  ASSUME Typed, Typed', NEW m \in Msgs, Room(m),
         Candidates(m)' \subseteq Candidates(m), created'[m] = created[m],
         rotations + renumberings <= rotations' + renumberings'
  PROVE  Room(m)'
<1>1. /\ IsFiniteSet(Candidates(m)')
      /\ Cardinality(Candidates(m)') <= Cardinality(Candidates(m))
      /\ Cardinality(Candidates(m)) \in Nat
      /\ Cardinality(Candidates(m)') \in Nat
  BY FS_Subset, FS_CardinalityType DEF Room
<1>2. /\ created[m] \in Nat /\ rotations \in Nat /\ renumberings \in Nat
      /\ rotations' \in Nat /\ renumberings' \in Nat
  BY Counts DEF Typed, TypeOK, BoundsType
<1> DEFINE c == Cardinality(Candidates(m))
           d == Cardinality(Candidates(m)')
<1>3. created[m] + c <= 1 + rotations + renumberings
  BY DEF Room
<1>4. c \in Nat /\ d \in Nat /\ d <= c
  BY <1>1
<1> HIDE DEF c, d
<1>5. created[m] + d <= 1 + rotations' + renumberings'
  BY <1>2, <1>3, <1>4
<1> QED
  BY <1>1, <1>5 DEF Room, d

(* One candidate is added, and one rotation or renumbering counted.        *)
LEMMA RoomMade ==
  ASSUME Typed, Typed', NEW m \in Msgs, Room(m), NEW p,
         Candidates(m)' \subseteq Candidates(m) \cup {p},
         created'[m] = created[m],
         rotations + renumberings + 1 <= rotations' + renumberings'
  PROVE  Room(m)'
<1> DEFINE C == Candidates(m) \cup {p}
<1>1. /\ IsFiniteSet(C) /\ Cardinality(Candidates(m)) \in Nat
      /\ Cardinality(C) <= Cardinality(Candidates(m)) + 1
  <2>1. IsFiniteSet(Candidates(m))
    BY DEF Room
  <2>2. Cardinality(Candidates(m)) \in Nat
    BY <2>1, FS_CardinalityType
  <2>3. /\ IsFiniteSet(C)
        /\ \/ Cardinality(C) = Cardinality(Candidates(m))
           \/ Cardinality(C) = Cardinality(Candidates(m)) + 1
    BY <2>1, FS_AddElement
  <2> QED
    BY <2>2, <2>3
<1>2. /\ IsFiniteSet(Candidates(m)')
      /\ Cardinality(Candidates(m)') <= Cardinality(C)
      /\ Cardinality(C) \in Nat /\ Cardinality(Candidates(m)') \in Nat
  BY <1>1, FS_Subset, FS_CardinalityType
<1>3. /\ created[m] \in Nat /\ rotations \in Nat /\ renumberings \in Nat
      /\ rotations' \in Nat /\ renumberings' \in Nat
  BY Counts DEF Typed, TypeOK, BoundsType
<1> DEFINE c == Cardinality(Candidates(m))
           d == Cardinality(Candidates(m)')
<1>4. /\ c \in Nat /\ d \in Nat /\ d <= c + 1
      /\ created[m] + c <= 1 + rotations + renumberings
  BY <1>1, <1>2 DEF Room
<1> HIDE DEF c, d
<1>5. created[m] + d <= 1 + rotations' + renumberings'
  BY <1>3, <1>4, OneMore
<1> QED
  BY <1>2, <1>5 DEF Room, d

(* A candidate gets its row.                                               *)
LEMMA RoomUsed ==
  ASSUME Typed, Typed', NEW m \in Msgs, Room(m), NEW p \in Candidates(m),
         Candidates(m)' \subseteq Candidates(m) \ {p},
         created'[m] = created[m] + 1,
         rotations' = rotations, renumberings' = renumberings
  PROVE  Room(m)'
<1> DEFINE C == Candidates(m) \ {p}
<1>1. /\ IsFiniteSet(C) /\ Cardinality(Candidates(m)) \in Nat
      /\ Cardinality(C) = Cardinality(Candidates(m)) - 1
  BY FS_RemoveElement, FS_CardinalityType DEF Room
<1>2. /\ IsFiniteSet(Candidates(m)')
      /\ Cardinality(Candidates(m)') <= Cardinality(C)
      /\ Cardinality(C) \in Nat /\ Cardinality(Candidates(m)') \in Nat
  BY <1>1, FS_Subset, FS_CardinalityType
<1>3. /\ created[m] \in Nat /\ rotations \in Nat /\ renumberings \in Nat
      /\ rotations' \in Nat /\ renumberings' \in Nat
  BY Counts DEF Typed, TypeOK, BoundsType
<1> DEFINE c == Cardinality(Candidates(m))
           d == Cardinality(Candidates(m)')
<1>4. /\ c \in Nat /\ d \in Nat /\ d + 1 <= c
      /\ created[m] + c <= 1 + rotations + renumberings
  BY <1>1, <1>2 DEF Room
<1> HIDE DEF c, d
<1>5. created'[m] + d <= 1 + rotations' + renumberings'
  BY <1>3, <1>4
<1> QED
  BY <1>2, <1>5 DEF Room, d

(* What a thread has in its hands after a step it had before, or it has    *)
(* just fetched it.                                                        *)
LEMMA InHandStep ==
  ASSUME Typed, Next, NEW t \in Threads, NEW p, NEW m \in Msgs,
         InHand(t, p, m)'
  PROVE  InHand(t, p, m) \/ at[p] = m
<1>1. thread'[t].seen.of # NoMsg /\ thread'[t].pc = "store"
  BY ConstantsAssumption DEF InHand
<1>2. thread'[t].seen # Blank
  <2>1. Blank.of = NoMsg
    BY DEF Blank
  <2> QED
    BY <1>1, <2>1
<1>3. CASE thread'[t] = thread[t]
  BY <1>3 DEF InHand
<1>4. CASE \E q \in Paths : Fetched(t, q)
  BY <1>4 DEF InHand, Fetched, Shown
<1> QED
  BY <1>1, <1>2, <1>3, <1>4, SeenFrom DEF Compared

(* A step that leaves the objects and the rows where they are, or takes    *)
(* some objects away or adds some rows, adds no candidate.                 *)
LEMMA NoCandidateAdded ==
  ASSUME Typed, Next, NEW m \in Msgs, DOMAIN row \subseteq DOMAIN row',
         \A p \in Paths : at'[p] = m => at[p] = m
  PROVE  Candidates(m)' \subseteq Candidates(m)
BY InHandStep DEF Candidates

(* The steps that matter to the rows and the objects, and the others.      *)
Creates(t) == Store(t) /\ thread[t].path \notin DOMAIN row

(* Every step is one of those that matter, or leaves them alone.           *)
LEMMA RowSteps ==
  ASSUME Typed, Next
  PROVE  \/ \E m \in Msgs, p \in Paths : Arrive(m, p)
         \/ Renumber
         \/ \E p \in Paths : RotateRow(p)
         \/ \E t \in Threads : Creates(t)
         \/ /\ UNCHANGED <<used, arrived, created, rotations, renumberings>>
            /\ DOMAIN row \subseteq DOMAIN row'
            /\ \A p \in Paths : at'[p] \in {at[p], NoMsg}
<1> DEFINE Other == /\ UNCHANGED <<used, arrived, created, rotations, renumberings>>
                    /\ DOMAIN row \subseteq DOMAIN row'
                    /\ \A p \in Paths : at'[p] \in {at[p], NoMsg}
<1>1. CASE \/ \E m \in Msgs : Assemble(m)
           \/ \E p \in Paths : Vanish(p)
  BY <1>1 DEF Assemble, Vanish, tables, history, bounds, Typed, TypeOK,
     ModemType
<1>2. CASE ListenerStep \/ Disconnect \/ SnapshotFault \/ Mark \/ Crash
  BY <1>2 DEF ListenerStep, Subscribe, FirstSnapshot, LastSnapshot,
     Disconnect, SnapshotFault, Mark, Crash, modem, tables, history, bounds
<1>3. CASE \/ RecoveryStep \/ \E w \in Workers : Take(w)
           \/ \E due \in SUBSET Paths : DequeueBatch(due)
           \/ \E p \in Paths : Retry(p) \/ OnAdded(p)
  BY <1>3 DEF RecoveryStep, Snapshot, Listed, SnapshotPut, Refresh, RefreshRow,
     RefreshEnd, Take, DequeueBatch, Retry, OnAdded, modem, tables, history,
     bounds
<1>4. ASSUME NEW t \in Threads, PersistStep(t) \/ FetchFault(t) \/ StoreFault(t)
      PROVE  Creates(t) \/ Other
  <2>1. CASE Store(t) \/ Missing(t) \/ MarkGone(t) \/ Patch(t)
    BY <2>1 DEF Creates, Store, Missing, MarkGone, Patch, modem, tables,
                history, bounds
  <2>2. CASE Fail(t) \/ Reject(t) \/ Fetch(t) \/ Clear(t)
    BY <2>2 DEF Fail, Reject, Fetch, Clear, modem, tables, history, bounds
  <2>3. CASE FetchFault(t) \/ StoreFault(t)
    BY <2>3 DEF FetchFault, StoreFault, modem, tables, history, bounds
  <2> QED
    BY <1>4, <2>1, <2>2, <2>3 DEF PersistStep
<1> QED
  BY <1>1, <1>2, <1>3, <1>4, Steps DEF ModemNext

(* The objects of ModemManager are one for each message that has arrived.  *)
LEMMA ObjectStep ==
  ASSUME Typed, OneObject, FromArrived, Next
  PROVE  /\ OneObject' /\ arrived \subseteq arrived'
         /\ \A p \in Paths : at'[p] \in arrived' \cup {NoMsg}
<1> USE DEF OneObject, FromArrived
<1>1. CASE \E m \in Msgs, p \in Paths : Arrive(m, p)
  BY <1>1, ConstantsAssumption DEF Arrive, Typed, TypeOK, ModemType
<1>2. CASE Renumber
  <2>1. PICK new \in [Held -> Paths] :
          /\ used' = {new[p] : p \in Held}
          /\ at' = [q \in Paths |->
                      IF q \in used'
                        THEN at[CHOOSE p \in Held : new[p] = q] ELSE NoMsg]
    BY <1>2 DEF Renumber
  <2> DEFINE Old(q) == CHOOSE p \in Held : new[p] = q
  <2>2. \A q \in used' : Old(q) \in Held /\ new[Old(q)] = q
    BY <2>1
  <2>3. \A q \in Paths : at'[q] = IF q \in used' THEN at[Old(q)] ELSE NoMsg
    BY <2>1
  <2> HIDE DEF Old
  <2> QED
    BY <1>2, <2>2, <2>3 DEF Renumber, Held
<1>3. CASE arrived' = arrived /\ \A p \in Paths : at'[p] \in {at[p], NoMsg}
  BY <1>3
<1>4. CASE \E p \in Paths : RotateRow(p)
  BY <1>3, <1>4 DEF RotateRow, modem
<1>5. CASE \E t \in Threads : Creates(t)
  BY <1>3, <1>5 DEF Creates, Store, modem
<1> QED
  BY <1>1, <1>2, <1>3, <1>4, <1>5, RowSteps

(* Nothing of a message is seen or stored before it arrives.               *)
LEMMA FromArrivedStep ==
  ASSUME Typed, OneObject, FromArrived, Next
  PROVE  FromArrived'
<1>1. ASSUME NEW t \in Threads
      PROVE  thread'[t].seen.of \in arrived' \cup {NoMsg}
  <2>1. Blank.of = NoMsg
    BY DEF Blank
  <2>2. \A p : Shown(p).of = at[p]
    BY DEF Shown
  <2> QED
    BY <2>1, <2>2, SeenFrom, ObjectStep
       DEF FromArrived, Fetched, Compared
<1>2. ASSUME NEW m \in Msgs \ arrived' PROVE created'[m] = 0
  <2>1. m \notin arrived /\ created[m] = 0
    BY <1>2, ObjectStep DEF FromArrived
  <2>2. CASE UNCHANGED created
    BY <2>1, <2>2
  <2>3. ASSUME NEW t \in Threads, Creates(t) PROVE created'[m] = 0
    <3>1. m # thread[t].seen.of
      BY <2>1, ConstantsAssumption DEF FromArrived
    <3> QED
      BY <2>1, <2>3, <3>1 DEF Creates, Store
  <2> QED
    BY <2>2, <2>3, RowSteps DEF Arrive, Renumber, RotateRow, history
<1> QED
  BY <1>1, <1>2, ObjectStep DEF FromArrived

(* Every step leaves each message room for its rows.                       *)
LEMMA RowsLeftStep == Typed /\ Typed' /\ RowsLeft /\ Next => RowsLeft'
<1> SUFFICES ASSUME Typed, Typed', RowsLeft, Next, NEW m \in arrived'
             PROVE  Room(m)'
  BY ObjectStep, FromArrivedStep DEF RowsLeft
<1>0. /\ OneObject /\ FromArrived /\ arrived' \subseteq Msgs /\ m \in Msgs
      /\ m \in arrived => Room(m)
  BY DEF RowsLeft, Typed, TypeOK, ModemType
<1>1. ASSUME NEW n \in Msgs, NEW p \in Paths, Arrive(n, p) PROVE Room(m)'
  <2>1. CASE m = n
    <3>1. m \notin arrived /\ created[m] = 0 /\ created' = created
      BY <1>1, <2>1 DEF Arrive, RowsLeft, FromArrived, history
    <3>2. Candidates(m)' \subseteq {p}
      BY <1>1, <2>1, <3>1, ConstantsAssumption
         DEF Candidates, InHand, Arrive, RowsLeft, FromArrived, memory
    <3>3. IsFiniteSet(Candidates(m)') /\ Cardinality(Candidates(m)') <= 1
      <4>1. IsFiniteSet({p}) /\ Cardinality({p}) = 1
        BY FS_Singleton
      <4> QED
        BY <3>2, <4>1, FS_Subset
    <3>4. rotations' \in Nat /\ renumberings' \in Nat
      BY DEF Typed, TypeOK, BoundsType
    <3>5. Cardinality(Candidates(m)') \in Nat
      BY <3>3, FS_CardinalityType
    <3> QED
      BY <3>1, <3>3, <3>4, <3>5 DEF Room
  <2>2. CASE m # n
    <3>1. m \in arrived
      BY <1>1, <2>2 DEF Arrive
    <3>2. /\ \A q \in Paths : at'[q] = m => at[q] = m
          /\ UNCHANGED <<row, created, rotations, renumberings>>
      BY <1>1, <2>2 DEF Arrive, Typed, TypeOK, ModemType, tables, history,
         bounds
    <3>3. Candidates(m)' \subseteq Candidates(m)
      BY <1>0, <3>2, NoCandidateAdded
    <3> QED
      BY <1>0, <3>1, <3>2, <3>3, RoomKept, Counts
  <2> QED
    BY <2>1, <2>2
<1>2. CASE Renumber
  <2>1. /\ m \in arrived /\ UNCHANGED <<thread, row, created, rotations>>
        /\ renumberings' = renumberings + 1
    BY <1>2 DEF Renumber, memory, tables, history
  <2>2. \E p : \A q \in Paths : at'[q] = m => q = p
    <3>1. \A p, q \in Paths : at'[p] = m /\ at'[q] = m => p = q
      BY <1>0, ObjectStep, ConstantsAssumption DEF OneObject
    <3> QED
      BY <3>1
  <2>3. PICK p : \A q \in Paths : at'[q] = m => q = p
    BY <2>2
  <2>4. Candidates(m)' \subseteq Candidates(m) \cup {p}
    BY <2>1, <2>3 DEF Candidates, InHand
  <2> QED
    BY <1>0, <2>1, <2>4, RoomMade, Counts
<1>3. ASSUME NEW p \in Paths, RotateRow(p) PROVE Room(m)'
  <2>1. /\ m \in arrived
        /\ UNCHANGED <<at, thread, created, renumberings>>
        /\ rotations' = rotations + 1
        /\ DOMAIN row' = DOMAIN row \ {p}
    BY <1>3 DEF RotateRow, modem, memory
  <2>2. Candidates(m)' \subseteq Candidates(m) \cup {p}
    BY <2>1 DEF Candidates, InHand
  <2> QED
    BY <1>0, <2>1, <2>2, RoomMade, Counts
<1>4. ASSUME NEW t \in Threads, Creates(t) PROVE Room(m)'
  <2>0. PICK p \in Paths : p = thread[t].path
    BY <1>4 DEF Creates, Store, Typed, TypeOK, ThreadType
  <2>1. /\ m \in arrived /\ p \notin DOMAIN row
        /\ DOMAIN row' = DOMAIN row \cup {p}
        /\ UNCHANGED <<at, rotations, renumberings>>
    BY <1>4, <2>0 DEF Creates, Store, modem, bounds
  <2>2. Candidates(m)' \subseteq Candidates(m) \ {p}
    <3>1. Candidates(m)' \subseteq Candidates(m)
      BY <1>0, <2>1, NoCandidateAdded
    <3>2. p \notin Candidates(m)'
      BY <2>1 DEF Candidates
    <3> QED
      BY <3>1, <3>2
  <2>3. CASE m = thread[t].seen.of
    <3>1. p \in Candidates(m)
      BY <1>4, <2>0, <2>1, <2>3 DEF Creates, Store, Candidates, InHand
    <3>2. created'[m] = created[m] + 1
      BY <1>0, <1>4, <2>3 DEF Creates, Store
    <3> QED
      BY <1>0, <2>1, <2>2, <3>1, <3>2, RoomUsed
  <2>4. CASE m # thread[t].seen.of
    <3>1. created'[m] = created[m]
      BY <1>0, <1>4, <2>4 DEF Creates, Store
    <3> QED
      BY <1>0, <2>1, <2>2, <3>1, RoomKept, Counts
  <2> QED
    BY <2>3, <2>4
<1>5. CASE /\ UNCHANGED <<arrived, created, rotations, renumberings>>
           /\ DOMAIN row \subseteq DOMAIN row'
           /\ \A p \in Paths : at'[p] \in {at[p], NoMsg}
  <2>1. Candidates(m)' \subseteq Candidates(m)
    BY <1>0, <1>5, NoCandidateAdded, ConstantsAssumption
  <2> QED
    BY <1>0, <1>5, <2>1, RoomKept, Counts
<1> QED
  BY <1>1, <1>2, <1>3, <1>4, <1>5, RowSteps

(* However many threads have the path of a message at the same time, and   *)
(* whatever path it has after a renumbering, it gets one row, and one more *)
(* for each rotation and renumbering: whoever finds no row creates it in   *)
(* one step, and each of the paths it may still be created for is counted. *)
THEOREM OneRowEach == Spec => []OneRowPerMessage
<1>1. Init => RowsLeft
  <2>1. Blank.of = NoMsg
    BY DEF Blank
  <2> QED
    BY <2>1, BlankRecords DEF Init, RowsLeft, OneObject, FromArrived
<1>2. RowsLeft /\ UNCHANGED vars => RowsLeft'
  BY DEF RowsLeft, OneObject, FromArrived, Room, Candidates, InHand, vars,
     modem, tables, memory, history, bounds
<1>3. Typed /\ RowsLeft => OneRowPerMessage
  <2> SUFFICES ASSUME Typed, RowsLeft, NEW m \in Msgs
               PROVE  created[m] <= 1 + rotations + renumberings
    BY DEF OneRowPerMessage
  <2>1. created[m] \in Nat /\ rotations \in Nat /\ renumberings \in Nat
    BY Counts
  <2>2. CASE m \in arrived
    <3>1. Room(m)
      BY <2>2 DEF RowsLeft
    <3>2. Cardinality(Candidates(m)) \in Nat
      BY <3>1, FS_CardinalityType DEF Room
    <3> QED
      BY <2>1, <3>1, <3>2 DEF Room
  <2>3. CASE m \notin arrived
    BY <2>1, <2>3 DEF RowsLeft, FromArrived
  <2> QED
    BY <2>2, <2>3
<1> QED
  BY <1>1, <1>2, <1>3, RowsLeftStep, AlwaysTyped, TypedStep, PTL DEF Spec

-----------------------------------------------------------------------------
(* What was persisted is stored.                                           *)

(* No path has been given to another message, and no row was rotated away. *)
Calm == rotations = 0 /\ renumberings = 0

(* Message m has left a trace at path p.                                   *)
Trace(p, m) ==
  \/ at[p] = m
  \/ p \in DOMAIN row /\ row[p].of = m
  \/ \E t \in Threads : thread[t].path = p /\ thread[t].seen.of = m

(* Then the traces at a path are of one message, the one it was given to.  *)
OneMessage ==
  \A p \in Paths, m \in Msgs : Trace(p, m) =>
    /\ p \in used
    /\ \A n \in Msgs : Trace(p, n) => m = n

(* Who is about to patch a row finds it, and leaves it with a text if it   *)
(* has seen one.                                                           *)
PatchesText ==
  \A t \in Threads : thread[t].pc = "patch" =>
    /\ thread[t].path \in DOMAIN row
    /\ IF "text" \in thread[t].fields
         THEN thread[t].seen.text > 0
         ELSE thread[t].seen.text > 0 => row[thread[t].path].text > 0

CalmInv == OneMessage /\ PatchesText

(* It was calm before whenever it is calm.                                 *)
LEMMA CalmSteps ==
  ASSUME Typed, Next, Calm'
  PROVE  /\ Calm /\ DOMAIN row \subseteq DOMAIN row'
         /\ \/ \E m \in Msgs, p \in Paths : Arrive(m, p)
            \/ /\ \A p \in Paths : at'[p] \in {at[p], NoMsg}
               /\ UNCHANGED used
<1>0. rotations \in Nat /\ renumberings \in Nat
  BY DEF Typed, TypeOK, BoundsType
<1>1. ~Renumber /\ ~\E p \in Paths : RotateRow(p)
  <2>1. rotations' = 0 /\ renumberings' = 0
    BY DEF Calm
  <2>2. Renumber => renumberings' = renumberings + 1
    BY DEF Renumber
  <2>3. \A p \in Paths : RotateRow(p) => rotations' = rotations + 1
    BY DEF RotateRow
  <2> QED
    BY <1>0, <2>1, <2>2, <2>3
<1>2. Calm /\ DOMAIN row \subseteq DOMAIN row'
  BY <1>1, RowSteps DEF Calm, Creates, Store, Arrive, tables, bounds
<1> QED
  BY <1>1, <1>2, RowSteps DEF Creates, Store, modem

(* A trace at a path was there before, or its message has just arrived.    *)
LEMMA TraceStep ==
  ASSUME Typed, SeenIsReceived, Next, Calm', NEW p \in Paths, NEW m \in Msgs,
         Trace(p, m)'
  PROVE  Trace(p, m) \/ Arrive(m, p)
<1>1. CASE at'[p] = m
  BY <1>1, CalmSteps, ConstantsAssumption DEF Trace, Arrive, Typed, TypeOK,
     ModemType
<1>2. CASE p \in DOMAIN row' /\ row'[p].of = m
  BY <1>2, RowFrom DEF Trace, Writes
<1>3. ASSUME NEW t \in Threads, thread'[t].path = p, thread'[t].seen.of = m
      PROVE  Trace(p, m)
  <2>1. Blank.of # m
    BY ConstantsAssumption DEF Blank
  <2>2. CASE thread'[t] = thread[t] \/ Compared(t)
    BY <1>3, <2>2 DEF Compared, Trace
  <2>3. CASE \E q \in Paths : Fetched(t, q)
    BY <1>3, <2>3 DEF Fetched, Shown, Trace
  <2> QED
    BY <1>3, <2>1, <2>2, <2>3, SeenFrom
<1> QED
  BY <1>1, <1>2, <1>3 DEF Trace

(* Each path keeps its one message.                                        *)
LEMMA OneMessageStep ==
  ASSUME Typed, SeenIsReceived, OneMessage, Next, Calm'
  PROVE  OneMessage'
<1> SUFFICES ASSUME NEW p \in Paths, NEW m \in Msgs, Trace(p, m)'
             PROVE  /\ p \in used'
                    /\ \A n \in Msgs : Trace(p, n)' => m = n
  BY DEF OneMessage
<1>1. ASSUME NEW n \in Msgs, Arrive(n, p)
      PROVE  /\ p \in used' /\ \A k \in Msgs : ~Trace(p, k)
             /\ \A k \in Msgs : Arrive(k, p) => k = n
  BY <1>1, ConstantsAssumption DEF Arrive, OneMessage, Typed, TypeOK, ModemType
<1>2. used \subseteq used'
  BY CalmSteps DEF Arrive
<1> QED
  BY <1>1, <1>2, TraceStep DEF OneMessage

(* A text that a row has stays until the row goes.                         *)
LEMMA PatchesTextStep ==
  ASSUME Typed, SeenIsReceived, PatchesText, Next, Calm'
  PROVE  PatchesText'
<1>1. ASSUME NEW p \in DOMAIN row, row[p].text > 0
      PROVE  row'[p].text > 0
  BY <1>1, CalmSteps, RowFrom DEF Writes, PatchesText
<1> SUFFICES ASSUME NEW t \in Threads, thread'[t].pc = "patch"
             PROVE  /\ thread'[t].path \in DOMAIN row'
                    /\ IF "text" \in thread'[t].fields
                         THEN thread'[t].seen.text > 0
                         ELSE thread'[t].seen.text > 0
                                => row'[thread'[t].path].text > 0
  BY DEF PatchesText
<1>2. CASE thread'[t] = thread[t]
  BY <1>1, <1>2, CalmSteps DEF PatchesText
<1>3. CASE Compared(t)
  <2> DEFINE r == row[thread[t].path]
             s == thread[t].seen
  <2>1. /\ r \in Rows /\ s \in Rows
    BY <1>3 DEF Compared, Typed, TypeOK, RowType, ThreadType, ThreadRecords
  <2>2. r.text \in Nat /\ s.text \in Nat
    BY <2>1 DEF Rows
  <2>3. "text" \in Patched(r, s) <=> s.text > r.text
    BY DEF Patched
  <2> HIDE DEF r, s
  <2> QED
    BY <1>3, <2>2, <2>3 DEF Compared, r, s
<1> QED
  BY <1>2, <1>3, SeenFrom DEF Fetched

(* While it is calm, a path has one message, and a patch leaves its text.  *)
LEMMA AlwaysCalmInv == Spec => [](Calm => CalmInv)
<1>1. Init => CalmInv
  <2>1. Blank.of \notin Msgs
    BY ConstantsAssumption DEF Blank
  <2> QED
    BY <2>1, BlankRecords, ConstantsAssumption
       DEF Init, CalmInv, OneMessage, PatchesText, Trace
<1>2. Typed /\ SeenIsReceived /\ (Calm => CalmInv) /\ Next => (Calm => CalmInv)'
  BY CalmSteps, OneMessageStep, PatchesTextStep DEF CalmInv
<1>3. (Calm => CalmInv) /\ UNCHANGED vars => (Calm => CalmInv)'
  BY DEF Calm, CalmInv, OneMessage, PatchesText, Trace, vars, modem, tables,
     memory, bounds
<1> QED
  BY <1>1, <1>2, <1>3, AlwaysTyped, AlwaysReceived, PTL DEF Spec

(* It is the get_or_create or the patch that ends the work on the table.   *)
LEMMA EndOfStore ==
  ASSUME Typed, Next, NEW t \in Threads,
         thread[t].pc \in {"store", "patch"}, thread'[t].pc = "clear"
  PROVE  Store(t) \/ Patch(t)
<1>0. thread'[t] # thread[t]
  OBVIOUS
<1>1. CASE ModemNext \/ ListenerStep \/ Disconnect \/ SnapshotFault
  BY <1>0, <1>1 DEF ModemNext, Arrive, Assemble, Vanish, Renumber,
     ListenerStep, Subscribe, FirstSnapshot, LastSnapshot, Disconnect,
     SnapshotFault, memory
<1>2. CASE Mark \/ Crash
  BY <1>2, BlankRecords DEF Mark, Crash, Typed, TypeOK, ThreadType
<1>3. CASE \/ RecoveryStep \/ \E w \in Workers : Take(w)
           \/ \E due \in SUBSET Paths : DequeueBatch(due)
           \/ \E p \in Paths : Retry(p) \/ OnAdded(p) \/ RotateRow(p)
  BY <1>0, <1>3 DEF RecoveryStep, Snapshot, Listed, SnapshotPut, Refresh,
     RefreshRow, RefreshEnd, Take, DequeueBatch, Retry, OnAdded, RotateRow,
     Call, Idle, memory, Typed, TypeOK, ThreadType
<1>4. ASSUME NEW u \in Threads, PersistStep(u) \/ FetchFault(u) \/ StoreFault(u)
      PROVE  u = t
  BY <1>0, <1>4 DEF PersistStep, FetchFault, StoreFault, Fetch, Missing,
     MarkGone, Reject, Store, Patch, Clear, Fail, Goto, Return, Typed,
     TypeOK, ThreadType
<1>5. CASE PersistStep(t) \/ FetchFault(t) \/ StoreFault(t)
  BY <1>5, BlankRecords DEF PersistStep, FetchFault, StoreFault, Fetch,
     Missing, MarkGone, Reject, Clear, Fail, Goto, Return, Idle, Typed,
     TypeOK, ThreadType
<1> QED
  BY <1>1, <1>2, <1>3, <1>4, <1>5, Steps

(* A persist that saw a text and is done with the table leaves the message *)
(* in its row.                                                             *)
LEMMA StoredWhileCalm ==
  ASSUME Typed, TextWasReceived, SeenIsReceived, CalmInv, Next,
         NEW t \in Threads, thread[t].pc \in {"store", "patch"},
         thread[t].seen.text > 0, thread'[t].pc = "clear"
  PROVE  row'[thread[t].path].of = thread[t].seen.of
<1> DEFINE p == thread[t].path
           s == thread[t].seen
<1>1. p \in Paths /\ s \in Rows /\ s.text \in Nat /\ s.of \in Msgs
  BY DEF Typed, TypeOK, ThreadType, ThreadRecords, Rows, SeenIsReceived,
     Received
<1>2. p \in DOMAIN row /\ row[p].text > 0 => row[p].of = s.of
  BY <1>1 DEF CalmInv, OneMessage, Trace, TextWasReceived
<1>3. p \in DOMAIN row => row[p] \in Rows /\ row[p].text \in Nat
  BY DEF Typed, TypeOK, RowType, Rows
<1>4. CASE Store(t) /\ p \in DOMAIN row
  <2>1. Patched(row[p], s) = {} /\ UNCHANGED row
    BY <1>4 DEF Store, Typed, TypeOK, ThreadType, ThreadRecords
  <2>2. s.text > row[p].text => "text" \in Patched(row[p], s)
    BY DEF Patched
  <2> QED
    BY <1>1, <1>2, <1>3, <1>4, <2>1, <2>2
<1>5. CASE Store(t) /\ p \notin DOMAIN row
  BY <1>5 DEF Store
<1>6. CASE Patch(t)
  <2> DEFINE new == [f \in DOMAIN Blank |->
                       IF f \in thread[t].fields THEN s[f] ELSE row[p][f]]
  <2>1. p \in DOMAIN row /\ thread[t].pc = "patch"
    BY <1>6 DEF Patch, CalmInv, PatchesText
  <2>2. row' = [row EXCEPT ![p] = new]
    BY <1>6, <2>1 DEF Patch
  <2>3. new.of = IF "text" \in thread[t].fields THEN s.of ELSE row[p].of
    BY DEF Blank, SeenIsReceived
  <2> HIDE DEF new
  <2>4. "text" \notin thread[t].fields => row[p].text > 0
    BY <2>1 DEF CalmInv, PatchesText
  <2> QED
    BY <1>2, <2>1, <2>2, <2>3, <2>4
<1> QED
  BY <1>4, <1>5, <1>6, EndOfStore

(* A message that persist_inbound_sms has seen a text of is in the row of  *)
(* its path when it is done with the table, with any messages, paths and   *)
(* threads, queues, faults, crashes and lost connections, provided that    *)
(* ModemManager gives no path twice and rotation takes no row: a path used *)
(* again is the finding of inbound_reused_path, and a row that is deleted  *)
(* between the read and the save may be created anew, and be patched in    *)
(* the fields only that differed from the row that was read.               *)
THEOREM StoredWhenDone ==
  ASSUME MaxRenumberings = 0, MaxRotations = 0
  PROVE  Spec => PersistedIsStored
<1> DEFINE Stores ==
      \A t \in Threads :
        /\ thread[t].pc \in {"store", "patch"} /\ thread[t].seen.text > 0
        /\ thread'[t].pc = "clear"
        => row'[thread[t].path].of = thread[t].seen.of
<1>1. Typed => Calm
  BY DEF Typed, TypeOK, BoundsType, Calm
<1>2. /\ Typed /\ TextWasReceived /\ SeenIsReceived /\ CalmInv /\ [Next]_vars
      => [Stores]_vars
  BY StoredWhileCalm
<1> HIDE DEF Stores
<1>3. Spec => [][Stores]_vars
  BY <1>1, <1>2, AlwaysTyped, AlwaysReceived, AlwaysCalmInv, PTL DEF Spec
<1> QED
  BY <1>3 DEF Stores, PersistedIsStored
=============================================================================
