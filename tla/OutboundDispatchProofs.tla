----------------------- MODULE OutboundDispatchProofs -----------------------
(***************************************************************************)
(* Theorems about OutboundDispatch for any number of SMS, request threads  *)
(* and workers, any queue, number of tries and limit, and any faults.      *)
(***************************************************************************)
EXTENDS OutboundDispatch, TLAPS

-----------------------------------------------------------------------------
(* Type correctness.                                                       *)

(* A thread that works works for an SMS.                                   *)
LEMMA BusyHasSms ==
  ASSUME TypeOK, NEW t \in Threads, ~At(t, "idle")
  PROVE  thread[t].sms \in Sms
BY DEF TypeOK, ThreadType, ThreadRecords

(* The record of a thread that has nothing to do.                          *)
LEMMA IdleRecord ==
  Idle \in ThreadRecords /\ Idle.pc = "idle" /\ Idle.sms = None
BY ConstantsAssumption DEF Idle, ThreadRecords, Pcs

(* How the thread that steps leaves thread, holder and flight.             *)
LEMMA ThreadMoves ==
  ASSUME TypeOK, NEW t \in Threads, NEW r \in ThreadRecords,
         thread' = [thread EXCEPT ![t] = r],
         r.pc = "idle" <=> r.sms = None,
         \/ holder' = holder /\ (r.pc \in Inside <=> thread[t].pc \in Inside)
         \/ /\ holder' = IF holder = t THEN None ELSE holder
            /\ r.pc \notin Inside
         \/ holder = None /\ holder' = t /\ r.pc \in Inside
  PROVE  ThreadType'
<1> USE ConstantsAssumption DEF Threads
<1>1. /\ thread' \in [Threads -> ThreadRecords]
      /\ thread'[t] = r
      /\ \A u \in Threads \ {t} : thread'[u] = thread[u]
  BY DEF TypeOK, ThreadType
<1>2. /\ \A u \in Threads : At(u, "idle") <=> thread[u].sms = None
      /\ holder \in Threads \cup {None}
      /\ \A u \in Threads : holder = u <=> thread[u].pc \in Inside
  BY DEF TypeOK, ThreadType
<1>3. \A u \in Threads : At(u, "idle")' <=> thread'[u].sms = None
  BY <1>1, <1>2 DEF At
<1>4. holder' \in Threads \cup {None}
  BY <1>2
<1>5. \A u \in Threads : holder' = u <=> thread'[u].pc \in Inside
  BY <1>1, <1>2
<1> QED
  BY <1>1, <1>3, <1>4, <1>5 DEF ThreadType

(* A thread that ends its call is idle, its row out of flight.             *)
LEMMA EndType ==
  ASSUME TypeOK, NEW t \in Threads, End(t)
  PROVE  ThreadType' /\ flight' \subseteq Sms
<1>1. ThreadType'
  BY IdleRecord, ThreadMoves DEF End, Inside
<1> QED
  BY <1>1 DEF End, TypeOK, DataType

(* A thread that goes on with its SMS, on the same side of mmcli_serial.   *)
LEMMA GotoType ==
  ASSUME TypeOK, NEW t \in Threads, NEW pc \in Pcs \ {"idle"},
         ~At(t, "idle"), Goto(t, pc), UNCHANGED holder,
         pc \in Inside <=> thread[t].pc \in Inside
  PROVE  ThreadType'
<1> DEFINE r == [thread[t] EXCEPT !.pc = pc]
<1>1. thread[t] \in ThreadRecords /\ thread[t].sms # None
  BY DEF TypeOK, ThreadType
<1>2. r \in ThreadRecords /\ r.pc = pc /\ r.sms = thread[t].sms
  BY <1>1 DEF ThreadRecords
<1>3. thread' = [thread EXCEPT ![t] = r]
  BY DEF Goto
<1> QED
  BY <1>1, <1>2, <1>3, ThreadMoves

(* A thread that saves its row, or finds it gone.                          *)
LEMMA SaveType ==
  ASSUME TypeOK, NEW t \in Threads, NEW pc \in Pcs \ {"idle"},
         NEW state \in States,
         thread[t].pc \in Inside, pc \in Inside, Save(t, state, pc)
  PROVE  /\ ThreadType' /\ flight' \subseteq Sms
         /\ row' \in [Sms -> States \cup {"none", "gone"}]
<1>1. ~At(t, "idle")
  BY DEF At, Inside
<1>2. CASE row[thread[t].sms] = "gone"
  BY <1>2, EndType DEF Save, TypeOK, DataType
<1>3. CASE row[thread[t].sms] # "gone"
  BY <1>1, <1>3, GotoType DEF Save, SetRow, TypeOK, DataType
<1> QED
  BY <1>2, <1>3

(* Every step leaves threads, rows, queue and echo in their types.         *)
LEMMA TypeStep == TypeOK /\ Next => TypeOK'
<1> SUFFICES ASSUME TypeOK, Next PROVE TypeOK'
  OBVIOUS
<1> USE ConstantsAssumption
<1>1. ASSUME NEW t \in Threads, NEW m \in Sms, Accept(t, m) PROVE TypeOK'
  <2> DEFINE pc == IF async THEN "put" ELSE "lock"
             r == [pc |-> pc, sms |-> m, tries |-> 0]
  <2>1. pc \in {"put", "lock"}
    OBVIOUS
  <2> HIDE DEF pc
  <2>2. r \in ThreadRecords /\ r.pc = pc /\ r.sms = m /\ m # None
    BY <2>1 DEF ThreadRecords, Pcs
  <2>3. thread' = [thread EXCEPT ![t] = r]
    BY <1>1 DEF Accept, pc
  <2>4. ThreadType'
    BY <1>1, <2>1, <2>2, <2>3, ThreadMoves DEF Accept, At, Inside
  <2> QED
    BY <1>1, <2>4
       DEF Accept, SetRow, TypeOK, DataType, EchoType, States, modem, waiting,
           watching, faulty
<1>2. ASSUME NEW t \in Threads, Put(t) PROVE TypeOK'
  <2>1. thread[t].sms \in Sms /\ ~At(t, "idle")
    BY <1>2, BusyHasSms DEF Put, At
  <2>2. ThreadType'
    <3>1. CASE Goto(t, "enqueue")
      BY <1>2, <2>1, <3>1, GotoType DEF Put, At, Inside, Pcs
    <3>2. CASE thread' = [thread EXCEPT ![t] = Idle]
      BY <1>2, <3>2, IdleRecord, ThreadMoves DEF Put, At, Inside
    <3> QED
      BY <1>2, <3>1, <3>2 DEF Put
  <2>3. flight' \subseteq Sms
    BY <1>2, <2>1 DEF Put, TypeOK, DataType
  <2> QED
    BY <1>2, <2>2, <2>3
       DEF Put, TypeOK, DataType, EchoType, rows, modem, waiting, watching,
           faulty
<1>3. ASSUME NEW t \in Threads, Take(t) PROVE TypeOK'
  <2> DEFINE r == [pc |-> "load", sms |-> Head(queue), tries |-> 0]
  <2>1. Head(queue) \in Sms /\ Tail(queue) \in Seq(Sms)
        /\ Len(Tail(queue)) <= QueueSize
    BY <1>3 DEF Take, TypeOK, DataType
  <2>2. r \in ThreadRecords /\ r.pc = "load" /\ r.sms # None
    BY <2>1 DEF ThreadRecords, Pcs
  <2>3. thread' = [thread EXCEPT ![t] = r]
    BY <1>3 DEF Take
  <2>4. ThreadType'
    BY <1>3, <2>2, <2>3, ThreadMoves DEF Take, At, Inside
  <2> QED
    BY <1>3, <2>1, <2>4
       DEF Take, TypeOK, DataType, EchoType, rows, modem, watching, faulty
<1>4. ASSUME NEW t \in Threads, Load(t) PROVE TypeOK'
  <2>1. ThreadType' /\ flight' \subseteq Sms
    BY <1>4, EndType, GotoType
       DEF Load, At, Inside, Pcs, TypeOK, DataType
  <2> QED
    BY <1>4, <2>1
       DEF Load, TypeOK, DataType, EchoType, rows, modem, waiting, watching,
           faulty
<1>5. ASSUME NEW t \in Threads, Lock(t) PROVE TypeOK'
  <2> DEFINE r == [thread[t] EXCEPT !.pc = "resolve"]
  <2>1. thread[t] \in ThreadRecords /\ thread[t].sms # None
    BY <1>5 DEF Lock, TypeOK, ThreadType, At
  <2>2. r \in ThreadRecords /\ r.pc = "resolve" /\ r.sms # None
    BY <2>1 DEF ThreadRecords, Pcs, Inside
  <2>3. ThreadType'
    BY <1>5, <2>2, ThreadMoves DEF Lock, Goto, Inside
  <2> QED
    BY <1>5, <2>3
       DEF Lock, TypeOK, DataType, EchoType, rows, modem, waiting, watching,
           faulty
<1>6. ASSUME NEW t \in Threads, Create(t) \/ CreateTrouble(t)
      PROVE  TypeOK'
  <2>1. ThreadType'
    BY <1>6, GotoType DEF Create, CreateTrouble, At, Inside, Pcs
  <2>2. object' \in [Sms -> Objects]
    <3>1. \/ UNCHANGED object
          \/ object' = [object EXCEPT ![thread[t].sms] = "unknown"]
      BY <1>6 DEF Create, CreateTrouble, SetObject
    <3> QED
      BY <3>1 DEF Objects, TypeOK, DataType
  <2>4. faults' \in 0 .. MaxFaults
    BY <1>6 DEF Create, CreateTrouble, Fault, TypeOK, DataType, faulty
  <2>3. UNCHANGED <<rows, aired, lost, waiting, flight, watching, abandoned>>
    BY <1>6 DEF Create, CreateTrouble, modem, faulty
  <2> QED
    BY <2>1, <2>2, <2>3, <2>4
       DEF TypeOK, DataType, EchoType, rows, waiting, watching
<1>7. ASSUME NEW t \in Threads, Name(t) \/ Sent(t) PROVE TypeOK'
  <2>1. /\ ThreadType' /\ flight' \subseteq Sms
        /\ row' \in [Sms -> States \cup {"none", "gone"}]
    <3>1. {"sending", "sent"} \subseteq States
      BY DEF States
    <3> QED
      BY <1>7, <3>1, SaveType DEF Name, Sent, At, Inside, Pcs
  <2>2. thread[t].sms \in Sms
    BY <1>7, BusyHasSms DEF Name, Sent, At
  <2> QED
    BY <1>7, <2>1, <2>2
       DEF Name, Sent, TypeOK, DataType, EchoType, rows, modem, waiting,
           watching, faulty
<1>8. ASSUME NEW t \in Threads, Send(t) \/ SendTrouble(t) PROVE TypeOK'
  <2>1. thread[t].sms \in Sms /\ thread[t] \in ThreadRecords
    BY <1>8, BusyHasSms DEF Send, SendTrouble, At, TypeOK, ThreadType
  <2>2. ThreadType'
    <3>1. CASE Goto(t, "sent") \/ Goto(t, "fail")
      BY <1>8, <3>1, GotoType DEF Send, SendTrouble, At, Inside, Pcs
    <3>2. CASE /\ thread[t].tries + 1 < MaxTries
               /\ thread' = [thread EXCEPT ![t].tries = thread[t].tries + 1]
      <4> DEFINE r == [thread[t] EXCEPT !.tries = thread[t].tries + 1]
      <4>1. /\ r \in ThreadRecords /\ r.pc = thread[t].pc
            /\ r.sms = thread[t].sms
        BY <2>1, <3>2 DEF ThreadRecords
      <4>2. r.pc = "send" /\ r.sms # None
        BY <1>8, <2>1, <4>1 DEF Send, SendTrouble, At
      <4>3. thread' = [thread EXCEPT ![t] = r]
        BY <3>2
      <4> QED
        BY <1>8, <4>1, <4>2, <4>3, ThreadMoves
           DEF Send, SendTrouble, At, Inside
    <3> QED
      BY <1>8, <3>1, <3>2 DEF Send, SendTrouble
  <2>3. UNCHANGED <<rows, queue, refused, flight, async, abandoned, watching>>
    BY <1>8 DEF Send, SendTrouble, waiting, faulty
  <2>4. aired' \in [Sms -> Nat] /\ lost' \in [Sms -> Nat]
    <3> DEFINE m == thread[t].sms
    <3>1. /\ aired' = aired \/ aired' = [aired EXCEPT ![m] = aired[m] + 1]
          /\ lost' = lost \/ lost' = [lost EXCEPT ![m] = lost[m] + 1]
      BY <1>8 DEF Send, SendTrouble, modem
    <3>2. /\ aired \in [Sms -> Nat] /\ lost \in [Sms -> Nat]
          /\ aired[m] + 1 \in Nat /\ lost[m] + 1 \in Nat
      BY <2>1 DEF TypeOK, DataType
    <3> HIDE DEF m
    <3>3. aired' \in [Sms -> Nat]
      BY <3>1, <3>2
    <3>4. lost' \in [Sms -> Nat]
      BY <3>1, <3>2
    <3> QED
      BY <3>3, <3>4
  <2>5. object' \in [Sms -> Objects]
    <3>1. UNCHANGED object \/ object' = [object EXCEPT ![thread[t].sms] = "sent"]
      BY <1>8 DEF Send, SendTrouble, SetObject, modem
    <3> QED
      BY <2>1, <3>1 DEF Objects, TypeOK, DataType
  <2>6. faults' \in 0 .. MaxFaults
    BY <1>8 DEF Send, SendTrouble, Fault, faulty, TypeOK, DataType
  <2> QED
    BY <2>2, <2>3, <2>4, <2>5, <2>6
       DEF TypeOK, DataType, EchoType, rows, watching
<1>9. ASSUME NEW t \in Threads, Notify(t) \/ Fail(t) \/ Abandon(t)
      PROVE  TypeOK'
  <2>1. thread[t].sms \in Sms
    BY <1>9, BusyHasSms DEF Notify, Fail, Abandon, At, Inside
  <2>2. ThreadType' /\ flight' \subseteq Sms
    BY <1>9, EndType DEF Notify, Fail, Abandon
  <2>3. row' \in [Sms -> States \cup {"none", "gone"}]
    BY <1>9, <2>1
       DEF Notify, Fail, Abandon, SetRow, States, TypeOK, DataType, rows
  <2>4. jobs' \subseteq Sms /\ abandoned' \subseteq Sms
    BY <1>9, <2>1
       DEF Notify, Fail, Abandon, TypeOK, DataType, rows, faulty
  <2>5. faults' \in 0 .. MaxFaults
    BY <1>9 DEF Notify, Fail, Abandon, Fault, TypeOK, DataType, faulty
  <2>6. UNCHANGED <<kept, named, modem, waiting, watching>>
    BY <1>9 DEF Notify, Fail, Abandon, rows
  <2> QED
    BY <2>2, <2>3, <2>4, <2>5, <2>6
       DEF TypeOK, DataType, EchoType, modem, waiting, watching
<1>10. ASSUME Crash PROVE TypeOK'
  <2>1. ThreadType'
    BY <1>10, IdleRecord DEF Crash, ThreadType, At, Inside, Threads
  <2>2. {thread[t].sms : t \in Threads} \ {None} \subseteq Sms
    BY DEF TypeOK, ThreadType, ThreadRecords
  <2> QED
    BY <1>10, <2>1, <2>2
       DEF Crash, Fault, TypeOK, DataType, EchoType, rows, modem, watching
<1>11. ASSUME Rotate PROVE TypeOK'
  <2>1. PICK i \in 1 .. Len(kept) - Limit :
          /\ SetRow(kept[i], "gone")
          /\ kept' = SubSeq(kept, 1, i - 1) \o SubSeq(kept, i + 1, Len(kept))
          /\ jobs' = jobs \ {kept[i]}
    BY <1>11 DEF Rotate
  <2>2. kept \in Seq(Sms) /\ i \in 1 .. Len(kept)
    BY DEF TypeOK, DataType
  <2>3. kept[i] \in Sms /\ kept' \in Seq(Sms)
    BY <2>1, <2>2
  <2>4. row' \in [Sms -> States \cup {"none", "gone"}]
    BY <2>1, <2>3 DEF SetRow, TypeOK, DataType
  <2>5. faults' \in 0 .. MaxFaults /\ jobs' \subseteq Sms
    BY <1>11, <2>1 DEF Rotate, Fault, TypeOK, DataType
  <2>6. UNCHANGED <<named, modem, process, watching, abandoned>>
    BY <1>11 DEF Rotate
  <2> QED
    BY <2>3, <2>4, <2>5, <2>6
       DEF TypeOK, DataType, ThreadType, EchoType, At, modem, process,
           waiting, watching
<1>12. ASSUME EchoStep PROVE TypeOK'
  <2>1. EchoType'
    <3>1. ASSUME NEW m \in Sms, EchoFetch(m) PROVE EchoType'
      BY <3>1 DEF EchoFetch, TypeOK, DataType, EchoType
    <3>2. CASE EchoStore
      BY <3>2 DEF EchoStore, TypeOK, EchoType
    <3>3. CASE EchoFilter
      <4>1. watcher.sms \in Sms
        BY <3>3 DEF EchoFilter, TypeOK, EchoType
      <4> QED
        BY <3>3, <4>1 DEF EchoFilter, Resting, Objects, TypeOK, EchoType
    <3> QED
      BY <1>12, <3>1, <3>2, <3>3 DEF EchoStep
  <2> QED
    BY <1>12, <2>1
       DEF EchoStep, EchoFetch, EchoStore, EchoFilter, TypeOK, DataType,
           ThreadType, At, rows, modem, process, waiting, faulty
<1>13. ASSUME NEW t \in Threads, Enqueue(t) PROVE TypeOK'
  <2>1. thread[t].sms \in Sms
    BY <1>13, BusyHasSms DEF Enqueue, At
  <2>2. ThreadType'
    BY <1>13, IdleRecord, ThreadMoves DEF Enqueue, At, Inside
  <2>3. queue' \in Seq(Sms) /\ Len(queue') <= QueueSize
    <3>1. CASE UNCHANGED queue
      BY <3>1 DEF TypeOK, DataType
    <3>2. CASE Len(queue) < QueueSize /\ queue' = Append(queue, thread[t].sms)
      BY <2>1, <3>2 DEF TypeOK, DataType
    <3> QED
      BY <1>13, <3>1, <3>2 DEF Enqueue
  <2>4. refused' \subseteq Sms /\ flight' \subseteq Sms
    BY <1>13, <2>1 DEF Enqueue, TypeOK, DataType
  <2> QED
    BY <1>13, <2>2, <2>3, <2>4
       DEF Enqueue, TypeOK, DataType, EchoType, rows, modem, watching, faulty
<1>14. ASSUME NEW t \in Threads, Resolve(t) PROVE TypeOK'
  <2>1. ThreadType' /\ flight' \subseteq Sms
    BY <1>14, EndType, GotoType
       DEF Resolve, At, Inside, Pcs, TypeOK, DataType
  <2> QED
    BY <1>14, <2>1
       DEF Resolve, TypeOK, DataType, EchoType, rows, modem, waiting,
           watching, faulty
<1> QED
  BY <1>1, <1>2, <1>3, <1>4, <1>5, <1>6, <1>7, <1>8, <1>9, <1>10, <1>11,
     <1>12, <1>13, <1>14
     DEF Next, DispatchStep, TroubleStep, Take, Threads

(* The types hold of the initial state.                                    *)
LEMMA TypeInit == Init => TypeOK
<1> SUFFICES ASSUME Init PROVE TypeOK
  OBVIOUS
<1> USE ConstantsAssumption
<1>1. ThreadType
  BY IdleRecord DEF Init, ThreadType, At, Inside, Threads
<1> QED
  BY <1>1
     DEF Init, TypeOK, DataType, EchoType, States, Objects, Resting

(* A stuttering step keeps the types.                                      *)
LEMMA TypeStutter == TypeOK /\ UNCHANGED vars => TypeOK'
BY DEF vars, rows, modem, process, waiting, watching, faulty, TypeOK,
       DataType, ThreadType, EchoType, At

(* Every reachable state is well typed, and mmcli_serial is held by the    *)
(* one thread that is between its acquisition and its release: every way   *)
(* out of a dispatch, the save of a rotated row included, releases it.     *)
THEOREM Typing == Spec => []TypeOK
BY TypeInit, TypeStep, TypeStutter, PTL DEF Spec

-----------------------------------------------------------------------------
(* One dispatcher per SMS, and what its stage says of the row and of the   *)
(* transmissions.                                                          *)

(* What is queued or held by a thread has a row, and is there once.        *)
Apart ==
  /\ OneDispatcher
  /\ \A i, j \in 1 .. Len(queue) : i # j => queue[i] # queue[j]
  /\ \A i \in 1 .. Len(queue) : row[queue[i]] # "none"
  /\ \A t \in Threads : ~At(t, "idle") => row[thread[t].sms] # "none"

(* A row in this state, transmitted n times and l times in vain, may be in *)
(* the hands of a thread at pc.                                            *)
Fits(pc, state, n, l) ==
  /\ pc \in {"lock", "resolve", "create", "name"} =>
       state \in {"created", "gone"} /\ n <= l
  /\ pc = "send" => state \in {"sending", "gone"} /\ n <= l
  /\ pc = "sent" => state \in {"sending", "gone"} /\ n > 0
  /\ pc = "notify" => state \in {"sent", "gone"}
  /\ pc = "fail" => state \in {"created", "sending", "gone"}

Stages ==
  \A t \in Threads : ~At(t, "idle") =>
    LET m == thread[t].sms IN Fits(thread[t].pc, row[m], aired[m], lost[m])

(* A row that waits for a dispatch was transmitted in vain only, and what  *)
(* the three properties say of one SMS.                                    *)
Told(m) ==
  /\ row[m] \in {"none", "created"} => aired[m] <= lost[m]
  /\ row[m] = "sent" => aired[m] > 0
  /\ aired[m] <= 1 + lost[m]
  /\ m \in jobs => row[m] = "sent"

DispatchInv == Apart /\ Stages /\ \A m \in Sms : Told(m)

(* A thread that works changes its own SMS only.                           *)
LEMMA OwnSms ==
  ASSUME TypeOK, DispatchInv, NEW t \in Threads, ~At(t, "idle"),
         NEW m \in Sms, m = thread[t].sms,
         \A u \in Threads \ {t} : thread'[u] = thread[u],
         \A k \in Sms \ {m} :
           row'[k] = row[k] /\ aired'[k] = aired[k] /\ lost'[k] = lost[k],
         UNCHANGED queue, jobs' \ {m} = jobs \ {m},
         row'[m] # "none", Told(m)',
         \/ thread'[t] = Idle
         \/ /\ thread'[t].sms = m
            /\ Fits(thread'[t].pc, row'[m], aired'[m], lost'[m])
  PROVE  DispatchInv'
<1>1. \A u \in Threads \ {t} :
        ~At(u, "idle") => thread[u].sms \in Sms \ {m}
  BY BusyHasSms DEF DispatchInv, Apart, OneDispatcher
<1>2. \A i \in 1 .. Len(queue) : queue[i] \in Sms \ {m}
  BY DEF DispatchInv, Apart, OneDispatcher, TypeOK, DataType
<1>3. OneDispatcher'
  <2> SUFFICES ASSUME NEW u \in Threads, ~At(u, "idle")'
               PROVE  /\ \A v \in Threads \ {u} :
                           thread'[v].sms # thread'[u].sms
                      /\ \A i \in 1 .. Len(queue') :
                           queue'[i] # thread'[u].sms
    BY DEF OneDispatcher
  <2>1. thread'[u].sms = thread[u].sms /\ ~At(u, "idle")
    BY IdleRecord DEF At
  <2>2. thread'[t].sms = m \/ thread'[t].sms = None
    BY IdleRecord
  <2>3. ASSUME NEW v \in Threads \ {u} PROVE thread'[v].sms # thread'[u].sms
    <3>1. thread[v].sms # thread[u].sms /\ thread[u].sms # None
      BY <2>1, BusyHasSms, ConstantsAssumption
         DEF DispatchInv, Apart, OneDispatcher
    <3>2. CASE v = t
      BY <2>1, <2>2, <3>1, <3>2
    <3>3. CASE v # t
      BY <2>1, <3>1, <3>3
    <3> QED
      BY <3>2, <3>3
  <2> QED
    BY <1>2, <2>1, <2>3 DEF DispatchInv, Apart, OneDispatcher
<1>4. Apart'
  BY <1>1, <1>2, <1>3, IdleRecord DEF DispatchInv, Apart, At
<1>5. Stages'
  BY <1>1, IdleRecord DEF DispatchInv, Stages, At
<1>6. \A k \in Sms : Told(k)'
  BY DEF DispatchInv, Told
<1> QED
  BY <1>4, <1>5, <1>6 DEF DispatchInv

(* A thread has a record of its type.                                      *)
LEMMA TypedThread ==
  ASSUME TypeOK, NEW t \in Threads
  PROVE  /\ DOMAIN thread = Threads /\ DOMAIN row = Sms
         /\ DOMAIN aired = Sms /\ DOMAIN lost = Sms
         /\ thread[t] = [pc |-> thread[t].pc, sms |-> thread[t].sms,
                         tries |-> thread[t].tries]
         /\ ~At(t, "idle") => thread[t].sms \in Sms
BY BusyHasSms DEF TypeOK, DataType, ThreadType, ThreadRecords

(* End and Goto change the record of one thread.                           *)
LEMMA EndIdles ==
  ASSUME TypeOK, NEW t \in Threads, End(t)
  PROVE  thread'[t] = Idle /\ \A u \in Threads \ {t} : thread'[u] = thread[u]
BY TypedThread DEF End

(* A thread that goes on with its row.                                     *)
LEMMA GotoKeeps ==
  ASSUME TypeOK, NEW t \in Threads, NEW pc, Goto(t, pc)
  PROVE  /\ thread'[t].pc = pc /\ thread'[t].sms = thread[t].sms
         /\ \A u \in Threads \ {t} : thread'[u] = thread[u]
BY DEF Goto, TypeOK, ThreadType, ThreadRecords

(* Every step of a dispatch.                                               *)
LEMMA DispatchStepKeeps ==
  ASSUME TypeOK, DispatchInv, NEW t \in Threads,
         Put(t) \/ Load(t) \/ Lock(t) \/ Resolve(t) \/ Create(t) \/ Name(t)
           \/ Send(t) \/ Sent(t) \/ Notify(t) \/ Fail(t) \/ TroubleStep(t)
  PROVE  DispatchInv'
<1>0. ~At(t, "idle")
  BY DEF Put, Load, Lock, Resolve, Create, Name, Send, Sent, Notify, Fail,
         TroubleStep, CreateTrouble, SendTrouble, Abandon, At, Inside
<1> PICK m \in Sms : m = thread[t].sms
  BY <1>0, BusyHasSms
<1>1. ~At(t, "idle") /\ m = thread[t].sms
  BY <1>0
<1>2. Told(m) /\ Fits(thread[t].pc, row[m], aired[m], lost[m])
      /\ row[m] # "none"
  BY <1>1 DEF DispatchInv, Stages, Apart
<1>3. row \in [Sms -> States \cup {"none", "gone"}]
      /\ aired[m] \in Nat /\ lost[m] \in Nat
  BY <1>1 DEF TypeOK, DataType
<1>4. CASE Load(t)
  <2>1. UNCHANGED <<row, aired, lost, queue, jobs>>
    BY <1>4 DEF Load, rows, modem, waiting
  <2>2. CASE row[m] = "created"
    BY <1>1, <1>2, <1>4, <2>1, <2>2, GotoKeeps, OwnSms DEF Load, Told, Fits
  <2>3. CASE row[m] # "created"
    BY <1>1, <1>2, <1>4, <2>1, <2>3, EndIdles, OwnSms DEF Load, Told
  <2> QED
    BY <2>2, <2>3
<1>5. CASE Lock(t) \/ Create(t) \/ CreateTrouble(t)
  <2>1. UNCHANGED <<row, aired, lost, queue, jobs>>
    BY <1>5 DEF Lock, Create, CreateTrouble, rows, modem, waiting
  <2>2. thread[t].pc \in {"lock", "resolve", "create"}
        /\ (Goto(t, "resolve") \/ Goto(t, "name") \/ Goto(t, "fail"))
    BY <1>5 DEF Lock, Create, CreateTrouble, At
  <2>3. /\ \A u \in Threads \ {t} : thread'[u] = thread[u]
        /\ thread'[t].sms = m /\ thread'[t].pc \in {"resolve", "name", "fail"}
    BY <2>2, GotoKeeps
  <2>4. Fits(thread'[t].pc, row'[m], aired'[m], lost'[m])
    BY <1>2, <2>1, <2>2, <2>3 DEF Fits
  <2> QED
    BY <1>1, <1>2, <2>1, <2>3, <2>4, OwnSms DEF Told
<1>6. CASE Name(t) \/ Sent(t)
  <2>1. UNCHANGED <<aired, lost, queue, jobs>>
    BY <1>6 DEF Name, Sent, modem, waiting
  <2>2. CASE row[m] = "gone"
    <3>1. End(t) /\ UNCHANGED row
      BY <1>6, <2>2 DEF Name, Sent, Save
    <3> QED
      BY <1>1, <1>2, <2>1, <3>1, EndIdles, OwnSms DEF Told
  <2>3. CASE Name(t) /\ row[m] # "gone"
    <3>1. SetRow(m, "sending") /\ Goto(t, "send")
      BY <2>3 DEF Name, Save
    <3>2. row'[m] = "sending" /\ \A k \in Sms \ {m} : row'[k] = row[k]
      BY <1>1, <1>3, <3>1 DEF SetRow
    <3>3. /\ \A u \in Threads \ {t} : thread'[u] = thread[u]
          /\ thread'[t].sms = m /\ thread'[t].pc = "send"
      BY <3>1, GotoKeeps
    <3>4. Told(m)' /\ Fits("send", row'[m], aired'[m], lost'[m])
      BY <1>2, <1>3, <2>1, <2>3, <3>2 DEF Name, At, Told, Fits
    <3> QED
      BY <1>1, <2>1, <3>2, <3>3, <3>4, OwnSms
  <2>4. CASE Sent(t) /\ row[m] # "gone"
    <3>1. SetRow(m, "sent") /\ Goto(t, "notify")
      BY <2>4 DEF Sent, Save
    <3>2. row'[m] = "sent" /\ \A k \in Sms \ {m} : row'[k] = row[k]
      BY <1>1, <1>3, <3>1 DEF SetRow
    <3>3. /\ \A u \in Threads \ {t} : thread'[u] = thread[u]
          /\ thread'[t].sms = m /\ thread'[t].pc = "notify"
      BY <3>1, GotoKeeps
    <3>4. Told(m)' /\ Fits("notify", row'[m], aired'[m], lost'[m])
      BY <1>2, <1>3, <2>1, <2>4, <3>2 DEF Sent, At, Told, Fits
    <3> QED
      BY <1>1, <2>1, <3>2, <3>3, <3>4, OwnSms
  <2> QED
    BY <1>6, <2>2, <2>3, <2>4
<1>7. CASE Send(t) \/ SendTrouble(t)
  <2>1. UNCHANGED <<row, jobs, queue>> /\ thread[t].pc = "send"
    BY <1>7 DEF Send, SendTrouble, rows, waiting, At
  <2>2. row[m] \in {"sending", "gone"} /\ aired[m] <= lost[m]
    BY <1>2, <2>1 DEF Fits
  <2>3. CASE Send(t)
    <3>1. /\ \A k \in Sms \ {m} : aired'[k] = aired[k] /\ lost'[k] = lost[k]
          /\ aired'[m] = aired[m] + 1 /\ lost'[m] = lost[m]
      BY <1>1, <2>3, TypedThread DEF Send
    <3>2. /\ \A u \in Threads \ {t} : thread'[u] = thread[u]
          /\ thread'[t].sms = m /\ thread'[t].pc = "sent"
      BY <1>1, <2>3, GotoKeeps DEF Send
    <3>3. Told(m)' /\ Fits("sent", row'[m], aired'[m], lost'[m])
      BY <1>2, <1>3, <2>1, <2>2, <3>1 DEF Told, Fits
    <3> QED
      BY <1>1, <1>2, <2>1, <3>1, <3>2, <3>3, OwnSms
  <2>4. CASE SendTrouble(t)
    <3>1. /\ \A k \in Sms \ {m} : aired'[k] = aired[k] /\ lost'[k] = lost[k]
          /\ \/ aired'[m] = aired[m] /\ lost'[m] = lost[m]
             \/ aired'[m] = aired[m] + 1 /\ lost'[m] = lost[m] + 1
      <4>1. CASE UNCHANGED modem
        BY <4>1 DEF modem
      <4>2. CASE /\ aired' = [aired EXCEPT ![m] = aired[m] + 1]
                 /\ lost' = [lost EXCEPT ![m] = lost[m] + 1]
        BY <4>2, TypedThread
      <4> QED
        BY <1>1, <2>4, <4>1, <4>2 DEF SendTrouble
    <3>2. /\ \A u \in Threads \ {t} : thread'[u] = thread[u]
          /\ thread'[t].sms = m /\ thread'[t].pc \in {"send", "fail"}
      <4>1. CASE Goto(t, "fail")
        BY <1>1, <4>1, GotoKeeps
      <4>2. CASE thread' = [thread EXCEPT ![t].tries = thread[t].tries + 1]
        BY <1>1, <2>1, <4>2 DEF TypeOK, ThreadType, ThreadRecords
      <4> QED
        BY <2>4, <4>1, <4>2 DEF SendTrouble
    <3>3. Told(m)' /\ Fits(thread'[t].pc, row'[m], aired'[m], lost'[m])
      BY <1>2, <1>3, <2>1, <2>2, <3>1, <3>2 DEF Told, Fits
    <3> QED
      BY <1>1, <1>2, <2>1, <3>1, <3>2, <3>3, OwnSms
  <2> QED
    BY <1>7, <2>3, <2>4
<1>8. CASE Notify(t) \/ Fail(t) \/ Abandon(t)
  <2>1. UNCHANGED <<aired, lost, queue>> /\ End(t)
    BY <1>8 DEF Notify, Fail, Abandon, modem, waiting
  <2>2. /\ \A k \in Sms \ {m} : row'[k] = row[k]
        /\ jobs' \ {m} = jobs \ {m} /\ row'[m] # "none" /\ Told(m)'
    <3>1. CASE Notify(t)
      BY <1>1, <1>2, <2>1, <3>1 DEF Notify, At, Told, Fits
    <3>2. CASE Fail(t)
      <4>1. jobs' = jobs /\ m \notin jobs
        BY <1>1, <1>2, <3>2 DEF Fail, At, Told, Fits
      <4>2. /\ \A k \in Sms \ {m} : row'[k] = row[k]
            /\ row'[m] \in {"gone", "failed"}
        BY <1>1, <1>3, <3>2 DEF Fail, SetRow
      <4> QED
        BY <1>2, <2>1, <4>1, <4>2 DEF Told
    <3>3. CASE Abandon(t)
      BY <1>2, <2>1, <3>3 DEF Abandon, rows, Told
    <3> QED
      BY <1>8, <3>1, <3>2, <3>3
  <2> QED
    BY <1>1, <2>1, <2>2, EndIdles, OwnSms
<1>9. CASE Put(t)
  <2>1. UNCHANGED <<row, aired, lost, queue, jobs>>
    BY <1>9 DEF Put, rows, modem, waiting
  <2>2. CASE Goto(t, "enqueue")
    BY <1>1, <1>2, <2>1, <2>2, GotoKeeps, OwnSms DEF Told, Fits
  <2>3. CASE thread' = [thread EXCEPT ![t] = Idle]
    <3>1. thread'[t] = Idle /\ \A u \in Threads \ {t} : thread'[u] = thread[u]
      BY <2>3, TypedThread
    <3> QED
      BY <1>1, <1>2, <2>1, <3>1, OwnSms DEF Told
  <2> QED
    BY <1>9, <2>2, <2>3 DEF Put
<1>10. CASE Resolve(t)
  <2>1. UNCHANGED <<row, aired, lost, queue, jobs>>
    BY <1>10 DEF Resolve, rows, modem, waiting
  <2>2. CASE Goto(t, "create")
    <3>1. Fits("create", row'[m], aired'[m], lost'[m])
      BY <1>2, <1>10, <2>1 DEF Resolve, At, Fits
    <3> QED
      BY <1>1, <1>2, <2>1, <2>2, <3>1, GotoKeeps, OwnSms DEF Told
  <2>3. CASE End(t)
    BY <1>1, <1>2, <2>1, <2>3, EndIdles, OwnSms DEF Told
  <2> QED
    BY <1>10, <2>2, <2>3 DEF Resolve
<1> QED
  BY <1>0, <1>4, <1>5, <1>6, <1>7, <1>8, <1>9, <1>10 DEF TroubleStep

(* A row that is created is in nobody's hands yet.                         *)
LEMMA AcceptKeeps ==
  ASSUME TypeOK, DispatchInv, NEW t \in Threads, NEW m \in Sms, Accept(t, m)
  PROVE  DispatchInv'
<1>1. /\ At(t, "idle") /\ row[m] = "none"
      /\ UNCHANGED <<queue, aired, lost, jobs>>
  BY DEF Accept, waiting, modem
<1>2. row'[m] = "created" /\ \A k \in Sms \ {m} : row'[k] = row[k]
  BY TypedThread DEF Accept, SetRow
<1>3. /\ \A u \in Threads \ {t} : thread'[u] = thread[u]
      /\ thread'[t].sms = m /\ thread'[t].pc \in {"put", "lock"}
  BY TypedThread DEF Accept
<1>4. \A u \in Threads : thread[u].sms # m
  BY <1>1, ConstantsAssumption
     DEF DispatchInv, Apart, TypeOK, ThreadType, At
<1>5. \A i \in 1 .. Len(queue) : queue[i] \in Sms \ {m}
  <2> SUFFICES ASSUME NEW i \in 1 .. Len(queue)
               PROVE  queue[i] \in Sms \ {m}
    OBVIOUS
  <2>1. queue[i] \in Sms
    BY DEF TypeOK, DataType
  <2>2. row[queue[i]] # "none"
    BY DEF DispatchInv, Apart
  <2> QED
    BY <1>1, <2>1, <2>2
<1>6. OneDispatcher'
  <2> SUFFICES ASSUME NEW u \in Threads, ~At(u, "idle")'
               PROVE  /\ \A v \in Threads \ {u} :
                           thread'[v].sms # thread'[u].sms
                      /\ \A i \in 1 .. Len(queue') :
                           queue'[i] # thread'[u].sms
    BY DEF OneDispatcher
  <2>1. CASE u = t
    BY <1>1, <1>3, <1>4, <1>5, <2>1
  <2>2. CASE u # t
    BY <1>1, <1>3, <1>4, <2>2 DEF DispatchInv, Apart, OneDispatcher, At
  <2> QED
    BY <2>1, <2>2
<1>7. Apart'
  <2>1. ASSUME NEW u \in Threads, ~At(u, "idle")'
        PROVE  row'[thread'[u].sms] # "none"
    <3>1. CASE u = t
      BY <1>2, <1>3, <3>1
    <3>2. CASE u # t
      <4>1. ~At(u, "idle") /\ thread'[u].sms = thread[u].sms
        BY <1>3, <2>1, <3>2 DEF At
      <4>2. thread[u].sms \in Sms \ {m} /\ row[thread[u].sms] # "none"
        BY <1>4, <4>1, BusyHasSms DEF DispatchInv, Apart
      <4> QED
        BY <1>2, <4>1, <4>2
    <3> QED
      BY <3>1, <3>2
  <2> QED
    BY <1>1, <1>2, <1>5, <1>6, <2>1 DEF DispatchInv, Apart
<1>8. Told(m)' /\ aired'[m] <= lost'[m]
  BY <1>1, <1>2 DEF DispatchInv, Told, TypeOK, DataType
<1>9. Stages'
  <2> SUFFICES ASSUME NEW u \in Threads, ~At(u, "idle")'
               PROVE  Fits(thread'[u].pc, row'[thread'[u].sms],
                           aired'[thread'[u].sms], lost'[thread'[u].sms])
    BY DEF Stages
  <2>1. CASE u = t
    BY <1>2, <1>3, <1>8, <2>1 DEF Fits
  <2>2. CASE u # t
    <3>1. ~At(u, "idle") /\ thread'[u] = thread[u]
      BY <1>3, <2>2 DEF At
    <3>2. thread[u].sms \in Sms \ {m}
      BY <1>4, <3>1, BusyHasSms
    <3> QED
      BY <1>1, <1>2, <3>1, <3>2 DEF DispatchInv, Stages
  <2> QED
    BY <2>1, <2>2
<1> QED
  BY <1>1, <1>2, <1>7, <1>8, <1>9 DEF DispatchInv, Told

(* Out of a thread's hands into the queue, or out of sight.                *)
LEMMA EnqueueKeeps ==
  ASSUME TypeOK, DispatchInv, NEW t \in Threads, Enqueue(t)
  PROVE  DispatchInv'
<1>1. ~At(t, "idle") /\ thread[t].sms \in Sms
  BY BusyHasSms DEF Enqueue, At
<1>2. /\ thread'[t] = Idle /\ UNCHANGED <<row, aired, lost, jobs>>
      /\ \A u \in Threads \ {t} : thread'[u] = thread[u]
  BY TypedThread DEF Enqueue, rows, modem
<1>3. \A u \in Threads : ~At(u, "idle")' =>
        ~At(u, "idle") /\ u # t /\ thread'[u] = thread[u]
  BY <1>2, IdleRecord DEF At
<1>4. \A u \in Threads : thread'[u].sms \in {thread[u].sms, None}
  BY <1>2, IdleRecord
<1>5. queue \in Seq(Sms)
  BY DEF TypeOK, DataType
<1>6. UNCHANGED queue \/ queue' = Append(queue, thread[t].sms)
  BY DEF Enqueue
<1>7. \A i \in 1 .. Len(queue') :
        \/ i \in 1 .. Len(queue) /\ queue'[i] = queue[i]
        \/ i = Len(queue) + 1 /\ queue'[i] = thread[t].sms
  BY <1>1, <1>5, <1>6
<1>8. OneDispatcher'
  <2> SUFFICES ASSUME NEW u \in Threads, ~At(u, "idle")'
               PROVE  /\ \A v \in Threads \ {u} :
                           thread'[v].sms # thread'[u].sms
                      /\ \A i \in 1 .. Len(queue') :
                           queue'[i] # thread'[u].sms
    BY DEF OneDispatcher
  <2>1. ~At(u, "idle") /\ u # t /\ thread'[u].sms = thread[u].sms
        /\ thread[u].sms # None
    BY <1>3, BusyHasSms, ConstantsAssumption
  <2> QED
    BY <1>4, <1>7, <2>1 DEF DispatchInv, Apart, OneDispatcher
<1>9. Apart'
  <2>1. \A i \in 1 .. Len(queue) : queue[i] # thread[t].sms
    BY <1>1 DEF DispatchInv, Apart, OneDispatcher
  <2>2. \A i, j \in 1 .. Len(queue') : i # j => queue'[i] # queue'[j]
    BY <1>5, <1>7, <2>1 DEF DispatchInv, Apart
  <2>3. \A i \in 1 .. Len(queue') : row'[queue'[i]] # "none"
    BY <1>1, <1>2, <1>7 DEF DispatchInv, Apart
  <2> QED
    BY <1>2, <1>3, <1>8, <2>2, <2>3 DEF DispatchInv, Apart
<1>10. Stages'
  BY <1>2, <1>3 DEF DispatchInv, Stages
<1> QED
  BY <1>2, <1>9, <1>10 DEF DispatchInv, Told

(* Out of the queue into a worker's hands.                                 *)
LEMMA TakeKeeps ==
  ASSUME TypeOK, DispatchInv, NEW t \in Threads, Take(t)
  PROVE  DispatchInv'
<1>1. /\ queue \in Seq(Sms) /\ queue # <<>> /\ queue' = Tail(queue)
      /\ UNCHANGED <<row, aired, lost, jobs>>
  BY DEF Take, TypeOK, DataType, rows, modem
<1>2. /\ Head(queue) = queue[1] /\ 1 \in 1 .. Len(queue)
      /\ \A i \in 1 .. Len(queue') :
           i + 1 \in 1 .. Len(queue) /\ queue'[i] = queue[i + 1]
  BY <1>1
<1>3. /\ thread'[t].sms = queue[1] /\ thread'[t].pc = "load"
      /\ \A u \in Threads \ {t} : thread'[u] = thread[u]
  BY <1>2, TypedThread DEF Take
<1>4. \A u \in Threads : thread[u].sms # queue[1]
  <2>1. queue[1] # None
    BY <1>1, <1>2, ConstantsAssumption
  <2> QED
    BY <1>2, <2>1 DEF DispatchInv, Apart, OneDispatcher, TypeOK, ThreadType
<1>5. \A i \in 1 .. Len(queue') : queue'[i] # queue[1]
  <2> SUFFICES ASSUME NEW i \in 1 .. Len(queue')
               PROVE  queue[i + 1] # queue[1]
    BY <1>2
  <2>1. i + 1 # 1 /\ i + 1 \in 1 .. Len(queue)
    BY <1>2
  <2> QED
    BY <1>2, <2>1 DEF DispatchInv, Apart
<1>6. OneDispatcher'
  <2> SUFFICES ASSUME NEW u \in Threads, ~At(u, "idle")'
               PROVE  /\ \A v \in Threads \ {u} :
                           thread'[v].sms # thread'[u].sms
                      /\ \A i \in 1 .. Len(queue') :
                           queue'[i] # thread'[u].sms
    BY DEF OneDispatcher
  <2>1. CASE u = t
    BY <1>3, <1>4, <1>5, <2>1
  <2>2. CASE u # t
    BY <1>2, <1>3, <1>4, <2>2 DEF DispatchInv, Apart, OneDispatcher, At
  <2> QED
    BY <2>1, <2>2
<1>7. Apart'
  <2>1. \A i, j \in 1 .. Len(queue') : i # j => queue'[i] # queue'[j]
    <3> SUFFICES ASSUME NEW i \in 1 .. Len(queue'),
                        NEW j \in 1 .. Len(queue'), i # j
                 PROVE  queue[i + 1] # queue[j + 1]
      BY <1>2
    <3>1. i + 1 # j + 1
      OBVIOUS
    <3> QED
      BY <1>2, <3>1 DEF DispatchInv, Apart
  <2>2. \A i \in 1 .. Len(queue') : row'[queue'[i]] # "none"
    BY <1>1, <1>2 DEF DispatchInv, Apart
  <2>3. \A u \in Threads : ~At(u, "idle")' => row'[thread'[u].sms] # "none"
    BY <1>1, <1>2, <1>3 DEF DispatchInv, Apart, At
  <2> QED
    BY <1>6, <2>1, <2>2, <2>3 DEF Apart
<1>8. Stages'
  BY <1>1, <1>3 DEF DispatchInv, Stages, At, Fits
<1> QED
  BY <1>1, <1>7, <1>8 DEF DispatchInv, Told

(* A crash empties hands and queue, rotation takes a row away, and the     *)
(* watcher process touches neither.                                        *)
LEMMA OthersKeep ==
  ASSUME TypeOK, DispatchInv, Crash \/ Rotate \/ EchoStep
  PROVE  DispatchInv'
<1>1. CASE Crash
  <2>1. /\ queue' = <<>> /\ \A t \in Threads : thread'[t].pc = "idle"
        /\ UNCHANGED <<row, aired, lost, jobs>>
    BY <1>1, IdleRecord DEF Crash, rows, modem
  <2> QED
    BY <2>1
       DEF DispatchInv, Apart, OneDispatcher, Stages, Told, At
<1>2. CASE Rotate
  <2>1. PICK i \in 1 .. Len(kept) - Limit :
          SetRow(kept[i], "gone") /\ jobs' = jobs \ {kept[i]}
    BY <1>2 DEF Rotate
  <2>2. PICK m \in Sms : m = kept[i]
    BY ConstantsAssumption DEF TypeOK, DataType
  <2>3. UNCHANGED <<thread, queue, aired, lost>> /\ jobs' = jobs \ {m}
    BY <1>2, <2>1, <2>2 DEF Rotate, process, waiting, modem
  <2>4. row'[m] = "gone" /\ \A k \in Sms \ {m} : row'[k] = row[k]
    BY <2>1, <2>2 DEF SetRow, TypeOK, DataType
  <2>5. \A k \in Sms : row'[k] = row[k] \/ row'[k] = "gone"
    BY <2>4
  <2>6. Apart'
    <3>1. \A j \in 1 .. Len(queue) : queue[j] \in Sms
      BY DEF TypeOK, DataType
    <3> QED
      BY <2>3, <2>5, <3>1, BusyHasSms DEF DispatchInv, Apart, OneDispatcher, At
  <2>7. Stages'
    BY <2>3, <2>5, BusyHasSms DEF DispatchInv, Stages, Fits, At
  <2>8. \A k \in Sms : Told(k)'
    BY <2>3, <2>4 DEF DispatchInv, Told
  <2> QED
    BY <2>6, <2>7, <2>8 DEF DispatchInv
<1>3. CASE EchoStep
  <2>1. UNCHANGED <<thread, queue, row, aired, lost, jobs>>
    BY <1>3
       DEF EchoStep, EchoFetch, EchoStore, EchoFilter, process, waiting, rows,
           modem
  <2> QED
    BY <2>1
       DEF DispatchInv, Apart, OneDispatcher, Stages, Told, At
<1> QED
  BY <1>1, <1>2, <1>3

(* DispatchInv holds of the initial state.                                 *)
LEMMA DispatchInvInit == Init => DispatchInv
BY ConstantsAssumption
   DEF Init, Idle, DispatchInv, Apart, OneDispatcher, Stages, Told, At

(* Every step keeps DispatchInv.                                           *)
LEMMA DispatchInvStep == TypeOK /\ DispatchInv /\ [Next]_vars => DispatchInv'
<1> SUFFICES ASSUME TypeOK, DispatchInv, [Next]_vars PROVE DispatchInv'
  OBVIOUS
<1>1. CASE Next
  BY <1>1, DispatchStepKeeps, AcceptKeeps, EnqueueKeeps, TakeKeeps, OthersKeep
     DEF Next, DispatchStep, Threads
<1>2. CASE UNCHANGED vars
  BY <1>2
     DEF vars, rows, modem, process, waiting, DispatchInv, Apart,
         OneDispatcher, Stages, Told, At
<1> QED
  BY <1>1, <1>2

(* DispatchInv, with the types it is inductive under.                      *)
LEMMA Dispatching == Spec => [](TypeOK /\ DispatchInv)
<1>1. Init => DispatchInv
  BY DispatchInvInit
<1> QED
  BY <1>1, Typing, DispatchInvStep, PTL DEF Spec

(* What the API reports as sent was transmitted: Name saves "sending"      *)
(* before --send and Sent saves "sent" after it, and no other thread and   *)
(* no restart takes the row up in between.                                 *)
THEOREM Truthful == Spec => []SentWasAired
<1>1. DispatchInv => SentWasAired
  BY DEF DispatchInv, Told, SentWasAired
<1> QED
  BY <1>1, Dispatching, PTL

(* No recipient gets an SMS twice unless mmcli reported a transmission as  *)
(* a failure.                                                              *)
THEOREM Once == Spec => []AiredOnce
<1>1. DispatchInv => AiredOnce
  BY DEF DispatchInv, Told, AiredOnce
<1> QED
  BY <1>1, Dispatching, PTL

(* Only a successful send has a webhook job.                               *)
THEOREM Notified == Spec => []NotifiedWasSent
<1>1. TypeOK /\ DispatchInv => NotifiedWasSent
  BY DEF DispatchInv, Told, NotifiedWasSent, TypeOK, DataType
<1> QED
  BY <1>1, Dispatching, PTL

(* No SMS is in two threads' hands, or in one's and in the queue.          *)
THEOREM Alone == Spec => []OneDispatcher
<1>1. DispatchInv => OneDispatcher
  BY DEF DispatchInv, Apart
<1> QED
  BY <1>1, Dispatching, PTL
=============================================================================
