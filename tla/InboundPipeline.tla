-------------------------- MODULE InboundPipeline --------------------------
(***************************************************************************)
(* How an SMS on a modem becomes a row of InboundSms: the watcher process  *)
(* of one modem (dbus_watch.py), its persist queue (queue_processor.py),   *)
(* the dead-letter queue (dead_letter_queue.py), and persist_inbound_sms   *)
(* with the stale-row refresh (services.py).                               *)
(*                                                                         *)
(* ModemManager is external: it numbers the SMS objects it holds with      *)
(* paths, assembles their text part by part, announces each once, may drop *)
(* one at any time, and numbers them anew when it is restarted.            *)
(*                                                                         *)
(* One action is one mmcli poll, one database transaction, one queue       *)
(* operation, or one signal callback.                                      *)
(***************************************************************************)
EXTENDS Naturals, Sequences, FiniteSets

CONSTANTS
  Msgs, NoMsg,       \* messages the network delivers, and "none"
  Paths, NoPath,     \* ModemManager SMS paths, and "none"
  Workers,           \* SMS_QUEUE_WORKERS persist threads
  Recoverer,         \* the recovery thread of the dead-letter queue
  Refresher,         \* the executor thread of the periodic recovery
  Whitelist,         \* messages whose sender SMS_INBOUND_WHITELIST admits
                     \* (all of Msgs: no whitelist)
  QueueSize,         \* SMS_QUEUE_MAX_SIZE
  DlqSize,           \* SMS_DLQ_MAX_SIZE
  MaxRetries,        \* SMS_DLQ_MAX_RETRIES
  Whole,             \* length of a text when all its parts are assembled
  MaxFaults,         \* bound: mmcli and database errors
  MaxCrashes,        \* bound: crashes of the watcher process
  MaxRotations,      \* bound: rows deleted by storage rotation
  MaxRenumberings,   \* bound: restarts of ModemManager
  MaxDisconnects     \* bound: losses of the D-Bus connection

ASSUME ConstantsAssumption ==
  /\ NoMsg \notin Msgs /\ NoPath \notin Paths
  /\ Whitelist \subseteq Msgs
  /\ Recoverer \notin Workers /\ Refresher \notin Workers
  /\ Recoverer # Refresher
  /\ QueueSize \in Nat \ {0} /\ DlqSize \in Nat /\ MaxRetries \in Nat
  /\ Whole \in Nat \ {0}
  /\ MaxFaults \in Nat /\ MaxCrashes \in Nat
  /\ MaxRotations \in Nat /\ MaxRenumberings \in Nat
  /\ MaxDisconnects \in Nat

VARIABLES
  at,        \* ModemManager: the message of each path, or NoMsg
  used,      \* ModemManager: the paths it has given out since its start
  text,      \* ModemManager: the assembled length of each message's text
  arrived,   \* the messages that have arrived
  signals,   \* Added signals on their way to the listener
  link,      \* the listener's D-Bus connection
  queue,     \* the persist queue, in memory
  dlq,       \* sms_dlq: a function from its paths to their retry_count
  row,       \* InboundSms: a function from mm_path to the row
  thread,    \* per thread: the call of persist_inbound_sms it is in
  batch,     \* paths process_batch dequeued and has yet to try
  held,      \* those of its paths whose row id still names a row
  phase,     \* where the periodic recovery is
  listing,   \* paths the snapshot has yet to enqueue
  stale,     \* rows the refresh has yet to fetch again
  taken,     \* history: paths handed to the queue since the last crash
  dropped,   \* history: paths refused, rejected or rotated away
  created,   \* history: rows created with the text of each message
  faults, crashes, rotations, renumberings, disconnects

modem == <<at, used, text, arrived>>
bus == <<signals, link>>
tables == <<dlq, row>>
memory == <<queue, thread, batch, held, phase, listing, stale>>
history == <<taken, dropped, created>>
bounds == <<faults, crashes, rotations, renumberings, disconnects>>
vars == <<modem, bus, tables, memory, history, bounds>>

Threads == Workers \cup {Recoverer, Refresher}

MmStates == {"", "receiving", "received", "unavailable"}

Blank == [sender |-> NoMsg, of |-> NoMsg, text |-> 0, state |-> ""]

Idle == [pc |-> "idle", path |-> NoPath, seen |-> Blank, fields |-> {}]

Init ==
  /\ at = [p \in Paths |-> NoMsg]
  /\ used = {}
  /\ text = [m \in Msgs |-> 0]
  /\ arrived = {}
  /\ signals = {} /\ link = "down"
  /\ queue = <<>>
  /\ dlq = <<>>
  /\ row = <<>>
  /\ thread = [t \in Threads |-> Idle]
  /\ batch = {} /\ held = {}
  /\ phase = "wait" /\ listing = {} /\ stale = {}
  /\ taken = {} /\ dropped = {}
  /\ created = [m \in Msgs |-> 0]
  /\ faults = 0 /\ crashes = 0 /\ rotations = 0 /\ renumberings = 0
  /\ disconnects = 0

-----------------------------------------------------------------------------
(* ModemManager.                                                           *)

(* The listener has called on_added, and hears of the modem.               *)
Subscribed == link \in {"subscribed", "up"}

(* An SMS comes in, and its object is announced to who is subscribed.      *)
Arrive(m, p) ==
  /\ m \notin arrived /\ p \notin used
  /\ arrived' = arrived \cup {m}
  /\ used' = used \cup {p}
  /\ at' = [at EXCEPT ![p] = m]
  /\ text' = text
  /\ signals' = IF Subscribed THEN signals \cup {p} ELSE signals
  /\ UNCHANGED <<link, tables, memory, history, bounds>>

Assemble(m) ==
  /\ m \in arrived
  /\ text[m] < Whole
  /\ text' = [text EXCEPT ![m] = @ + 1]
  /\ UNCHANGED <<at, used, arrived, bus, tables, memory,
                 history, bounds>>

Vanish(p) ==
  /\ at[p] # NoMsg
  /\ at' = [at EXCEPT ![p] = NoMsg]
  /\ UNCHANGED <<used, text, arrived, bus, tables, memory,
                 history, bounds>>

Held == {p \in Paths : at[p] # NoMsg}

(* A restart of ModemManager (docker/entrypoint.sh may do it, too) gives   *)
(* the messages on the modem new paths and announces them again; when it   *)
(* gives the modem a new path, too, the listener stays at the old one.     *)
Renumber ==
  /\ renumberings < MaxRenumberings
  /\ renumberings' = renumberings + 1
  /\ \E new \in [Held -> Paths] :
       /\ \A p, q \in Held : new[p] = new[q] => p = q
       /\ used' = {new[p] : p \in Held}
       /\ at' = [q \in Paths |->
                   IF q \in used'
                     THEN at[CHOOSE p \in Held : new[p] = q] ELSE NoMsg]
  /\ \/ link' = link /\ signals' = IF Subscribed THEN used' ELSE {}
     \/ link' = (IF Subscribed THEN "deaf" ELSE link) /\ signals' = {}
  /\ UNCHANGED <<text, arrived, tables, memory, history, faults,
                 crashes, rotations, disconnects>>

(* What mmcli shows of the SMS at path p.                                  *)
Shown(p) ==
  [sender |-> at[p], of |-> at[p], text |-> text[at[p]],
   state |-> IF text[at[p]] = Whole THEN "received" ELSE "receiving"]

-----------------------------------------------------------------------------
(* The two queues.                                                         *)

Retries(p) == IF p \in DOMAIN dlq THEN dlq[p] ELSE 0

(* enqueue_persist_failure: a full table refuses even a path it holds; a   *)
(* path it holds keeps its retry_count.                                    *)
DeadLetter(p) ==
  IF Cardinality(DOMAIN dlq) >= DlqSize
    THEN /\ dropped' = dropped \cup {p}
         /\ UNCHANGED dlq
    ELSE /\ dlq' = [q \in DOMAIN dlq \cup {p} |-> Retries(q)]
         /\ UNCHANGED dropped

(* SmsProcessingQueue.enqueue, and what both its callers do when it is     *)
(* full.                                                                   *)
Enqueue(p) ==
  /\ taken' = taken \cup {p}
  /\ IF Len(queue) < QueueSize
       THEN /\ queue' = Append(queue, p)
            /\ UNCHANGED <<dlq, dropped>>
       ELSE DeadLetter(p) /\ UNCHANGED queue

(* DELETE of the path's row; the recovery thread's id for it is dead.      *)
Delete(p) ==
  /\ dlq' = [q \in DOMAIN dlq \ {p} |-> dlq[q]]
  /\ held' = held \ {p}

-----------------------------------------------------------------------------
(* The listener.                                                           *)

OnAdded(p) ==
  /\ p \in signals
  /\ signals' = signals \ {p}
  /\ Enqueue(p)
  /\ UNCHANGED <<modem, link, row, thread, batch, held, phase, listing,
                 stale, created, bounds>>

(* run_modem_added_listener, connected and with on_added called.           *)
Subscribe ==
  /\ link = "down"
  /\ link' = "subscribed"
  /\ UNCHANGED <<modem, signals, tables, memory, history, bounds>>

(* Mutant: after a disconnection the snapshot taken then is relied on.     *)
FirstSnapshot_Once ==
  /\ link = "subscribed"
  /\ link' = "up"
  /\ listing' = IF disconnects = 0 THEN listing \cup Held ELSE listing
  /\ UNCHANGED <<modem, signals, tables, queue, thread, batch, held, phase,
                 stale, history, bounds>>

(* Then the first snapshot lists the paths.  One set serves the listener's *)
(* snapshots and the periodic one: what they list is enqueued path by path *)
(* in threads of their own.                                                *)
FirstSnapshot ==
  /\ link = "subscribed"
  /\ link' = "up"
  /\ listing' = listing \cup Held
  /\ UNCHANGED <<modem, signals, tables, queue, thread, batch, held, phase,
                 stale, history, bounds>>

(* The connection is lost, with any of the signals on their way, and the   *)
(* periodic recovery is cancelled: its executor thread still ends what it  *)
(* has begun, but no refresh follows a snapshot.                           *)
Disconnect ==
  /\ link \in {"subscribed", "up", "deaf"}
  /\ disconnects < MaxDisconnects
  /\ disconnects' = disconnects + 1
  /\ link' = "lost"
  /\ signals' \in SUBSET signals
  /\ phase' = IF phase = "snapshot" THEN "wait" ELSE phase
  /\ UNCHANGED <<modem, tables, queue, thread, batch, held, listing, stale,
                 history, faults, crashes, rotations, renumberings>>

(* The snapshot after a disconnection, before the listener tries again:    *)
(* under the modem's old number, which after a renumbering may be no       *)
(* modem's.                                                                *)
LastSnapshot ==
  /\ link = "lost"
  /\ link' = "down"
  /\ \/ listing' = listing \cup Held
     \/ renumberings > 0 /\ listing' = listing
  /\ UNCHANGED <<modem, signals, tables, queue, thread, batch, held, phase,
                 stale, history, bounds>>

-----------------------------------------------------------------------------
(* Periodic recovery, while connected: list and enqueue all paths, then    *)
(* fetch the rows again that are still stale.  At a modem's old number     *)
(* there is nothing to list.                                               *)

Listed == IF link = "deaf" THEN {} ELSE Held

StaleRow(p) ==
  /\ row[p].state # "unavailable"
  /\ row[p].text = 0 \/ row[p].state = "receiving"

(* Mutant: only paths that have a row already are listed.                  *)
Snapshot_KnownOnly ==
  /\ phase = "wait" /\ link \in {"up", "deaf"}
  /\ phase' = "snapshot"
  /\ listing' = listing \cup (Listed \cap DOMAIN row)
  /\ UNCHANGED <<modem, bus, tables, queue, thread, batch, held, stale,
                 history, bounds>>

Snapshot ==
  /\ phase = "wait" /\ link \in {"up", "deaf"}
  /\ phase' = "snapshot"
  /\ listing' = listing \cup Listed
  /\ UNCHANGED <<modem, bus, tables, queue, thread, batch, held,
                 stale, history, bounds>>

SnapshotPut(p) ==
  /\ p \in listing
  /\ listing' = listing \ {p}
  /\ Enqueue(p)
  /\ UNCHANGED <<modem, bus, row, thread, batch, held, phase,
                 stale, created, bounds>>

(* Every try of --messaging-list-sms fails: nothing is enqueued.           *)
SnapshotFault ==
  /\ listing # {}
  /\ faults < MaxFaults
  /\ faults' = faults + 1
  /\ listing' = {}
  /\ UNCHANGED <<modem, bus, tables, queue, thread, batch, held,
                 phase, stale, history, crashes, rotations,
                 renumberings, disconnects>>

Refresh ==
  /\ phase = "snapshot" /\ listing = {}
  /\ phase' = "refresh"
  /\ stale' = {p \in DOMAIN row : StaleRow(p)}
  /\ UNCHANGED <<modem, bus, tables, queue, thread, batch, held,
                 listing, history, bounds>>

Call(t, p) ==
  thread' = [thread EXCEPT ![t] = [Idle EXCEPT !.pc = "fetch", !.path = p]]

RefreshRow(p) ==
  /\ p \in stale /\ thread[Refresher].pc = "idle"
  /\ stale' = stale \ {p}
  /\ Call(Refresher, p)
  /\ UNCHANGED <<modem, bus, tables, queue, batch, held, phase,
                 listing, history, bounds>>

RefreshEnd ==
  /\ phase = "refresh" /\ stale = {} /\ thread[Refresher].pc = "idle"
  /\ phase' = "wait"
  /\ UNCHANGED <<modem, bus, tables, queue, thread, batch, held,
                 listing, stale, history, bounds>>

-----------------------------------------------------------------------------
(* Who calls persist_inbound_sms.                                          *)

(* A persist thread takes the next path off the queue.                     *)
Take(w) ==
  /\ w \in Workers /\ thread[w].pc = "idle" /\ queue # <<>>
  /\ queue' = Tail(queue)
  /\ Call(w, Head(queue))
  /\ UNCHANGED <<modem, bus, tables, batch, held, phase, listing,
                 stale, history, bounds>>

(* Mutant: retry_count <= max_retries.                                     *)
DequeueBatch_OneMore(due) ==
  /\ thread[Recoverer].pc = "idle" /\ batch = {}
  /\ due # {} /\ due \subseteq DOMAIN dlq
  /\ \A p \in due : dlq[p] <= MaxRetries
  /\ batch' = due /\ held' = due
  /\ UNCHANGED <<modem, bus, tables, queue, thread, phase, listing, stale,
                 history, bounds>>

(* dequeue_batch reads the rows that may be retried and are due, and claims *)
(* none of them.                                                           *)
DequeueBatch(due) ==
  /\ thread[Recoverer].pc = "idle" /\ batch = {}
  /\ due # {} /\ due \subseteq DOMAIN dlq
  /\ \A p \in due : dlq[p] < MaxRetries
  /\ batch' = due /\ held' = due
  /\ UNCHANGED <<modem, bus, tables, queue, thread, phase,
                 listing, stale, history, bounds>>

Retry(p) ==
  /\ p \in batch /\ thread[Recoverer].pc = "idle"
  /\ batch' = batch \ {p}
  /\ Call(Recoverer, p)
  /\ UNCHANGED <<modem, bus, tables, queue, held, phase, listing,
                 stale, history, bounds>>

-----------------------------------------------------------------------------
(* persist_inbound_sms in thread t.                                        *)

Goto(t, pc) ==
  thread' = [thread EXCEPT ![t] =
               [Idle EXCEPT !.pc = pc, !.path = thread[t].path]]

(* Success: only process_batch still has something to do.                  *)
Return(t) ==
  thread' = [thread EXCEPT ![t] =
               IF t = Recoverer
                 THEN [Idle EXCEPT !.pc = "done", !.path = thread[t].path]
                 ELSE Idle]

(* The poll of mmcli: it may end with an empty text, when the parts take   *)
(* longer than MMCLI_RECEIVING_MAX_WAIT_SEC.                               *)
Fetch(t) ==
  LET p == thread[t].path IN
  /\ thread[t].pc = "fetch" /\ at[p] # NoMsg
  /\ thread' = [thread EXCEPT ![t].pc = "store", ![t].seen = Shown(p)]
  /\ UNCHANGED <<modem, bus, tables, queue, batch, held, phase, listing,
                 stale, history, bounds>>

(* mmcli fails for another reason: the snapshot is empty, and it is saved. *)
FetchFault(t) ==
  /\ thread[t].pc = "fetch"
  /\ faults < MaxFaults
  /\ faults' = faults + 1
  /\ thread' = [thread EXCEPT ![t] =
                  [@ EXCEPT !.pc = "store", !.seen = Blank]]
  /\ UNCHANGED <<modem, bus, tables, queue, batch, held, phase,
                 listing, stale, history, crashes, rotations,
                 renumberings, disconnects>>

(* The poll finds the object gone, for good: its row, if there is one, is  *)
(* to become "unavailable", and the persist is a success; else it fails.   *)
Missing(t) ==
  LET p == thread[t].path IN
  /\ thread[t].pc = "fetch" /\ at[p] = NoMsg
  /\ IF p \notin DOMAIN row THEN Goto(t, "failed")
     ELSE IF row[p].state = "unavailable" THEN Return(t)
     ELSE Goto(t, "gone")
  /\ UNCHANGED <<modem, bus, tables, queue, batch, held, phase,
                 listing, stale, history, bounds>>

(* save(update_fields) of a row that was there: it raises if it is not.    *)
MarkGone(t) ==
  LET p == thread[t].path IN
  /\ thread[t].pc = "gone"
  /\ IF p \in DOMAIN row
       THEN /\ row' = [row EXCEPT ![p].state = "unavailable"]
            /\ Return(t)
       ELSE Goto(t, "failed") /\ UNCHANGED row
  /\ UNCHANGED <<modem, bus, dlq, queue, batch, held, phase,
                 listing, stale, history, bounds>>

Rejected(t) == Whitelist # Msgs /\ thread[t].seen.sender \notin Whitelist

(* Mutant: the placeholder for a rejected message is saved.                *)
Reject_Saves(t) ==
  LET p == thread[t].path IN
  /\ thread[t].pc = "store" /\ Rejected(t)
  /\ row' = [q \in DOMAIN row \cup {p} |->
               IF q = p THEN [Blank EXCEPT !.text = 1] ELSE row[q]]
  /\ dropped' = dropped \cup {p}
  /\ Return(t)
  /\ UNCHANGED <<modem, bus, dlq, queue, batch, held, phase, listing,
                 stale, taken, created, bounds>>

(* The whitelist: the caller gets an object that is not saved.             *)
Reject(t) ==
  /\ thread[t].pc = "store" /\ Rejected(t)
  /\ dropped' = dropped \cup {thread[t].path}
  /\ Return(t)
  /\ UNCHANGED <<modem, bus, tables, queue, batch, held, phase,
                 listing, stale, taken, created, bounds>>

(* Mutant: an empty text is not a shorter one.                             *)
Patched_NotEmpty(r, s) ==
  IF r.text > 0 /\ s.text > r.text THEN {"text", "of"} ELSE {}

(* _inbound_field_should_update: which fields of row r a snapshot s        *)
(* replaces.  The text goes with the message it came from.                 *)
Patched(r, s) ==
  (IF r.sender = NoMsg /\ s.sender # NoMsg THEN {"sender"} ELSE {})
  \cup
  (IF s.text > r.text THEN {"text", "of"} ELSE {})
  \cup
  (IF \/ r.state = "receiving" /\ s.state = "received"
      \/ r.state = "" /\ s.state # ""
     THEN {"state"} ELSE {})

(* Mutant: the row is deleted and created anew.                            *)
Store_Creates(t) ==
  LET p == thread[t].path
      s == thread[t].seen
  IN
  /\ thread[t].pc = "store" /\ ~Rejected(t)
  /\ row' = [q \in DOMAIN row \cup {p} |-> IF q = p THEN s ELSE row[q]]
  /\ created' = [m \in Msgs |-> IF m = s.of THEN created[m] + 1
                                            ELSE created[m]]
  /\ Goto(t, "clear")
  /\ UNCHANGED <<modem, bus, dlq, queue, batch, held, phase, listing,
                 stale, taken, dropped, bounds>>

(* get_or_create by mm_path, and the comparison with the row it returned.  *)
Store(t) ==
  LET p == thread[t].path
      s == thread[t].seen
  IN
  /\ thread[t].pc = "store" /\ ~Rejected(t)
  /\ IF p \in DOMAIN row
       THEN /\ LET f == Patched(row[p], s) IN
                 IF f = {} THEN Goto(t, "clear")
                 ELSE thread' = [thread EXCEPT ![t].pc = "patch",
                                               ![t].fields = f]
            /\ UNCHANGED <<row, created>>
       ELSE /\ row' = [q \in DOMAIN row \cup {p} |->
                         IF q = p THEN s ELSE row[q]]
            /\ created' = [m \in Msgs |-> IF m = s.of THEN created[m] + 1
                                                     ELSE created[m]]
            /\ Goto(t, "clear")
  /\ UNCHANGED <<modem, bus, dlq, queue, batch, held, phase,
                 listing, stale, taken, dropped, bounds>>

(* save(update_fields=patched): blind; it raises if the row is gone.       *)
Patch(t) ==
  LET p == thread[t].path IN
  /\ thread[t].pc = "patch"
  /\ IF p \in DOMAIN row
       THEN /\ row' = [row EXCEPT ![p] =
                 [f \in DOMAIN Blank |->
                    IF f \in thread[t].fields THEN thread[t].seen[f]
                                              ELSE @[f]]]
            /\ Goto(t, "clear")
       ELSE Goto(t, "failed") /\ UNCHANGED row
  /\ UNCHANGED <<modem, bus, dlq, queue, batch, held, phase,
                 listing, stale, history, bounds>>

(* The database stays busy through all retries; at "fetch" in the look-up  *)
(* of a missing path's row, at "clear" in the table of dead letters, where *)
(* the path of a stored message then goes.                                 *)
StoreFault(t) ==
  /\ \/ thread[t].pc \in {"gone", "store", "patch", "clear"}
     \/ thread[t].pc = "fetch" /\ at[thread[t].path] = NoMsg
  /\ faults < MaxFaults
  /\ faults' = faults + 1
  /\ Goto(t, "failed")
  /\ UNCHANGED <<modem, bus, tables, queue, batch, held, phase,
                 listing, stale, history, crashes, rotations,
                 renumberings, disconnects>>

(* remove_by_path at the end of a persist that reached the table.          *)
Clear(t) ==
  /\ thread[t].pc = "clear"
  /\ Delete(thread[t].path)
  /\ Return(t)
  /\ UNCHANGED <<modem, bus, row, queue, batch, phase, listing,
                 stale, history, bounds>>

(* Mutant: the persist thread only logs an exception.                      *)
Fail_Logs(t) ==
  /\ t # Recoverer /\ thread[t].pc = "failed"
  /\ thread' = [thread EXCEPT ![t] = Idle]
  /\ UNCHANGED <<modem, bus, tables, queue, batch, held, phase, listing,
                 stale, history, bounds>>

(* An exception: the persist thread records it in the dead-letter queue,   *)
(* the refresh only logs it.                                               *)
Fail(t) ==
  /\ t # Recoverer /\ thread[t].pc = "failed"
  /\ IF t = Refresher THEN UNCHANGED <<dlq, dropped>>
                      ELSE DeadLetter(thread[t].path)
  /\ thread' = [thread EXCEPT ![t] = Idle]
  /\ UNCHANGED <<modem, bus, row, queue, batch, held, phase,
                 listing, stale, taken, created, bounds>>

(* Mutants: every retry marks the row recovered; none counts a failure.    *)
Mark_Always ==
  /\ thread[Recoverer].pc \in {"done", "failed"}
  /\ Delete(thread[Recoverer].path)
  /\ thread' = [thread EXCEPT ![Recoverer] = Idle]
  /\ UNCHANGED <<modem, bus, row, queue, batch, phase, listing, stale,
                 history, bounds>>

Mark_NoCount ==
  LET p == thread[Recoverer].path
      ok == thread[Recoverer].pc = "done"
  IN
  /\ thread[Recoverer].pc \in {"done", "failed"}
  /\ IF p \in held /\ ok THEN Delete(p)
                        ELSE held' = held \ {p} /\ UNCHANGED dlq
  /\ thread' = [thread EXCEPT ![Recoverer] = Idle]
  /\ UNCHANGED <<modem, bus, row, queue, batch, phase, listing, stale,
                 history, bounds>>

(* mark_recovered and mark_retry_failed go by the row id.                  *)
Mark ==
  LET p == thread[Recoverer].path
      ok == thread[Recoverer].pc = "done"
  IN
  /\ thread[Recoverer].pc \in {"done", "failed"}
  /\ IF p \notin held THEN UNCHANGED <<dlq, held>>
     ELSE IF ok THEN Delete(p)
     ELSE dlq' = [dlq EXCEPT ![p] = @ + 1] /\ held' = held \ {p}
  /\ thread' = [thread EXCEPT ![Recoverer] = Idle]
  /\ UNCHANGED <<modem, bus, row, queue, batch, phase, listing,
                 stale, history, bounds>>

-----------------------------------------------------------------------------
(* Storage rotation, and the crash of the watcher process: its supervisor  *)
(* starts it again, with an empty queue.                                   *)

RotateRow(p) ==
  /\ p \in DOMAIN row
  /\ rotations < MaxRotations
  /\ rotations' = rotations + 1
  /\ row' = [q \in DOMAIN row \ {p} |-> row[q]]
  /\ dropped' = dropped \cup {p}
  /\ UNCHANGED <<modem, bus, dlq, memory, taken, created, faults,
                 crashes, renumberings, disconnects>>

Crash ==
  /\ crashes < MaxCrashes
  /\ crashes' = crashes + 1
  /\ signals' = {} /\ link' = "down"
  /\ queue' = <<>>
  /\ thread' = [t \in Threads |-> Idle]
  /\ batch' = {} /\ held' = {}
  /\ phase' = "wait" /\ listing' = {} /\ stale' = {}
  /\ taken' = {}
  /\ UNCHANGED <<modem, tables, dropped, created, faults, rotations,
                 renumberings, disconnects>>

-----------------------------------------------------------------------------

ModemNext ==
  \/ \E m \in Msgs, p \in Paths : Arrive(m, p)
  \/ \E m \in Msgs : Assemble(m)
  \/ \E p \in Paths : Vanish(p)
  \/ Renumber

ListenerStep == Subscribe \/ FirstSnapshot \/ LastSnapshot

RecoveryStep ==
  \/ Snapshot \/ Refresh \/ RefreshEnd
  \/ \E p \in Paths : SnapshotPut(p) \/ RefreshRow(p)

PersistStep(t) ==
  Fetch(t) \/ Missing(t) \/ MarkGone(t) \/ Reject(t) \/ Store(t) \/ Patch(t)
    \/ Clear(t) \/ Fail(t)

WorkerStep(w) == Take(w) \/ PersistStep(w)

RecovererStep ==
  \/ Mark \/ PersistStep(Recoverer)
  \/ \E due \in SUBSET Paths : DequeueBatch(due)
  \/ \E p \in Paths : Retry(p)

Next ==
  \/ ModemNext \/ ListenerStep \/ Disconnect \/ RecoveryStep \/ SnapshotFault
  \/ RecovererStep \/ PersistStep(Refresher)
  \/ \E w \in Workers : WorkerStep(w)
  \/ \E t \in Threads : FetchFault(t) \/ StoreFault(t)
  \/ \E p \in Paths : OnAdded(p) \/ RotateRow(p)
  \/ Crash

Spec == Init /\ [][Next]_vars

(* Threads are scheduled and timers fire.                                  *)
(* Nothing makes a message arrive, a part come in, or anything fail.       *)
Fairness ==
  /\ \A w \in Workers : WF_vars(WorkerStep(w))
  /\ WF_vars(RecovererStep)
  /\ \A p \in Paths :
       SF_vars(\E due \in SUBSET Paths : p \in due /\ DequeueBatch(due))
  /\ WF_vars(PersistStep(Refresher))
  /\ WF_vars(ListenerStep) /\ WF_vars(RecoveryStep)

FairSpec == Spec /\ Fairness

-----------------------------------------------------------------------------
(* Properties.                                                             *)

Rows == [sender : Msgs \cup {NoMsg}, of : Msgs \cup {NoMsg}, text : 0 .. Whole,
         state : MmStates]

Pcs ==
  {"idle", "fetch", "gone", "store", "patch", "clear", "failed", "done"}

ModemType ==
  /\ at \in [Paths -> Msgs \cup {NoMsg}] /\ used \subseteq Paths
  /\ text \in [Msgs -> 0 .. Whole] /\ arrived \subseteq Msgs

BusType ==
  /\ signals \subseteq Paths
  /\ link \in {"down", "subscribed", "up", "deaf", "lost"}

QueueType == queue \in Seq(Paths) /\ Len(queue) <= QueueSize

DlqType ==
  /\ DOMAIN dlq \subseteq Paths
  /\ \A p \in DOMAIN dlq : dlq[p] \in 0 .. MaxRetries
  /\ held \subseteq DOMAIN dlq

RowType == DOMAIN row \subseteq Paths /\ \A p \in DOMAIN row : row[p] \in Rows

ThreadRecords ==
  [pc : Pcs, path : Paths \cup {NoPath}, seen : Rows,
   fields : SUBSET DOMAIN Blank]

ThreadType ==
  /\ thread \in [Threads -> ThreadRecords]
  /\ \A t \in Threads :
       /\ thread[t].pc # "idle" => thread[t].path \in Paths
       /\ thread[t].pc = "done" => t = Recoverer

RecoveryType ==
  /\ batch \subseteq Paths /\ phase \in {"wait", "snapshot", "refresh"}
  /\ listing \subseteq Paths /\ stale \subseteq Paths

HistoryType ==
  /\ taken \subseteq Paths /\ dropped \subseteq Paths
  /\ created \in [Msgs -> Nat]

BoundsType ==
  /\ faults \in 0 .. MaxFaults /\ crashes \in 0 .. MaxCrashes
  /\ rotations \in 0 .. MaxRotations
  /\ renumberings \in 0 .. MaxRenumberings
  /\ disconnects \in 0 .. MaxDisconnects

(* The type of every variable.  A retry_count never exceeds the maximum, a *)
(* busy thread has a path, and only the recovery thread waits to mark.     *)
TypeOK ==
  /\ ModemType /\ BusType /\ QueueType /\ DlqType /\ RowType /\ ThreadType
  /\ RecoveryType /\ HistoryType /\ BoundsType

Busy(p) == \E t \in Threads : thread[t].path = p

(* A path that was handed to the queue is never forgotten: until a crash   *)
(* empties the queue it is in the queue, in a thread's hands, in the table *)
(* or in the dead-letter queue, unless it was refused by a full one,       *)
(* rejected by the whitelist or rotated away.                              *)
TakenIsTracked ==
  \A p \in taken :
    \/ \E i \in 1 .. Len(queue) : queue[i] = p
    \/ Busy(p) \/ p \in DOMAIN row \/ p \in DOMAIN dlq \/ p \in dropped

(* No announcement is missed: while the listener is connected, every       *)
(* message on the modem was handed to the queue by this process, is        *)
(* announced or is listed, whatever gap the connection has had.  The       *)
(* subscription comes before the snapshot; a snapshot that fails leaves    *)
(* the gap to the periodic recovery.                                       *)
NothingUnheard ==
  link = "up" /\ faults = 0 => Held \subseteq signals \cup listing \cup taken

(* A row of the dead-letter queue goes away only when its message is in    *)
(* the table (or was rejected, or rotated away again): neither the id-     *)
(* based marks of the recovery thread nor remove_by_path lose a failure.   *)
DlqLosesNothing ==
  [][\A p \in DOMAIN dlq \ DOMAIN dlq' :
       p \in DOMAIN row \/ p \in dropped]_vars

(* A message gets one row, however often its path is announced, listed and *)
(* retried by threads at the same time; only rotation and renumbering give *)
(* it another.                                                             *)
OneRowPerMessage ==
  \A m \in Msgs : created[m] <= 1 + rotations + renumberings

(* What is stored was really received: a row never has more text than its  *)
(* message has, whatever stale snapshots are patched into it.              *)
TextWasReceived ==
  \A p \in DOMAIN row :
    row[p].text > 0 => row[p].of \in Msgs /\ row[p].text <= text[row[p].of]

Stored(m) == \E p \in DOMAIN row : row[p].of = m /\ row[p].text = Whole

OnModem(m) == \E p \in Paths : at[p] = m

(* Every message the modem receives is persisted with all its text, unless *)
(* the modem loses it or the whitelist rejects it.                         *)
EveryMessageIsPersisted ==
  \A m \in Whitelist :
    OnModem(m) /\ text[m] = Whole ~> Stored(m) \/ ~OnModem(m)

(* No path stays in the dead-letter queue with retries left.               *)
DeadLettersSettle ==
  \A p \in Paths :
    p \in DOMAIN dlq ~> p \notin DOMAIN dlq \/ dlq[p] = MaxRetries

(* What docs/comunicacao.md says of every message the modem receives: once *)
(* persist_inbound_sms is done with the table, a message it saw the text   *)
(* of is in the row of its path, and not only another message's text.      *)
PersistedIsStored ==
  [][\A t \in Threads :
       /\ thread[t].pc \in {"store", "patch"} /\ thread[t].seen.text > 0
       /\ thread'[t].pc = "clear"
       => row'[thread[t].path].of = thread[t].seen.of]_vars
=============================================================================
