----------------------------- MODULE ModemReady -----------------------------
(***************************************************************************)
(* How the modems are made ready for SMS and who listens to which: the     *)
(* polling loop of modem_ready.py with its PIN unlock, enable and reset,   *)
(* the choice of a working index in mmcli_client.py, and its callers, the  *)
(* boot (entrypoint.sh with sync_modems and wait_modem_ready --all) and    *)
(* one watcher process per modem (run_sms_watcher.py, dbus_watch.py).      *)
(*                                                                         *)
(* One action is one call of mmcli, or a run of calls that only read.  All *)
(* processes call mmcli on the same modems and share no lock.              *)
(***************************************************************************)
EXTENDS Naturals, FiniteSets, FiniteSetsExt

CONSTANTS
  Sims,         \* the modems, each with its own PIN-locked SIM
  NoSim,        \* no modem, and no PIN
  Indices,      \* ModemManager's modem indices
  NoIndex,      \* no index
  Boot,         \* the entrypoint, a caller beside the watchers
  Home,         \* the index each modem has at boot
  Left,         \* the rows with is_present that an earlier boot has left
  Pins,         \* index |-> the SIM that MODEM_<index>_DEVICE_PIN_CODE opens,
                \* if any
  Unlocked,     \* the SIMs that are unlocked at boot
  PinTries,     \* wrong PINs until a SIM asks for its PUK
  Retries,      \* SIM_UNLOCK_RETRIES
  MaxPolls,     \* bound: polls within MODEM_ENABLE_WAIT_SEC
  MaxTroubles   \* bound: failures of a modem, of mmcli, or of a watcher

ASSUME ConstantsAssumption ==
  /\ Indices \subseteq Nat /\ IsFiniteSet(Indices)
  /\ NoIndex \notin Indices /\ Boot \notin Indices /\ NoSim \notin Sims
  /\ Home \in [Sims -> Indices]
  /\ \A s, t \in Sims : Home[s] = Home[t] => s = t
  /\ Left \subseteq Indices /\ DOMAIN Pins \subseteq Indices
  /\ Unlocked \subseteq Sims
  /\ PinTries \in Nat \ {0} /\ Retries \in Nat \ {0}
  /\ MaxPolls \in Nat \ {0} /\ MaxTroubles \in Nat

VARIABLES
  state,       \* ModemManager: the state of each modem, "away" if not listed
  place,       \* ModemManager: the index of each modem
  messaging,   \* ModemManager: the modems whose Messaging interface is up
  tries,       \* the PIN tries each SIM has left
  caller,      \* where the boot and each watcher is
  registered,  \* ModemDevice rows with is_present
  todo,        \* the indices wait_modem_ready --all has still to wait for
  watched,     \* the indices that have a watcher process
  hears,       \* the index whose Messaging.Added each watcher receives
  moved,       \* history: whether a modem has come back at another index
  troubles

modems == <<state, place, messaging, tries>>
boot == <<registered, todo, watched>>
vars == <<modems, caller, boot, hears, moved, troubles>>

Callers == {Boot} \cup Indices

States == {"away", "locked", "disabled", "enabled", "failed"}

(* A caller at pc that waits for no modem.                                 *)
Free(pc) == [pc |-> pc, want |-> NoIndex, at |-> NoIndex, attempt |-> 0,
             target |-> "sim", polls |-> 0]

Init ==
  /\ state \in [Sims -> {"away", "locked", "disabled"}]
  /\ \A s \in Sims : state[s] # IF s \in Unlocked THEN "locked" ELSE "disabled"
  /\ place = Home
  /\ messaging = {}
  /\ tries = [s \in Sims |-> PinTries]
  /\ caller = [p \in Callers |-> Free(IF p = Boot THEN "sync" ELSE "off")]
  /\ registered = Left /\ todo = {} /\ watched = {}
  /\ hears = [i \in Indices |-> NoIndex]
  /\ moved = FALSE
  /\ troubles = 0

-----------------------------------------------------------------------------
(* What mmcli reports.                                                     *)

SimAt(i) ==
  IF \E s \in Sims : state[s] # "away" /\ place[s] = i
  THEN CHOOSE s \in Sims : state[s] # "away" /\ place[s] = i
  ELSE NoSim

Listed == {i \in Indices : SimAt(i) # NoSim}

Seen(i) == IF i \in Listed THEN state[SimAt(i)] ELSE "missing"

(* _READY_STATES; registered modems count as enabled.                      *)
Ready(i) == Seen(i) = "enabled"

(* Mutant: the index asked for is taken when it is listed, ready or not.   *)
Resolve_Listed(want) ==
  LET others == {i \in Listed : i # want /\ Ready(i)} IN
    IF Listed = {} THEN NoIndex
    ELSE IF want \in Listed THEN want
    ELSE IF others # {} THEN Min(others)
    ELSE Min(Listed)

(* The index to work with: the one asked for if it is ready, else the      *)
(* first ready one, else the one asked for, else the first one listed.     *)
Resolve(want) ==
  LET others == {i \in Listed : i # want /\ Ready(i)} IN
    IF Listed = {} THEN NoIndex
    ELSE IF Ready(want) THEN want
    ELSE IF others # {} THEN Min(others)
    ELSE IF want \in Listed THEN want
    ELSE Min(Listed)

(* The PIN for an index: its own, or the only one that is configured.      *)
PinFor(i) ==
  IF i \in DOMAIN Pins THEN Pins[i]
  ELSE IF Cardinality(DOMAIN Pins) = 1 THEN Pins[Min(DOMAIN Pins)]
  ELSE NoSim

-----------------------------------------------------------------------------
(* The polling loop of wait_modem_ready_for_sms, for any caller p.         *)

At(p, pc) == caller[p].pc = pc

Goto(p, pc) == caller' = [caller EXCEPT ![p].pc = pc]

Become(p, record) == caller' = [caller EXCEPT ![p] = record]

(* ensure_modem_ready_for_sms(want), called by p.                          *)
StartWait(p, want) == Become(p, [Free("poll") EXCEPT !.want = want])

(* Mutant: the polls do not bring the deadline nearer.                     *)
EndPoll_Uncounted(p) ==
  Become(p, [Free("poll") EXCEPT !.want = caller[p].want])

EndPoll(p) ==
  Become(p, [Free("poll") EXCEPT !.want = caller[p].want,
                                 !.polls = caller[p].polls + 1])

(* Mutant: a watcher takes itself for subscribed.                          *)
EndWait_Listening(p) ==
  Become(p, Free(IF p = Boot THEN "next" ELSE "listening"))

(* Where the caller goes on: no caller looks at the result, except         *)
(* wait_modem_ready, which prints it and exits with 0 all the same.        *)
EndWait(p) ==
  Become(p, Free(IF p = Boot THEN "next"
                 ELSE IF hears[p] # NoIndex THEN "listening"
                 ELSE "bind"))

Poll(p) ==
  /\ At(p, "poll") /\ caller[p].polls < MaxPolls
  /\ LET i == Resolve(caller[p].want) IN
       IF i = NoIndex
       THEN EndPoll(p)
       ELSE caller' = [caller EXCEPT ![p].pc = "check", ![p].at = i]
  /\ UNCHANGED <<modems, boot, hears, moved, troubles>>

(* The deadline passes while a poll is made, or between two.               *)
Expire(p) ==
  /\ At(p, "poll") /\ caller[p].polls > 0
  /\ EndWait(p)
  /\ UNCHANGED <<modems, boot, hears, moved, troubles>>

Check(p) ==
  /\ At(p, "check")
  /\ Goto(p, IF Ready(caller[p].at) THEN "messaging" ELSE "recover")
  /\ UNCHANGED <<modems, boot, hears, moved, troubles>>

CheckMessaging(p) ==
  /\ At(p, "messaging")
  /\ IF SimAt(caller[p].at) \in messaging
     THEN EndWait(p)
     ELSE Goto(p, "recover")
  /\ UNCHANGED <<modems, boot, hears, moved, troubles>>

(* _recover_modem_state reads the state and starts the one remedy for it;  *)
(* a locked SIM without a PIN is left locked.                              *)
Recover(p) ==
  /\ At(p, "recover")
  /\ LET i == caller[p].at IN
       CASE Seen(i) = "failed" -> Goto(p, "reset")
         [] Seen(i) = "locked" /\ PinFor(i) # NoSim ->
              Become(p, [caller[p] EXCEPT !.pc = "attempt", !.attempt = 1])
         [] Seen(i) = "disabled" -> Goto(p, "enable")
         [] OTHER -> EndPoll(p)
  /\ UNCHANGED <<modems, boot, hears, moved, troubles>>

-----------------------------------------------------------------------------
(* try_unlock_sim_pin: per attempt, the PIN is sent to the SIM and, when   *)
(* that has not unlocked it, to the modem.                                 *)

Attempt(p) ==
  /\ At(p, "attempt")
  /\ IF Seen(caller[p].at) = "locked"
     THEN \E t \in {"sim", "modem"} :  \* "modem" only, if no SIM path is shown
            caller' = [caller EXCEPT ![p].pc = "pin", ![p].target = t]
     ELSE EndPoll(p)
  /\ UNCHANGED <<modems, boot, hears, moved, troubles>>

NextTarget(p) ==
  IF caller[p].target = "sim"
  THEN caller' = [caller EXCEPT ![p].pc = "pin", ![p].target = "modem"]
  ELSE IF caller[p].attempt < Retries
  THEN Become(p, [caller[p] EXCEPT !.pc = "attempt", !.attempt = @ + 1,
                                   !.target = "sim"])
  ELSE EndPoll(p)

(* Mutant: the PIN of the index that was asked for is sent.                *)
PinSent_AskedFor(p) == PinFor(caller[p].want)

PinSent(p) == PinFor(caller[p].at)

(* Whether ModemManager passes a PIN sent to index i on to the SIM.        *)
NeedsPin(i) == Seen(i) = "locked" /\ tries[SimAt(i)] > 0

Unlock(p) ==
  /\ At(p, "pin") /\ NeedsPin(caller[p].at)
  /\ PinSent(p) = SimAt(caller[p].at)
  /\ state' = [state EXCEPT ![SimAt(caller[p].at)] = "disabled"]
  /\ Goto(p, "verify")
  /\ UNCHANGED <<place, messaging, tries, boot, hears, moved, troubles>>

WrongPin(p) ==
  /\ At(p, "pin") /\ NeedsPin(caller[p].at)
  /\ PinSent(p) # SimAt(caller[p].at)
  /\ tries' = [tries EXCEPT ![SimAt(caller[p].at)] = @ - 1]
  /\ NextTarget(p)
  /\ UNCHANGED <<state, place, messaging, boot, hears, moved, troubles>>

(* "Device is not SIM-PIN locked", the answer also when it asks for the    *)
(* PUK, counts as success; any other error does not.                       *)
PinNotNeeded(p) ==
  /\ At(p, "pin") /\ ~NeedsPin(caller[p].at)
  /\ IF Seen(caller[p].at) \in {"missing", "failed"}
     THEN NextTarget(p)
     ELSE EndPoll(p)
  /\ UNCHANGED <<modems, boot, hears, moved, troubles>>

Verify(p) ==
  /\ At(p, "verify")
  /\ IF Seen(caller[p].at) = "locked" THEN NextTarget(p) ELSE EndPoll(p)
  /\ UNCHANGED <<modems, boot, hears, moved, troubles>>

-----------------------------------------------------------------------------
(* The other remedies, and failing calls.                                  *)

SwitchOn(i) ==
  state' = IF Seen(i) = "disabled"
           THEN [state EXCEPT ![SimAt(i)] = "enabled"]
           ELSE state

(* try_enable_modem: the command is refused unless the modem is disabled.  *)
Enable(p) ==
  /\ At(p, "enable")
  /\ SwitchOn(caller[p].at)
  /\ EndPoll(p)
  /\ UNCHANGED <<place, messaging, tries, boot, hears, moved, troubles>>

(* try_reset_modem and the rescan: whatever the modem does by now, it goes *)
(* away and comes back locked.                                             *)
Reset(p) ==
  /\ At(p, "reset")
  /\ LET s == SimAt(caller[p].at) IN
       IF s = NoSim
       THEN UNCHANGED <<state, messaging>>
       ELSE /\ state' = [state EXCEPT ![s] = "away"]
            /\ messaging' = messaging \ {s}
  /\ EndPoll(p)
  /\ UNCHANGED <<place, tries, boot, hears, moved, troubles>>

(* A call of mmcli fails or times out: a list counts as empty, a state as  *)
(* "missing", which no remedy is for, a command as not obeyed.             *)
CallFails(p) ==
  /\ troubles < MaxTroubles
  /\ \/ At(p, "poll") /\ caller[p].polls < MaxPolls /\ EndPoll(p)
     \/ At(p, "sync") /\ Goto(p, "list")
     \/ At(p, "bind") /\ Goto(p, "resolve")
     \/ At(p, "check") /\ Goto(p, "recover")
     \/ At(p, "messaging") /\ Goto(p, "recover")
     \/ At(p, "pin") /\ NextTarget(p)
     \/ caller[p].pc \in {"recover", "attempt", "verify", "enable", "reset"}
          /\ EndPoll(p)
  /\ troubles' = troubles + 1
  /\ UNCHANGED <<modems, boot, hears, moved>>

CallerStep(p) ==
  \/ Poll(p) \/ Expire(p) \/ Check(p) \/ CheckMessaging(p) \/ Recover(p)
  \/ Attempt(p) \/ Unlock(p) \/ WrongPin(p) \/ PinNotNeeded(p) \/ Verify(p)
  \/ Enable(p) \/ Reset(p)

-----------------------------------------------------------------------------
(* The boot: sync_modems, wait_modem_ready --all, then the watchers.       *)

(* list_present_modem_indices: the registry, or mmcli -L if it is empty.   *)
Present == IF registered # {} THEN registered ELSE Listed

(* A failing mmcli (CallFails) leaves the registry as it is.               *)
Sync ==
  /\ At(Boot, "sync")
  /\ registered' = Listed
  /\ Goto(Boot, "list")
  /\ UNCHANGED <<modems, todo, watched, hears, moved, troubles>>

ListModems ==
  /\ At(Boot, "list")
  /\ todo' = Present
  /\ Goto(Boot, "next")
  /\ UNCHANGED <<modems, registered, watched, hears, moved, troubles>>

WaitForNext ==
  /\ At(Boot, "next") /\ todo # {}
  /\ StartWait(Boot, Min(todo))
  /\ todo' = todo \ {Min(todo)}
  /\ UNCHANGED <<modems, registered, watched, hears, moved, troubles>>

(* list_watcher_modem_indices: the rows that are present and enabled, or,  *)
(* if none is, as Present.  PUT sms/modems/<index>/ may have left any of    *)
(* the rows disabled.                                                      *)
WatcherIndices ==
  IF registered = {} THEN {Present} ELSE SUBSET registered \ {{}}

(* wait_modem_ready has exited with 0, so ModemManager is not restarted;   *)
(* run_sms_watcher --all-modems starts a watcher for every index it finds  *)
(* now, and for no other later.                                            *)
StartWatchers ==
  /\ At(Boot, "next") /\ todo = {}
  /\ \E found \in WatcherIndices :
       /\ watched' = found
       /\ caller' = [p \in Callers |->
                       IF p = Boot THEN [caller[p] EXCEPT !.pc = "serving"]
                       ELSE IF p \in found
                       THEN [caller[p] EXCEPT !.pc = "resolve"]
                       ELSE caller[p]]
  /\ UNCHANGED <<modems, registered, todo, hears, moved, troubles>>

-----------------------------------------------------------------------------
(* A watcher: run_modem_added_listener, in an endless loop.                *)

ResolveWatched(w) ==
  /\ At(w, "resolve") /\ Listed # {}
  /\ StartWait(w, Resolve(w))
  /\ UNCHANGED <<modems, boot, hears, moved, troubles>>

(* After the wait, whatever came of it, the index is resolved anew.        *)
Bind(w) ==
  /\ At(w, "bind")
  /\ IF Listed = {}
     THEN Goto(w, "resolve")
     ELSE Become(w, [Free("subscribe") EXCEPT !.at = Resolve(w)])
  /\ UNCHANGED <<modems, boot, hears, moved, troubles>>

(* The Messaging interface exists once the modem is enabled.               *)
Subscribe(w) ==
  /\ At(w, "subscribe") /\ Ready(caller[w].at)
  /\ hears' = [hears EXCEPT ![w] = caller[w].at]
  /\ Become(w, Free("listening"))
  /\ UNCHANGED <<modems, boot, moved, troubles>>

(* Halfway through the retries of the subscription, try_enable_modem.      *)
EnableHalfway(w) ==
  /\ At(w, "subscribe") /\ ~Ready(caller[w].at) /\ caller[w].attempt = 0
  /\ SwitchOn(caller[w].at)
  /\ caller' = [caller EXCEPT ![w].attempt = 1]
  /\ UNCHANGED <<place, messaging, tries, boot, hears, moved, troubles>>

(* The object is gone, or the interface does not appear in time.           *)
SubscribeFails(w) ==
  /\ At(w, "subscribe") /\ ~Ready(caller[w].at)
  /\ caller[w].attempt = 1 \/ caller[w].at \notin Listed
  /\ Become(w, Free("resolve"))
  /\ UNCHANGED <<modems, boot, hears, moved, troubles>>

(* _recover_modem_if_needed: for the index subscribed to, which stays as   *)
(* it is even if the wait ends with another one.                           *)
PeriodicCheck(w) ==
  /\ At(w, "listening") /\ ~Ready(hears[w])
  /\ StartWait(w, hears[w])
  /\ UNCHANGED <<modems, boot, hears, moved, troubles>>

(* The supervisor starts a watcher that has died again.                    *)
WatcherDies(w) ==
  /\ w \in watched /\ troubles < MaxTroubles
  /\ Become(w, Free("resolve"))
  /\ hears' = [hears EXCEPT ![w] = NoIndex]
  /\ troubles' = troubles + 1
  /\ UNCHANGED <<modems, boot, moved>>

WatcherStep(w) ==
  \/ ResolveWatched(w) \/ Bind(w) \/ Subscribe(w) \/ EnableHalfway(w)
  \/ SubscribeFails(w) \/ PeriodicCheck(w)

-----------------------------------------------------------------------------
(* The modems.                                                             *)

(* A modem fails, or is unplugged.                                         *)
ModemFails(s) ==
  /\ state[s] # "away" /\ troubles < MaxTroubles
  /\ \E st \in {"failed", "away"} : state' = [state EXCEPT ![s] = st]
  /\ messaging' = messaging \ {s}
  /\ troubles' = troubles + 1
  /\ UNCHANGED <<place, tries, caller, boot, hears, moved>>

(* A modem that was away is listed again, its SIM locked.                  *)
ComesBack(s) ==
  /\ state[s] = "away" /\ place[s] \notin Listed
  /\ state' = [state EXCEPT ![s] = "locked"]
  /\ UNCHANGED <<place, messaging, tries, caller, boot, hears, moved,
                 troubles>>

(* It may come back at another index.                                      *)
ComesBackElsewhere(s) ==
  /\ state[s] = "away" /\ troubles < MaxTroubles
  /\ \E i \in Indices :
       /\ \A t \in Sims : place[t] # i
       /\ place' = [place EXCEPT ![s] = i]
  /\ state' = [state EXCEPT ![s] = "locked"]
  /\ moved' = TRUE
  /\ troubles' = troubles + 1
  /\ UNCHANGED <<messaging, tries, caller, boot, hears>>

MessagingComesUp(s) ==
  /\ state[s] = "enabled" /\ s \notin messaging
  /\ messaging' = messaging \cup {s}
  /\ UNCHANGED <<state, place, tries, caller, boot, hears, moved, troubles>>

ModemStep(s) == ComesBack(s) \/ MessagingComesUp(s)

-----------------------------------------------------------------------------

BootStep == Sync \/ ListModems \/ WaitForNext \/ StartWatchers

Next ==
  \/ BootStep
  \/ \E p \in Callers : CallerStep(p) \/ CallFails(p)
  \/ \E w \in Indices : WatcherStep(w) \/ WatcherDies(w)
  \/ \E s \in Sims : ModemStep(s) \/ ModemFails(s) \/ ComesBackElsewhere(s)

Spec == Init /\ [][Next]_vars

(* Processes are scheduled, a reset modem comes back, and an enabled one   *)
(* brings its Messaging interface up.  Nothing makes a modem work that     *)
(* does not, and nothing makes a call fail.                                *)
Fairness ==
  /\ WF_vars(BootStep)
  /\ \A p \in Callers : WF_vars(CallerStep(p))
  /\ \A w \in Indices : WF_vars(WatcherStep(w))
  /\ \A s \in Sims : WF_vars(ModemStep(s))

FairSpec == Spec /\ Fairness

-----------------------------------------------------------------------------
(* Properties.                                                             *)

WaitPcs == {"poll", "check", "messaging", "recover", "attempt", "pin",
            "verify", "enable", "reset"}

BootPcs == {"sync", "list", "next", "serving"}

WatcherPcs == {"off", "resolve", "bind", "subscribe", "listening"}

CallerRecords ==
  [pc : WaitPcs \cup BootPcs \cup WatcherPcs,
   want : Indices \cup {NoIndex}, at : Indices \cup {NoIndex},
   attempt : 0 .. Retries, target : {"sim", "modem"}, polls : 0 .. MaxPolls]

ModemType ==
  /\ state \in [Sims -> States]
  /\ place \in [Sims -> Indices]
  /\ \A s, t \in Sims : place[s] = place[t] => s = t
  /\ messaging \subseteq {s \in Sims : state[s] = "enabled"}
  /\ tries \in [Sims -> 0 .. PinTries]

CallerType ==
  /\ caller \in [Callers -> CallerRecords]
  /\ \A p \in Callers :
       /\ At(p, "listening") => p # Boot /\ hears[p] \in Indices
       /\ caller[p].pc \in WaitPcs => caller[p].want \in Indices
       /\ caller[p].pc \in (WaitPcs \cup {"subscribe"}) \ {"poll"} =>
            caller[p].at \in Indices

BootType ==
  /\ registered \subseteq Indices /\ todo \subseteq Indices
  /\ watched \subseteq Indices

(* The type of every variable: a caller that waits knows the index it      *)
(* waits for and, past the resolution, the one it works on; a watcher      *)
(* listens to an index; modems never share one; only an enabled modem has  *)
(* its Messaging interface up.                                             *)
TypeOK ==
  /\ ModemType /\ CallerType /\ BootType
  /\ hears \in [Indices -> Indices \cup {NoIndex}]
  /\ moved \in BOOLEAN
  /\ troubles \in 0 .. MaxTroubles

(* A SIM whose own PIN is configured for its index loses no try, although  *)
(* several processes unlock, the loop changes its index between polls, and *)
(* another modem's PIN is wrong.                                           *)
RightPinKeepsTries ==
  \A s \in Sims :
    ~moved /\ PinFor(place[s]) = s => tries[s] = PinTries

(* The boot ends and the watchers start, whatever the modems do: the wait  *)
(* for a modem that never gets ready has a deadline.                       *)
BootEnds == <>At(Boot, "serving")

CanWork(s) == s \in Unlocked \/ PinFor(Home[s]) = s

(* When the PIN configured for one modem's index is right and no other     *)
(* modem can ever work, every watcher ends up listening to that one: the   *)
(* fallback to another index serves the watchers of broken modems, and     *)
(* resets and failures are healed by the periodic recovery.                *)
EveryWatcherHearsTheWorkingModem ==
  \A s \in Sims : \A w \in Indices :
    PinFor(Home[s]) = s /\ (\A t \in Sims \ {s} : ~CanWork(t)) =>
      (place[s] \in watched /\ w \in watched) ~>
        (moved \/ (hears[w] # NoIndex /\ Ready(hears[w])))

(* What ensure_modem_ready_for_sms promises of the modem it is asked for,  *)
(* "Unlock SIM", and run_sms_watcher --all-modems of every modem, a        *)
(* watcher that has it made ready: a modem that has a watcher and whose    *)
(* PIN is right does not stay locked.                                      *)
EveryModemIsUnlocked ==
  \A s \in Sims :
    PinFor(Home[s]) = s =>
      place[s] \in watched ~> (state[s] # "locked" \/ moved)
=============================================================================
