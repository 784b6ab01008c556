-------------------------- MODULE ModemReadyProofs --------------------------
(***************************************************************************)
(* Theorems about ModemReady for any modems, indices and PINs, any number  *)
(* of PIN tries, of retries and of polls, and any number of troubles.      *)
(***************************************************************************)
EXTENDS ModemReady, WellFoundedInduction, TLAPS

-----------------------------------------------------------------------------
(* What mmcli reports.                                                     *)

(* The least of some numbers is one of them.                               *)
LEMMA MinIsElement ==
  ASSUME NEW S, S \subseteq Nat, S # {}
  PROVE  Min(S) \in S
<1> DEFINE R == OpToRel(<, Nat)
<1>1. IsWellFoundedOn(R, Nat)
  BY NatLessThanWellFounded
<1>2. \A a, b \in Nat : <<a, b>> \in R <=> a < b
  BY DEF OpToRel
<1> HIDE DEF R
<1>3. PICK x \in S : \A y \in S : ~(<<y, x>> \in R)
  BY <1>1, WFMin
<1>4. \A y \in S : x <= y
  <2> SUFFICES ASSUME NEW y \in S PROVE x <= y
    OBVIOUS
  <2>1. x \in Nat /\ y \in Nat /\ ~(<<y, x>> \in R)
    BY <1>3
  <2>2. ~(y < x)
    BY <1>2, <2>1
  <2> QED
    BY <2>1, <2>2
<1> QED
  BY <1>4 DEF Min

(* The modem at an index, if there is one, is listed there.                *)
LEMMA SimAtIndex ==
  ASSUME NEW i, SimAt(i) # NoSim
  PROVE  SimAt(i) \in Sims /\ state[SimAt(i)] # "away" /\ place[SimAt(i)] = i
BY DEF SimAt

(* An index whose modem is seen in some state is listed.                   *)
LEMMA SeenIsListed ==
  ASSUME NEW i, Seen(i) # "missing"
  PROVE  /\ i \in Indices /\ SimAt(i) \in Sims
         /\ Seen(i) = state[SimAt(i)] /\ place[SimAt(i)] = i
BY SimAtIndex DEF Seen, Listed

(* The index to work with is one of those listed.                          *)
LEMMA ResolveListed ==
  ASSUME NEW want
  PROVE  /\ Resolve(want) \in Listed \cup {NoIndex}
         /\ Listed # {} => Resolve(want) \in Listed
<1> DEFINE others == {i \in Listed : i # want /\ Ready(i)}
<1>1. Listed \subseteq Indices /\ Indices \subseteq Nat
  BY ConstantsAssumption DEF Listed
<1>2. others # {} => Min(others) \in Listed
  <2>1. others \subseteq Nat /\ others \subseteq Listed
    BY <1>1
  <2> HIDE DEF others
  <2> QED
    BY <2>1, MinIsElement
<1>3. Listed # {} => Min(Listed) \in Listed
  BY <1>1, MinIsElement
<1>4. Ready(want) => want \in Listed
  BY SeenIsListed DEF Ready, Seen
<1> HIDE DEF others
<1> QED
  BY <1>2, <1>3, <1>4 DEF Resolve, others

-----------------------------------------------------------------------------
(* Type correctness.                                                       *)

(* A poll that has begun is within the deadline.                           *)
Polling ==
  \A p \in Callers :
    caller[p].pc \in WaitPcs \ {"poll"} => caller[p].polls < MaxPolls

(* CallerType is inductive only with Polling: the end of a poll counts it. *)
Typed == TypeOK /\ Polling

(* A record that caller p may have.                                        *)
Fits(p, r) ==
  /\ r \in CallerRecords
  /\ r.pc = "listening" => p # Boot /\ hears[p] \in Indices
  /\ r.pc \in WaitPcs => r.want \in Indices
  /\ r.pc \in (WaitPcs \cup {"subscribe"}) \ {"poll"} => r.at \in Indices
  /\ r.pc \in WaitPcs \ {"poll"} => r.polls < MaxPolls

(* Callers have records that fit.                                          *)
LEMMA CallersFit ==
  /\ Typed => /\ \A p \in Callers : Fits(p, caller[p])
              /\ caller \in [Callers -> CallerRecords]
  /\ /\ \A p \in Callers : Fits(p, caller[p])
     /\ caller \in [Callers -> CallerRecords]
     => CallerType /\ Polling
BY DEF Typed, TypeOK, CallerType, Polling, Fits, At

(* A caller takes another record that fits it.                             *)
LEMMA BecomeType ==
  ASSUME Typed, NEW p \in Callers, NEW r, Fits(p, r), Become(p, r),
         UNCHANGED hears
  PROVE  CallerType' /\ Polling'
<1>1. caller' = [caller EXCEPT ![p] = r] /\ r \in CallerRecords
  BY DEF Become, Fits
<1>2. caller' \in [Callers -> CallerRecords]
  BY <1>1, CallersFit
<1>3. \A q \in Callers : Fits(q, caller'[q])
  BY <1>1, CallersFit
<1> QED
  BY <1>2, <1>3 DEF CallerType, Polling, Fits, At

(* The record of a caller that waits for no modem.                         *)
LEMMA FreeRecord ==
  ASSUME NEW pc \in WaitPcs \cup BootPcs \cup WatcherPcs
  PROVE  /\ Free(pc) \in CallerRecords
         /\ Free(pc).pc = pc /\ Free(pc).polls = 0
BY ConstantsAssumption DEF Free, CallerRecords

(* A record with another pc.                                               *)
LEMMA GotoType ==
  ASSUME Typed, NEW p \in Callers, NEW pc \in WaitPcs \cup BootPcs \cup WatcherPcs,
         pc # "listening",
         pc \in WaitPcs => /\ caller[p].want \in Indices
                           /\ pc # "poll" => caller[p].polls < MaxPolls,
         pc \in (WaitPcs \cup {"subscribe"}) \ {"poll"} =>
           caller[p].at \in Indices,
         Goto(p, pc), UNCHANGED hears
  PROVE  CallerType' /\ Polling'
<1> DEFINE r == [caller[p] EXCEPT !.pc = pc]
<1>1. caller \in [Callers -> CallerRecords] /\ caller[p] \in CallerRecords
  BY CallersFit DEF Fits
<1>2. Fits(p, r)
  BY <1>1 DEF Fits, CallerRecords
<1>3. Become(p, r)
  BY <1>1 DEF Goto, Become
<1> QED
  BY <1>2, <1>3, BecomeType

(* A caller polls for the index it waits for.                              *)
LEMMA PollRecord ==
  ASSUME Typed, NEW p \in Callers, NEW want \in Indices, NEW n \in 0 .. MaxPolls,
         Become(p, [Free("poll") EXCEPT !.want = want, !.polls = n]),
         UNCHANGED hears
  PROVE  CallerType' /\ Polling'
<1> DEFINE r == [Free("poll") EXCEPT !.want = want, !.polls = n]
<1>1. Free("poll") \in CallerRecords /\ Free("poll").pc = "poll"
  BY FreeRecord DEF WaitPcs
<1>2. r \in CallerRecords /\ r.pc = "poll" /\ r.want = want
  BY <1>1 DEF CallerRecords
<1>3. Fits(p, r)
  BY <1>2 DEF Fits
<1> QED
  BY <1>3, BecomeType

(* A caller starts a wait.                                                 *)
LEMMA StartWaitType ==
  ASSUME Typed, NEW p \in Callers, NEW want \in Indices, StartWait(p, want),
         UNCHANGED hears
  PROVE  CallerType' /\ Polling'
<1> DEFINE r == [Free("poll") EXCEPT !.want = want]
<1>1. r \in CallerRecords /\ r.pc = "poll" /\ r.want = want
  BY ConstantsAssumption DEF Free, CallerRecords, WaitPcs
<1>2. Fits(p, r)
  BY <1>1 DEF Fits
<1> QED
  BY <1>2, BecomeType DEF StartWait

(* A poll ends, and is counted.                                            *)
LEMMA EndPollType ==
  ASSUME Typed, NEW p \in Callers, caller[p].pc \in WaitPcs,
         caller[p].polls < MaxPolls, EndPoll(p), UNCHANGED hears
  PROVE  CallerType' /\ Polling'
<1>1. caller[p].want \in Indices /\ caller[p].polls \in 0 .. MaxPolls
  BY CallersFit DEF Fits, CallerRecords
<1>2. caller[p].polls + 1 \in 0 .. MaxPolls
  BY <1>1, ConstantsAssumption
<1> QED
  BY <1>1, <1>2, PollRecord DEF EndPoll

(* A caller that waits for no modem.                                       *)
LEMMA BecomeFree ==
  ASSUME Typed, NEW p \in Callers, NEW pc \in BootPcs \cup WatcherPcs,
         pc = "listening" => p # Boot /\ hears[p] \in Indices,
         pc # "subscribe", Become(p, Free(pc)), UNCHANGED hears
  PROVE  CallerType' /\ Polling'
<1>1. Fits(p, Free(pc))
  BY FreeRecord DEF Fits, WaitPcs, BootPcs, WatcherPcs
<1> QED
  BY <1>1, BecomeType

(* A wait ends, and the caller goes on.                                    *)
LEMMA EndWaitType ==
  ASSUME Typed, NEW p \in Callers, EndWait(p), UNCHANGED hears
  PROVE  CallerType' /\ Polling'
<1>1. CASE p = Boot
  BY <1>1, BecomeFree DEF EndWait, BootPcs
<1>2. CASE p # Boot /\ hears[p] # NoIndex
  <2>1. hears[p] \in Indices
    BY <1>2 DEF Typed, TypeOK, Callers
  <2> QED
    BY <1>2, <2>1, BecomeFree DEF EndWait, WatcherPcs
<1>3. CASE p # Boot /\ hears[p] = NoIndex
  BY <1>3, BecomeFree DEF EndWait, WatcherPcs
<1> QED
  BY <1>1, <1>2, <1>3

(* A caller whose PIN has not unlocked the modem.                          *)
LEMMA NextTargetType ==
  ASSUME Typed, NEW p \in Callers, caller[p].pc \in {"pin", "verify"},
         NextTarget(p), UNCHANGED hears
  PROVE  CallerType' /\ Polling'
<1>1. /\ Fits(p, caller[p]) /\ caller[p] \in CallerRecords
      /\ caller \in [Callers -> CallerRecords]
  BY CallersFit DEF Fits
<1>2. CASE caller[p].target = "sim"
  <2> DEFINE r == [caller[p] EXCEPT !.pc = "pin", !.target = "modem"]
  <2>1. Fits(p, r)
    BY <1>1 DEF Fits, CallerRecords, WaitPcs
  <2>2. Become(p, r)
    BY <1>1, <1>2 DEF NextTarget, Become
  <2> QED
    BY <2>1, <2>2, BecomeType
<1>3. CASE caller[p].target # "sim" /\ caller[p].attempt < Retries
  <2> DEFINE r == [caller[p] EXCEPT !.pc = "attempt", !.attempt = @ + 1,
                                    !.target = "sim"]
  <2>1. caller[p].attempt + 1 \in 0 .. Retries
    BY <1>1, <1>3, ConstantsAssumption DEF CallerRecords
  <2>2. Fits(p, r)
    BY <1>1, <2>1 DEF Fits, CallerRecords, WaitPcs
  <2>3. Become(p, r)
    BY <1>3 DEF NextTarget
  <2> QED
    BY <2>2, <2>3, BecomeType
<1>4. CASE EndPoll(p)
  BY <1>1, <1>4, EndPollType DEF Fits, WaitPcs
<1> QED
  BY <1>2, <1>3, <1>4 DEF NextTarget

(* The steps of the polling loop.                                          *)
LEMMA CallerStepType ==
  ASSUME Typed, NEW p \in Callers, CallerStep(p) \/ CallFails(p)
  PROVE  CallerType' /\ Polling'
<1>0. /\ Fits(p, caller[p]) /\ caller[p] \in CallerRecords
      /\ caller \in [Callers -> CallerRecords]
      /\ UNCHANGED hears
  BY CallersFit DEF Fits, CallerStep, CallFails, Poll, Expire, Check,
     CheckMessaging, Recover, Attempt, Unlock, WrongPin, PinNotNeeded, Verify,
     Enable, Reset
<1>1. ASSUME caller[p].pc \in WaitPcs \ {"poll"}
      PROVE  /\ caller[p].want \in Indices /\ caller[p].at \in Indices
             /\ caller[p].polls < MaxPolls
  BY <1>0, <1>1 DEF Fits
<1>2. ASSUME caller[p].pc \in WaitPcs \ {"poll"}, EndPoll(p)
      PROVE  CallerType' /\ Polling'
  BY <1>0, <1>1, <1>2, EndPollType
<1>3. ASSUME caller[p].pc \in WaitPcs \ {"poll"},
             NEW pc \in WaitPcs \ {"poll"}, Goto(p, pc)
      PROVE  CallerType' /\ Polling'
  <2>1. pc # "listening"
    BY DEF WaitPcs
  <2> QED
    BY <1>0, <1>1, <1>3, <2>1, GotoType
<1> USE DEF At
<1>4. CASE Poll(p)
  <2> DEFINE i == Resolve(caller[p].want)
             r == [caller[p] EXCEPT !.pc = "check", !.at = i]
  <2>1. CASE i = NoIndex
    BY <1>0, <1>4, <2>1, EndPollType DEF Poll, WaitPcs
  <2>2. CASE i # NoIndex
    <3>1. i \in Indices
      BY <2>2, ResolveListed DEF Listed
    <3> HIDE DEF i
    <3>2. Fits(p, r)
      BY <1>0, <1>4, <3>1 DEF Poll, Fits, CallerRecords, WaitPcs
    <3>3. Become(p, r)
      BY <1>0, <1>4, <2>2 DEF Poll, Become, i
    <3> QED
      BY <1>0, <3>2, <3>3, BecomeType
  <2> QED
    BY <2>1, <2>2
<1>5. CASE Expire(p)
  BY <1>0, <1>5, EndWaitType DEF Expire
<1>6. CASE Check(p)
  BY <1>3, <1>6 DEF Check, WaitPcs
<1>7. CASE CheckMessaging(p)
  <2>1. caller[p].pc \in WaitPcs \ {"poll"} /\ "recover" \in WaitPcs \ {"poll"}
    BY <1>7 DEF CheckMessaging, WaitPcs
  <2> QED
    BY <1>0, <1>3, <1>7, <2>1, EndWaitType DEF CheckMessaging
<1>8. CASE Recover(p)
  <2>1. caller[p].pc \in WaitPcs \ {"poll"}
    BY <1>8 DEF Recover, WaitPcs
  <2> DEFINE r == [caller[p] EXCEPT !.pc = "attempt", !.attempt = 1]
  <2>2. 1 \in 0 .. Retries
    BY ConstantsAssumption
  <2>3. Fits(p, r)
    BY <1>0, <2>1, <2>2 DEF Fits, CallerRecords, WaitPcs
  <2>4. CASE Become(p, r)
    BY <1>0, <2>3, <2>4, BecomeType
  <2>5. CASE Goto(p, "reset") \/ Goto(p, "enable")
    BY <1>3, <2>1, <2>5 DEF WaitPcs
  <2>6. \/ Become(p, r) \/ Goto(p, "reset") \/ Goto(p, "enable") \/ EndPoll(p)
    BY <1>8 DEF Recover
  <2> QED
    BY <1>2, <2>1, <2>4, <2>5, <2>6
<1>9. CASE Attempt(p)
  <2>1. caller[p].pc \in WaitPcs \ {"poll"}
    BY <1>9 DEF Attempt, WaitPcs
  <2>2. ASSUME NEW t \in {"sim", "modem"},
               caller' = [caller EXCEPT ![p].pc = "pin", ![p].target = t]
        PROVE  CallerType' /\ Polling'
    <3> DEFINE r == [caller[p] EXCEPT !.pc = "pin", !.target = t]
    <3>1. Fits(p, r)
      BY <1>0, <2>1 DEF Fits, CallerRecords, WaitPcs
    <3>2. Become(p, r)
      BY <1>0, <2>2 DEF Become
    <3> QED
      BY <1>0, <3>1, <3>2, BecomeType
  <2> QED
    BY <1>2, <1>9, <2>1, <2>2 DEF Attempt
<1>10. CASE Unlock(p)
  BY <1>3, <1>10 DEF Unlock, WaitPcs
<1>11. CASE WrongPin(p)
  BY <1>0, <1>11, NextTargetType DEF WrongPin
<1>12. CASE PinNotNeeded(p) \/ Verify(p)
  <2>1. caller[p].pc \in {"pin", "verify"} /\ caller[p].pc \in WaitPcs \ {"poll"}
    BY <1>12 DEF PinNotNeeded, Verify, WaitPcs
  <2> QED
    BY <1>0, <1>2, <1>12, <2>1, NextTargetType DEF PinNotNeeded, Verify
<1>13. CASE Enable(p) \/ Reset(p)
  <2>1. caller[p].pc \in WaitPcs \ {"poll"}
    BY <1>13 DEF Enable, Reset, WaitPcs
  <2> QED
    BY <1>2, <1>13, <2>1 DEF Enable, Reset
<1>14. CASE CallFails(p)
  <2>1. CASE At(p, "poll") /\ caller[p].polls < MaxPolls /\ EndPoll(p)
    BY <1>0, <2>1, EndPollType DEF WaitPcs
  <2>2. CASE At(p, "sync") /\ Goto(p, "list")
    BY <1>0, <2>2, GotoType DEF WaitPcs, BootPcs
  <2>3. CASE At(p, "bind") /\ Goto(p, "resolve")
    BY <1>0, <2>3, GotoType DEF WaitPcs, WatcherPcs
  <2>4. CASE (At(p, "check") \/ At(p, "messaging")) /\ Goto(p, "recover")
    BY <1>3, <2>4 DEF WaitPcs
  <2>5. CASE At(p, "pin") /\ NextTarget(p)
    BY <1>0, <2>5, NextTargetType
  <2>6. CASE /\ caller[p].pc \in {"recover", "attempt", "verify", "enable",
                                 "reset"}
             /\ EndPoll(p)
    BY <1>2, <2>6 DEF WaitPcs
  <2> QED
    BY <1>14, <2>1, <2>2, <2>3, <2>4, <2>5, <2>6 DEF CallFails
<1> QED
  BY <1>4, <1>5, <1>6, <1>7, <1>8, <1>9, <1>10, <1>11, <1>12, <1>13, <1>14
     DEF CallerStep

(* The steps of a watcher.                                                 *)
LEMMA WatcherStepType ==
  ASSUME Typed, NEW w \in Indices, WatcherStep(w) \/ WatcherDies(w)
  PROVE  CallerType' /\ Polling'
<1> USE DEF At
<1>0. /\ w \in Callers /\ w # Boot /\ Fits(w, caller[w])
      /\ caller[w] \in CallerRecords
      /\ caller \in [Callers -> CallerRecords]
      /\ hears \in [Indices -> Indices \cup {NoIndex}]
      /\ Listed \subseteq Indices
  BY CallersFit, ConstantsAssumption DEF Fits, Callers, Listed, Typed, TypeOK
<1>1. CASE ResolveWatched(w)
  BY <1>0, <1>1, ResolveListed, StartWaitType DEF ResolveWatched
<1>2. CASE Bind(w)
  <2>1. CASE Goto(w, "resolve")
    BY <1>0, <1>2, <2>1, GotoType DEF Bind, WaitPcs, WatcherPcs
  <2>2. CASE Listed # {} /\ Become(w, [Free("subscribe") EXCEPT !.at = Resolve(w)])
    <3> DEFINE r == [Free("subscribe") EXCEPT !.at = Resolve(w)]
    <3>1. Resolve(w) \in Indices
      BY <1>0, <2>2, ResolveListed
    <3>2. Free("subscribe") \in CallerRecords /\ Free("subscribe").pc = "subscribe"
      BY FreeRecord DEF WatcherPcs
    <3>3. Fits(w, r)
      BY <3>1, <3>2 DEF Fits, CallerRecords, WaitPcs
    <3> QED
      BY <1>0, <1>2, <2>2, <3>3, BecomeType DEF Bind
  <2> QED
    BY <1>2, <2>1, <2>2 DEF Bind
<1>3. CASE Subscribe(w)
  <2>1. caller[w].at \in Indices
    BY <1>0, <1>3 DEF Subscribe, Fits
  <2>2. /\ Free("listening") \in CallerRecords
        /\ Free("listening").pc = "listening"
    BY FreeRecord DEF WatcherPcs
  <2>3. /\ caller' = [caller EXCEPT ![w] = Free("listening")]
        /\ hears' = [hears EXCEPT ![w] = caller[w].at]
    BY <1>3 DEF Subscribe, Become
  <2>4. caller' \in [Callers -> CallerRecords]
    BY <1>0, <2>2, <2>3
  <2>5. caller'[w] = Free("listening") /\ hears'[w] \in Indices
    BY <1>0, <2>1, <2>3
  <2>6. \A p \in Callers \ {w} : /\ caller'[p] = caller[p]
                                 /\ p # Boot => hears'[p] = hears[p]
    BY <1>0, <2>3 DEF Callers
  <2>7. \A p \in Callers : Fits(p, caller[p])
    BY CallersFit
  <2>8. \A p \in Callers \ {w} : Fits(p, caller[p])'
    BY <2>6, <2>7 DEF Fits
  <2>9. Fits(w, caller[w])'
    BY <1>0, <2>2, <2>5 DEF Fits, WaitPcs
  <2> QED
    BY <2>4, <2>8, <2>9 DEF Fits, CallerType, Polling
<1>4. CASE EnableHalfway(w)
  <2> DEFINE r == [caller[w] EXCEPT !.attempt = 1]
  <2>1. 1 \in 0 .. Retries
    BY ConstantsAssumption
  <2>2. Fits(w, r)
    BY <1>0, <2>1 DEF Fits, CallerRecords
  <2>3. Become(w, r)
    BY <1>0, <1>4 DEF EnableHalfway, Become
  <2> QED
    BY <1>0, <1>4, <2>2, <2>3, BecomeType DEF EnableHalfway
<1>5. CASE SubscribeFails(w)
  BY <1>0, <1>5, BecomeFree DEF SubscribeFails, WatcherPcs
<1>6. CASE PeriodicCheck(w)
  BY <1>0, <1>6, StartWaitType DEF PeriodicCheck, Fits
<1>7. CASE WatcherDies(w)
  <2>1. Free("resolve") \in CallerRecords /\ Free("resolve").pc = "resolve"
    BY FreeRecord DEF WatcherPcs
  <2>2. /\ caller' = [caller EXCEPT ![w] = Free("resolve")]
        /\ hears' = [hears EXCEPT ![w] = NoIndex]
    BY <1>7 DEF WatcherDies, Become
  <2>3. caller' \in [Callers -> CallerRecords]
    BY <1>0, <2>1, <2>2
  <2>4. \A p \in Callers \ {w} : /\ caller'[p] = caller[p]
                                 /\ p # Boot => hears'[p] = hears[p]
    BY <1>0, <2>2 DEF Callers
  <2>5. \A p \in Callers : Fits(p, caller[p])
    BY CallersFit
  <2>6. \A p \in Callers \ {w} : Fits(p, caller[p])'
    BY <2>4, <2>5 DEF Fits
  <2>7. Fits(w, caller[w])'
    BY <1>0, <2>1, <2>2 DEF Fits, WaitPcs
  <2> QED
    BY <2>3, <2>6, <2>7 DEF Fits, CallerType, Polling
<1> QED
  BY <1>1, <1>2, <1>3, <1>4, <1>5, <1>6, <1>7 DEF WatcherStep

(* The steps of the boot.                                                  *)
LEMMA BootStepType ==
  ASSUME Typed, BootStep
  PROVE  CallerType' /\ Polling' /\ BootType'
<1> USE DEF At
<1>0. /\ Boot \in Callers /\ Listed \subseteq Indices /\ UNCHANGED hears
      /\ \A p \in Callers : Fits(p, caller[p])
      /\ caller \in [Callers -> CallerRecords] /\ BootType
      /\ Indices \subseteq Nat
  BY CallersFit, ConstantsAssumption DEF Callers, Listed, BootStep, Sync,
     ListModems, WaitForNext, StartWatchers, Typed, TypeOK
<1>1. Present \subseteq Indices
  BY <1>0 DEF Present, BootType
<1>2. CASE Sync
  BY <1>0, <1>2, GotoType DEF Sync, BootType, WaitPcs, BootPcs
<1>3. CASE ListModems
  BY <1>0, <1>1, <1>3, GotoType DEF ListModems, BootType, WaitPcs, BootPcs
<1>4. CASE WaitForNext
  <2>1. Min(todo) \in Indices
    <3>1. Min(todo) \in todo
      BY <1>0, <1>4, MinIsElement DEF WaitForNext, BootType
    <3> QED
      BY <1>0, <3>1 DEF BootType
  <2> QED
    BY <1>0, <1>4, <2>1, StartWaitType DEF WaitForNext, BootType
<1>5. CASE StartWatchers
  <2>1. PICK found \in WatcherIndices :
          /\ watched' = found
          /\ caller' = [p \in Callers |->
                          IF p = Boot THEN [caller[p] EXCEPT !.pc = "serving"]
                          ELSE IF p \in found
                          THEN [caller[p] EXCEPT !.pc = "resolve"]
                          ELSE caller[p]]
    BY <1>5 DEF StartWatchers
  <2>2. found \subseteq Indices
    BY <1>0, <1>1 DEF WatcherIndices, BootType
  <2>3. ASSUME NEW p \in Callers, NEW pc \in {"serving", "resolve"}
        PROVE  Fits(p, [caller[p] EXCEPT !.pc = pc])
    <3>1. caller[p] \in CallerRecords
      BY <1>0
    <3> QED
      BY <3>1 DEF Fits, CallerRecords, WaitPcs, BootPcs, WatcherPcs
  <2>4. \A p \in Callers : Fits(p, caller'[p])
    BY <1>0, <2>1, <2>3
  <2>5. caller' \in [Callers -> CallerRecords]
    BY <2>1, <2>4 DEF Fits
  <2>6. CallerType' /\ Polling'
    BY <1>0, <2>4, <2>5 DEF Fits, CallerType, Polling
  <2> QED
    BY <1>0, <1>5, <2>1, <2>2, <2>6 DEF StartWatchers, BootType
<1> QED
  BY <1>2, <1>3, <1>4, <1>5 DEF BootStep

(* A disabled modem is enabled, and has no Messaging interface yet.        *)
LEMMA SwitchOnType ==
  ASSUME ModemType, NEW i, SwitchOn(i), UNCHANGED <<place, messaging, tries>>
  PROVE  ModemType'
<1>1. CASE Seen(i) = "disabled"
  <2>1. SimAt(i) \in Sims
    BY <1>1, SeenIsListed
  <2> QED
    BY <1>1, <2>1 DEF SwitchOn, ModemType, States
<1>2. CASE Seen(i) # "disabled"
  BY <1>2 DEF SwitchOn, ModemType
<1> QED
  BY <1>1, <1>2

(* What the callers and the watchers do to the modems.                     *)
LEMMA ModemCallType ==
  ASSUME ModemType,
         \/ BootStep
         \/ \E p \in Callers : CallerStep(p) \/ CallFails(p)
         \/ \E w \in Indices : WatcherStep(w) \/ WatcherDies(w)
  PROVE  ModemType'
<1>1. CASE UNCHANGED modems
  BY <1>1 DEF modems, ModemType
<1>2. ASSUME NEW p, Unlock(p) PROVE ModemType'
  <2> DEFINE s == SimAt(caller[p].at)
  <2>1. s \in Sims /\ state[s] = "locked"
    BY <1>2, SeenIsListed DEF Unlock, NeedsPin
  <2> QED
    BY <1>2, <2>1 DEF Unlock, ModemType, States
<1>3. ASSUME NEW p, WrongPin(p) PROVE ModemType'
  <2> DEFINE s == SimAt(caller[p].at)
  <2>1. s \in Sims /\ tries[s] > 0
    BY <1>3, SeenIsListed DEF WrongPin, NeedsPin
  <2> QED
    BY <1>3, <2>1, ConstantsAssumption DEF WrongPin, ModemType
<1>4. ASSUME NEW p, Reset(p) PROVE ModemType'
  <2> DEFINE s == SimAt(caller[p].at)
  <2>1. CASE s = NoSim
    BY <1>4, <2>1 DEF Reset, ModemType
  <2>2. CASE s # NoSim
    <3>1. s \in Sims
      BY <2>2, SimAtIndex
    <3> QED
      BY <1>4, <2>2, <3>1 DEF Reset, ModemType, States
  <2> QED
    BY <2>1, <2>2
<1>5. ASSUME NEW p, Enable(p) \/ EnableHalfway(p) PROVE ModemType'
  BY <1>5, SwitchOnType DEF Enable, EnableHalfway
<1> QED
  BY <1>1, <1>2, <1>3, <1>4, <1>5 DEF BootStep, Sync, ListModems, WaitForNext,
     StartWatchers, CallerStep, Poll, Expire, Check, CheckMessaging, Recover,
     Attempt, PinNotNeeded, Verify, CallFails, WatcherStep, ResolveWatched,
     Bind, Subscribe, SubscribeFails, PeriodicCheck, WatcherDies

(* What becomes of the modems by themselves.                               *)
LEMMA ModemStepType ==
  ASSUME ModemType, NEW s \in Sims,
         ModemStep(s) \/ ModemFails(s) \/ ComesBackElsewhere(s)
  PROVE  ModemType'
<1> USE DEF ModemType, States
<1>1. CASE ComesBack(s)
  BY <1>1 DEF ComesBack
<1>2. CASE MessagingComesUp(s)
  BY <1>2 DEF MessagingComesUp
<1>3. CASE ModemFails(s)
  BY <1>3 DEF ModemFails
<1>4. CASE ComesBackElsewhere(s)
  BY <1>4 DEF ComesBackElsewhere
<1> QED
  BY <1>1, <1>2, <1>3, <1>4 DEF ModemStep

(* The rest of the types.                                                  *)
LEMMA RestType ==
  ASSUME Typed, Next
  PROVE  /\ BootType' /\ hears' \in [Indices -> Indices \cup {NoIndex}]
         /\ moved' \in BOOLEAN /\ troubles' \in 0 .. MaxTroubles
<1> USE DEF Typed, TypeOK
<1>1. CASE BootStep
  BY <1>1, BootStepType DEF BootStep, Sync, ListModems, WaitForNext,
     StartWatchers
<1>2. ASSUME NEW p \in Callers, CallerStep(p)
      PROVE  UNCHANGED <<boot, hears, moved, troubles>>
  BY <1>2 DEF CallerStep, Poll, Expire, Check, CheckMessaging, Recover,
     Attempt, Unlock, WrongPin, PinNotNeeded, Verify, Enable, Reset
<1>3. CASE \E p \in Callers : CallerStep(p)
  BY <1>2, <1>3 DEF boot, BootType
<1>4. CASE \E p \in Callers : CallFails(p)
  BY <1>4, ConstantsAssumption DEF CallFails, boot, BootType
<1>5. ASSUME NEW w \in Indices, Subscribe(w)
      PROVE  caller[w].at \in Indices
  BY <1>5 DEF Subscribe, CallerType, At, Callers
<1>6. CASE \E w \in Indices : WatcherStep(w)
  BY <1>5, <1>6 DEF WatcherStep, ResolveWatched, Bind, Subscribe,
     EnableHalfway, SubscribeFails, PeriodicCheck, boot, BootType
<1>7. CASE \E w \in Indices : WatcherDies(w)
  BY <1>7, ConstantsAssumption DEF WatcherDies, boot, BootType
<1>8. CASE \E s \in Sims : ModemStep(s)
  BY <1>8 DEF ModemStep, ComesBack, MessagingComesUp, boot, BootType
<1>9. CASE \E s \in Sims : ModemFails(s) \/ ComesBackElsewhere(s)
  <2>1. /\ troubles < MaxTroubles /\ troubles' = troubles + 1
        /\ moved' \in {moved, TRUE} /\ UNCHANGED <<boot, hears>>
    BY <1>9 DEF ModemFails, ComesBackElsewhere
  <2>2. troubles' \in 0 .. MaxTroubles
    BY <2>1, ConstantsAssumption
  <2>3. moved' \in BOOLEAN
    BY <2>1
  <2> QED
    BY <2>1, <2>2, <2>3 DEF boot, BootType
<1> QED
  BY <1>1, <1>3, <1>4, <1>6, <1>7, <1>8, <1>9 DEF Next

(* The types hold of the initial state.                                    *)
LEMMA TypedInit == Init => Typed
<1> SUFFICES ASSUME Init PROVE Typed
  OBVIOUS
<1>1. ModemType
  BY ConstantsAssumption DEF Init, ModemType, States
<1>2. \A p \in Callers : Fits(p, caller[p])
  <2> SUFFICES ASSUME NEW p \in Callers PROVE Fits(p, caller[p])
    OBVIOUS
  <2>1. PICK pc \in {"sync", "off"} : caller[p] = Free(pc)
    BY DEF Init
  <2>2. Free(pc) \in CallerRecords /\ Free(pc).pc = pc
    BY FreeRecord DEF BootPcs, WatcherPcs
  <2> QED
    BY <2>1, <2>2 DEF Fits, WaitPcs
<1>3. caller \in [Callers -> CallerRecords]
  BY <1>2 DEF Init, Fits
<1>4. CallerType /\ Polling
  BY <1>2, <1>3, CallersFit
<1>5. BootType
  BY ConstantsAssumption DEF Init, BootType
<1>6. hears \in [Indices -> Indices \cup {NoIndex}]
  BY DEF Init
<1>7. troubles \in 0 .. MaxTroubles
  BY ConstantsAssumption DEF Init
<1>8. moved \in BOOLEAN
  BY DEF Init
<1> QED
  BY <1>1, <1>4, <1>5, <1>6, <1>7, <1>8 DEF Typed, TypeOK

(* Every step keeps the types.                                             *)
LEMMA TypedStep == Typed /\ [Next]_vars => Typed'
<1> SUFFICES ASSUME Typed, [Next]_vars PROVE Typed'
  OBVIOUS
<1>1. CASE UNCHANGED vars
  BY <1>1 DEF Typed, TypeOK, Polling, ModemType, CallerType, BootType, At,
     vars, modems, boot
<1>2. CASE Next
  <2>1. ModemType'
    BY <1>2, ModemCallType, ModemStepType DEF Next, Typed, TypeOK
  <2>2. CallerType' /\ Polling'
    <3>1. CASE \E s \in Sims :
                 ModemStep(s) \/ ModemFails(s) \/ ComesBackElsewhere(s)
      BY <3>1 DEF ModemStep, ComesBack, MessagingComesUp, ModemFails,
         ComesBackElsewhere, Typed, TypeOK, CallerType, Polling, At
    <3> QED
      BY <1>2, <3>1, CallerStepType, WatcherStepType, BootStepType DEF Next
  <2> QED
    BY <1>2, <2>1, <2>2, RestType DEF Typed, TypeOK
<1> QED
  BY <1>1, <1>2

(* Every variable has its type: who works on a modem has its index, a      *)
(* watcher that listens does so at an index, modems never share one, the   *)
(* PIN tries never run below zero, and a wait never exceeds its polls.     *)
THEOREM Typing == Spec => []TypeOK
<1>1. Typed => TypeOK
  BY DEF Typed
<1> QED
  BY <1>1, TypedInit, TypedStep, PTL DEF Spec

-----------------------------------------------------------------------------
(* The PIN tries.                                                          *)

(* No step but a wrong PIN takes a try, and none but a return elsewhere    *)
(* gives a modem another index.                                            *)
LEMMA TriesStep ==
  ASSUME Next
  PROVE  \/ UNCHANGED <<place, tries, moved>>
         \/ moved' = TRUE
         \/ UNCHANGED <<place, moved>> /\ \E p \in Callers : WrongPin(p)
<1>1. CASE BootStep
  BY <1>1 DEF BootStep, Sync, ListModems, WaitForNext, StartWatchers, modems
<1>2. CASE \E p \in Callers : CallerStep(p) \/ CallFails(p)
  BY <1>2 DEF CallerStep, Poll, Expire, Check, CheckMessaging, Recover,
     Attempt, Unlock, WrongPin, PinNotNeeded, Verify, Enable, Reset,
     CallFails, modems
<1>3. CASE \E w \in Indices : WatcherStep(w) \/ WatcherDies(w)
  BY <1>3 DEF WatcherStep, ResolveWatched, Bind, Subscribe, EnableHalfway,
     SubscribeFails, PeriodicCheck, WatcherDies, modems
<1>4. CASE \E s \in Sims :
             ModemStep(s) \/ ModemFails(s) \/ ComesBackElsewhere(s)
  BY <1>4 DEF ModemStep, ComesBack, MessagingComesUp, ModemFails,
     ComesBackElsewhere
<1> QED
  BY <1>1, <1>2, <1>3, <1>4 DEF Next

(* A SIM whose own PIN is configured for its index loses no try: whoever   *)
(* sends a PIN sends the one of the index that it goes to.                 *)
THEOREM RightPinIsSafe == Spec => []RightPinKeepsTries
<1>1. Init => RightPinKeepsTries
  BY DEF Init, RightPinKeepsTries
<1>2. Typed /\ RightPinKeepsTries /\ Next => RightPinKeepsTries'
  <2> SUFFICES ASSUME Typed, RightPinKeepsTries, Next PROVE RightPinKeepsTries'
    OBVIOUS
  <2> USE DEF RightPinKeepsTries
  <2>1. CASE UNCHANGED <<place, tries, moved>> \/ moved' = TRUE
    BY <2>1
  <2>2. ASSUME NEW p \in Callers, WrongPin(p), UNCHANGED <<place, moved>>
        PROVE  RightPinKeepsTries'
    <3> DEFINE s == SimAt(caller[p].at)
    <3>1. s \in Sims /\ PinFor(place[s]) # s
      BY <2>2, SeenIsListed DEF WrongPin, NeedsPin, PinSent
    <3>2. /\ tries' = [tries EXCEPT ![s] = @ - 1]
          /\ tries \in [Sims -> 0 .. PinTries]
      BY <2>2 DEF WrongPin, Typed, TypeOK, ModemType
    <3> HIDE DEF s
    <3> QED
      BY <2>2, <3>1, <3>2
  <2> QED
    BY <2>1, <2>2, TriesStep
<1>3. RightPinKeepsTries /\ UNCHANGED vars => RightPinKeepsTries'
  BY DEF RightPinKeepsTries, vars, modems
<1>4. Spec => []Typed
  BY TypedInit, TypedStep, PTL DEF Spec
<1> QED
  BY <1>1, <1>2, <1>3, <1>4, PTL DEF Spec

=============================================================================
