-------------------------- MODULE WebhookDelivery --------------------------
(***************************************************************************)
(* What the webhook queue promises for messages that are saved once, with  *)
(* no word about workers, claims, counters or restarts: a message is       *)
(* queued, its endpoints receive it while it is queued, and it settles as  *)
(* delivered, only when every endpoint it is due to has received it, or as *)
(* failed.  A settled message stays settled and is not sent again.  No     *)
(* endpoint becomes due to a message once it is queued.  A message may be  *)
(* withdrawn, deleted or saved again, and then still be sent by a delivery *)
(* that was under way.                                                     *)
(***************************************************************************)
CONSTANTS Sms, Urls

VARIABLES stage, got, due

vars == <<stage, got, due>>

Stages == {"absent", "queued", "delivered", "failed", "withdrawn"}

Init ==
  /\ stage = [m \in Sms |-> "absent"]
  /\ got = [m \in Sms |-> {}]
  /\ due \in [Sms -> SUBSET Urls]

Move(m, from, to) ==
  /\ stage[m] \in from
  /\ stage' = [stage EXCEPT ![m] = to]
  /\ UNCHANGED <<got, due>>

Submit(m) == Move(m, {"absent"}, "queued")

Send(m, u) ==
  /\ stage[m] \in {"queued", "withdrawn"}
  /\ got' = [got EXCEPT ![m] = @ \cup {u}]
  /\ UNCHANGED <<stage, due>>

Complete(m) == due[m] \subseteq got[m] /\ Move(m, {"queued"}, "delivered")

GiveUp(m) == Move(m, {"queued"}, "failed")

Withdraw(m) == Move(m, Stages \ {"withdrawn"}, "withdrawn")

Reconfigure ==
  /\ due' \in [Sms -> SUBSET Urls]
  /\ \A m \in Sms : stage[m] # "absent" => due'[m] \subseteq due[m]
  /\ UNCHANGED <<stage, got>>

Next ==
  \/ \E m \in Sms :
       Submit(m) \/ (\E u \in Urls : Send(m, u)) \/ Complete(m) \/ GiveUp(m)
         \/ Withdraw(m)
  \/ Reconfigure

Spec == Init /\ [][Next]_vars
=============================================================================
