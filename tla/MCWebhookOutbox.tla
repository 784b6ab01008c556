-------------------------- MODULE MCWebhookOutbox --------------------------
(* Instances of WebhookOutbox for TLC.  Messages, threads and URLs are     *)
(* interchangeable; liveness runs do without the symmetry.                 *)
EXTENDS WebhookOutbox, FiniteSets, Functions, TLC

Symmetry ==
  Permutations(Sms) \cup Permutations(Writers) \cup Permutations(Workers)
    \cup Permutations(Urls)

(* Constraint of the liveness run: two messages saved once, or one saved   *)
(* up to twice and one crash or database error.                            *)
TwoSaves ==
  /\ SumFunction(version) <= 2
  /\ Cardinality({m \in Sms : version[m] > 0}) + crashes + faults <= 2
=============================================================================
