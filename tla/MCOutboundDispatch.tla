------------------------- MODULE MCOutboundDispatch -------------------------
(* Instances of OutboundDispatch for TLC.  SMS, request threads and        *)
(* workers are interchangeable; liveness runs do without the symmetry.     *)
EXTENDS OutboundDispatch, TLC

Symmetry ==
  Permutations(Sms) \cup Permutations(Requests) \cup Permutations(Workers)

(* Constraint of the run with two SMS: what the watcher sees it sees in    *)
(* behaviours with one.                                                    *)
OneEcho ==
  watcher.sms # None \/ (\E m \in Sms : echo[m] # "none") =>
    Cardinality({m \in Sms : row[m] # "none"}) = 1
=============================================================================
