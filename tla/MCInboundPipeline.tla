------------------------- MODULE MCInboundPipeline -------------------------
(* Instances of InboundPipeline for TLC.                                   *)
EXTENDS InboundPipeline

Lost == {m \in arrived : ~OnModem(m)}

(* Bound: one trouble of any kind in a behaviour; one message that the     *)
(* modem loses, which is whole by then, and with which no other trouble    *)
(* comes but an error or a restart of ModemManager that keeps the path of  *)
(* the modem.                                                              *)
OneTrouble ==
  /\ faults + crashes + rotations + renumberings + disconnects <= 1
  /\ Cardinality(Lost) <= 1
  /\ Lost # {} => link # "deaf" /\ crashes + rotations + disconnects = 0
  /\ \A m \in Lost : text[m] = Whole

(* Bound: an error or a message that the modem loses, but not both, and    *)
(* neither before the message is whole; its first part is there when its   *)
(* path is handed over.                                                    *)
LateTrouble ==
  /\ taken # {} => \A m \in arrived : text[m] > 0
  /\ faults > 0 => Lost = {}
  /\ faults > 0 \/ Lost # {} => \A m \in arrived : text[m] = Whole
=============================================================================
