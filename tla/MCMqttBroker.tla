---------------------------- MODULE MCMqttBroker ----------------------------
(* Values for checking MqttBroker with TLC. *)
EXTENDS MqttBroker, TLC

CONSTANTS c1, c2, s1, s2

TwoListeners == {"mqtt", "tls"}
TwoClients == {c1, c2}
PlainAndSecure == (c1 :> "mqtt") @@ (c2 :> "tls")
TwoStoppers == {s1, s2}
=============================================================================
