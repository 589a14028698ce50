------------------------------ MODULE MCMqttLink ------------------------------
(* Small instances of MqttLink. *)
EXTENDS MqttLink

\* The port alone, for which there is a default, or all the others.
MCLosses == {{}, {"broker_port"}, Encrypted}
=============================================================================
