------------------------------ MODULE MCWifiLink ------------------------------
(***************************************************************************)
(* Instances of WifiLink for TLC.                                          *)
(***************************************************************************)
EXTENDS WifiLink

Home == [ssid |-> 4, password |-> 8]
=============================================================================
