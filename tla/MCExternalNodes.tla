--------------------------- MODULE MCExternalNodes ---------------------------
(***************************************************************************)
(* An instance of ExternalNodes for TLC.  Handlers one at a time, with     *)
(* everything a broker and Home Assistant may do; any overlap of them,     *)
(* without a broker, which the table and its copy in flash do not need;    *)
(* and one at a time again over a flash that may fail.                     *)
(***************************************************************************)
EXTENDS ExternalNodes

CONSTANTS n1, btc, http, mqtt, timer

MCScenes ==
  {[overlap |-> FALSE, brokerUp |-> TRUE, linkMayDrop |-> TRUE, haMayRestart |-> TRUE,
    flashMayFail |-> FALSE, maxForgets |-> 1],
   [overlap |-> TRUE, brokerUp |-> FALSE, linkMayDrop |-> FALSE, haMayRestart |-> FALSE,
    flashMayFail |-> FALSE, maxForgets |-> 2],
   [overlap |-> FALSE, brokerUp |-> FALSE, linkMayDrop |-> FALSE, haMayRestart |-> FALSE,
    flashMayFail |-> TRUE, maxForgets |-> 1]}
=============================================================================
