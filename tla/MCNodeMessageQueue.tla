------------------------- MODULE MCNodeMessageQueue -------------------------
(***************************************************************************)
(* Instances of NodeMessageQueue for TLC.                                  *)
(***************************************************************************)
EXTENDS NodeMessageQueue

CONSTANTS mqtt, btc, timer
=============================================================================
