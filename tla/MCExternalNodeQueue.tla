------------------------ MODULE MCExternalNodeQueue ------------------------
(***************************************************************************)
(* An instance of ExternalNodeQueue for TLC.                               *)
(***************************************************************************)
EXTENDS ExternalNodeQueue

CONSTANTS web, btc, timer, n1, onoff, level
=============================================================================
