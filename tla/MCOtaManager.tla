---------------------------- MODULE MCOtaManager ----------------------------
(***************************************************************************)
(* Instances of OtaManager for TLC.                                        *)
(***************************************************************************)
EXTENDS OtaManager

ImageOf(e, from, len, good) ==
  [edition |-> e, from |-> from, to |-> IF from = 0 THEN 0 ELSE from + 2, len |-> len,
   header |-> len > 2, sound |-> good]

\* Both editions, one from before editions, one that is broken, and no firmware at all.
Sent == {ImageOf("Standalone", 3, 6, TRUE), ImageOf("Companion", 2, 5, TRUE),
         ImageOf("Standalone", 0, 3, TRUE), ImageOf("Standalone", 2, 4, FALSE),
         ImageOf("Standalone", 0, 2, FALSE)}
=============================================================================
