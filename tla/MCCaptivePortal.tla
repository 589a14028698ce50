--------------------------- MODULE MCCaptivePortal ---------------------------
(***************************************************************************)
(* Instances of CaptivePortal for TLC.                                     *)
(***************************************************************************)
EXTENDS CaptivePortal

Web == {"index.html", "setup.html", "style.css.gz"}

Counted(opens, logs, turns, changes, scans) ==
  [opens |-> opens, logs |-> logs, turns |-> turns, changes |-> changes, scans |-> scans]
Booted(isAp, late) == [ap |-> isAp, late |-> late]

\* Pages that read the log; what is retained of it; both tasks report the link, beside a page;
\* the portal.
MCScenes ==
  {<<Counted(3, 1, 0, 0, 0), Booted(FALSE, FALSE)>>, <<Counted(1, 1, 2, 0, 0), Booted(FALSE, FALSE)>>,
   <<Counted(1, 0, 0, 2, 0), Booted(FALSE, FALSE)>>,
   <<Counted(0, 0, 0, 2, 1), Booted(TRUE, TRUE)>>, <<Counted(1, 1, 0, 1, 0), Booted(TRUE, FALSE)>>,
   <<Counted(0, 0, 0, 0, 3), Booted(TRUE, FALSE)>>}
=============================================================================
