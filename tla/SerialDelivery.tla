--------------------------- MODULE SerialDelivery ---------------------------
(***************************************************************************)
(* What the Companion edition's queue of sends to External Mesh Nodes      *)
(* promises, without saying how: commands are transmitted one at a time,   *)
(* in the order they were given, each at most MaxRetries + 1 times; a      *)
(* command that was never transmitted may be superseded by an equal newer  *)
(* one; and a node that has been forgotten gets nothing any more.          *)
(* ExternalNodeQueue implements this specification.                        *)
(***************************************************************************)
EXTENDS Naturals, Sequences

CONSTANTS Addrs, NoAddr, Ops, NoOp, MaxRetries, MaxSends

Ids == 1 .. MaxSends
Commands == [addr : Addrs, op : Ops] \cup [addr : {NoAddr}, op : {NoOp}]

VARIABLES cmd, status, tries, forgotten

dvars == <<cmd, status, tries, forgotten>>

Init ==
  /\ cmd = <<>> /\ forgotten = {}
  /\ status = [i \in Ids |-> "none"] /\ tries = [i \in Ids |-> 0]

\* At most one command is transmitted in a step: the only one that has begun and is not
\* settled, or else one nobody has overtaken.
MayTransmit(now) ==
  \/ tries' = tries
  \/ \E i \in Ids :
       /\ now[i] = "live" /\ i \notin forgotten
       /\ tries[i] <= MaxRetries
       /\ \A j \in Ids \ {i} : /\ now[j] = "live" => tries[j] = 0
                              /\ j > i => tries[j] = 0
       /\ tries' = [tries EXCEPT ![i] = @ + 1]

Submit(c) ==
  LET id == Len(cmd) + 1
      equal == {i \in DOMAIN cmd : c.addr # NoAddr /\ cmd[i] = c
                                   /\ status[i] = "live" /\ tries[i] = 0}
  IN /\ id \in Ids /\ cmd' = Append(cmd, c)
     /\ \E old \in {{}} \cup {{i} : i \in equal} :
          status' = [i \in Ids |-> IF i = id THEN "live"
                                   ELSE IF i \in old THEN "superseded" ELSE status[i]]
     /\ MayTransmit(status')
     /\ UNCHANGED forgotten

Settle(i) ==
  /\ status[i] = "live" /\ tries[i] > 0
  /\ \/ status' = [status EXCEPT ![i] = "acked"] /\ cmd[i].addr # NoAddr
     \/ status' = [status EXCEPT ![i] = "sent"] /\ cmd[i].addr = NoAddr
     \/ /\ tries[i] = MaxRetries + 1 \/ i \in forgotten
        /\ status' = [status EXCEPT ![i] = "gaveup"]
  /\ MayTransmit(status')
  /\ UNCHANGED <<cmd, forgotten>>

Forget(a) ==
  LET to == {i \in DOMAIN cmd : cmd[i].addr = a}
      quiet == {i \in to : status[i] = "live" /\ tries[i] = 0}
  IN /\ forgotten' = forgotten \cup to
     /\ \E dropped \in SUBSET {i \in to : status[i] = "live"} :
          /\ quiet \subseteq dropped
          /\ status' = [i \in Ids |-> IF i \in dropped THEN "dropped" ELSE status[i]]
     /\ UNCHANGED <<cmd, tries>>

Transmit == tries' # tries /\ MayTransmit(status) /\ UNCHANGED <<cmd, status, forgotten>>

Next ==
  \/ \E c \in Commands : Submit(c)
  \/ \E i \in Ids : Settle(i)
  \/ \E a \in Addrs : Forget(a)
  \/ Transmit

Spec == Init /\ [][Next]_dvars
=============================================================================
