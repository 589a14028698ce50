------------------------- MODULE HomeAssistantProofs -------------------------
(***************************************************************************)
(* Theorems about what Home Assistant is told: about Commissioning, with   *)
(* BridgeEntities in it, for any devices, elements, bearers and budgets,   *)
(* and about MqttLink, the client it is told through, for any nodes,       *)
(* clients and timers, and any number of requests, connections and         *)
(* restarts.                                                               *)
(***************************************************************************)
EXTENDS Commissioning, MqttLink, WellFoundedInduction, TLAPS

(***************************************************************************)
(* What is in a sequence.                                                  *)
(***************************************************************************)
LEMMA InTail ==
  ASSUME NEW S, NEW s \in Seq(S), s # <<>>
  PROVE  /\ Tail(s) \in Seq(S) /\ Head(s) \in S
         /\ ToSet(s) = {Head(s)} \cup ToSet(Tail(s))
<1>1. /\ Tail(s) \in Seq(S) /\ Head(s) \in S /\ Len(s) \in Nat \ {0} /\ Len(Tail(s)) = Len(s) - 1
      /\ Head(s) = s[1] /\ \A i \in 1 .. Len(Tail(s)) : Tail(s)[i] = s[i + 1]
      /\ DOMAIN s = 1 .. Len(s) /\ DOMAIN Tail(s) = 1 .. Len(Tail(s))
  OBVIOUS
<1>2. ASSUME NEW x \in ToSet(s)
      PROVE  x \in {Head(s)} \cup ToSet(Tail(s))
  <2>1. PICK i \in 1 .. Len(s) : x = s[i]
    BY <1>1, <1>2 DEF ToSet
  <2>2. i = 1 \/ (i - 1 \in 1 .. Len(Tail(s)) /\ Tail(s)[i - 1] = s[i])
    BY <1>1
  <2> QED BY <1>1, <2>1, <2>2 DEF ToSet
<1>3. Head(s) \in ToSet(s)
  BY <1>1 DEF ToSet
<1>4. \A i \in 1 .. Len(Tail(s)) : Tail(s)[i] \in ToSet(s)
  BY <1>1 DEF ToSet
<1> QED BY <1>1, <1>2, <1>3, <1>4 DEF ToSet

LEMMA InAppend ==
  ASSUME NEW S, NEW s \in Seq(S), NEW e \in S
  PROVE  Append(s, e) \in Seq(S) /\ ToSet(Append(s, e)) = ToSet(s) \cup {e}
<1>1. /\ Append(s, e) \in Seq(S) /\ Len(s) \in Nat /\ Len(Append(s, e)) = Len(s) + 1
      /\ Append(s, e)[Len(s) + 1] = e /\ \A i \in 1 .. Len(s) : Append(s, e)[i] = s[i]
      /\ DOMAIN s = 1 .. Len(s) /\ DOMAIN Append(s, e) = 1 .. Len(Append(s, e))
  OBVIOUS
<1>2. \A i \in 1 .. Len(s) + 1 : i \in 1 .. Len(s) \/ i = Len(s) + 1
  BY <1>1
<1>3. 1 .. Len(s) \subseteq 1 .. Len(s) + 1 /\ Len(s) + 1 \in 1 .. Len(s) + 1
  BY <1>1
<1>4. ToSet(Append(s, e)) \subseteq ToSet(s) \cup {e}
  BY <1>1, <1>2 DEF ToSet
<1>5. ToSet(s) \cup {e} \subseteq ToSet(Append(s, e))
  BY <1>1, <1>3 DEF ToSet
<1> QED BY <1>1, <1>4, <1>5

LEMMA InConcat ==
  ASSUME NEW S, NEW s \in Seq(S), NEW t \in Seq(S)
  PROVE  s \o t \in Seq(S) /\ ToSet(s \o t) = ToSet(s) \cup ToSet(t)
<1>1. /\ s \o t \in Seq(S) /\ Len(s) \in Nat /\ Len(t) \in Nat /\ Len(s \o t) = Len(s) + Len(t)
      /\ \A i \in 1 .. Len(s) : (s \o t)[i] = s[i]
      /\ \A i \in 1 .. Len(t) : (s \o t)[Len(s) + i] = t[i]
      /\ DOMAIN s = 1 .. Len(s) /\ DOMAIN t = 1 .. Len(t) /\ DOMAIN (s \o t) = 1 .. Len(s \o t)
  OBVIOUS
<1>2. ASSUME NEW i \in 1 .. Len(s) + Len(t)
      PROVE  (s \o t)[i] \in ToSet(s) \cup ToSet(t)
  <2>1. CASE i <= Len(s)
    BY <1>1, <2>1 DEF ToSet
  <2>2. CASE i > Len(s)
    <3>1. i - Len(s) \in 1 .. Len(t) /\ Len(s) + (i - Len(s)) = i
      BY <1>1, <2>2
    <3> QED BY <1>1, <3>1 DEF ToSet
  <2> QED BY <1>1, <2>1, <2>2
<1>3. \A i \in 1 .. Len(s) : s[i] \in ToSet(s \o t)
  BY <1>1 DEF ToSet
<1>4. \A i \in 1 .. Len(t) : t[i] \in ToSet(s \o t)
  <2>1. \A i \in 1 .. Len(t) : Len(s) + i \in 1 .. Len(s \o t)
    BY <1>1
  <2> QED BY <1>1, <2>1 DEF ToSet
<1>5. ToSet(s \o t) \subseteq ToSet(s) \cup ToSet(t)
  BY <1>1, <1>2 DEF ToSet
<1>6. ToSet(s) \cup ToSet(t) \subseteq ToSet(s \o t)
  BY <1>1, <1>3, <1>4 DEF ToSet
<1> QED BY <1>1, <1>5, <1>6

LEMMA InOne ==
  ASSUME NEW S, NEW a \in S
  PROVE  /\ <<a>> \in Seq(S) /\ ToSet(<<a>>) = {a}
         /\ <<>> \in Seq(S) /\ ToSet(<<>>) = {}
  BY DEF ToSet

-----------------------------------------------------------------------------
(* A set of numbers below some bound has a greatest one. *)

Under == {p \in Nat \X Nat : p[1] < p[2]}

LEMMA UnderWF == IsWellFoundedOn(Under, Nat)
<1>1. Under = OpToRel(<, Nat)
  BY DEF Under, OpToRel
<1> QED BY <1>1, NatLessThanWellFounded

LEMMA HasGreatest ==
  ASSUME NEW S, NEW n \in Nat, S \subseteq 0 .. n, S # {}
  PROVE  Max(S) \in S
<1> DEFINE T == {n - x : x \in S}
<1>1. \A x \in S : n - x \in Nat
  OBVIOUS
<1>2. T \subseteq Nat /\ T # {}
  BY <1>1
<1>3. PICK t \in T : \A u \in T : <<u, t>> \notin Under
  BY <1>2, UnderWF, WFMin
<1>4. PICK x \in S : t = n - x
  OBVIOUS
<1>5. \A y \in S : ~ (n - y < t)
  BY <1>1, <1>2, <1>3 DEF Under
<1>6. \A y \in S : x >= y
  BY <1>4, <1>5
<1> QED BY <1>6 DEF Max

-----------------------------------------------------------------------------
(***************************************************************************)
(* The devices.                                                            *)
(***************************************************************************)
Binds == [model : Servers \cup {"none"}, offset : Nat]
Messages == [op : {"composition", "appkey", "bind", "refresh", "announce", "reset"}, bind : Binds]
Marks == {"byHand", "refused", "unnamed", "dropped", "stolen", "unheard", "reset", "forgotten"}
Bad == {"unnamed", "dropped", "stolen"}

Typed ==
  /\ TypeOK
  /\ queue \in [Devices -> Seq(Messages)]
  /\ doubts \in [Devices -> SUBSET Marks]

\* Nothing is queued for a node that is not known.
Addressed == \A d \in Devices : ~Known(d) => queue[d] = <<>>

\* A device listed by PB-ADV is being added, whatever the switch is set to, or is its user's, or
\* the stack has let go of it.
Taken ==
  \A d \in Devices :
    listed[d] = "adv" => d \in adding \/ doubts[d] \cap {"byHand", "refused", "unnamed"} # {}

\* The binding that brings the key to model m.
BindFor(d, m) == Bind(m, IF m = "ctl_temp" THEN Parsed(d).offset ELSE 0)

\* What is queued leads to a node with its key and all its models bound: it is asked what it is,
\* or is known for what it is and gets the key, after which the bindings are queued, or they are.
Leads(d) ==
  \/ Msg("composition") \in ToSet(queue[d])
  \/ entry[d] = Parsed(d) /\ Msg("appkey") \in ToSet(queue[d])
  \/ /\ dev[d].keyed
     /\ \A m \in Bindable(d) : m \in dev[d].bound \/ BindFor(d, m) \in ToSet(queue[d])

Served(d) == Reached(d) /\ Known(d) /\ doubts[d] \cap Bad = {} => Leads(d)

NodeInv == Typed /\ Addressed /\ Taken /\ \A d \in Devices : Served(d)

-----------------------------------------------------------------------------
LEMMA MsgType ==
  /\ \A op \in {"composition", "appkey", "refresh", "announce", "reset"} : Msg(op) \in Messages
  /\ \A m \in Servers, n \in Nat : Bind(m, n) \in Messages /\ Bind(m, n).op = "bind"
                                   /\ Bind(m, n).bind = [model |-> m, offset |-> n]
  /\ NoBind \in Binds
  BY DEF Msg, Bind, Messages, Binds, NoBind, Servers

LEMMA ElementsType ==
  ASSUME NEW d \in Devices
  PROVE  /\ Len(Elements[d]) \in Nat \ {0} /\ DOMAIN Elements[d] = 1 .. Len(Elements[d])
         /\ \A i \in 1 .. Len(Elements[d]) : Elements[d][i] \subseteq Servers
         /\ Models(d) \subseteq Servers
<1>1. Elements[d] \in Seq(SUBSET Servers) /\ Elements[d] # <<>>
  BY CommissioningAssumption DEF CommissioningAssumption
<1>2. /\ Len(Elements[d]) \in Nat \ {0} /\ DOMAIN Elements[d] = 1 .. Len(Elements[d])
      /\ \A i \in 1 .. Len(Elements[d]) : Elements[d][i] \in SUBSET Servers
  BY <1>1
<1> QED BY <1>2 DEF Models

\* What is parsed: the features of all elements, and where the temperature server is.
LEMMA ParsedType ==
  ASSUME NEW d \in Devices
  PROVE  /\ Parsed(d) \in [features : SUBSET Servers, offset : Nat, known : BOOLEAN]
         /\ Parsed(d).known /\ Parsed(d).features = Models(d) \ {"ctl_temp"}
         /\ "ctl_temp" \in Models(d) => /\ Parsed(d).offset + 1 \in 1 .. Len(Elements[d])
                                        /\ "ctl_temp" \in Elements[d][Parsed(d).offset + 1]
<1> DEFINE at == {i \in DOMAIN Elements[d] : "ctl_temp" \in Elements[d][i]}
           off == IF at = {} THEN 0 ELSE Max(at) - 1
<1>1. /\ at \subseteq 1 .. Len(Elements[d]) /\ Len(Elements[d]) \in Nat
      /\ \A i \in at : "ctl_temp" \in Elements[d][i]
      /\ "ctl_temp" \in Models(d) => at # {}
      /\ Parsed(d) = [known |-> TRUE, features |-> Models(d) \ {"ctl_temp"}, offset |-> off]
  BY ElementsType DEF Models, Parsed
<1> HIDE DEF at
<1>2. at # {} => Max(at) \in at
  <2>1. at \subseteq 0 .. Len(Elements[d])
    BY <1>1
  <2> QED BY <1>1, <2>1, HasGreatest
<1>3. at # {} => Max(at) \in 1 .. Len(Elements[d]) /\ "ctl_temp" \in Elements[d][Max(at)]
  BY <1>1, <1>2
<1> DEFINE last == Max(at)
<1> HIDE DEF last
<1>4. /\ off \in Nat
      /\ at # {} => off + 1 \in 1 .. Len(Elements[d]) /\ "ctl_temp" \in Elements[d][off + 1]
  <2>1. CASE at = {}
    BY <2>1
  <2>2. CASE at # {}
    <3>1. off = last - 1 /\ last \in 1 .. Len(Elements[d]) /\ "ctl_temp" \in Elements[d][last]
      BY <1>3, <2>2 DEF last
    <3>2. off + 1 = last
      BY <1>1, <3>1
    <3> QED BY <1>1, <3>1, <3>2
  <2> QED BY <2>1, <2>2
<1> HIDE DEF off
<1> QED BY <1>1, <1>4, ElementsType

\* Each of the bindings that are due is one the device takes.
LEMMA BindTaken ==
  ASSUME Typed, NEW d \in Devices, NEW m \in Bindable(d)
  PROVE  /\ m \in Servers /\ BindFor(d, m) \in Messages /\ BindFor(d, m).op = "bind"
         /\ BindFor(d, m).bind.model = m
         /\ dev[d].keyed => Takes(d, BindFor(d, m).bind)
<1> DEFINE n == IF m = "ctl_temp" THEN Parsed(d).offset ELSE 0
<1>2. m \in Servers
  <2>1. Elements[d][1] \subseteq Servers /\ Models(d) \subseteq Servers
    BY ElementsType
  <2> QED BY <2>1 DEF Bindable
<1>3. n \in Nat /\ n < Len(Elements[d]) /\ m \in Elements[d][n + 1]
  <2>1. CASE m = "ctl_temp"
    <3>1. "ctl_temp" \in Models(d)
      BY <2>1 DEF Bindable
    <3> QED BY <2>1, <3>1, ParsedType, ElementsType
  <2>2. CASE m # "ctl_temp"
    <3>1. m \in Elements[d][1] /\ n = 0
      BY <2>2 DEF Bindable
    <3> QED BY <3>1, ElementsType
  <2> QED BY <2>1, <2>2
<1>4. BindFor(d, m) = Bind(m, n)
  BY DEF BindFor
<1> HIDE DEF n
<1> QED BY <1>2, <1>3, <1>4, MsgType DEF Takes, Bind

LEMMA BindsIn ==
  ASSUME NEW e, NEW f \in Servers, e.offset \in Nat
  PROVE  /\ BindsOf(e, f) \in Seq(Messages)
         /\ f \in e.features => /\ Bind(f, 0) \in ToSet(BindsOf(e, f))
                                /\ f = "ctl" => Bind("ctl_temp", e.offset) \in ToSet(BindsOf(e, f))
<1>1. /\ Bind(f, 0) \in Messages /\ Bind("ctl_temp", e.offset) \in Messages
  BY MsgType DEF Servers
<1> DEFINE one == IF f = "ctl" THEN <<Bind("ctl_temp", e.offset)>> ELSE <<>>
<1>2. one \in Seq(Messages) /\ (f = "ctl" => Bind("ctl_temp", e.offset) \in ToSet(one))
  BY <1>1, InOne
<1>3. <<Bind(f, 0)>> \in Seq(Messages) /\ Bind(f, 0) \in ToSet(<<Bind(f, 0)>>)
  BY <1>1, InOne
<1>4. BindsOf(e, f) = IF f \notin e.features THEN <<>> ELSE one \o <<Bind(f, 0)>>
  BY DEF BindsOf
<1> HIDE DEF one
<1>5. one \o <<Bind(f, 0)>> \in Seq(Messages)
      /\ ToSet(one \o <<Bind(f, 0)>>) = ToSet(one) \cup ToSet(<<Bind(f, 0)>>)
  BY <1>2, <1>3, InConcat
<1>6. <<>> \in Seq(Messages)
  OBVIOUS
<1> QED BY <1>2, <1>3, <1>4, <1>5, <1>6

\* Bind_App_Key_queue leaves out none that can be bound.
LEMMA AllQueued ==
  ASSUME NEW e, e.offset \in Nat
  PROVE  /\ Bind_App_Key_queue(e) \in Seq(Messages)
         /\ \A f \in Servers \ {"ctl_temp"} : f \in e.features =>
              /\ Bind(f, 0) \in ToSet(Bind_App_Key_queue(e))
              /\ f = "ctl" => Bind("ctl_temp", e.offset) \in ToSet(Bind_App_Key_queue(e))
<1> DEFINE a == BindsOf(e, "onoff")
           b == BindsOf(e, "level")
           c == BindsOf(e, "hsl")
           l == BindsOf(e, "lightness")
           t == BindsOf(e, "ctl")
           z == <<Msg("refresh"), Msg("announce")>>
<1>1. a \in Seq(Messages) /\ b \in Seq(Messages) /\ c \in Seq(Messages) /\ l \in Seq(Messages)
      /\ t \in Seq(Messages)
  BY BindsIn DEF Servers
<1>2. z \in Seq(Messages)
  BY MsgType
<1>3. Bind_App_Key_queue(e) = a \o b \o c \o l \o t \o z
  BY DEF Bind_App_Key_queue
<1>4. \A f \in Servers : f \in e.features => Bind(f, 0) \in ToSet(BindsOf(e, f))
  BY BindsIn
<1>5. "ctl" \in e.features => Bind("ctl_temp", e.offset) \in ToSet(t)
  BY BindsIn DEF Servers
<1>6. \A f \in Servers \ {"ctl_temp"} : f \in {"onoff", "level", "hsl", "lightness", "ctl"}
  BY DEF Servers
<1> HIDE DEF a, b, c, l, t, z
<1> DEFINE ab == a \o b
           abc == ab \o c
           abcl == abc \o l
           abclt == abcl \o t
           all == abclt \o z
<1>7. ab \in Seq(Messages) /\ ToSet(ab) = ToSet(a) \cup ToSet(b)
  BY <1>1, InConcat
<1> HIDE DEF ab
<1>8. abc \in Seq(Messages) /\ ToSet(abc) = ToSet(ab) \cup ToSet(c)
  BY <1>1, <1>7, InConcat
<1> HIDE DEF abc
<1>9. abcl \in Seq(Messages) /\ ToSet(abcl) = ToSet(abc) \cup ToSet(l)
  BY <1>1, <1>8, InConcat
<1> HIDE DEF abcl
<1>10. abclt \in Seq(Messages) /\ ToSet(abclt) = ToSet(abcl) \cup ToSet(t)
  BY <1>1, <1>9, InConcat
<1> HIDE DEF abclt
<1>11. all \in Seq(Messages) /\ ToSet(all) = ToSet(abclt) \cup ToSet(z)
  BY <1>2, <1>10, InConcat
<1>14. Bind_App_Key_queue(e) = all
  BY <1>3 DEF ab, abc, abcl, abclt
<1> HIDE DEF all
<1>12. ToSet(a) \cup ToSet(b) \cup ToSet(c) \cup ToSet(l) \cup ToSet(t) \subseteq ToSet(Bind_App_Key_queue(e))
  BY <1>14, <1>7, <1>8, <1>9, <1>10, <1>11
<1>13. ASSUME NEW f \in Servers \ {"ctl_temp"}, f \in e.features
       PROVE  Bind(f, 0) \in ToSet(Bind_App_Key_queue(e))
  <2>1. f \in {"onoff", "level", "hsl", "lightness", "ctl"} /\ Bind(f, 0) \in ToSet(BindsOf(e, f))
    BY <1>4, <1>6, <1>13
  <2> QED BY <1>12, <2>1 DEF a, b, c, l, t
<1> QED BY <1>5, <1>11, <1>12, <1>13, <1>14

\* Once a node known for what it is has the key, all its bindings are queued.
LEMMA BindsQueued ==
  ASSUME Typed, NEW d \in Devices, entry[d] = Parsed(d), NEW m \in Bindable(d)
  PROVE  BindFor(d, m) \in ToSet(Bind_App_Key_queue(entry[d]))
<1>1. /\ Parsed(d).offset \in Nat /\ Parsed(d).features = Models(d) \ {"ctl_temp"}
  BY ParsedType
<1>2. CASE m = "ctl_temp"
  <2>1. "ctl" \in Models(d) /\ "ctl" \in Servers
    BY <1>2 DEF Bindable, Servers
  <2> QED BY <1>1, <1>2, <2>1, AllQueued DEF BindFor
<1>3. CASE m # "ctl_temp"
  <2>1. m \in Models(d) /\ m \in Servers
    BY <1>3, ElementsType DEF Bindable, Models
  <2> QED BY <1>1, <1>3, <2>1, AllQueued DEF BindFor
<1> QED BY <1>2, <1>3

-----------------------------------------------------------------------------
(* What a step leaves alone. *)

LEMMA DueHead ==
  ASSUME Typed, NEW d \in Devices, Due(d).op # "none"
  PROVE  /\ queue[d] # <<>> /\ Due(d) = Head(queue[d]) /\ Due(d) \in Messages
         /\ Tail(queue[d]) \in Seq(Messages)
         /\ ToSet(queue[d]) = {Due(d)} \cup ToSet(Tail(queue[d]))
<1>1. queue[d] # <<>> /\ Due(d) = Head(queue[d]) /\ queue[d] \in Seq(Messages)
  BY DEF Due, Msg, Typed
<1> QED BY <1>1, InTail

\* What leads to the end does so as long as nothing of it is taken off the queue.
LEMMA LeadsKept ==
  ASSUME Typed, NEW d \in Devices, Leads(d),
         dev'[d].keyed = dev[d].keyed, dev[d].bound \subseteq dev'[d].bound,
         entry'[d] \in {entry[d], Parsed(d)},
         \A x \in ToSet(queue[d]) : x.op \in {"composition", "appkey", "bind"} => x \in ToSet(queue'[d])
  PROVE  Leads(d)'
<1>1. Msg("composition").op = "composition" /\ Msg("appkey").op = "appkey"
  BY DEF Msg
<1>2. CASE Msg("composition") \in ToSet(queue[d])
  BY <1>1, <1>2 DEF Leads
<1>3. CASE entry[d] = Parsed(d) /\ Msg("appkey") \in ToSet(queue[d])
  BY <1>1, <1>3 DEF Leads
<1>4. CASE dev[d].keyed /\ \A m \in Bindable(d) : m \in dev[d].bound \/ BindFor(d, m) \in ToSet(queue[d])
  <2>1. \A m \in Bindable(d) : BindFor(d, m).op = "bind"
    BY BindTaken
  <2> QED BY <1>4, <2>1 DEF Leads
<1> QED BY <1>2, <1>3, <1>4 DEF Leads

LEMMA ServedKept ==
  ASSUME Typed, NEW d \in Devices, Served(d),
         d \in stack' => d \in stack, dev'[d] = dev[d], entry'[d] = entry[d],
         doubts[d] \cap Bad \subseteq doubts'[d],
         \A x \in ToSet(queue[d]) : x.op \in {"composition", "appkey", "bind"} => x \in ToSet(queue'[d])
  PROVE  Served(d)'
<1> SUFFICES ASSUME Reached(d)', Known(d)', doubts'[d] \cap Bad = {}
             PROVE  Leads(d)'
  BY DEF Served
<1>1. Reached(d) /\ Known(d) /\ doubts[d] \cap Bad = {}
  BY DEF Reached, Known
<1> QED BY <1>1, LeadsKept DEF Served

Same(c) ==
  /\ dev'[c] = dev[c] /\ listed'[c] = listed[c] /\ entry'[c] = entry[c] /\ queue'[c] = queue[c]
  /\ doubts[c] \subseteq doubts'[c]
  /\ c \in adding => c \in adding' \/ "refused" \in doubts'[c]
  /\ c \in stack' => c \in stack

LEMMA SameServed ==
  ASSUME Typed, NEW c \in Devices, Same(c), Served(c)
  PROVE  Served(c)'
  BY ServedKept DEF Same

\* A step that concerns one device.
LEMMA OneDevice ==
  ASSUME NodeInv, Typed', NEW d \in Devices, \A c \in Devices \ {d} : Same(c),
         ~Known(d)' => queue'[d] = <<>>,
         listed'[d] = "adv" => d \in adding' \/ doubts'[d] \cap {"byHand", "refused", "unnamed"} # {},
         Served(d)'
  PROVE  NodeInv'
<1>1. Addressed'
  BY DEF NodeInv, Addressed, Same, Known
<1>2. Taken'
  <2> SUFFICES ASSUME NEW c \in Devices, listed'[c] = "adv"
               PROVE  c \in adding' \/ doubts'[c] \cap {"byHand", "refused", "unnamed"} # {}
    BY DEF Taken
  <2>1. CASE c = d
    BY <2>1
  <2>2. CASE c # d
    <3>1. Same(c) /\ (c \in adding \/ doubts[c] \cap {"byHand", "refused", "unnamed"} # {})
      BY <2>2 DEF NodeInv, Taken, Same
    <3> QED BY <3>1 DEF Same
  <2> QED BY <2>1, <2>2
<1>3. ASSUME NEW c \in Devices
      PROVE  Served(c)'
  <2>1. CASE c = d
    BY <2>1
  <2>2. CASE c # d
    BY <2>2, SameServed DEF NodeInv
  <2> QED BY <2>1, <2>2
<1> QED BY <1>1, <1>2, <1>3 DEF NodeInv

LEMMA NodeStutter == ASSUME NodeInv, UNCHANGED nodevars PROVE NodeInv'
<1> USE DEF nodevars
<1>1. Typed'
  BY DEF NodeInv, Typed, TypeOK
<1>2. Addressed' /\ Taken'
  BY DEF NodeInv, Addressed, Taken, Known
<1>3. \A c \in Devices : Served(c)'
  BY SameServed DEF NodeInv, Same
<1> QED BY <1>1, <1>2, <1>3 DEF NodeInv

-----------------------------------------------------------------------------
(* The list of unprovisioned devices. *)

\* What the stack takes, refuses or displaces.
LEMMA Added ==
  ASSUME NodeInv, NEW d \in Devices, AddUnprovDev(d)
  PROVE  /\ adding' \subseteq Devices /\ doubts' \in [Devices -> SUBSET Marks]
         /\ d \in adding' \/ "refused" \in doubts'[d]
         /\ \A c \in Devices : doubts[c] \cap Bad \subseteq doubts'[c]
         /\ \A c \in Devices \ {d} : /\ doubts[c] \subseteq doubts'[c]
                                     /\ c \in adding => c \in adding' \/ "refused" \in doubts'[c]
<1>1. adding \subseteq Devices /\ doubts \in [Devices -> SUBSET Marks]
  BY DEF NodeInv, Typed, TypeOK
<1>2. CASE d \in adding /\ UNCHANGED <<adding, doubts>>
  BY <1>1, <1>2
<1>3. CASE /\ adding' = adding \cup {d}
           /\ doubts' = [doubts EXCEPT ![d] = @ \ {"byHand", "refused"}]
  BY <1>1, <1>3 DEF Bad, Marks
<1>4. ASSUME NEW gone \in adding \cup {d}, adding' = (adding \cup {d}) \ {gone}, Doubt(gone, "refused")
      PROVE  /\ adding' \subseteq Devices /\ doubts' \in [Devices -> SUBSET Marks]
             /\ d \in adding' \/ "refused" \in doubts'[d]
             /\ \A c \in Devices : /\ doubts[c] \subseteq doubts'[c]
                                   /\ c \in adding => c \in adding' \/ "refused" \in doubts'[c]
  <2>1. /\ gone \in Devices /\ doubts' = [doubts EXCEPT ![gone] = @ \cup {"refused"}]
        /\ "refused" \in Marks
    BY <1>1, <1>4 DEF Doubt, Marks
  <2> QED BY <1>1, <1>4, <2>1
<1>5. CASE \E gone \in adding \cup {d} :
            adding' = (adding \cup {d}) \ {gone} /\ Doubt(gone, "refused")
  <2>1. PICK gone \in adding \cup {d} :
               adding' = (adding \cup {d}) \ {gone} /\ Doubt(gone, "refused")
    BY <1>5
  <2>2. /\ adding' \subseteq Devices /\ doubts' \in [Devices -> SUBSET Marks]
        /\ d \in adding' \/ "refused" \in doubts'[d]
        /\ \A c \in Devices : /\ doubts[c] \subseteq doubts'[c]
                              /\ c \in adding => c \in adding' \/ "refused" \in doubts'[c]
    BY <1>4, <2>1
  <2> QED BY <2>2
<1> QED BY <1>2, <1>3, <1>5 DEF AddUnprovDev

LEMMA BeaconStep ==
  ASSUME NodeInv, NEW d \in Devices, NEW b \in {"adv", "gatt"}, Beacon(d, b)
  PROVE  NodeInv'
<1> USE DEF Beacon
<1>1. Typed /\ Taken /\ Addressed /\ Served(d)
  BY DEF NodeInv
<1>2. UNCHANGED <<dev, stack, entry, queue, late, console, debug>>
  OBVIOUS
<1>3. /\ listed' = [listed EXCEPT ![d] = IF @ = "adv" THEN @ ELSE b]
      /\ listed' \in [Devices -> {"no", "adv", "gatt"}]
  BY <1>1 DEF Typed, TypeOK
<1>4. CASE enabled["auto"] /\ Triggers(d, b)
  <2>1. AddUnprovDev(d)
    BY <1>4
  <2>2. Typed'
    <3>1. adding' \subseteq Devices /\ doubts' \in [Devices -> SUBSET Marks]
      BY <2>1, Added
    <3> QED BY <1>1, <1>2, <1>3, <3>1 DEF Typed, TypeOK
  <2>3. ASSUME NEW c \in Devices \ {d} PROVE Same(c)
    <3>1. /\ doubts[c] \subseteq doubts'[c]
          /\ c \in adding => c \in adding' \/ "refused" \in doubts'[c]
      BY <2>1, Added
    <3> QED BY <1>1, <1>2, <1>3, <2>1, <3>1 DEF Same, Typed, TypeOK
  <2>4. Served(d)'
    BY <1>1, <1>2, <2>1, Added, ServedKept
  <2>5. ~Known(d)' => queue'[d] = <<>>
    BY <1>1, <1>2 DEF Addressed, Known
  <2> QED BY <2>1, <2>2, <2>3, <2>4, <2>5, Added, OneDevice
<1>5. CASE ~(enabled["auto"] /\ Triggers(d, b))
  <2>1. adding' = adding
    BY <1>5
  <2>2. /\ doubts' \in [Devices -> SUBSET Marks]
        /\ \A c \in Devices : doubts[c] \subseteq doubts'[c]
    BY <1>1, <1>5 DEF Typed, Doubt, Marks
  <2>3. Typed'
    BY <1>1, <1>2, <1>3, <2>1, <2>2 DEF Typed, TypeOK
  <2>4. \A c \in Devices \ {d} : Same(c)
    BY <1>1, <1>2, <1>3, <2>1, <2>2 DEF Same, Typed, TypeOK
  <2>5. ~Known(d)' => queue'[d] = <<>>
    BY <1>1, <1>2 DEF Addressed, Known
  <2>6. ASSUME listed'[d] = "adv"
        PROVE  d \in adding' \/ doubts'[d] \cap {"byHand", "refused", "unnamed"} # {}
    <3>1. CASE listed[d] = "adv"
      BY <1>1, <2>1, <2>2, <3>1 DEF Taken
    <3>2. CASE listed[d] # "adv"
      <4>1. b = "adv" /\ listed[d] \in {"no", "gatt"}
        BY <1>1, <1>3, <2>6, <3>2 DEF Typed, TypeOK
      <4>2. ~enabled["auto"]
        BY <1>5, <4>1 DEF Triggers
      <4>3. "byHand" \in doubts'[d]
        BY <1>1, <1>5, <4>1, <4>2 DEF Doubt, Typed
      <4> QED BY <4>3
    <3> QED BY <3>1, <3>2
  <2>7. Served(d)'
    BY <1>1, <1>2, <2>2, ServedKept
  <2> QED BY <2>3, <2>4, <2>5, <2>6, <2>7, OneDevice
<1> QED BY <1>4, <1>5

LEMMA ListStep ==
  ASSUME NodeInv, NEW d \in Devices, PruneStale(d) \/ Provision(d)
  PROVE  NodeInv'
<1>1. Typed /\ Taken /\ Addressed /\ Served(d)
  BY DEF NodeInv
<1>2. UNCHANGED <<dev, stack, entry, queue, late, console, debug>>
  BY DEF PruneStale, Provision
<1>3. ~Known(d)' => queue'[d] = <<>>
  BY <1>1, <1>2 DEF Addressed, Known
<1>4. CASE PruneStale(d)
  <2>1. listed' = [listed EXCEPT ![d] = "no"] /\ UNCHANGED <<adding, doubts>>
    BY <1>4 DEF PruneStale
  <2>2. listed' \in [Devices -> {"no", "adv", "gatt"}] /\ listed'[d] = "no"
    BY <1>1, <2>1 DEF Typed, TypeOK
  <2>3. Typed'
    BY <1>1, <1>2, <2>1, <2>2 DEF Typed, TypeOK
  <2>4. \A c \in Devices \ {d} : Same(c)
    BY <1>1, <1>2, <2>1 DEF Same, Typed, TypeOK
  <2>5. Served(d)'
    BY <1>1, <1>2, <2>1, ServedKept
  <2> QED BY <1>3, <2>2, <2>3, <2>4, <2>5, OneDevice
<1>5. CASE Provision(d)
  <2>1. AddUnprovDev(d) /\ UNCHANGED listed
    BY <1>5 DEF Provision
  <2>2. Typed'
    <3>1. adding' \subseteq Devices /\ doubts' \in [Devices -> SUBSET Marks]
      BY <2>1, Added
    <3> QED BY <1>1, <1>2, <2>1, <3>1 DEF Typed, TypeOK
  <2>3. ASSUME NEW c \in Devices \ {d} PROVE Same(c)
    <3>1. /\ doubts[c] \subseteq doubts'[c]
          /\ c \in adding => c \in adding' \/ "refused" \in doubts'[c]
      BY <2>1, Added
    <3> QED BY <1>2, <2>1, <3>1 DEF Same
  <2>4. Served(d)'
    BY <1>1, <1>2, <2>1, Added, ServedKept
  <2> QED BY <1>3, <2>1, <2>2, <2>3, <2>4, Added, OneDevice
<1> QED BY <1>4, <1>5

-----------------------------------------------------------------------------
(* Provisioning and configuration. *)

LEMMA NewDevice ==
  /\ Fresh \in [ours : BOOLEAN, keyed : BOOLEAN, bound : SUBSET Servers] /\ ~Fresh.ours
  /\ [Fresh EXCEPT !.ours = TRUE] \in [ours : BOOLEAN, keyed : BOOLEAN, bound : SUBSET Servers]
  /\ {No, Stored} \subseteq [features : SUBSET Servers, offset : Nat, known : BOOLEAN]
  /\ ~No.known /\ Stored.known
<1>1. Fresh \in [ours : BOOLEAN, keyed : BOOLEAN, bound : SUBSET Servers] /\ ~Fresh.ours
  BY DEF Fresh
<1>2. [Fresh EXCEPT !.ours = TRUE] \in [ours : BOOLEAN, keyed : BOOLEAN, bound : SUBSET Servers]
  BY <1>1
<1>3. No \in [features : SUBSET Servers, offset : Nat, known : BOOLEAN] /\ ~No.known
  BY DEF No
<1>4. Stored \in [features : SUBSET Servers, offset : Nat, known : BOOLEAN] /\ Stored.known
  BY <1>3 DEF Stored
<1> QED BY <1>1, <1>2, <1>3, <1>4

LEMMA ProvCompleteStep ==
  ASSUME NodeInv, NEW d \in Devices, ProvComplete(d)
  PROVE  NodeInv'
<1> USE DEF ProvComplete, Unlist, Push
<1>1. Typed /\ Addressed
  BY DEF NodeInv
<1>2. UNCHANGED <<late, console, debug>>
  OBVIOUS
<1>3. Append(queue[d], Msg("composition")) \in Seq(Messages)
      /\ Msg("composition") \in ToSet(Append(queue[d], Msg("composition")))
  BY <1>1, MsgType, InAppend DEF Typed
<1>4. /\ queue' \in [Devices -> Seq(Messages)] /\ Msg("composition") \in ToSet(queue'[d])
      /\ \A c \in Devices \ {d} : queue'[c] = queue[c]
  BY <1>1, <1>3 DEF Typed
<1>5. /\ listed' \in [Devices -> {"no", "adv", "gatt"}] /\ listed'[d] = "no"
      /\ dev' \in [Devices -> [ours : BOOLEAN, keyed : BOOLEAN, bound : SUBSET Servers]]
      /\ \A c \in Devices \ {d} : listed'[c] = listed[c] /\ dev'[c] = dev[c]
  BY <1>1, NewDevice DEF Typed, TypeOK
<1>6. /\ entry' \in [Devices -> [features : SUBSET Servers, offset : Nat, known : BOOLEAN]]
      /\ entry'[d].known /\ \A c \in Devices \ {d} : entry'[c] = entry[c]
  BY <1>1, NewDevice DEF Typed, TypeOK, Known
<1>7. doubts' \in [Devices -> SUBSET Marks] /\ \A c \in Devices \ {d} : doubts'[c] = doubts[c]
  BY <1>1 DEF Typed, Marks
<1>8. adding' = adding \ {d} /\ stack' = stack \cup {d}
  OBVIOUS
<1>9. Typed'
  BY <1>1, <1>2, <1>4, <1>5, <1>6, <1>7, <1>8 DEF Typed, TypeOK
<1>10. \A c \in Devices \ {d} : Same(c)
  BY <1>4, <1>5, <1>6, <1>7, <1>8 DEF Same
<1>11. Served(d)'
  BY <1>4 DEF Served, Leads
<1> QED BY <1>5, <1>6, <1>9, <1>10, <1>11, OneDevice DEF Known

LEMMA UnnamedStep ==
  ASSUME NodeInv, NEW d \in Devices, Unnamed(d)
  PROVE  NodeInv'
<1> USE DEF Unnamed, Doubt
<1>1. Typed /\ Addressed
  BY DEF NodeInv
<1>2. UNCHANGED <<listed, entry, queue, late, console, debug>>
  OBVIOUS
<1>3. /\ dev' \in [Devices -> [ours : BOOLEAN, keyed : BOOLEAN, bound : SUBSET Servers]]
      /\ \A c \in Devices \ {d} : dev'[c] = dev[c]
  BY <1>1, NewDevice DEF Typed, TypeOK
<1>4. /\ doubts' \in [Devices -> SUBSET Marks] /\ \A c \in Devices \ {d} : doubts'[c] = doubts[c]
      /\ "unnamed" \in doubts'[d]
  BY <1>1 DEF Typed, Marks
<1>5. adding' = adding \ {d} /\ stack' = stack \cup {d}
  OBVIOUS
<1>6. Typed'
  BY <1>1, <1>2, <1>3, <1>4, <1>5 DEF Typed, TypeOK
<1>7. \A c \in Devices \ {d} : Same(c)
  BY <1>2, <1>3, <1>4, <1>5 DEF Same
<1>8. Served(d)'
  BY <1>4 DEF Served, Bad
<1>9. ~Known(d)' => queue'[d] = <<>>
  BY <1>1, <1>2 DEF Addressed, Known
<1> QED BY <1>4, <1>6, <1>7, <1>8, <1>9, OneDevice

\* A composition is parsed, whoever asked; the key follows unless the console asked, which is
\* noted if it was not meant for it.
LEMMA CompositionParsed ==
  ASSUME NodeInv, NEW d \in Devices, Known(d), NEW q \in Seq(Messages), NEW wanted \in BOOLEAN,
         wanted \/ q = queue[d], OnComposition(d, q, wanted),
         UNCHANGED <<dev, listed, adding, stack>>,
         late' \in [Devices -> BOOLEAN], console' \in [Devices -> BOOLEAN]
  PROVE  NodeInv'
<1> USE DEF OnComposition
<1>1. Typed /\ Addressed /\ Taken /\ Served(d)
  BY DEF NodeInv
<1>2. /\ entry' \in [Devices -> [features : SUBSET Servers, offset : Nat, known : BOOLEAN]]
      /\ entry'[d] = Parsed(d) /\ \A c \in Devices \ {d} : entry'[c] = entry[c]
  BY <1>1, ParsedType DEF Typed, TypeOK
<1>3. /\ AfterComposition(d, q) \in Seq(Messages)
      /\ debug => AfterComposition(d, q) = q
      /\ ~debug => Msg("appkey") \in ToSet(AfterComposition(d, q))
  BY MsgType, InAppend DEF AfterComposition
<1>4. /\ queue' \in [Devices -> Seq(Messages)] /\ queue'[d] = AfterComposition(d, q)
      /\ \A c \in Devices \ {d} : queue'[c] = queue[c]
  BY <1>1, <1>3 DEF Typed
<1>5. /\ doubts' \in [Devices -> SUBSET Marks] /\ \A c \in Devices \ {d} : doubts'[c] = doubts[c]
      /\ doubts[d] \subseteq doubts'[d] /\ (debug /\ wanted => "stolen" \in doubts'[d])
  BY <1>1 DEF Typed, Doubt, Marks
<1>6. debug' = FALSE
  OBVIOUS
<1>7. Typed'
  BY <1>1, <1>2, <1>4, <1>5, <1>6 DEF Typed, TypeOK
<1>8. \A c \in Devices \ {d} : Same(c)
  BY <1>2, <1>4, <1>5 DEF Same
<1>9. listed'[d] = "adv" => d \in adding' \/ doubts'[d] \cap {"byHand", "refused", "unnamed"} # {}
  BY <1>1, <1>5 DEF Taken
<1>10. Known(d)'
  BY <1>2, ParsedType DEF Known
<1>11. Served(d)'
  <2>1. CASE ~debug
    <3>1. Parsed(d)' = Parsed(d)
      BY DEF Parsed
    <3> QED BY <1>2, <1>3, <1>4, <2>1, <3>1 DEF Served, Leads
  <2>2. CASE debug /\ wanted
    BY <1>5, <2>2 DEF Served, Bad
  <2>3. CASE debug /\ ~wanted
    <3>1. queue'[d] = queue[d] /\ dev'[d] = dev[d]
      BY <1>3, <1>4, <2>3
    <3>2. Served(d)' \/ Leads(d)
      BY <1>1, <1>5 DEF Served, Reached
    <3>3. Leads(d) => Leads(d)'
      BY <1>1, <1>2, <3>1, LeadsKept
    <3> QED BY <3>2, <3>3 DEF Served
  <2> QED BY <2>1, <2>2, <2>3
<1> QED BY <1>7, <1>8, <1>9, <1>10, <1>11, OneDevice

LEMMA CompositionStep ==
  ASSUME NodeInv, NEW d \in Devices, GotComposition(d) \/ LateComposition(d) \/ ConsoleReply(d)
  PROVE  NodeInv'
<1>1. Typed /\ Addressed /\ queue[d] \in Seq(Messages)
  BY DEF NodeInv, Typed
<1>2. CASE GotComposition(d)
  <2> USE <1>2 DEF GotComposition
  <2>1. Due(d).op = "composition"
    BY DEF Answers
  <2>2. queue[d] # <<>> /\ Tail(queue[d]) \in Seq(Messages)
    BY <1>1, <2>1, DueHead
  <2>3. Known(d)
    BY <1>1, <2>2 DEF Addressed
  <2>4. UNCHANGED <<dev, listed, adding, stack, late, console>>
    BY DEF meshvars
  <2>5. late' \in [Devices -> BOOLEAN] /\ console' \in [Devices -> BOOLEAN]
    BY <1>1, <2>4 DEF Typed, TypeOK
  <2>6. OnComposition(d, Tail(queue[d]), TRUE)
    OBVIOUS
  <2> QED BY <2>2, <2>3, <2>4, <2>5, <2>6, CompositionParsed
<1>3. CASE LateComposition(d)
  <2> USE <1>3 DEF LateComposition
  <2>1. UNCHANGED <<dev, listed, adding, stack, console>>
    BY DEF meshvars
  <2>2. late' \in [Devices -> BOOLEAN] /\ console' \in [Devices -> BOOLEAN]
    BY <1>1, <2>1 DEF Typed, TypeOK
  <2>3. CASE Known(d)
    <3>1. OnComposition(d, queue[d], TRUE)
      BY <2>3
    <3> QED BY <1>1, <2>1, <2>2, <2>3, <3>1, CompositionParsed
  <2>4. CASE ~Known(d)
    <3>1. UNCHANGED <<entry, queue, debug, doubts>>
      BY <2>4
    <3>2. Typed'
      BY <1>1, <2>1, <2>2, <3>1 DEF Typed, TypeOK
    <3>3. \A c \in Devices : Same(c)
      BY <2>1, <3>1 DEF Same
    <3>4. (~Known(d)' => queue'[d] = <<>>) /\ Served(d)'
      BY <1>1, <3>1, <3>3, SameServed DEF NodeInv, Addressed, Known
    <3>5. listed'[d] = "adv" => d \in adding' \/ doubts'[d] \cap {"byHand", "refused", "unnamed"} # {}
      BY <2>1, <3>1 DEF NodeInv, Taken
    <3> QED BY <3>2, <3>3, <3>4, <3>5, OneDevice
  <2> QED BY <2>3, <2>4
<1>4. CASE ConsoleReply(d)
  <2> USE <1>4 DEF ConsoleReply
  <2>1. UNCHANGED <<dev, listed, adding, stack, late>>
    BY DEF meshvars
  <2>2. late' \in [Devices -> BOOLEAN] /\ console' \in [Devices -> BOOLEAN]
    BY <1>1, <2>1 DEF Typed, TypeOK
  <2>3. CASE Reached(d) /\ Known(d)
    <3>1. CASE Due(d).op = "composition"
      <4>1. OnComposition(d, Tail(queue[d]), TRUE)
        BY <2>3, <3>1
      <4>2. Tail(queue[d]) \in Seq(Messages)
        BY <1>1, <3>1, DueHead
      <4> QED BY <2>1, <2>2, <2>3, <4>1, <4>2, CompositionParsed
    <3>2. CASE Due(d).op # "composition"
      <4>1. OnComposition(d, queue[d], FALSE)
        BY <2>3, <3>2
      <4> QED BY <1>1, <2>1, <2>2, <2>3, <4>1, CompositionParsed
    <3> QED BY <3>1, <3>2
  <2>4. CASE ~(Reached(d) /\ Known(d))
    <3>1. UNCHANGED <<entry, queue, debug, doubts>>
      BY <2>4
    <3>2. Typed'
      BY <1>1, <2>1, <2>2, <3>1 DEF Typed, TypeOK
    <3>3. \A c \in Devices : Same(c)
      BY <2>1, <3>1 DEF Same
    <3>4. (~Known(d)' => queue'[d] = <<>>) /\ Served(d)'
      BY <1>1, <3>1, <3>3, SameServed DEF NodeInv, Addressed, Known
    <3>5. listed'[d] = "adv" => d \in adding' \/ doubts'[d] \cap {"byHand", "refused", "unnamed"} # {}
      BY <2>1, <3>1 DEF NodeInv, Taken
    <3> QED BY <3>2, <3>3, <3>4, <3>5, OneDevice
  <2> QED BY <2>3, <2>4
<1> QED BY <1>2, <1>3, <1>4

\* The key is there, and every binding behind it.
LEMMA KeyStep ==
  ASSUME NodeInv, NEW d \in Devices, GotKey(d)
  PROVE  NodeInv'
<1> USE DEF GotKey
<1>1. Typed /\ Addressed /\ Taken /\ Served(d)
  BY DEF NodeInv
<1>2. UNCHANGED <<listed, adding, stack, entry, late, console, debug, doubts>>
  OBVIOUS
<1>3. /\ queue[d] # <<>> /\ Due(d).op = "appkey" /\ Tail(queue[d]) \in Seq(Messages)
      /\ ToSet(queue[d]) = {Due(d)} \cup ToSet(Tail(queue[d]))
  BY <1>1, DueHead DEF Answers
<1>4. Known(d)
  BY <1>1, <1>3 DEF Addressed
<1> DEFINE bs == Bind_App_Key_queue(entry[d])
           q == Tail(queue[d]) \o bs
<1>5. bs \in Seq(Messages)
  BY <1>1, AllQueued DEF Typed, TypeOK
<1>6. entry[d] = Parsed(d) => \A m \in Bindable(d) : BindFor(d, m) \in ToSet(bs)
  BY <1>1, BindsQueued
<1>7. queue' = [queue EXCEPT ![d] = q]
  BY <1>1 DEF Typed
<1>16. Tail(queue[d]) \in Seq(Messages)
  BY <1>3
<1> HIDE DEF bs
<1>8. q \in Seq(Messages) /\ ToSet(q) = ToSet(Tail(queue[d])) \cup ToSet(bs)
  <2> HIDE DEF GotKey
  <2> QED BY <1>16, <1>5, InConcat
<1> HIDE DEF q
<1>9. /\ queue' \in [Devices -> Seq(Messages)] /\ queue'[d] = q
      /\ \A c \in Devices \ {d} : queue'[c] = queue[c]
  BY <1>1, <1>7, <1>8 DEF Typed
<1>10. /\ dev' \in [Devices -> [ours : BOOLEAN, keyed : BOOLEAN, bound : SUBSET Servers]]
       /\ dev'[d].keyed /\ dev'[d].bound = dev[d].bound /\ dev'[d].ours = dev[d].ours
       /\ \A c \in Devices \ {d} : dev'[c] = dev[c]
  BY <1>1 DEF Typed, TypeOK
<1>11. Typed'
  BY <1>1, <1>2, <1>9, <1>10 DEF Typed, TypeOK
<1>12. \A c \in Devices \ {d} : Same(c)
  BY <1>2, <1>9, <1>10 DEF Same
<1>13. Served(d)'
  <2> SUFFICES ASSUME Reached(d)', doubts'[d] \cap Bad = {}
               PROVE  Leads(d)'
    BY DEF Served
  <2>1. Leads(d)
    BY <1>1, <1>2, <1>4, <1>10 DEF Served, Reached
  <2>2. CASE Msg("composition") \in ToSet(queue[d])
    <3>1. Msg("composition") # Due(d)
      BY <1>3 DEF Msg
    <3> QED BY <1>3, <1>8, <1>9, <2>2, <3>1 DEF Leads
  <2>3. CASE entry[d] = Parsed(d)
    BY <1>6, <1>8, <1>9, <1>10, <2>3 DEF Leads, BindFor, Parsed, Bindable, Models
  <2>4. CASE dev[d].keyed /\ \A m \in Bindable(d) : m \in dev[d].bound \/ BindFor(d, m) \in ToSet(queue[d])
    <3>1. \A m \in Bindable(d) : BindFor(d, m) # Due(d)
      BY <1>1, <1>3, BindTaken
    <3>2. \A m \in Bindable(d) : m \in dev'[d].bound \/ BindFor(d, m) \in ToSet(queue'[d])
      BY <1>3, <1>8, <1>9, <1>10, <2>4, <3>1
    <3> QED BY <1>10, <3>2 DEF Leads
  <2> QED BY <2>1, <2>2, <2>3, <2>4 DEF Leads
<1>14. Known(d)'
  BY <1>2, <1>4 DEF Known
<1>15. listed'[d] = "adv" => d \in adding' \/ doubts'[d] \cap {"byHand", "refused", "unnamed"} # {}
  BY <1>1, <1>2 DEF Taken
<1> QED BY <1>11, <1>12, <1>13, <1>14, <1>15, OneDevice

LEMMA BindStep ==
  ASSUME NodeInv, NEW d \in Devices, GotBind(d)
  PROVE  NodeInv'
<1> USE DEF GotBind, Pop1
<1>1. Typed /\ Addressed /\ Taken /\ Served(d)
  BY DEF NodeInv
<1>2. UNCHANGED <<listed, adding, stack, entry, late, console, debug, doubts>>
  OBVIOUS
<1>3. /\ queue[d] # <<>> /\ Due(d).op = "bind" /\ Tail(queue[d]) \in Seq(Messages)
      /\ ToSet(queue[d]) = {Due(d)} \cup ToSet(Tail(queue[d])) /\ Due(d) \in Messages
  BY <1>1, DueHead DEF Answers
<1>4. Known(d)
  BY <1>1, <1>3 DEF Addressed
<1>5. /\ queue' \in [Devices -> Seq(Messages)] /\ queue'[d] = Tail(queue[d])
      /\ \A c \in Devices \ {d} : queue'[c] = queue[c]
  BY <1>1, <1>3 DEF Typed
<1>6. Takes(d, Due(d).bind) => Due(d).bind.model \in Servers
  <2> SUFFICES ASSUME Takes(d, Due(d).bind)
               PROVE  Due(d).bind.model \in Servers
    OBVIOUS
  <2>1. Due(d).bind.offset \in Nat
    BY <1>3 DEF Messages, Binds
  <2>2. Due(d).bind.offset + 1 \in 1 .. Len(Elements[d])
    BY <2>1, ElementsType DEF Takes
  <2> QED BY <2>2, ElementsType DEF Takes
<1>7. /\ dev' \in [Devices -> [ours : BOOLEAN, keyed : BOOLEAN, bound : SUBSET Servers]]
      /\ dev'[d].keyed = dev[d].keyed /\ dev'[d].ours = dev[d].ours
      /\ dev[d].bound \subseteq dev'[d].bound
      /\ Takes(d, Due(d).bind) => Due(d).bind.model \in dev'[d].bound
      /\ \A c \in Devices \ {d} : dev'[c] = dev[c]
  BY <1>1, <1>6 DEF Typed, TypeOK
<1>8. Typed'
  BY <1>1, <1>2, <1>5, <1>7 DEF Typed, TypeOK
<1>9. \A c \in Devices \ {d} : Same(c)
  BY <1>2, <1>5, <1>7 DEF Same
<1>10. Served(d)'
  <2> SUFFICES ASSUME Reached(d)', doubts'[d] \cap Bad = {}
               PROVE  Leads(d)'
    BY DEF Served
  <2>1. Leads(d)
    BY <1>1, <1>2, <1>4, <1>7 DEF Served, Reached
  <2>2. CASE \/ Msg("composition") \in ToSet(queue[d])
             \/ entry[d] = Parsed(d) /\ Msg("appkey") \in ToSet(queue[d])
    <3>1. Msg("composition") # Due(d) /\ Msg("appkey") # Due(d)
      BY <1>3 DEF Msg
    <3>2. Parsed(d)' = Parsed(d)
      BY DEF Parsed
    <3> QED BY <1>2, <1>3, <1>5, <2>2, <3>1, <3>2 DEF Leads
  <2>3. CASE dev[d].keyed /\ \A m \in Bindable(d) : m \in dev[d].bound \/ BindFor(d, m) \in ToSet(queue[d])
    <3>1. ASSUME NEW m \in Bindable(d)
          PROVE  m \in dev'[d].bound \/ BindFor(d, m) \in ToSet(queue'[d])
      <4>1. BindFor(d, m).bind.model = m /\ Takes(d, BindFor(d, m).bind)
        BY <1>1, <2>3, BindTaken
      <4>2. CASE BindFor(d, m) = Due(d)
        BY <1>7, <4>1, <4>2
      <4>3. CASE BindFor(d, m) # Due(d)
        BY <1>3, <1>5, <1>7, <2>3, <4>3
      <4> QED BY <4>2, <4>3
    <3> QED BY <1>7, <2>3, <3>1 DEF Leads
  <2> QED BY <2>1, <2>2, <2>3 DEF Leads
<1>11. Known(d)'
  BY <1>2, <1>4 DEF Known
<1>12. listed'[d] = "adv" => d \in adding' \/ doubts'[d] \cap {"byHand", "refused", "unnamed"} # {}
  BY <1>1, <1>2 DEF Taken
<1> QED BY <1>8, <1>9, <1>10, <1>11, <1>12, OneDevice

-----------------------------------------------------------------------------
(* Messages that leave the queue, and requests. *)

\* The front of the queue goes, and with it nothing that leads to the end, unless that is noted.
LEMMA FrontGoes ==
  ASSUME NodeInv, NEW d \in Devices, Due(d).op # "none", Pop1(d), TypeOK',
         UNCHANGED <<listed, adding, stack, entry>>,
         doubts' \in [Devices -> SUBSET Marks], \A c \in Devices : doubts[c] \subseteq doubts'[c],
         \A c \in Devices \ {d} : dev'[c] = dev[c],
         \/ "dropped" \in doubts'[d]
         \/ dev'[d] = dev[d] /\ Due(d).op \in {"refresh", "announce", "reset"}
  PROVE  NodeInv'
<1>1. Typed /\ Addressed /\ Taken /\ Served(d)
  BY DEF NodeInv
<1>2. /\ queue[d] # <<>> /\ Tail(queue[d]) \in Seq(Messages)
      /\ ToSet(queue[d]) = {Due(d)} \cup ToSet(Tail(queue[d]))
  BY <1>1, DueHead
<1>3. /\ queue' \in [Devices -> Seq(Messages)] /\ queue'[d] = Tail(queue[d])
      /\ \A c \in Devices \ {d} : queue'[c] = queue[c]
  BY <1>1, <1>2 DEF Typed, Pop1
<1>4. Typed'
  BY <1>3 DEF Typed
<1>5. \A c \in Devices \ {d} : Same(c)
  BY <1>3 DEF Same
<1>6. Known(d)'
  BY <1>1, <1>2 DEF Known, Addressed
<1>7. listed'[d] = "adv" => d \in adding' \/ doubts'[d] \cap {"byHand", "refused", "unnamed"} # {}
  BY <1>1 DEF Taken
<1>8. Served(d)'
  <2>1. CASE "dropped" \in doubts'[d]
    BY <2>1 DEF Served, Bad
  <2>2. CASE dev'[d] = dev[d] /\ Due(d).op \in {"refresh", "announce", "reset"}
    <3>1. \A x \in ToSet(queue[d]) : x.op \in {"composition", "appkey", "bind"} => x \in ToSet(queue'[d])
      BY <1>2, <1>3, <2>2
    <3> QED BY <1>1, <2>2, <3>1, ServedKept
  <2> QED BY <2>1, <2>2
<1> QED BY <1>4, <1>5, <1>6, <1>7, <1>8, OneDevice

LEMMA Noted ==
  ASSUME Typed, NEW d \in Devices, NEW what \in Marks, Doubt(d, what)
  PROVE  /\ doubts' \in [Devices -> SUBSET Marks] /\ what \in doubts'[d]
         /\ \A c \in Devices : doubts[c] \subseteq doubts'[c]
  BY DEF Typed, Doubt

LEMMA FrontStep ==
  ASSUME NodeInv, NEW d \in Devices, Refreshed(d) \/ GivenUp(d) \/ Announced(d)
  PROVE  NodeInv'
<1>1. Typed /\ \A c \in Devices : doubts[c] \in SUBSET Marks
  BY DEF NodeInv, Typed
<1>2. CASE Refreshed(d)
  <2> USE <1>2 DEF Refreshed
  <2>1. UNCHANGED <<dev, listed, adding, stack, entry, late, console, debug, doubts>>
    BY DEF meshvars
  <2>2. TypeOK'
    BY <1>1, <2>1 DEF Typed, TypeOK
  <2>3. doubts' \in [Devices -> SUBSET Marks] /\ \A c \in Devices : doubts[c] \subseteq doubts'[c]
    BY <1>1, <2>1 DEF Typed
  <2> QED BY <2>1, <2>2, <2>3, FrontGoes
<1>3. CASE GivenUp(d)
  <2> USE <1>3 DEF GivenUp
  <2>1. UNCHANGED <<listed, adding, stack, entry, console, debug>> /\ Pop1(d) /\ Due(d).op # "none"
    OBVIOUS
  <2>2. /\ dev' \in [Devices -> [ours : BOOLEAN, keyed : BOOLEAN, bound : SUBSET Servers]]
        /\ late' \in [Devices -> BOOLEAN]
        /\ \A c \in Devices \ {d} : dev'[c] = dev[c]
    <3>1. /\ dev \in [Devices -> [ours : BOOLEAN, keyed : BOOLEAN, bound : SUBSET Servers]]
          /\ late \in [Devices -> BOOLEAN]
      BY <1>1 DEF Typed, TypeOK
    <3>2. \/ UNCHANGED <<dev, late>>
          \/ dev' = [dev EXCEPT ![d].keyed = TRUE] /\ UNCHANGED late
          \/ late' = [late EXCEPT ![d] = TRUE] /\ UNCHANGED dev
      OBVIOUS
    <3> HIDE <1>3
    <3> QED BY <3>1, <3>2
  <2>3. TypeOK'
    <3>1. TypeOK
      BY <1>1 DEF Typed
    <3> HIDE <1>3
    <3> QED BY <2>1, <2>2, <3>1 DEF TypeOK
  <2>4. /\ doubts' \in [Devices -> SUBSET Marks] /\ "dropped" \in doubts'[d]
        /\ \A c \in Devices : doubts[c] \subseteq doubts'[c]
    BY <1>1, Noted DEF Marks
  <2> QED BY <2>1, <2>2, <2>3, <2>4, FrontGoes
<1>4. CASE Announced(d)
  <2> USE <1>4 DEF Announced
  <2>1. UNCHANGED <<dev, listed, adding, stack, entry, late, console, debug>> /\ Pop1(d)
        /\ Due(d).op = "announce"
    BY DEF meshvars
  <2>2. TypeOK'
    BY <1>1, <2>1 DEF Typed, TypeOK
  <2>3. doubts' \in [Devices -> SUBSET Marks] /\ \A c \in Devices : doubts[c] \subseteq doubts'[c]
    BY <1>1, Noted DEF Marks, Typed
  <2> QED BY <2>1, <2>2, <2>3, FrontGoes
<1> QED BY <1>2, <1>3, <1>4

\* Nothing of what the invariant speaks of changes but the queues, which get longer, and the
\* stack's nodes, which get fewer.
LEMMA Longer ==
  ASSUME NodeInv, UNCHANGED <<dev, listed, adding, entry>>, TypeOK',
         queue' \in [Devices -> Seq(Messages)], doubts' \in [Devices -> SUBSET Marks],
         \A d \in Devices : /\ doubts[d] \cap (Bad \cup {"byHand", "refused"}) \subseteq doubts'[d]
                            /\ d \in stack' => d \in stack
                            /\ ToSet(queue[d]) \subseteq ToSet(queue'[d])
                            /\ ~Known(d) => queue'[d] = queue[d]
  PROVE  NodeInv'
<1>1. Typed /\ Addressed /\ Taken /\ \A d \in Devices : Served(d)
  BY DEF NodeInv
<1>2. Typed'
  BY DEF Typed
<1>3. Addressed'
  BY <1>1 DEF Addressed, Known
<1>4. Taken'
  BY <1>1 DEF Taken, Bad
<1>5. \A d \in Devices : Served(d)'
  BY <1>1, ServedKept
<1> QED BY <1>2, <1>3, <1>4, <1>5 DEF NodeInv

LEMMA Asked ==
  ASSUME Typed, NEW d \in Devices
  PROVE  /\ Append(queue[d], Msg("reset")) \in Seq(Messages)
         /\ ToSet(queue[d]) \subseteq ToSet(Append(queue[d], Msg("reset")))
         /\ Append(queue[d], Msg("announce")) \in Seq(Messages)
         /\ ToSet(queue[d]) \subseteq ToSet(Append(queue[d], Msg("announce")))
<1>1. queue[d] \in Seq(Messages) /\ Msg("reset") \in Messages /\ Msg("announce") \in Messages
  BY MsgType DEF Typed
<1> QED BY <1>1, InAppend

LEMMA RequestStep ==
  ASSUME NodeInv, NEW d \in Devices, ConsoleGet(d) \/ Unprovision(d)
  PROVE  NodeInv'
<1>1. Typed
  BY DEF NodeInv
<1>2. CASE ConsoleGet(d)
  <2> USE <1>2 DEF ConsoleGet
  <2>1. UNCHANGED <<dev, listed, adding, stack, entry, queue, late, doubts>> /\ debug' = TRUE
    BY DEF meshvars
  <2>2. console' \in [Devices -> BOOLEAN]
    BY <1>1 DEF Typed, TypeOK
  <2>3. TypeOK'
    BY <1>1, <2>1, <2>2 DEF Typed, TypeOK
  <2> QED BY <1>1, <2>1, <2>3, Longer DEF Typed
<1>3. CASE Unprovision(d)
  <2> USE <1>3 DEF Unprovision, Push
  <2>1. UNCHANGED <<dev, listed, adding, entry, late, console, debug, doubts>> /\ stack' \subseteq stack
    OBVIOUS
  <2>2. /\ queue' \in [Devices -> Seq(Messages)]
        /\ \A c \in Devices : /\ ToSet(queue[c]) \subseteq ToSet(queue'[c])
                              /\ ~Known(c) => queue'[c] = queue[c]
    <3>1. CASE Known(d) /\ queue' = [queue EXCEPT ![d] = Append(@, Msg("reset"))]
      BY <1>1, <3>1, Asked DEF Typed
    <3>2. CASE queue' = queue
      BY <1>1, <3>2 DEF Typed
    <3> QED BY <3>1, <3>2
  <2>3. TypeOK'
    BY <1>1, <2>1 DEF Typed, TypeOK
  <2> QED BY <1>1, <2>1, <2>2, <2>3, Longer DEF Typed
<1> QED BY <1>2, <1>3

LEMMA UnprovisionAllStep == ASSUME NodeInv, UnprovisionAll PROVE NodeInv'
<1> USE DEF UnprovisionAll
<1>1. Typed
  BY DEF NodeInv
<1>2. UNCHANGED <<dev, listed, adding, entry, late, console, debug, doubts>> /\ stack' = {}
  OBVIOUS
<1>3. /\ queue' \in [Devices -> Seq(Messages)]
      /\ \A c \in Devices : ToSet(queue[c]) \subseteq ToSet(queue'[c]) /\ (~Known(c) => queue'[c] = queue[c])
  BY <1>1, Asked DEF Typed
<1>4. TypeOK'
  BY <1>1, <1>2 DEF Typed, TypeOK
<1> QED BY <1>1, <1>2, <1>3, <1>4, Longer DEF Typed

LEMMA RepublishStep == ASSUME NodeInv, NEW t \in Tasks, Republish(t) PROVE NodeInv'
<1> USE DEF Republish
<1>1. Typed
  BY DEF NodeInv
<1>2. UNCHANGED <<dev, listed, adding, stack, entry, late, console, debug>>
  BY DEF meshvars
<1>3. /\ queue' \in [Devices -> Seq(Messages)]
      /\ \A c \in Devices : ToSet(queue[c]) \subseteq ToSet(queue'[c]) /\ (~Known(c) => queue'[c] = queue[c])
  BY <1>1, Asked DEF Typed
<1>4. TypeOK'
  BY <1>1, <1>2 DEF Typed, TypeOK
<1>5. /\ doubts' \in [Devices -> SUBSET Marks]
      /\ \A d \in Devices : doubts[d] \cap (Bad \cup {"byHand", "refused"}) \subseteq doubts'[d]
  BY <1>1 DEF Typed, Bad
<1> QED BY <1>2, <1>3, <1>4, <1>5, Longer

LEMMA HaAloneStep == ASSUME NodeInv, HaAlone PROVE NodeInv'
<1> USE DEF HaAlone
<1>1. Typed
  BY DEF NodeInv
<1>2. UNCHANGED <<dev, listed, adding, stack, entry, queue, late, console, debug>>
  BY DEF meshvars
<1>3. TypeOK'
  BY <1>1, <1>2 DEF Typed, TypeOK
<1>4. /\ doubts' \in [Devices -> SUBSET Marks]
      /\ \A d \in Devices : doubts[d] \cap (Bad \cup {"byHand", "refused"}) \subseteq doubts'[d]
  BY <1>1 DEF Typed, Marks
<1> QED BY <1>1, <1>2, <1>3, <1>4, Longer DEF Typed

\* A node is forgotten with what was queued for it.
LEMMA Forgotten ==
  ASSUME NodeInv, NEW d \in Devices, Forget(d)
  PROVE  /\ queue' \in [Devices -> Seq(Messages)] /\ queue'[d] = <<>>
         /\ entry' \in [Devices -> [features : SUBSET Servers, offset : Nat, known : BOOLEAN]]
         /\ ~Known(d)' /\ stack' = stack \ {d}
         /\ \A c \in Devices \ {d} : queue'[c] = queue[c] /\ entry'[c] = entry[c]
<1>1. <<>> \in Seq(Messages)
  OBVIOUS
<1> QED BY <1>1, NewDevice DEF Forget, NodeInv, Typed, TypeOK, Known

LEMMA ResetStep ==
  ASSUME NodeInv, NEW d \in Devices, GotReset(d) \/ FactoryReset(d)
  PROVE  NodeInv'
<1>1. Typed /\ Addressed /\ Taken
  BY DEF NodeInv
<1>2. /\ dev' \in [Devices -> [ours : BOOLEAN, keyed : BOOLEAN, bound : SUBSET Servers]]
      /\ ~dev'[d].ours /\ \A c \in Devices \ {d} : dev'[c] = dev[c]
  <2>1. dev' = [dev EXCEPT ![d] = Fresh]
    BY DEF GotReset, FactoryReset
  <2> QED BY <1>1, <2>1, NewDevice DEF Typed, TypeOK
<1>3. Served(d)'
  BY <1>2 DEF Served, Reached
<1>4. CASE GotReset(d)
  <2> USE <1>4 DEF GotReset
  <2>1. UNCHANGED <<listed, adding, late, console, debug, doubts>>
    OBVIOUS
  <2>2. Typed'
    BY <1>1, <1>2, <2>1, Forgotten DEF Typed, TypeOK
  <2>3. \A c \in Devices \ {d} : Same(c)
    BY <1>2, <2>1, Forgotten DEF Same
  <2>4. listed'[d] = "adv" => d \in adding' \/ doubts'[d] \cap {"byHand", "refused", "unnamed"} # {}
    BY <1>1, <2>1 DEF Taken
  <2> QED BY <1>3, <2>2, <2>3, <2>4, Forgotten, OneDevice
<1>5. CASE FactoryReset(d)
  <2> USE <1>5 DEF FactoryReset
  <2>1. UNCHANGED <<listed, adding, stack, entry, queue, late, console, debug>>
    OBVIOUS
  <2>2. /\ doubts' \in [Devices -> SUBSET Marks] /\ \A c \in Devices : doubts[c] \subseteq doubts'[c]
    BY <1>1, Noted DEF Marks
  <2>3. Typed'
    BY <1>1, <1>2, <2>1, <2>2 DEF Typed, TypeOK
  <2>4. \A c \in Devices \ {d} : Same(c)
    BY <1>2, <2>1, <2>2 DEF Same
  <2>5. listed'[d] = "adv" => d \in adding' \/ doubts'[d] \cap {"byHand", "refused", "unnamed"} # {}
    BY <1>1, <2>1, <2>2 DEF Taken
  <2>6. ~Known(d)' => queue'[d] = <<>>
    BY <1>1, <2>1 DEF Addressed, Known
  <2> QED BY <1>3, <2>3, <2>4, <2>5, <2>6, OneDevice
<1> QED BY <1>4, <1>5

LEMMA ResetGivenUpStep ==
  ASSUME NodeInv, NEW d \in Devices, ResetGivenUp(d)
  PROVE  NodeInv'
<1> USE DEF ResetGivenUp
<1>1. Typed /\ Addressed /\ Taken
  BY DEF NodeInv
<1>2. UNCHANGED <<dev, listed, adding, late, console, debug>> /\ Due(d).op # "none"
  OBVIOUS
<1>3. /\ doubts' \in [Devices -> SUBSET Marks] /\ "dropped" \in doubts'[d]
      /\ \A c \in Devices : doubts[c] \subseteq doubts'[c]
  BY <1>1, Noted DEF Marks
<1>4. CASE Forget(d)
  <2>1. Typed'
    BY <1>1, <1>2, <1>3, <1>4, Forgotten DEF Typed, TypeOK
  <2>2. \A c \in Devices \ {d} : Same(c)
    BY <1>2, <1>3, <1>4, Forgotten DEF Same
  <2>3. listed'[d] = "adv" => d \in adding' \/ doubts'[d] \cap {"byHand", "refused", "unnamed"} # {}
    BY <1>1, <1>2, <1>3 DEF Taken
  <2>4. Served(d)'
    BY <1>3 DEF Served, Bad
  <2> QED BY <1>4, <2>1, <2>2, <2>3, <2>4, Forgotten, OneDevice
<1>5. CASE Pop1(d) /\ UNCHANGED <<shown, stack, entry>>
  <2>1. TypeOK'
    BY <1>1, <1>2, <1>5 DEF Typed, TypeOK
  <2> QED BY <1>2, <1>3, <1>5, <2>1, FrontGoes
<1> QED BY <1>4, <1>5

\* After a restart nothing is listed, being added or queued; what was queued is noted.
LEMMA BridgeAloneStep == ASSUME NodeInv, BridgeAlone PROVE NodeInv'
<1> USE DEF BridgeAlone
<1>1. Typed /\ \A d \in Devices : Served(d)
  BY DEF NodeInv
<1>2. /\ listed' = [d \in Devices |-> "no"] /\ adding' = {} /\ UNCHANGED <<dev, stack>>
      /\ queue' = [d \in Devices |-> <<>>] /\ late' = [d \in Devices |-> FALSE] /\ console' = late'
      /\ debug' = FALSE
  OBVIOUS
<1>3. entry' \in [Devices -> [features : SUBSET Servers, offset : Nat, known : BOOLEAN]]
  BY <1>1, NewDevice DEF Typed, TypeOK
<1>4. /\ doubts' \in [Devices -> SUBSET Marks]
      /\ \A d \in Devices : \/ queue[d] = <<>> /\ entry' = entry /\ doubts[d] \cap Bad \subseteq doubts'[d]
                            \/ "dropped" \in doubts'[d]
  BY <1>1 DEF Typed, Marks, Bad
<1>5. Typed'
  <2>1. <<>> \in Seq(Messages)
    OBVIOUS
  <2>2. queue' \in [Devices -> Seq(Messages)]
    BY <1>2, <2>1
  <2>3. /\ listed' \in [Devices -> {"no", "adv", "gatt"}]
        /\ late' \in [Devices -> BOOLEAN] /\ console' \in [Devices -> BOOLEAN]
    BY <1>2
  <2> HIDE DEF BridgeAlone
  <2>4. TypeOK'
    BY <1>1, <1>2, <1>3, <2>3 DEF Typed, TypeOK
  <2> QED BY <1>4, <2>2, <2>4 DEF Typed
<1>6. Addressed' /\ Taken'
  BY <1>2 DEF Addressed, Taken
<1>7. ASSUME NEW d \in Devices
      PROVE  Served(d)'
  <2>1. CASE queue[d] = <<>> /\ entry' = entry /\ doubts[d] \cap Bad \subseteq doubts'[d]
    <3>1. queue'[d] = queue[d]
      BY <1>2, <2>1
    <3> QED BY <1>1, <1>2, <2>1, <3>1, ServedKept
  <2>2. CASE "dropped" \in doubts'[d]
    BY <2>2 DEF Served, Bad
  <2> QED BY <1>4, <2>1, <2>2
<1> QED BY <1>5, <1>6, <1>7 DEF NodeInv

-----------------------------------------------------------------------------
LEMMA NodeInit == Init => NodeInv
<1> SUFFICES ASSUME Init PROVE NodeInv
  OBVIOUS
<1> USE DEF Init
<1>1. Typed
  <2>1. <<>> \in Seq(Messages)
    OBVIOUS
  <2> QED BY <2>1, NewDevice DEF Typed, TypeOK
<1>2. Addressed /\ Taken
  BY DEF Addressed, Taken
<1>3. \A d \in Devices : Served(d)
  BY DEF Served, Reached
<1> QED BY <1>1, <1>2, <1>3 DEF NodeInv

LEMMA NodeNext == NodeInv /\ [Next]_vars => NodeInv'
<1> SUFFICES ASSUME NodeInv, [Next]_vars PROVE NodeInv'
  OBVIOUS
<1>1. CASE BridgeNext /\ UNCHANGED nodevars
  BY <1>1, NodeStutter
<1>2. CASE BridgeAlone
  BY <1>2, BridgeAloneStep
<1>3. CASE HaAlone
  BY <1>3, HaAloneStep
<1>4. ASSUME NEW d \in Devices, NodeStep(d)
      PROVE  NodeInv'
  BY <1>4, BeaconStep, ListStep, ProvCompleteStep, UnnamedStep, CompositionStep, KeyStep, BindStep,
     FrontStep, RequestStep, ResetStep, ResetGivenUpStep DEF NodeStep
<1>5. CASE UnprovisionAll
  BY <1>5, UnprovisionAllStep
<1>6. ASSUME NEW t \in Tasks, Republish(t)
      PROVE  NodeInv'
  BY <1>6, RepublishStep
<1>7. CASE UNCHANGED vars
  BY <1>7, NodeStutter DEF vars
<1> QED BY <1>1, <1>2, <1>3, <1>4, <1>5, <1>6, <1>7 DEF Next

\* Whatever is heard of the devices, asked of them and lost, what is queued for a node leads to its
\* being bound, nothing waits for an unknown one, and a listed device is being added or its user's.
THEOREM NodesInvariant == Spec => []NodeInv
<1> QED BY NodeInit, NodeNext, PTL DEF Spec

\* Every device, list, entry and flag is what its declaration says.
THEOREM CommissioningTypeCorrect == Spec => []TypeOK
<1>1. NodeInv => TypeOK
  BY DEF NodeInv, Typed
<1> QED BY <1>1, NodesInvariant, PTL

\* While automatic provisioning is on, no device listed by PB-ADV is left out, whatever the
\* order of beacons, switches, restarts and resets.
THEOREM AutomaticMissesNone == Spec => []AutoMissesNone
<1>1. NodeInv => AutoMissesNone
  BY DEF NodeInv, Taken, AutoMissesNone
<1> QED BY <1>1, NodesInvariant, PTL

\* A node for which nothing is left to do has the key and all its models are bound, whatever
\* was queued for it, and in whichever of its lives.
THEOREM RestIsBound == Spec => []AtRestIsBound
<1>1. ASSUME NodeInv
      PROVE  AtRestIsBound
  <2> SUFFICES ASSUME NEW d \in Devices, AtRest(d), doubts[d] \cap {"unnamed", "dropped", "stolen"} = {}
               PROVE  dev[d].keyed /\ Bindable(d) \subseteq dev[d].bound
    BY DEF AtRestIsBound
  <2>1. Leads(d) /\ queue[d] = <<>>
    BY <1>1 DEF NodeInv, Served, AtRest, Bad
  <2>2. ToSet(queue[d]) = {}
    BY <2>1 DEF ToSet
  <2> QED BY <2>1, <2>2 DEF Leads
<1> QED BY <1>1, NodesInvariant, PTL

-----------------------------------------------------------------------------
(***************************************************************************)
(* The bridge's own entities: programs.                                    *)
(***************************************************************************)
BridgeSteps == [op : {"announce", "read", "send", "on", "nodes", "stack"}, of : Switches \cup {"none"}]

Told(s) == [op |-> "stack", of |-> s]

\* What is left of a function of task t: a flag is read before it is sent, and what is read is
\* sent; the nodes come last in a round, and the timer's task makes the rounds.
Program(t, p) ==
  /\ p \in Seq(BridgeSteps)
  /\ \A i \in 1 .. Len(p) :
       /\ p[i].op \in {"read", "send", "stack"} => p[i].of \in Switches
       /\ p[i].op = "stack" => p[i].of = "provisioning"
       /\ p[i].op = "read" => \E j \in i + 1 .. Len(p) : p[j] = Sending(p[i].of)
       /\ p[i].op = "send" /\ i # 1 => p[i - 1] = Publishing(p[i].of)
       /\ p[i].op = "nodes" => t = "timer" /\ i = Len(p)

LEMMA StepType ==
  /\ \A s \in Switches :
       Publishing(s) \in BridgeSteps /\ Sending(s) \in BridgeSteps /\ Told(s) \in BridgeSteps
  /\ \A op \in {"announce", "on", "nodes"} : Do(op) \in BridgeSteps
  BY DEF Publishing, Sending, Told, Do, BridgeSteps, Switches

NoNodes(p) == \A x \in ToSet(p) : x.op # "nodes"

\* One program after another.
LEMMA Composed ==
  ASSUME NEW t, NEW p, NEW q, NEW r, r = p \o q, Program(t, p), Program(t, q), p # <<>>, q # <<>>,
         NoNodes(p), Head(q).op # "send"
  PROVE  /\ Program(t, r) /\ r # <<>> /\ Head(r) = Head(p)
         /\ ToSet(r) = ToSet(p) \cup ToSet(q)
<1>1. p \in Seq(BridgeSteps) /\ q \in Seq(BridgeSteps)
  BY DEF Program
<1>2. /\ r \in Seq(BridgeSteps) /\ Len(p) \in Nat \ {0} /\ Len(q) \in Nat \ {0} /\ Len(r) = Len(p) + Len(q)
      /\ \A i \in 1 .. Len(p) : r[i] = p[i]
      /\ \A i \in 1 .. Len(q) : r[Len(p) + i] = q[i]
      /\ DOMAIN p = 1 .. Len(p) /\ Head(q) = q[1] /\ Head(p) = p[1]
  BY <1>1
<1>3. \A i \in 1 .. Len(p) : p[i].op # "nodes"
  BY <1>2 DEF ToSet, NoNodes
<1>4. ToSet(r) = ToSet(p) \cup ToSet(q)
  BY <1>1, InConcat
<1>5. r # <<>> /\ Head(r) = Head(p)
  BY <1>2
<1>6. ASSUME NEW i \in 1 .. Len(p)
      PROVE  /\ r[i].op \in {"read", "send", "stack"} => r[i].of \in Switches
             /\ r[i].op = "stack" => r[i].of = "provisioning"
             /\ r[i].op = "read" => \E j \in i + 1 .. Len(r) : r[j] = Sending(r[i].of)
             /\ r[i].op = "send" /\ i # 1 => r[i - 1] = Publishing(r[i].of)
             /\ r[i].op # "nodes"
  <2>1. r[i] = p[i] /\ (i # 1 => r[i - 1] = p[i - 1])
    BY <1>2
  <2>2. p[i].op = "read" => \E j \in i + 1 .. Len(p) : p[j] = Sending(p[i].of)
    BY DEF Program
  <2>3. r[i].op = "read" => \E j \in i + 1 .. Len(r) : r[j] = Sending(r[i].of)
    BY <1>2, <2>1, <2>2
  <2>4. p[i].op = "send" /\ i # 1 => p[i - 1] = Publishing(p[i].of)
    BY DEF Program
  <2>5. /\ p[i].op \in {"read", "send", "stack"} => p[i].of \in Switches
        /\ p[i].op = "stack" => p[i].of = "provisioning"
    BY DEF Program
  <2> QED BY <1>3, <2>1, <2>3, <2>4, <2>5
<1>7. ASSUME NEW k \in 1 .. Len(q)
      PROVE  LET i == Len(p) + k
             IN /\ r[i].op \in {"read", "send", "stack"} => r[i].of \in Switches
                /\ r[i].op = "stack" => r[i].of = "provisioning"
                /\ r[i].op = "read" => \E j \in i + 1 .. Len(r) : r[j] = Sending(r[i].of)
                /\ r[i].op = "send" /\ i # 1 => r[i - 1] = Publishing(r[i].of)
                /\ r[i].op = "nodes" => t = "timer" /\ i = Len(r)
  <2>1. r[Len(p) + k] = q[k]
    BY <1>2
  <2>2. k # 1 => /\ k - 1 \in 1 .. Len(q) /\ Len(p) + (k - 1) = (Len(p) + k) - 1
                 /\ r[Len(p) + (k - 1)] = q[k - 1]
    <3>1. k # 1 => k - 1 \in 1 .. Len(q)
      BY <1>2
    <3> QED BY <1>2, <3>1
  <2>3. ASSUME q[k].op = "read"
        PROVE  \E j \in (Len(p) + k) + 1 .. Len(r) : r[j] = Sending(q[k].of)
    <3>1. PICK j \in k + 1 .. Len(q) : q[j] = Sending(q[k].of)
      BY <2>3 DEF Program
    <3>2. Len(p) + j \in (Len(p) + k) + 1 .. Len(r) /\ r[Len(p) + j] = q[j]
      BY <1>2
    <3> QED BY <3>1, <3>2
  <2>4. q[k].op = "send" => k # 1 /\ q[k - 1] = Publishing(q[k].of)
    <3>1. k # 1 /\ q[k].op = "send" => q[k - 1] = Publishing(q[k].of)
      BY DEF Program
    <3> QED BY <1>2, <3>1
  <2>5. /\ q[k].op \in {"read", "send", "stack"} => q[k].of \in Switches
        /\ q[k].op = "stack" => q[k].of = "provisioning"
        /\ q[k].op = "nodes" => t = "timer" /\ k = Len(q)
    BY DEF Program
  <2> QED BY <1>2, <2>1, <2>2, <2>3, <2>4, <2>5
<1>8. \A i \in 1 .. Len(r) : i \in 1 .. Len(p) \/ \E k \in 1 .. Len(q) : i = Len(p) + k
  <2>1. \A i \in 1 .. Len(r) : ~(i <= Len(p)) => i - Len(p) \in 1 .. Len(q) /\ i = Len(p) + (i - Len(p))
    BY <1>2
  <2>2. \A i \in 1 .. Len(r) : i <= Len(p) => i \in 1 .. Len(p)
    BY <1>2
  <2> QED BY <2>1, <2>2
<1>9. Program(t, r)
  <2> SUFFICES ASSUME NEW i \in 1 .. Len(r)
               PROVE  /\ r[i].op \in {"read", "send", "stack"} => r[i].of \in Switches
                      /\ r[i].op = "stack" => r[i].of = "provisioning"
                      /\ r[i].op = "read" => \E j \in i + 1 .. Len(r) : r[j] = Sending(r[i].of)
                      /\ r[i].op = "send" /\ i # 1 => r[i - 1] = Publishing(r[i].of)
                      /\ r[i].op = "nodes" => t = "timer" /\ i = Len(r)
    BY <1>2 DEF Program
  <2>1. CASE i \in 1 .. Len(p)
    BY <1>6, <2>1
  <2>2. CASE \E k \in 1 .. Len(q) : i = Len(p) + k
    BY <1>7, <2>2
  <2> QED BY <1>8, <2>1, <2>2
<1> QED BY <1>4, <1>5, <1>9

LEMMA PublishProgram ==
  ASSUME NEW t, NEW s \in Switches
  PROVE  /\ Program(t, Publish(s)) /\ Publish(s) # <<>> /\ Head(Publish(s)) = Publishing(s)
         /\ ToSet(Publish(s)) = {Publishing(s), Sending(s)}
<1> DEFINE p == Publish(s)
<1>1. /\ p \in Seq(BridgeSteps) /\ Len(p) = 2 /\ p[1] = Publishing(s) /\ p[2] = Sending(s)
      /\ p # <<>> /\ Head(p) = p[1] /\ DOMAIN p = 1 .. 2
  BY StepType DEF Publish
<1> HIDE DEF p
<1>2. \A i \in 1 .. 2 : i = 1 \/ i = 2
  OBVIOUS
<1>3. Program(t, p)
  BY <1>1, <1>2 DEF Program, Publishing, Sending
<1> QED BY <1>1, <1>2, <1>3 DEF p, ToSet

LEMMA OneProgram ==
  ASSUME NEW t, NEW op \in {"announce", "on", "nodes"}, op = "nodes" => t = "timer"
  PROVE  LET p == <<Do(op)>>
         IN Program(t, p) /\ p # <<>> /\ Head(p) = Do(op) /\ ToSet(p) = {Do(op)}
<1> DEFINE p == <<Do(op)>>
<1>1. p \in Seq(BridgeSteps) /\ Len(p) = 1 /\ p[1] = Do(op) /\ p # <<>> /\ Head(p) = p[1] /\ DOMAIN p = 1 .. 1
  BY StepType
<1> HIDE DEF p
<1>2. Program(t, p)
  BY <1>1 DEF Program, Do
<1> QED BY <1>1, <1>2 DEF p, ToSet

LEMMA ConnectedProgram ==
  ASSUME NEW t
  PROVE  /\ Program(t, OnConnected) /\ OnConnected # <<>> /\ Head(OnConnected) = Do("announce")
         /\ {Do("announce"), Do("on")} \subseteq ToSet(OnConnected)
         /\ NoNodes(OnConnected)
<1> DEFINE a == <<Do("announce")>>
           p == Publish("provisioning")
           q == Publish("auto")
           z == <<Do("on")>>
           ap == a \o p
           apq == ap \o q
           all == apq \o z
<1>1. /\ Program(t, a) /\ a # <<>> /\ Head(a) = Do("announce") /\ ToSet(a) = {Do("announce")}
      /\ Program(t, z) /\ z # <<>> /\ Head(z) = Do("on") /\ ToSet(z) = {Do("on")}
  BY OneProgram
<1>2. /\ Program(t, p) /\ p # <<>> /\ Head(p) = Publishing("provisioning")
      /\ ToSet(p) = {Publishing("provisioning"), Sending("provisioning")}
  BY PublishProgram DEF Switches
<1>3. /\ Program(t, q) /\ q # <<>> /\ Head(q) = Publishing("auto")
      /\ ToSet(q) = {Publishing("auto"), Sending("auto")}
  BY PublishProgram DEF Switches
<1>4. OnConnected = all
  BY DEF OnConnected
<1>5. /\ \A x \in {Do("announce"), Do("on")} : x.op # "nodes" /\ x.op # "send"
      /\ \A s \in Switches : /\ Publishing(s).op # "nodes" /\ Publishing(s).op # "send"
                             /\ Sending(s).op # "nodes"
  BY DEF Do, Publishing, Sending
<1>0. ap = a \o p /\ apq = ap \o q /\ all = apq \o z
  OBVIOUS
<1> HIDE DEF a, p, q, z, ap, apq, all
<1>6. NoNodes(a) /\ Head(p).op # "send" /\ Head(q).op # "send" /\ Head(z).op # "send"
  BY <1>1, <1>2, <1>3, <1>5 DEF Switches, NoNodes
<1>7. /\ Program(t, ap) /\ ap # <<>> /\ Head(ap) = Head(a) /\ ToSet(ap) = ToSet(a) \cup ToSet(p)
  <2>1. /\ Program(t, a) /\ a # <<>> /\ NoNodes(a) /\ ap = a \o p
        /\ Program(t, p) /\ p # <<>> /\ Head(p).op # "send"
    BY <1>0, <1>1, <1>2, <1>6
  <2> QED BY <2>1, Composed
<1>8. NoNodes(ap)
  BY <1>1, <1>2, <1>5, <1>7 DEF Switches, NoNodes
<1>9. /\ Program(t, apq) /\ apq # <<>> /\ Head(apq) = Head(ap) /\ ToSet(apq) = ToSet(ap) \cup ToSet(q)
  <2>1. /\ Program(t, ap) /\ ap # <<>> /\ NoNodes(ap) /\ apq = ap \o q
        /\ Program(t, q) /\ q # <<>> /\ Head(q).op # "send"
    BY <1>0, <1>3, <1>6, <1>7, <1>8
  <2> QED BY <2>1, Composed
<1>10. NoNodes(apq)
  BY <1>3, <1>5, <1>8, <1>9 DEF Switches, NoNodes
<1>11. /\ Program(t, all) /\ all # <<>> /\ Head(all) = Head(apq) /\ ToSet(all) = ToSet(apq) \cup ToSet(z)
  <2>1. /\ Program(t, apq) /\ apq # <<>> /\ NoNodes(apq) /\ all = apq \o z
        /\ Program(t, z) /\ z # <<>> /\ Head(z).op # "send"
    BY <1>0, <1>1, <1>6, <1>9, <1>10
  <2> QED BY <2>1, Composed
<1>12. NoNodes(all)
  BY <1>1, <1>5, <1>10, <1>11 DEF NoNodes
<1> QED BY <1>1, <1>4, <1>7, <1>9, <1>11, <1>12

LEMMA RoundProgram ==
  /\ Program("timer", OnRound) /\ OnRound # <<>> /\ Head(OnRound) = Do("announce")
  /\ {Do("announce"), Do("on")} \subseteq ToSet(OnRound)
<1> DEFINE p == OnConnected
           z == <<Do("nodes")>>
           r == OnRound
<1>1. /\ Program("timer", p) /\ p # <<>> /\ Head(p) = Do("announce")
      /\ {Do("announce"), Do("on")} \subseteq ToSet(p) /\ NoNodes(p)
  BY ConnectedProgram
<1>2. Program("timer", z) /\ z # <<>> /\ Head(z) = Do("nodes") /\ Head(z).op # "send"
  BY OneProgram DEF Do
<1>3. r = p \o z
  BY DEF OnRound
<1> HIDE DEF p, z, r
<1>4. /\ Program("timer", r) /\ r # <<>> /\ Head(r) = Head(p)
      /\ ToSet(r) = ToSet(p) \cup ToSet(z)
  <2>1. /\ Program("timer", p) /\ p # <<>> /\ NoNodes(p)
        /\ Program("timer", z) /\ z # <<>> /\ Head(z).op # "send"
    BY <1>1, <1>2
  <2> QED BY <1>3, <2>1, Composed
<1> QED BY <1>1, <1>4 DEF r

\* The setter of a switch.
LEMMA SetProgram ==
  ASSUME NEW t, NEW s \in Switches, NEW b
  PROVE  LET p == AfterSet(t, s, b)
         IN /\ Program(t, p) /\ p # <<>> /\ Head(p) = Publishing(s) /\ Sending(s) \in ToSet(p)
            /\ s = "provisioning" => Told(s) \in ToSet(p)
<1>1. CASE s = "provisioning"
  <2> DEFINE a == <<Publishing(s), Told(s)>>
             q == Publish(s)
             p == a \o q
  <2>1. a \in Seq(BridgeSteps) /\ Len(a) = 2 /\ a[1] = Publishing(s) /\ a[2] = Told(s)
    BY StepType
  <2>2. q \in Seq(BridgeSteps) /\ Len(q) = 2 /\ q[1] = Publishing(s) /\ q[2] = Sending(s)
    BY StepType DEF Publish
  <2>3. AfterSet(t, s, b) = p
    BY <1>1 DEF AfterSet, Told
  <2> HIDE DEF a, q
  <2>4. /\ p \in Seq(BridgeSteps) /\ Len(p) = 4
        /\ \A i \in 1 .. 2 : p[i] = a[i]
        /\ \A i \in 1 .. 2 : p[2 + i] = q[i]
    <3>1. /\ p \in Seq(BridgeSteps) /\ Len(p) = Len(a) + Len(q)
          /\ \A i \in 1 .. Len(a) : p[i] = a[i]
          /\ \A i \in 1 .. Len(q) : p[Len(a) + i] = q[i]
      <4>1. a \in Seq(BridgeSteps) /\ q \in Seq(BridgeSteps)
        BY <2>1, <2>2
      <4> QED BY <4>1
    <3> QED BY <2>1, <2>2, <3>1
  <2> HIDE DEF p
  <2>5. p[1] = Publishing(s) /\ p[2] = Told(s) /\ p[2 + 1] = Publishing(s) /\ p[2 + 2] = Sending(s)
    <3>1. /\ p[1] = a[1] /\ p[2] = a[2] /\ p[2 + 1] = q[1] /\ p[2 + 2] = q[2]
      BY <2>4
    <3>2. /\ a[1] = Publishing(s) /\ a[2] = Told(s) /\ q[1] = Publishing(s) /\ q[2] = Sending(s)
      BY <2>1, <2>2
    <3> QED BY <3>1, <3>2
  <2>6. p[3] = Publishing(s) /\ p[4] = Sending(s) /\ DOMAIN p = 1 .. 4 /\ p # <<>> /\ Head(p) = p[1]
    <3>1. p \in Seq(BridgeSteps) /\ Len(p) = 4
      BY <2>4
    <3>2. DOMAIN p = 1 .. 4 /\ p # <<>> /\ Head(p) = p[1]
      BY <3>1
    <3>3. 2 + 1 = 3 /\ 2 + 2 = 4
      OBVIOUS
    <3> QED BY <2>5, <3>2, <3>3
  <2>7. \A i \in 1 .. 4 : i \in {1, 2, 3, 4}
    OBVIOUS
  <2>8. Program(t, p)
    BY <1>1, <2>4, <2>5, <2>6, <2>7 DEF Program, Publishing, Sending, Told
  <2>9. Sending(s) \in ToSet(p) /\ Told(s) \in ToSet(p)
    BY <2>5, <2>6 DEF ToSet
  <2> QED BY <2>3, <2>5, <2>6, <2>8, <2>9
<1>2. CASE s = "auto"
  <2> DEFINE q == Publish(s)
             p == <<>> \o q
  <2>1. q # <<>> /\ Program(t, q) /\ Head(q) = Publishing(s) /\ Sending(s) \in ToSet(q)
    BY PublishProgram
  <2>4. q \in Seq(BridgeSteps)
    BY <2>1 DEF Program
  <2>2. AfterSet(t, s, b) = p
    BY <1>2 DEF AfterSet
  <2> HIDE DEF q
  <2>3. p = q
    BY <2>4
  <2> QED BY <1>2, <2>1, <2>2, <2>3
<1> QED BY <1>1, <1>2 DEF Switches
LEMMA Names ==
  /\ Switches \subseteq Topics /\ "availability" \in Topics /\ "info" \in Topics
  /\ "availability" \notin Switches /\ "info" \notin Switches /\ Entities # {}
<1>1. SwitchEntity("provisioning") \in Entities /\ SwitchEntity("auto") \in Entities
      /\ Sensor \in Entities
  BY DEF Entities, Switches
<1>2. SwitchEntity("provisioning").state = "provisioning" /\ SwitchEntity("auto").state = "auto"
      /\ Sensor.state = "info"
  BY DEF SwitchEntity, Sensor
<1> QED BY <1>1, <1>2 DEF Topics, Switches

Heard == {"unknown", "on", "offline", "known", "ON", "OFF"}

BridgeTyped ==
  /\ enabled \in [Switches -> BOOLEAN] /\ value \in [Tasks -> BOOLEAN] /\ stackOn \in BOOLEAN
  /\ todo \in [Tasks -> Seq(BridgeSteps)] /\ \A t \in Tasks : Program(t, todo[t])
  /\ ha \in [known : {{}, Entities}, hears : {{}, Topics}, last : [Topics -> Heard]]
  /\ retained \in {"none", "offline"} /\ held \in Int

\* Unless there is a doubt, what Home Assistant shows of a switch is what it is set to, or a task
\* has yet to send it; one that is about to send has what it is set to.
Pending(s) == \E t \in Tasks : Sending(s) \in ToSet(todo[t])
AboutTo(t, s) == Busy(t) /\ Head(todo[t]) = Sending(s)
FlagInv ==
  \A s \in Switches \ doubt :
    /\ ha.last[s] = OnOff(enabled[s]) \/ Pending(s)
    /\ \A t \in Tasks : AboutTo(t, s) => value[t] = enabled[s]

\* The stack does as the switch says, or has yet to be told.
StackInv ==
  \/ "stack" \in doubt \/ stackOn = enabled["provisioning"]
  \/ \E t \in Tasks : Told("provisioning") \in ToSet(todo[t])

\* A round in full over one connection leaves Home Assistant with the entities, hence listening
\* when the next one begins; that one leaves it with "on".
AvailInv ==
  /\ held >= 1 => Connected /\ ha.known # {}
  /\ held >= 2 => ha.hears # {} /\ ha.last["availability"] = "on"
  /\ Busy("timer") /\ held >= 0 =>
       Connected /\ (Do("announce") \notin ToSet(todo["timer"]) => ha.known # {})
  /\ Busy("timer") /\ held >= 1 =>
       ha.hears # {} /\ (Do("on") \notin ToSet(todo["timer"]) => ha.last["availability"] = "on")

BridgeInv == BridgeTyped /\ FlagInv /\ StackInv /\ AvailInv

\* The first step is done.
LEMMA Popped ==
  ASSUME BridgeTyped, NEW t \in Tasks, NEW op, Next1(t, op)
  PROVE  LET h == Head(todo[t])
         IN /\ Busy(t) /\ h \in BridgeSteps /\ h.op = op
            /\ todo' \in [Tasks -> Seq(BridgeSteps)] /\ \A u \in Tasks : Program(u, todo'[u])
            /\ \A u \in Tasks \ {t} : todo'[u] = todo[u]
            /\ ToSet(todo[t]) = {h} \cup ToSet(todo'[t])
            /\ todo'[t] # <<>> /\ Head(todo'[t]).op = "send" => h = Publishing(Head(todo'[t]).of)
            /\ op = "nodes" => t = "timer" /\ todo'[t] = <<>>
            /\ op = "read" => Sending(h.of) \in ToSet(todo'[t])
            /\ op \in {"read", "send", "stack"} => h.of \in Switches
            /\ op = "stack" => h.of = "provisioning"
<1> DEFINE s == todo[t]
<1>1. /\ s # <<>> /\ s \in Seq(BridgeSteps) /\ Program(t, s) /\ Head(s).op = op
      /\ todo' = [todo EXCEPT ![t] = Tail(s)]
  BY DEF Next1, Busy, Pop, BridgeTyped
<1>2. /\ todo' = [u \in Tasks |-> IF u = t THEN Tail(s) ELSE todo[u]]
      /\ todo'[t] = Tail(s) /\ \A u \in Tasks \ {t} : todo'[u] = todo[u]
  BY <1>1 DEF BridgeTyped
<1> HIDE DEF s
<1>3. /\ Tail(s) \in Seq(BridgeSteps) /\ Head(s) \in BridgeSteps
      /\ Len(s) \in Nat \ {0} /\ Len(Tail(s)) = Len(s) - 1
      /\ Head(s) = s[1] /\ \A i \in 1 .. Len(Tail(s)) : Tail(s)[i] = s[i + 1]
      /\ DOMAIN Tail(s) = 1 .. Len(Tail(s))
  BY <1>1
<1>12. \A i \in 1 .. Len(s) : /\ s[i].op \in {"read", "send", "stack"} => s[i].of \in Switches
                              /\ s[i].op = "stack" => s[i].of = "provisioning"
  BY <1>1 DEF Program
<1>13. \A i \in 1 .. Len(s) : s[i].op = "send" /\ i # 1 => s[i - 1] = Publishing(s[i].of)
  BY <1>1 DEF Program
<1>14. \A i \in 1 .. Len(s) : s[i].op = "nodes" => t = "timer" /\ i = Len(s)
  BY <1>1 DEF Program
<1>4. ToSet(s) = {Head(s)} \cup ToSet(Tail(s))
  BY <1>1, InTail
<1>5. Program(t, Tail(s))
  <2> SUFFICES ASSUME NEW i \in 1 .. Len(Tail(s))
               PROVE  /\ Tail(s)[i].op \in {"read", "send", "stack"} => Tail(s)[i].of \in Switches
                      /\ Tail(s)[i].op = "stack" => Tail(s)[i].of = "provisioning"
                      /\ Tail(s)[i].op = "read" =>
                           \E j \in i + 1 .. Len(Tail(s)) : Tail(s)[j] = Sending(Tail(s)[i].of)
                      /\ Tail(s)[i].op = "send" /\ i # 1 => Tail(s)[i - 1] = Publishing(Tail(s)[i].of)
                      /\ Tail(s)[i].op = "nodes" => t = "timer" /\ i = Len(Tail(s))
    BY <1>3 DEF Program
  <2>1. i + 1 \in 1 .. Len(s) /\ Tail(s)[i] = s[i + 1]
    BY <1>3
  <2>2. ASSUME s[i + 1].op = "read"
        PROVE  \E j \in i + 1 .. Len(Tail(s)) : Tail(s)[j] = Sending(s[i + 1].of)
    <3>1. PICK j \in (i + 1) + 1 .. Len(s) : s[j] = Sending(s[i + 1].of)
      BY <1>1, <2>1, <2>2 DEF Program
    <3>2. j - 1 \in i + 1 .. Len(Tail(s)) /\ Tail(s)[j - 1] = s[j]
      BY <1>3, <2>1, <3>1
    <3> QED BY <3>1, <3>2
  <2>3. ASSUME s[i + 1].op = "send", i # 1
        PROVE  Tail(s)[i - 1] = Publishing(s[i + 1].of)
    <3>1. s[(i + 1) - 1] = Publishing(s[i + 1].of)
      BY <1>13, <2>1, <2>3
    <3>2. (i + 1) - 1 = i /\ i - 1 \in 1 .. Len(Tail(s)) /\ Tail(s)[i - 1] = s[(i - 1) + 1] /\ (i - 1) + 1 = i
      BY <1>3, <2>3
    <3> QED BY <3>1, <3>2
  <2>4. s[i + 1].op = "nodes" => t = "timer" /\ i + 1 = Len(s)
    BY <1>1, <2>1 DEF Program
  <2>5. /\ s[i + 1].op \in {"read", "send", "stack"} => s[i + 1].of \in Switches
        /\ s[i + 1].op = "stack" => s[i + 1].of = "provisioning"
    BY <1>1, <2>1 DEF Program
  <2> QED BY <1>3, <2>1, <2>2, <2>3, <2>4, <2>5
<1>6. \A u \in Tasks : Program(u, todo'[u])
  BY <1>2, <1>5 DEF BridgeTyped
<1>7. ASSUME Tail(s) # <<>>, Head(Tail(s)).op = "send"
      PROVE  Head(s) = Publishing(Head(Tail(s)).of)
  <2>1. 2 \in 1 .. Len(s) /\ Head(Tail(s)) = s[2]
    BY <1>3, <1>7
  <2>2. s[2 - 1] = Publishing(s[2].of)
    BY <1>7, <1>13, <2>1
  <2> QED BY <1>3, <2>1, <2>2
<1>8. ASSUME op = "nodes"
      PROVE  t = "timer" /\ Tail(s) = <<>>
  <2>1. 1 \in 1 .. Len(s) /\ s[1].op = "nodes"
    BY <1>1, <1>3, <1>8
  <2>2. t = "timer" /\ Len(s) = 1
    BY <1>14, <2>1
  <2>3. Len(Tail(s)) = 0
    BY <1>3, <2>2
  <2>4. \A r \in Seq(BridgeSteps) : Len(r) = 0 => r = <<>>
    OBVIOUS
  <2> QED BY <1>3, <2>2, <2>3, <2>4
<1>9. ASSUME op = "read"
      PROVE  Sending(Head(s).of) \in ToSet(Tail(s))
  <2>1. 1 \in 1 .. Len(s) /\ s[1].op = "read"
    BY <1>1, <1>3, <1>9
  <2>2. PICK j \in 1 + 1 .. Len(s) : s[j] = Sending(s[1].of)
    BY <1>1, <2>1 DEF Program
  <2>3. j - 1 \in 1 .. Len(Tail(s)) /\ Tail(s)[j - 1] = s[j]
    BY <1>3, <2>2
  <2> QED BY <1>3, <2>2, <2>3 DEF ToSet
<1>10. /\ op \in {"read", "send", "stack"} => Head(s).of \in Switches
       /\ op = "stack" => Head(s).of = "provisioning"
  BY <1>1, <1>3, <1>12
<1>11. todo' \in [Tasks -> Seq(BridgeSteps)]
  BY <1>2, <1>3 DEF BridgeTyped
<1> QED BY <1>1, <1>2, <1>3, <1>4, <1>6, <1>7, <1>8, <1>9, <1>10, <1>11 DEF s, Busy


\* What was still to be done, other than the first step, is still to be done.
LEMMA PoppedKeeps ==
  ASSUME BridgeTyped, NEW t \in Tasks, NEW op, Next1(t, op)
  PROVE  /\ \A u \in Tasks : \A x \in ToSet(todo[u]) : x.op # op => x \in ToSet(todo'[u])
         /\ \A u \in Tasks : todo'[u] # <<>> => todo[u] # <<>>
         /\ \A u \in Tasks \ {t} : todo'[u] = todo[u]
         /\ \A s \in Switches : todo'[t] # <<>> /\ Head(todo'[t]) = Sending(s) =>
              op = "read" /\ Of(t) = s
<1> DEFINE h == Head(todo[t])
<1>1. /\ Busy(t) /\ h.op = op /\ \A u \in Tasks \ {t} : todo'[u] = todo[u]
      /\ ToSet(todo[t]) = {h} \cup ToSet(todo'[t])
      /\ todo'[t] # <<>> /\ Head(todo'[t]).op = "send" => h = Publishing(Head(todo'[t]).of)
  BY Popped
<1>2. h.of = Of(t)
  BY DEF Of
<1> HIDE DEF h
<1>3. \A u \in Tasks : \A x \in ToSet(todo[u]) : x.op # op => x \in ToSet(todo'[u])
  BY <1>1
<1>4. \A u \in Tasks : todo'[u] # <<>> => todo[u] # <<>>
  BY <1>1 DEF Busy
<1>5. ASSUME NEW s \in Switches, todo'[t] # <<>>, Head(todo'[t]) = Sending(s)
      PROVE  op = "read" /\ Of(t) = s
  <2>1. h = Publishing(s)
    BY <1>1, <1>5 DEF Sending
  <2> QED BY <1>1, <1>2, <2>1 DEF Publishing
<1> QED BY <1>1, <1>3, <1>4, <1>5

-----------------------------------------------------------------------------
(* What leaves each part of the invariant alone. *)

LEMMA FlagKept ==
  ASSUME FlagInv, \A s \in Switches : enabled'[s] = enabled[s] /\ ha'.last[s] = ha.last[s],
         \A s \in Switches : s \in doubt => s \in doubt',
         \A t \in Tasks, s \in Switches :
           /\ Sending(s) \in ToSet(todo[t]) => Sending(s) \in ToSet(todo'[t])
           /\ todo'[t] # <<>> /\ Head(todo'[t]) = Sending(s) => AboutTo(t, s) /\ value'[t] = value[t]
  PROVE  FlagInv'
<1> SUFFICES ASSUME NEW s \in Switches, s \notin doubt'
             PROVE  /\ ha'.last[s] = OnOff(enabled'[s]) \/ Pending(s)'
                    /\ \A t \in Tasks : AboutTo(t, s)' => value'[t] = enabled'[s]
  BY DEF FlagInv
<1>1. ha.last[s] = OnOff(enabled[s]) \/ Pending(s)
  BY DEF FlagInv
<1>2. \A t \in Tasks : AboutTo(t, s) => value[t] = enabled[s]
  BY DEF FlagInv
<1>3. ha'.last[s] = OnOff(enabled'[s]) \/ Pending(s)'
  BY <1>1 DEF Pending
<1>4. \A t \in Tasks : AboutTo(t, s)' => value'[t] = enabled'[s]
  BY <1>2 DEF AboutTo, Busy
<1> QED BY <1>3, <1>4

LEMMA StackKept ==
  ASSUME StackInv, stackOn' = stackOn, enabled'["provisioning"] = enabled["provisioning"],
         "stack" \in doubt => "stack" \in doubt',
         \A t \in Tasks : Told("provisioning") \in ToSet(todo[t]) => Told("provisioning") \in ToSet(todo'[t])
  PROVE  StackInv'
  BY DEF StackInv

LEMMA AvailKept ==
  ASSUME AvailInv, held' = held, Connected => Connected',
         ha.known # {} => ha'.known # {}, ha.hears # {} => ha'.hears # {},
         ha.last["availability"] = "on" => ha'.last["availability"] = "on",
         todo'["timer"] # <<>> => todo["timer"] # <<>>,
         \A x \in {Do("announce"), Do("on")} : x \in ToSet(todo["timer"]) => x \in ToSet(todo'["timer"])
  PROVE  AvailInv'
  BY DEF AvailInv, Busy

LEMMA Delivered ==
  ASSUME BridgeTyped, NEW topic \in Topics, NEW m \in Heard, Deliver(topic, m)
  PROVE  /\ ha' \in [known : {{}, Entities}, hears : {{}, Topics}, last : [Topics -> Heard]]
         /\ ha'.known = ha.known /\ ha'.hears = ha.hears
         /\ \A x \in Topics \ {topic} : ha'.last[x] = ha.last[x]
         /\ Connected /\ ha.hears # {} => ha'.last[topic] = m
         /\ ha'.last[topic] \in {m, ha.last[topic]}
<1>1. /\ ha = [known |-> ha.known, hears |-> ha.hears, last |-> ha.last]
      /\ ha.known \in {{}, Entities} /\ ha.hears \in {{}, Topics} /\ ha.last \in [Topics -> Heard]
  BY DEF BridgeTyped
<1>2. CASE Connected /\ topic \in ha.hears
  BY <1>1, <1>2 DEF Deliver
<1>3. CASE ~(Connected /\ topic \in ha.hears)
  BY <1>1, <1>3 DEF Deliver
<1> QED BY <1>2, <1>3

\* The last will.
LEMMA ToldOffline ==
  ASSUME BridgeTyped, NEW topic \in Topics, NEW m \in Heard,
         ha' = IF topic \in ha.hears THEN [ha EXCEPT !.last[topic] = m] ELSE ha
  PROVE  /\ ha' \in [known : {{}, Entities}, hears : {{}, Topics}, last : [Topics -> Heard]]
         /\ ha'.known = ha.known /\ ha'.hears = ha.hears
         /\ \A x \in Topics \ {topic} : ha'.last[x] = ha.last[x]
<1>1. /\ ha = [known |-> ha.known, hears |-> ha.hears, last |-> ha.last]
      /\ ha.known \in {{}, Entities} /\ ha.hears \in {{}, Topics} /\ ha.last \in [Topics -> Heard]
  BY DEF BridgeTyped
<1>2. CASE topic \in ha.hears
  BY <1>1, <1>2
<1>3. CASE topic \notin ha.hears
  BY <1>1, <1>3
<1> QED BY <1>2, <1>3

-----------------------------------------------------------------------------
(* Publishing. *)

LEMMA AnnounceKeeps ==
  ASSUME BridgeInv, NEW t \in Tasks, Announce(t)
  PROVE  BridgeInv'
<1>1. /\ BridgeTyped /\ Next1(t, "announce")
      /\ UNCHANGED <<enabled, stackOn, value, retained, held, doubt>>
  BY DEF BridgeInv, Announce, flagvars
<1>2. /\ todo' \in [Tasks -> Seq(BridgeSteps)] /\ \A u \in Tasks : Program(u, todo'[u])
  BY <1>1, Popped
<1>3. /\ ha' \in [known : {{}, Entities}, hears : {{}, Topics}, last : [Topics -> Heard]]
      /\ ha'.hears = ha.hears /\ ha'.last = ha.last
      /\ Connected => ha'.known = Entities /\ Connected'
      /\ ~Connected => ha' = ha /\ ~Connected'
  BY <1>1 DEF Announce, BridgeTyped, Connected
<1>4. BridgeTyped'
  BY <1>1, <1>2, <1>3 DEF BridgeTyped
<1>5. FlagInv'
  <2>1. \A s \in Switches : Sending(s).op # "announce"
    BY DEF Sending
  <2>2. \A u \in Tasks, s \in Switches :
          /\ Sending(s) \in ToSet(todo[u]) => Sending(s) \in ToSet(todo'[u])
          /\ todo'[u] # <<>> /\ Head(todo'[u]) = Sending(s) => AboutTo(u, s) /\ value'[u] = value[u]
    BY <1>1, <2>1, PoppedKeeps DEF AboutTo, Busy
  <2> QED BY <1>1, <1>3, <2>2, FlagKept DEF BridgeInv
<1>6. StackInv'
  <2>1. Told("provisioning").op # "announce"
    BY DEF Told
  <2>2. \A u \in Tasks : Told("provisioning") \in ToSet(todo[u]) => Told("provisioning") \in ToSet(todo'[u])
    BY <1>1, <2>1, PoppedKeeps
  <2> QED BY <1>1, <2>2, StackKept DEF BridgeInv
<1>7. AvailInv'
  <2>1. AvailInv /\ Entities # {}
    BY Names DEF BridgeInv
  <2>2. Do("on").op # "announce"
    BY DEF Do
  <2>3. (todo'["timer"] # <<>> => todo["timer"] # <<>>)
        /\ (Do("on") \in ToSet(todo["timer"]) => Do("on") \in ToSet(todo'["timer"]))
    BY <1>1, <2>2, PoppedKeeps DEF Tasks
  <2>4. (Connected => Connected' /\ ha'.known # {}) /\ (ha.known # {} => ha'.known # {})
    BY <1>3, <2>1
  <2> QED BY <1>1, <1>3, <2>1, <2>3, <2>4 DEF AvailInv, Busy
<1> QED BY <1>4, <1>5, <1>6, <1>7 DEF BridgeInv

LEMMA PublishOnKeeps ==
  ASSUME BridgeInv, NEW t \in Tasks, PublishOn(t)
  PROVE  BridgeInv'
<1>1. /\ BridgeTyped /\ Next1(t, "on") /\ Deliver("availability", "on")
      /\ UNCHANGED <<enabled, stackOn, value, retained, conn, held, doubt>>
  BY DEF BridgeInv, PublishOn, flagvars, linkvars
<1>2. /\ todo' \in [Tasks -> Seq(BridgeSteps)] /\ \A u \in Tasks : Program(u, todo'[u])
  BY <1>1, Popped
<1>3. /\ ha' \in [known : {{}, Entities}, hears : {{}, Topics}, last : [Topics -> Heard]]
      /\ ha'.hears = ha.hears /\ ha'.known = ha.known
      /\ \A s \in Switches : ha'.last[s] = ha.last[s]
      /\ Connected /\ ha.hears # {} => ha'.last["availability"] = "on"
      /\ ha'.last["availability"] \in {"on", ha.last["availability"]}
  <2>1. "availability" \in Topics /\ Switches \subseteq Topics \ {"availability"}
    BY Names
  <2>2. "on" \in Heard
    BY DEF Heard
  <2> QED BY <1>1, <2>1, <2>2, Delivered
<1>4. BridgeTyped'
  BY <1>1, <1>2, <1>3 DEF BridgeTyped
<1>5. FlagInv'
  <2>1. \A s \in Switches : Sending(s).op # "on"
    BY DEF Sending
  <2>2. \A u \in Tasks, s \in Switches :
          /\ Sending(s) \in ToSet(todo[u]) => Sending(s) \in ToSet(todo'[u])
          /\ todo'[u] # <<>> /\ Head(todo'[u]) = Sending(s) => AboutTo(u, s) /\ value'[u] = value[u]
    BY <1>1, <2>1, PoppedKeeps DEF AboutTo, Busy
  <2> QED BY <1>1, <1>3, <2>2, FlagKept DEF BridgeInv
<1>6. StackInv'
  <2>1. Told("provisioning").op # "on"
    BY DEF Told
  <2>2. \A u \in Tasks : Told("provisioning") \in ToSet(todo[u]) => Told("provisioning") \in ToSet(todo'[u])
    BY <1>1, <2>1, PoppedKeeps
  <2> QED BY <1>1, <2>2, StackKept DEF BridgeInv
<1>7. AvailInv'
  <2>1. AvailInv
    BY DEF BridgeInv
  <2>2. Do("announce").op # "on"
    BY DEF Do
  <2>3. (todo'["timer"] # <<>> => todo["timer"] # <<>>)
        /\ (Do("announce") \in ToSet(todo["timer"]) => Do("announce") \in ToSet(todo'["timer"]))
    BY <1>1, <2>2, PoppedKeeps DEF Tasks
  <2>4. (Connected' <=> Connected)
    BY <1>1 DEF Connected
  <2> QED BY <1>1, <1>3, <2>1, <2>3, <2>4 DEF AvailInv, Busy, BridgeTyped
<1> QED BY <1>4, <1>5, <1>6, <1>7 DEF BridgeInv

LEMMA ReadFlagKeeps ==
  ASSUME BridgeInv, NEW t \in Tasks, ReadFlag(t)
  PROVE  BridgeInv'
<1> DEFINE f == Of(t)
<1>1. /\ BridgeTyped /\ Next1(t, "read")
      /\ value' = [value EXCEPT ![t] = enabled[f]]
      /\ doubt' = IF Raced(t, f) THEN doubt \union {f} ELSE doubt \ {f}
      /\ UNCHANGED <<enabled, stackOn, retained, conn, ha, held>>
  BY DEF BridgeInv, ReadFlag, linkvars
<1>2. /\ todo' \in [Tasks -> Seq(BridgeSteps)] /\ \A u \in Tasks : Program(u, todo'[u])
      /\ f \in Switches /\ Sending(f) \in ToSet(todo'[t])
  BY <1>1, Popped DEF Of
<1> HIDE DEF f
<1>3. /\ value' \in [Tasks -> BOOLEAN] /\ value'[t] = enabled[f]
      /\ \A u \in Tasks \ {t} : value'[u] = value[u]
  BY <1>1, <1>2 DEF BridgeTyped
<1>4. BridgeTyped'
  BY <1>1, <1>2, <1>3 DEF BridgeTyped
<1>5. FlagInv'
  <2>1. \A s \in Switches : Sending(s).op # "read" /\ Sending(s).op = "send" /\ Sending(s).of = s
    BY DEF Sending
  <2>2. \A u \in Tasks, s \in Switches :
          /\ Sending(s) \in ToSet(todo[u]) => Sending(s) \in ToSet(todo'[u])
          /\ todo'[u] # <<>> /\ Head(todo'[u]) = Sending(s) => (u # t /\ AboutTo(u, s)) \/ (u = t /\ s = f)
    BY <1>1, <2>1, PoppedKeeps DEF AboutTo, Busy, f
  <2> SUFFICES ASSUME NEW s \in Switches, s \notin doubt'
               PROVE  /\ ha'.last[s] = OnOff(enabled'[s]) \/ Pending(s)'
                      /\ \A u \in Tasks : AboutTo(u, s)' => value'[u] = enabled'[s]
    BY DEF FlagInv
  <2>3. CASE s = f
    <3>1. Pending(s)'
      BY <1>2, <2>3 DEF Pending
    <3>2. ~Raced(t, f)
      BY <1>1, <2>3
    <3>3. \A u \in Tasks \ {t} : ~AboutTo(u, s)
      BY <2>1, <2>3, <3>2 DEF Raced, AboutTo
    <3>4. \A u \in Tasks : AboutTo(u, s)' => u = t
      BY <2>2, <3>3 DEF AboutTo, Busy
    <3> QED BY <1>1, <1>3, <2>3, <3>1, <3>4
  <2>4. CASE s # f
    <3>1. s \notin doubt
      BY <1>1, <2>4
    <3>2. ha.last[s] = OnOff(enabled[s]) \/ Pending(s)
      BY <3>1 DEF BridgeInv, FlagInv
    <3>3. \A u \in Tasks : AboutTo(u, s) => value[u] = enabled[s]
      BY <3>1 DEF BridgeInv, FlagInv
    <3>4. Pending(s) => Pending(s)'
      BY <2>2 DEF Pending
    <3>5. \A u \in Tasks : AboutTo(u, s)' => u # t /\ AboutTo(u, s)
      BY <2>2, <2>4 DEF AboutTo, Busy
    <3> QED BY <1>1, <1>3, <3>2, <3>3, <3>4, <3>5
  <2> QED BY <2>3, <2>4
<1>6. StackInv'
  <2>1. Told("provisioning").op # "read" /\ f # "stack"
    BY <1>2 DEF Told, Switches
  <2>2. \A u \in Tasks : Told("provisioning") \in ToSet(todo[u]) => Told("provisioning") \in ToSet(todo'[u])
    BY <1>1, <2>1, PoppedKeeps
  <2> QED BY <1>1, <2>1, <2>2, StackKept DEF BridgeInv
<1>7. AvailInv'
  <2>1. \A x \in {Do("announce"), Do("on")} : x.op # "read"
    BY DEF Do
  <2>2. (todo'["timer"] # <<>> => todo["timer"] # <<>>)
        /\ \A x \in {Do("announce"), Do("on")} : x \in ToSet(todo["timer"]) => x \in ToSet(todo'["timer"])
    BY <1>1, <2>1, PoppedKeeps DEF Tasks
  <2> QED BY <1>1, <2>2, AvailKept DEF BridgeInv, Connected
<1> QED BY <1>4, <1>5, <1>6, <1>7 DEF BridgeInv

LEMMA SendFlagKeeps ==
  ASSUME BridgeInv, NEW t \in Tasks, SendFlag(t)
  PROVE  BridgeInv'
<1> DEFINE f == Of(t)
<1>1. /\ BridgeTyped /\ Next1(t, "send") /\ Deliver(f, OnOff(value[t]))
      /\ value' = [value EXCEPT ![t] = FALSE]
      /\ doubt' = IF Raced(t, f) \/ Lost(f) THEN doubt \union {f} ELSE doubt
      /\ UNCHANGED <<enabled, stackOn, retained, conn, held>>
  BY DEF BridgeInv, SendFlag, linkvars
<1>2. /\ todo' \in [Tasks -> Seq(BridgeSteps)] /\ \A u \in Tasks : Program(u, todo'[u])
      /\ f \in Switches /\ ToSet(todo[t]) = {Head(todo[t])} \cup ToSet(todo'[t])
      /\ Busy(t) /\ Head(todo[t]) \in BridgeSteps /\ Head(todo[t]).op = "send"
  BY <1>1, Popped DEF Of
<1>3. f = Head(todo[t]).of /\ Head(todo[t]) = Sending(f)
  BY <1>2 DEF Of, Sending, BridgeSteps
<1> HIDE DEF f
<1>4. /\ value' \in [Tasks -> BOOLEAN]
      /\ \A u \in Tasks \ {t} : value'[u] = value[u]
  BY <1>1 DEF BridgeTyped
<1>5. f \in Topics /\ f # "availability" /\ "availability" \in Topics /\ Switches \subseteq Topics
      /\ OnOff(value[t]) \in Heard
  <2>1. OnOff(value[t]) \in Heard
    BY DEF OnOff, Heard
  <2> QED BY <1>2, <2>1, Names
<1>6. /\ ha' \in [known : {{}, Entities}, hears : {{}, Topics}, last : [Topics -> Heard]]
      /\ ha'.hears = ha.hears /\ ha'.known = ha.known
      /\ \A x \in Topics \ {f} : ha'.last[x] = ha.last[x]
      /\ Connected /\ ha.hears # {} => ha'.last[f] = OnOff(value[t])
  BY <1>1, <1>5, Delivered
<1>7. BridgeTyped'
  BY <1>1, <1>2, <1>4, <1>6 DEF BridgeTyped
<1>8. FlagInv'
  <2>1. \A s \in Switches : Sending(s) # Sending(f) <=> s # f
    BY DEF Sending
  <2>2. \A u \in Tasks, s \in Switches :
          /\ Sending(s) \in ToSet(todo[u]) /\ s # f => Sending(s) \in ToSet(todo'[u])
          /\ todo'[u] # <<>> /\ Head(todo'[u]) = Sending(s) => u # t /\ AboutTo(u, s)
    <3>1. /\ \A u \in Tasks \ {t} : todo'[u] = todo[u]
          /\ \A s \in Switches : ~(todo'[t] # <<>> /\ Head(todo'[t]) = Sending(s))
      BY <1>1, PoppedKeeps
    <3> QED BY <1>2, <1>3, <2>1, <3>1 DEF AboutTo, Busy
  <2> SUFFICES ASSUME NEW s \in Switches, s \notin doubt'
               PROVE  /\ ha'.last[s] = OnOff(enabled'[s]) \/ Pending(s)'
                      /\ \A u \in Tasks : AboutTo(u, s)' => value'[u] = enabled'[s]
    BY DEF FlagInv
  <2>3. s \notin doubt
    BY <1>1
  <2>4. ha.last[s] = OnOff(enabled[s]) \/ Pending(s)
    BY <2>3 DEF BridgeInv, FlagInv
  <2>5. \A u \in Tasks : AboutTo(u, s) => value[u] = enabled[s]
    BY <2>3 DEF BridgeInv, FlagInv
  <2>6. \A u \in Tasks : AboutTo(u, s)' => value'[u] = enabled'[s]
    BY <1>1, <1>4, <2>2, <2>5 DEF AboutTo, Busy
  <2>7. CASE s = f
    <3>1. ~Lost(f)
      BY <1>1, <2>7
    <3>2. Connected /\ ha.hears # {}
      BY <3>1 DEF Lost
    <3>3. AboutTo(t, f)
      BY <1>2, <1>3 DEF AboutTo
    <3> QED BY <1>1, <1>6, <2>5, <2>6, <2>7, <3>2, <3>3
  <2>8. CASE s # f
    <3>1. Pending(s) => Pending(s)'
      BY <2>2, <2>8 DEF Pending
    <3> QED BY <1>1, <1>5, <1>6, <2>4, <2>6, <2>8, <3>1
  <2> QED BY <2>7, <2>8
<1>9. StackInv'
  <2>1. Told("provisioning").op # "send"
    BY DEF Told
  <2>2. \A u \in Tasks : Told("provisioning") \in ToSet(todo[u]) => Told("provisioning") \in ToSet(todo'[u])
    BY <1>1, <2>1, PoppedKeeps
  <2> QED BY <1>1, <2>2, StackKept DEF BridgeInv
<1>10. AvailInv'
  <2>1. \A x \in {Do("announce"), Do("on")} : x.op # "send"
    BY DEF Do
  <2>2. (todo'["timer"] # <<>> => todo["timer"] # <<>>)
        /\ \A x \in {Do("announce"), Do("on")} : x \in ToSet(todo["timer"]) => x \in ToSet(todo'["timer"])
    BY <1>1, <2>1, PoppedKeeps DEF Tasks
  <2>3. ha'.last["availability"] = ha.last["availability"]
    BY <1>5, <1>6
  <2> QED BY <1>1, <1>6, <2>2, <2>3, AvailKept DEF BridgeInv, Connected
<1> QED BY <1>7, <1>8, <1>9, <1>10 DEF BridgeInv

LEMMA TellStackKeeps ==
  ASSUME BridgeInv, NEW t \in Tasks, TellStack(t)
  PROVE  BridgeInv'
<1> DEFINE f == Of(t)
<1>1. /\ BridgeTyped /\ Next1(t, "stack")
      /\ \/ /\ stackOn' = value[t]
            /\ doubt' = IF Raced(t, f) \/ value[t] # enabled[f] THEN doubt \union {f, "stack"}
                        ELSE doubt \ {"stack"}
         \/ stackOn' = stackOn /\ doubt' = doubt \union {"stack"}
      /\ UNCHANGED <<enabled, value, retained, conn, ha, held>>
  BY DEF BridgeInv, TellStack, linkvars
<1>2. /\ todo' \in [Tasks -> Seq(BridgeSteps)] /\ \A u \in Tasks : Program(u, todo'[u])
      /\ f = "provisioning"
  BY <1>1, Popped DEF Of
<1> HIDE DEF f
<1>3. BridgeTyped'
  BY <1>1, <1>2 DEF BridgeTyped
<1>4. FlagInv'
  <2>1. \A s \in Switches : Sending(s).op # "stack" /\ s # "stack"
    BY DEF Sending, Switches
  <2>2. \A u \in Tasks, s \in Switches :
          /\ Sending(s) \in ToSet(todo[u]) => Sending(s) \in ToSet(todo'[u])
          /\ todo'[u] # <<>> /\ Head(todo'[u]) = Sending(s) => AboutTo(u, s) /\ value'[u] = value[u]
    BY <1>1, <2>1, PoppedKeeps DEF AboutTo, Busy
  <2>3. \A s \in Switches : s \in doubt => s \in doubt'
    BY <1>1, <2>1
  <2> QED BY <1>1, <2>2, <2>3, FlagKept DEF BridgeInv
<1>5. StackInv'
  <2>1. "stack" \in doubt' \/ (stackOn' = value[t] /\ value[t] = enabled["provisioning"])
    BY <1>1, <1>2
  <2> QED BY <1>1, <2>1 DEF StackInv
<1>6. AvailInv'
  <2>1. \A x \in {Do("announce"), Do("on")} : x.op # "stack"
    BY DEF Do
  <2>2. (todo'["timer"] # <<>> => todo["timer"] # <<>>)
        /\ \A x \in {Do("announce"), Do("on")} : x \in ToSet(todo["timer"]) => x \in ToSet(todo'["timer"])
    BY <1>1, <2>1, PoppedKeeps DEF Tasks
  <2> QED BY <1>1, <2>2, AvailKept DEF BridgeInv, Connected
<1> QED BY <1>3, <1>4, <1>5, <1>6 DEF BridgeInv

\* ble_mesh_republish_all_nodes_to_mqtt: the round is complete.
LEMMA RepublishKeeps ==
  ASSUME BridgeInv, NEW t \in Tasks, Republish(t)
  PROVE  BridgeInv'
<1>1. /\ BridgeTyped /\ Next1(t, "nodes")
      /\ held' = IF Connected THEN held + 1 ELSE held
      /\ UNCHANGED <<enabled, stackOn, value, retained, conn, ha, doubt>>
  BY DEF BridgeInv, Republish, flagvars, linkvars
<1>2. /\ todo' \in [Tasks -> Seq(BridgeSteps)] /\ \A u \in Tasks : Program(u, todo'[u])
      /\ t = "timer" /\ todo'[t] = <<>> /\ Busy(t)
      /\ ToSet(todo[t]) = {Head(todo[t])} \cup ToSet(todo'[t]) /\ Head(todo[t]).op = "nodes"
  BY <1>1, Popped
<1>3. BridgeTyped'
  BY <1>1, <1>2 DEF BridgeTyped
<1>4. FlagInv'
  <2>1. \A s \in Switches : Sending(s).op # "nodes"
    BY DEF Sending
  <2>2. \A u \in Tasks, s \in Switches :
          /\ Sending(s) \in ToSet(todo[u]) => Sending(s) \in ToSet(todo'[u])
          /\ todo'[u] # <<>> /\ Head(todo'[u]) = Sending(s) => AboutTo(u, s) /\ value'[u] = value[u]
    BY <1>1, <2>1, PoppedKeeps DEF AboutTo, Busy
  <2> QED BY <1>1, <2>2, FlagKept DEF BridgeInv
<1>5. StackInv'
  <2>1. Told("provisioning").op # "nodes"
    BY DEF Told
  <2>2. \A u \in Tasks : Told("provisioning") \in ToSet(todo[u]) => Told("provisioning") \in ToSet(todo'[u])
    BY <1>1, <2>1, PoppedKeeps
  <2> QED BY <1>1, <2>2, StackKept DEF BridgeInv
<1>6. AvailInv'
  <2>1. Do("announce") \notin ToSet(todo["timer"]) /\ Do("on") \notin ToSet(todo["timer"])
    <3>1. ToSet(todo'[t]) = {}
      BY <1>2, InOne
    <3>2. Do("announce").op # "nodes" /\ Do("on").op # "nodes"
      BY DEF Do
    <3> QED BY <1>2, <3>1, <3>2
  <2>2. ~Busy("timer")' /\ Busy("timer") /\ (Connected' <=> Connected)
    BY <1>1, <1>2 DEF Busy, Connected
  <2>3. AvailInv /\ held \in Int
    BY <1>1 DEF BridgeInv, BridgeTyped
  <2>4. held' >= 1 => Connected /\ ha.known # {}
    BY <1>1, <2>1, <2>2, <2>3 DEF AvailInv
  <2>5. held' >= 2 => ha.hears # {} /\ ha.last["availability"] = "on"
    BY <1>1, <2>1, <2>2, <2>3 DEF AvailInv
  <2> QED BY <1>1, <2>2, <2>4, <2>5 DEF AvailInv
<1> QED BY <1>3, <1>4, <1>5, <1>6 DEF BridgeInv

-----------------------------------------------------------------------------
(* The switches. *)

LEMMA SetEnabledKeeps ==
  ASSUME BridgeInv, NEW t \in Tasks \ {"timer"}, NEW f \in Switches, NEW b \in BOOLEAN, SetEnabled(t, f, b)
  PROVE  BridgeInv'
<1>1. /\ BridgeTyped /\ ~Busy(t)
      /\ IF enabled[f] = b THEN UNCHANGED <<enabled, todo, doubt>>
         ELSE /\ enabled' = [enabled EXCEPT ![f] = b]
              /\ todo' = [todo EXCEPT ![t] = AfterSet(t, f, b)]
              /\ doubt' = IF Raced(t, f) THEN doubt \union {f, "stack"} ELSE doubt
      /\ UNCHANGED <<stackOn, value, retained, conn, ha, held>>
  BY DEF BridgeInv, SetEnabled, linkvars
<1>2. CASE UNCHANGED <<enabled, todo, doubt>>
  BY <1>1, <1>2 DEF BridgeInv, BridgeTyped, FlagInv, StackInv, AvailInv, Pending, AboutTo, Busy, Connected
<1>3. CASE /\ enabled' = [enabled EXCEPT ![f] = b]
           /\ todo' = [todo EXCEPT ![t] = AfterSet(t, f, b)]
           /\ doubt' = IF Raced(t, f) THEN doubt \union {f, "stack"} ELSE doubt
  <2> DEFINE p == AfterSet(t, f, b)
  <2>1. /\ Program(t, p) /\ p # <<>> /\ Head(p) = Publishing(f) /\ Sending(f) \in ToSet(p)
        /\ f = "provisioning" => Told(f) \in ToSet(p)
    BY SetProgram
  <2>2. p \in Seq(BridgeSteps)
    BY <2>1 DEF Program
  <2>3. /\ todo' = [todo EXCEPT ![t] = p] /\ enabled' = [enabled EXCEPT ![f] = b]
        /\ doubt' = IF Raced(t, f) THEN doubt \union {f, "stack"} ELSE doubt
    BY <1>3
  <2> HIDE DEF p
  <2>4. /\ todo' \in [Tasks -> Seq(BridgeSteps)] /\ todo'[t] = p /\ \A u \in Tasks \ {t} : todo'[u] = todo[u]
        /\ enabled' \in [Switches -> BOOLEAN] /\ enabled'[f] = b
        /\ \A s \in Switches \ {f} : enabled'[s] = enabled[s]
    BY <1>1, <2>2, <2>3 DEF BridgeTyped
  <2>5. BridgeTyped'
    BY <1>1, <2>1, <2>4 DEF BridgeTyped
  <2>6. ToSet(todo[t]) = {} /\ todo[t] = <<>>
    BY <1>1, InOne DEF Busy
  <2>7. \A u \in Tasks : ToSet(todo[u]) \subseteq ToSet(todo'[u])
    BY <2>4, <2>6
  <2>8. FlagInv'
    <3>1. \A s \in Switches : Head(p) # Sending(s)
      BY <2>1 DEF Publishing, Sending
    <3>2. \A u \in Tasks, s \in Switches : AboutTo(u, s)' => u # t /\ AboutTo(u, s)
      BY <2>4, <3>1 DEF AboutTo, Busy
    <3> SUFFICES ASSUME NEW s \in Switches, s \notin doubt'
                 PROVE  /\ ha'.last[s] = OnOff(enabled'[s]) \/ Pending(s)'
                        /\ \A u \in Tasks : AboutTo(u, s)' => value'[u] = enabled'[s]
      BY DEF FlagInv
    <3>3. CASE s = f
      <4>1. ~Raced(t, f)
        BY <2>3, <3>3
      <4>2. \A u \in Tasks : ~AboutTo(u, s)'
        BY <3>2, <3>3, <4>1 DEF Raced, AboutTo, Sending
      <4>3. Pending(s)'
        BY <2>1, <2>4, <3>3 DEF Pending
      <4> QED BY <4>2, <4>3
    <3>4. CASE s # f
      <4>1. s \notin doubt
        BY <2>3
      <4>2. ha.last[s] = OnOff(enabled[s]) \/ Pending(s)
        BY <4>1 DEF BridgeInv, FlagInv
      <4>3. \A u \in Tasks : AboutTo(u, s) => value[u] = enabled[s]
        BY <4>1 DEF BridgeInv, FlagInv
      <4>4. Pending(s) => Pending(s)'
        BY <2>7 DEF Pending
      <4> QED BY <1>1, <2>4, <3>2, <3>4, <4>2, <4>3, <4>4
    <3> QED BY <3>3, <3>4
  <2>9. StackInv'
    <3>1. CASE f = "provisioning"
      BY <2>1, <2>4, <3>1 DEF StackInv
    <3>2. CASE f # "provisioning"
      <4>1. enabled'["provisioning"] = enabled["provisioning"] /\ ("stack" \in doubt => "stack" \in doubt')
        BY <2>3, <2>4, <3>2 DEF Switches
      <4> QED BY <1>1, <2>7, <4>1, StackKept DEF BridgeInv
    <3> QED BY <3>1, <3>2
  <2>10. AvailInv'
    <3>1. todo'["timer"] = todo["timer"]
      BY <2>4 DEF Tasks
    <3> QED BY <1>1, <3>1 DEF BridgeInv, AvailInv, Busy, Connected
  <2> QED BY <2>5, <2>8, <2>9, <2>10 DEF BridgeInv
<1> QED BY <1>1, <1>2, <1>3

-----------------------------------------------------------------------------
(* The connection, the broker and Home Assistant. *)

\* A task with nothing to do begins a function that first announces.
LEMMA BeginsKeeps ==
  ASSUME BridgeInv, NEW t \in Tasks, ~Busy(t), NEW p, Program(t, p), Head(p) = Do("announce"),
         todo' = [todo EXCEPT ![t] = p],
         \A s \in Switches : ha'.last[s] = ha.last[s], UNCHANGED <<enabled, stackOn, value, doubt>>
  PROVE  /\ todo' \in [Tasks -> Seq(BridgeSteps)] /\ \A u \in Tasks : Program(u, todo'[u])
         /\ todo'[t] = p /\ \A u \in Tasks \ {t} : todo'[u] = todo[u]
         /\ FlagInv' /\ StackInv'
<1>1. BridgeTyped /\ p \in Seq(BridgeSteps) /\ todo[t] = <<>> /\ ToSet(todo[t]) = {}
  BY InOne DEF BridgeInv, Program, Busy
<1>2. /\ todo' \in [Tasks -> Seq(BridgeSteps)] /\ todo'[t] = p /\ \A u \in Tasks \ {t} : todo'[u] = todo[u]
  BY <1>1 DEF BridgeTyped
<1>3. \A u \in Tasks : Program(u, todo'[u])
  BY <1>1, <1>2 DEF BridgeTyped
<1>4. \A u \in Tasks : ToSet(todo[u]) \subseteq ToSet(todo'[u])
  BY <1>1, <1>2
<1>5. \A s \in Switches : Head(p) # Sending(s)
  BY DEF Do, Sending
<1>6. FlagInv'
  <2>1. \A u \in Tasks, s \in Switches :
          /\ Sending(s) \in ToSet(todo[u]) => Sending(s) \in ToSet(todo'[u])
          /\ todo'[u] # <<>> /\ Head(todo'[u]) = Sending(s) => AboutTo(u, s) /\ value'[u] = value[u]
    BY <1>2, <1>4, <1>5 DEF AboutTo, Busy
  <2> QED BY <2>1, FlagKept DEF BridgeInv
<1>7. StackInv'
  BY <1>4, StackKept DEF BridgeInv
<1> QED BY <1>2, <1>3, <1>6, <1>7

LEMMA ConnectsKeeps == ASSUME BridgeInv, Connects PROVE BridgeInv'
<1>1. /\ BridgeTyped /\ AvailInv /\ ~Connected /\ ~Busy("mqtt") /\ conn' = "up"
      /\ todo' = [todo EXCEPT !["mqtt"] = OnConnected]
      /\ UNCHANGED <<enabled, stackOn, value, held, doubt>>
  BY DEF BridgeInv, Connects, flagvars
<1>2. "availability" \in Topics /\ Switches \subseteq Topics \ {"availability"}
  BY Names
<1>3. /\ ha' \in [known : {{}, Entities}, hears : {{}, Topics}, last : [Topics -> Heard]]
      /\ ha'.known = ha.known /\ ha'.hears = ha.hears
      /\ \A s \in Switches : ha'.last[s] = ha.last[s]
      /\ retained' \in {"none", "offline"}
  <2>1. CASE UNCHANGED <<retained, ha>>
    BY <1>1, <2>1 DEF BridgeTyped
  <2>2. CASE /\ retained' = "offline"
             /\ ha' = IF "availability" \in ha.hears
                       THEN [ha EXCEPT !.last["availability"] = "offline"] ELSE ha
    <3>1. "offline" \in Heard
      BY DEF Heard
    <3> QED BY <1>1, <1>2, <2>2, <3>1, ToldOffline
  <2> QED BY <2>1, <2>2 DEF Connects
<1>4. Program("mqtt", OnConnected) /\ Head(OnConnected) = Do("announce") /\ "mqtt" \in Tasks
  BY ConnectedProgram DEF Tasks
<1>5. /\ todo' \in [Tasks -> Seq(BridgeSteps)] /\ \A u \in Tasks : Program(u, todo'[u])
      /\ \A u \in Tasks \ {"mqtt"} : todo'[u] = todo[u]
      /\ FlagInv' /\ StackInv'
  BY <1>1, <1>3, <1>4, BeginsKeeps
<1>6. BridgeTyped'
  BY <1>1, <1>3, <1>5 DEF BridgeTyped
<1>7. AvailInv'
  <2>1. todo'["timer"] = todo["timer"]
    BY <1>5 DEF Tasks
  <2>2. ~(held >= 1) /\ ~(held >= 2) /\ ~(Busy("timer") /\ held >= 0)
    BY <1>1 DEF AvailInv, BridgeTyped
  <2> QED BY <1>1, <2>1, <2>2 DEF AvailInv, Busy, BridgeTyped
<1> QED BY <1>5, <1>6, <1>7 DEF BridgeInv

LEMMA RoundKeeps == ASSUME BridgeInv, Round PROVE BridgeInv'
<1>1. /\ BridgeTyped /\ AvailInv /\ Connected /\ ~Busy("timer")
      /\ ha.known # {} => ha.hears # {}
      /\ todo' = [todo EXCEPT !["timer"] = OnRound]
      /\ UNCHANGED <<enabled, stackOn, value, conn, retained, ha, held, doubt>>
  BY DEF BridgeInv, Round, flagvars
<1>2. /\ Program("timer", OnRound) /\ Head(OnRound) = Do("announce") /\ "timer" \in Tasks
      /\ {Do("announce"), Do("on")} \subseteq ToSet(OnRound)
  BY RoundProgram DEF Tasks
<1>3. /\ todo' \in [Tasks -> Seq(BridgeSteps)] /\ \A u \in Tasks : Program(u, todo'[u])
      /\ todo'["timer"] = OnRound /\ FlagInv' /\ StackInv'
  BY <1>1, <1>2, BeginsKeeps
<1>4. BridgeTyped'
  BY <1>1, <1>3 DEF BridgeTyped
<1>5. AvailInv'
  BY <1>1, <1>2, <1>3 DEF AvailInv, Busy, Connected
<1> QED BY <1>3, <1>4, <1>5 DEF BridgeInv

LEMMA SameTodo ==
  ASSUME BridgeInv, UNCHANGED <<enabled, stackOn, value, todo, doubt>>,
         \A s \in Switches : ha'.last[s] = ha.last[s]
  PROVE  FlagInv' /\ StackInv'
<1>1. \A u \in Tasks, s \in Switches :
        /\ Sending(s) \in ToSet(todo[u]) => Sending(s) \in ToSet(todo'[u])
        /\ todo'[u] # <<>> /\ Head(todo'[u]) = Sending(s) => AboutTo(u, s) /\ value'[u] = value[u]
  BY DEF AboutTo, Busy
<1>2. FlagInv'
  BY <1>1, FlagKept DEF BridgeInv
<1>3. StackInv'
  BY StackKept DEF BridgeInv
<1> QED BY <1>2, <1>3

LEMMA DisconnectsKeeps == ASSUME BridgeInv, Disconnects PROVE BridgeInv'
<1>1. /\ BridgeTyped /\ conn' = "down" /\ held' = Unfinished
      /\ UNCHANGED <<enabled, stackOn, value, todo, retained, ha, doubt>>
  BY DEF BridgeInv, Disconnects, flagvars
<1>2. BridgeTyped'
  BY <1>1 DEF BridgeTyped, Unfinished
<1>3. AvailInv'
  BY <1>1 DEF AvailInv, Unfinished, Busy
<1> QED BY <1>1, <1>2, <1>3, SameTodo DEF BridgeInv

LEMMA LastWillKeeps == ASSUME BridgeInv, LastWill PROVE BridgeInv'
<1>1. /\ BridgeTyped /\ AvailInv /\ ~Connected /\ retained' = "offline"
      /\ ha' = IF "availability" \in ha.hears THEN [ha EXCEPT !.last["availability"] = "offline"] ELSE ha
      /\ UNCHANGED <<enabled, stackOn, value, todo, conn, held, doubt>>
  BY DEF BridgeInv, LastWill, flagvars
<1>2. "availability" \in Topics /\ Switches \subseteq Topics \ {"availability"} /\ "offline" \in Heard
  BY Names DEF Heard
<1>3. /\ ha' \in [known : {{}, Entities}, hears : {{}, Topics}, last : [Topics -> Heard]]
      /\ \A s \in Switches : ha'.last[s] = ha.last[s]
  BY <1>1, <1>2, ToldOffline
<1>4. BridgeTyped'
  BY <1>1, <1>3 DEF BridgeTyped
<1>5. AvailInv'
  <2>1. ~(held >= 1) /\ ~(held >= 2) /\ ~(Busy("timer") /\ held >= 0)
    BY <1>1 DEF AvailInv, BridgeTyped
  <2> QED BY <1>1, <2>1 DEF AvailInv, Busy, BridgeTyped
<1> QED BY <1>1, <1>3, <1>4, <1>5, SameTodo DEF BridgeInv

LEMMA HaSubscribesKeeps == ASSUME BridgeInv, HaSubscribes PROVE BridgeInv'
<1> DEFINE topic == "availability"
           m == IF retained = "none" THEN ha.last[topic] ELSE retained
<1>1. /\ BridgeTyped /\ AvailInv /\ ha.known # {} /\ ha.hears = {}
      /\ ha' = [ha EXCEPT !.hears = Topics, !.last[topic] = m]
      /\ UNCHANGED <<enabled, stackOn, value, todo, conn, retained, held, doubt>>
  BY DEF BridgeInv, HaSubscribes, flagvars, linkvars
<1>2. topic \in Topics /\ Switches \subseteq Topics \ {topic}
  BY Names
<1>3. m \in Heard
  BY <1>1, <1>2 DEF Heard, BridgeTyped
<1> HIDE DEF topic, m
<1>4. /\ ha.known \in {{}, Entities} /\ ha.last \in [Topics -> Heard]
      /\ ha = [known |-> ha.known, hears |-> ha.hears, last |-> ha.last]
  BY <1>1 DEF BridgeTyped
<1>5. /\ ha' \in [known : {{}, Entities}, hears : {{}, Topics}, last : [Topics -> Heard]]
      /\ ha'.known = ha.known /\ ha'.hears = Topics
      /\ \A x \in Topics \ {topic} : ha'.last[x] = ha.last[x]
  BY <1>1, <1>2, <1>3, <1>4
<1>6. BridgeTyped'
  BY <1>1, <1>5 DEF BridgeTyped
<1>7. \A s \in Switches : ha'.last[s] = ha.last[s]
  BY <1>2, <1>5
<1>8. AvailInv'
  <2>1. ~(held >= 2) /\ ~(Busy("timer") /\ held >= 1)
    BY <1>1 DEF AvailInv, BridgeTyped
  <2> QED BY <1>1, <1>5, <2>1 DEF AvailInv, Busy, Connected
<1> QED BY <1>1, <1>6, <1>7, <1>8, SameTodo DEF BridgeInv

LEMMA InfoTimerKeeps == ASSUME BridgeInv, InfoTimer PROVE BridgeInv'
<1>1. /\ BridgeTyped /\ Deliver("info", "known")
      /\ UNCHANGED <<enabled, stackOn, value, todo, conn, retained, held, doubt>>
  BY DEF BridgeInv, InfoTimer, flagvars, linkvars
<1>2. "info" \in Topics /\ Switches \subseteq Topics \ {"info"} /\ "availability" \in Topics \ {"info"}
      /\ "known" \in Heard
  BY Names DEF Heard
<1>3. /\ ha' \in [known : {{}, Entities}, hears : {{}, Topics}, last : [Topics -> Heard]]
      /\ ha'.known = ha.known /\ ha'.hears = ha.hears
      /\ \A x \in Topics \ {"info"} : ha'.last[x] = ha.last[x]
  BY <1>1, <1>2, Delivered
<1>4. BridgeTyped'
  BY <1>1, <1>3 DEF BridgeTyped
<1>5. AvailInv'
  BY <1>1, <1>2, <1>3, AvailKept DEF BridgeInv, Connected
<1> QED BY <1>1, <1>2, <1>3, <1>4, <1>5, SameTodo DEF BridgeInv

LEMMA BridgeStutters ==
  ASSUME BridgeInv, UNCHANGED <<enabled, stackOn, value, todo, conn, retained, ha, held, doubt>>
  PROVE  BridgeInv'
<1>1. BridgeTyped'
  BY DEF BridgeInv, BridgeTyped
<1>2. AvailInv'
  BY DEF BridgeInv, AvailInv, Busy, Connected
<1> QED BY <1>1, <1>2, SameTodo DEF BridgeInv

LEMMA BridgeRestartsKeeps == ASSUME BridgeInv, BridgeRestarts PROVE BridgeInv'
<1>1. /\ BridgeTyped
      /\ enabled' = [s \in Switches |-> s = "provisioning"] /\ stackOn' = TRUE
      /\ todo' = [t \in Tasks |-> <<>>] /\ value' = [t \in Tasks |-> FALSE]
      /\ conn' = "down" /\ held' = 0 /\ doubt' = Switches
      /\ UNCHANGED <<retained, ha>>
  BY DEF BridgeInv, BridgeRestarts
<1>2. \A t : Program(t, <<>>)
  BY DEF Program
<1>3. BridgeTyped'
  BY <1>1, <1>2 DEF BridgeTyped, Program
<1>4. FlagInv'
  BY <1>1 DEF FlagInv
<1>5. StackInv'
  <2>1. enabled'["provisioning"] = TRUE
    BY <1>1 DEF Switches
  <2> QED BY <1>1, <2>1 DEF StackInv
<1>6. AvailInv'
  <2>1. todo'["timer"] = <<>>
    BY <1>1 DEF Tasks
  <2> QED BY <1>1, <2>1 DEF AvailInv, Busy
<1> QED BY <1>3, <1>4, <1>5, <1>6 DEF BridgeInv

LEMMA HaRestartsKeeps == ASSUME BridgeInv, HaRestarts PROVE BridgeInv'
<1>1. /\ BridgeTyped
      /\ ha' = [known |-> {}, hears |-> {}, last |-> Unheard]
      /\ held' = Unfinished /\ doubt' = doubt \union Switches
      /\ UNCHANGED <<enabled, stackOn, value, conn, retained, todo>>
  BY DEF BridgeInv, HaRestarts, flagvars
<1>2. Unheard \in [Topics -> Heard]
  BY DEF Unheard, Heard
<1>3. BridgeTyped'
  BY <1>1, <1>2 DEF BridgeTyped, Unfinished
<1>4. FlagInv'
  BY <1>1 DEF FlagInv
<1>5. StackInv'
  BY <1>1, StackKept DEF BridgeInv
<1>6. AvailInv'
  BY <1>1 DEF AvailInv, Unfinished, Busy
<1> QED BY <1>3, <1>4, <1>5, <1>6 DEF BridgeInv

-----------------------------------------------------------------------------
LEMMA InitBridge == Init => BridgeInv
<1> SUFFICES ASSUME BridgeInit PROVE BridgeInv
  BY DEF Init
<1>1. /\ enabled = [s \in Switches |-> s = "provisioning"] /\ stackOn = TRUE
      /\ todo = [t \in Tasks |-> <<>>] /\ value = [t \in Tasks |-> FALSE] /\ held = 0
      /\ Cold \/ Settled
  BY DEF BridgeInit
<1>2. \A t : Program(t, <<>>)
  BY DEF Program
<1>3. /\ ha \in [known : {{}, Entities}, hears : {{}, Topics}, last : [Topics -> Heard]]
      /\ retained \in {"none", "offline"}
      /\ \A s \in Switches \ doubt : ha.last[s] = OnOff(enabled[s])
  <2>1. CASE Cold
    <3>1. Unheard \in [Topics -> Heard]
      BY DEF Unheard, Heard
    <3> QED BY <2>1, <3>1 DEF Cold
  <2>2. CASE Settled
    <3> DEFINE last == [t \in Topics |-> CASE t \in Switches -> OnOff(enabled[t])
                                           [] t = "info" -> "known" [] OTHER -> "on"]
    <3>1. \A t : OnOff(enabled[t]) \in Heard
      BY DEF OnOff, Heard
    <3>2. last \in [Topics -> Heard]
      BY <3>1 DEF Heard
    <3>3. \A s \in Switches : last[s] = OnOff(enabled[s])
      BY Names
    <3>4. ha = [known |-> Entities, hears |-> Topics, last |-> last] /\ retained = "offline"
      BY <2>2 DEF Settled
    <3> HIDE DEF last
    <3> QED BY <3>2, <3>3, <3>4
  <2> QED BY <1>1, <2>1, <2>2
<1>4. BridgeTyped
  BY <1>1, <1>2, <1>3 DEF BridgeTyped, Program
<1>5. \A t \in Tasks : ~Busy(t)
  BY <1>1 DEF Busy
<1>6. FlagInv
  BY <1>3, <1>5 DEF FlagInv, AboutTo
<1>7. StackInv
  <2>1. enabled["provisioning"] = TRUE
    BY <1>1 DEF Switches
  <2> QED BY <1>1, <2>1 DEF StackInv
<1>8. AvailInv
  BY <1>1, <1>5 DEF AvailInv, Tasks
<1> QED BY <1>4, <1>6, <1>7, <1>8 DEF BridgeInv

\* A step that concerns a node.
LEMMA NodeStepStutters ==
  ASSUME NEW d \in Devices, NodeStep(d)
  PROVE  UNCHANGED <<enabled, stackOn, value, todo, conn, retained, ha, held, doubt>>
<1>1. UNCHANGED BridgeButBudget
  BY DEF NodeStep, bridgevars, BridgeButBudget, Beacon, PruneStale, Provision, ProvComplete, Unnamed,
     GotComposition, LateComposition, GotKey, GotBind, Refreshed, GivenUp, Announced, ConsoleGet,
     ConsoleReply, Unprovision, GotReset, ResetGivenUp, FactoryReset, flagvars, linkvars
<1> QED BY <1>1 DEF BridgeButBudget, flagvars, linkvars

LEMMA NextBridge == BridgeInv /\ [Next]_vars => BridgeInv'
<1> SUFFICES ASSUME BridgeInv, [Next]_vars PROVE BridgeInv'
  OBVIOUS
<1>1. CASE BridgeNext
  <2>1. ASSUME NEW t \in Tasks, BridgeStep(t) PROVE BridgeInv'
    BY <2>1, AnnounceKeeps, PublishOnKeeps, ReadFlagKeeps, SendFlagKeeps, TellStackKeeps DEF BridgeStep
  <2>2. ASSUME NEW t \in {"mqtt", "http", "console"}, NEW s \in Switches, NEW b \in BOOLEAN,
               SetEnabled(t, s, b)
        PROVE  BridgeInv'
    <3>1. t \in Tasks \ {"timer"}
      BY DEF Tasks
    <3> QED BY <2>2, <3>1, SetEnabledKeeps
  <2>3. ASSUME NEW s \in Switches, NEW b \in BOOLEAN, HaSets(s, b) PROVE BridgeInv'
    BY <2>2, <2>3 DEF HaSets
  <2>4. ASSUME NEW b \in BOOLEAN, PageSets(b) \/ ConsoleSets(b) PROVE BridgeInv'
    BY <2>2, <2>4 DEF PageSets, ConsoleSets, Switches
  <2>5. CASE HaOnline
    BY <2>5, BridgeStutters DEF HaOnline, flagvars
  <2> QED BY <1>1, <2>1, <2>3, <2>4, <2>5, ConnectsKeeps, DisconnectsKeeps, LastWillKeeps,
             HaSubscribesKeeps, RoundKeeps, InfoTimerKeeps DEF BridgeNext
<1>2. CASE BridgeAlone
  BY <1>2, BridgeRestartsKeeps DEF BridgeAlone
<1>3. CASE HaAlone
  BY <1>3, HaRestartsKeeps DEF HaAlone
<1>4. ASSUME NEW d \in Devices, NodeStep(d) PROVE BridgeInv'
  BY <1>4, NodeStepStutters, BridgeStutters
<1>5. CASE UnprovisionAll
  BY <1>5, BridgeStutters DEF UnprovisionAll, BridgeButBudget, flagvars, linkvars
<1>6. ASSUME NEW t \in Tasks, Republish(t) PROVE BridgeInv'
  BY <1>6, RepublishKeeps
<1>7. CASE UNCHANGED vars
  BY <1>7, BridgeStutters DEF vars, bridgevars, flagvars, linkvars
<1> QED BY <1>1, <1>2, <1>3, <1>4, <1>5, <1>6, <1>7 DEF Next

\* Whatever the tasks of the bridge are in the middle of, a switch not shown as it is set is about
\* to be published, the stack not told is about to be, and a round leaves Home Assistant listening.
THEOREM BridgeInvariant == Spec => []BridgeInv
  BY InitBridge, NextBridge, PTL DEF Spec

\* Whoever sets a switch, on the page, the console or in Home Assistant, through restarts and lost
\* connections: once nobody is at work on it, Home Assistant shows what it is set to and the stack
\* does as it says, unless two tasks overlapped or nobody listened.
THEOREM SwitchesShown == Spec => []SwitchesAgree
<1>1. BridgeInv => SwitchesAgree
  <2> SUFFICES ASSUME BridgeInv, Quiet
               PROVE  /\ \A s \in Switches \ doubt : ha.last[s] = OnOff(enabled[s])
                      /\ "stack" \in doubt \/ stackOn = enabled["provisioning"]
    BY DEF SwitchesAgree
  <2>1. \A t \in Tasks : ToSet(todo[t]) = {}
    BY InOne DEF Quiet, Busy
  <2> QED BY <2>1 DEF BridgeInv, FlagInv, StackInv, Pending
<1> QED BY <1>1, BridgeInvariant, PTL

\* Two full rounds over one connection after a restart of Home Assistant, it shows the bridge as
\* available, whatever the broker had retained.
THEOREM AvailableAgain == Spec => []AvailableAfterTwoRounds
<1>1. BridgeInv => AvailableAfterTwoRounds
  BY DEF BridgeInv, AvailInv, AvailableAfterTwoRounds
<1> QED BY <1>1, BridgeInvariant, PTL

-----------------------------------------------------------------------------
(***************************************************************************)
(* The client: MqttLink.                                                   *)
(***************************************************************************)
(***************************************************************************)
(* Types.                                                                  *)
(***************************************************************************)
Values == {Missing, Plain, Earlier} \union 1 .. MaxRequests

LEMMA ValueTypes ==
  /\ {Missing, Plain, Earlier} \subseteq Values /\ Values \subseteq Int
  /\ 0 .. MaxRequests \subseteq Values
  /\ Settings = [Keys -> Values]
  /\ Nothing \in Settings /\ \A v \in Values : Whole(v) \in Settings
BY MqttAssumption DEF MqttAssumption, Values, Missing, Plain, Earlier,
   Nothing, Whole, Settings

\* What starts with the firmware.
LEMMA BootTypes ==
  /\ [http |-> "idle", main |-> "load"] \in [{"http", "main"} -> Steps]
  /\ "UNCONFIGURED" \in States /\ Tries \in 0 .. Bytes - 1
  /\ Off("none") \in [Clients -> {"none", "down", "up"}]
  /\ Off(Nothing) \in [Clients -> Settings]
  /\ Off({}) \in [Clients -> SUBSET Nodes]
  /\ Off("idle") \in [Clients -> {"idle", "nodes", "command"} \union HaSteps]
BY ValueTypes DEF Steps, States, Tries, Bytes, Off

LEMMA InitTypes == MqttInit => MqttTypeOK
<1> SUFFICES ASSUME MqttInit PROVE MqttTypeOK OBVIOUS
<1>1. stored \in Settings /\ creds \in Settings
  BY ValueTypes DEF MqttInit
<1>2. spent \in [{"requests", "events", "restarts"} -> Nat] /\ spent["requests"] <= MaxRequests
  BY MqttAssumption DEF MqttInit, MqttAssumption
<1>3. QED
  BY <1>1, <1>2, BootTypes DEF MqttInit, MqttTypeOK

\* What is left of settings are settings.
LEMMA OnlyTypes ==
  ASSUME NEW s \in Settings, NEW keys
  PROVE  Only(s, keys) \in Settings
BY ValueTypes DEF Only, Settings, Values

\* Requests on the web page.
LEMMA RequestTypes ==
  ASSUME MqttTypeOK, Config \/ Clear \/ ClearFails
  PROVE  MqttTypeOK'
<1>1. /\ spent' \in [{"requests", "events", "restarts"} -> Nat]
      /\ spent'["requests"] <= MaxRequests
  BY MqttAssumption DEF Config, Clear, ClearFails, Erase, Allow, MqttTypeOK, MqttAssumption
<1>2. excuses' \subseteq {"boot", "torn", "flash", "raced"}
  BY DEF Config, Clear, ClearFails, Erase, AtBoot, MqttTypeOK
<1>3. /\ pc' \in [{"http", "main"} -> Steps] /\ pc'["http"] # "done"
      /\ pc'["main"] = pc["main"]
  BY DEF Config, Clear, ClearFails, requests, MqttTypeOK, Steps, Keys
<1>4. creds' \in Settings /\ state' \in States /\ restart' \in BOOLEAN
  BY ValueTypes DEF Config, Clear, ClearFails, Erase, requests, MqttTypeOK, States
<1>5. UNCHANGED <<clients, known, roundvars>>
  BY DEF Config, Clear, ClearFails, Erase
<1>6. stored' \in Settings
  BY ValueTypes, OnlyTypes DEF Config, Clear, ClearFails, Erase, MqttTypeOK
<1>7. QED
  BY <1>1, <1>2, <1>3, <1>4, <1>5, <1>6 DEF MqttTypeOK, clients, roundvars

\* Storing, stopping and starting.
LEMMA HttpTypes ==
  ASSUME MqttTypeOK, HttpStep \/ MainStep
  PROVE  MqttTypeOK'
<1>1. CASE StoreKey
  <2>1. spent["requests"] \in Values
    BY ValueTypes, MqttAssumption DEF MqttTypeOK, MqttAssumption
  <2>2. stored' \in Settings /\ creds' \in Settings
    BY <1>1, <2>1, ValueTypes DEF StoreKey, MqttTypeOK
  <2>3. pc' \in [{"http", "main"} -> Steps] /\ pc'["http"] # "done" /\ pc'["main"] = pc["main"]
    BY <1>1 DEF StoreKey, MqttTypeOK, After, Steps, Keys
  <2>4. excuses' \subseteq {"boot", "torn", "flash", "raced"}
    BY <1>1 DEF StoreKey, MqttTypeOK
  <2>5. QED BY <1>1, <2>2, <2>3, <2>4 DEF StoreKey, MqttTypeOK, clients, roundvars, States
<1>2. CASE StoreFails
  <2>1. spent["requests"] \in Values
    BY ValueTypes, MqttAssumption DEF MqttTypeOK, MqttAssumption
  <2>2. /\ [stored EXCEPT ![pc["http"]] = spent["requests"]] \in Settings
        /\ stored' \in Settings /\ excuses' \subseteq {"boot", "torn", "flash", "raced"}
    <3>1. [stored EXCEPT ![pc["http"]] = spent["requests"]] \in Settings
      BY <1>2, <2>1, ValueTypes DEF StoreFails, MqttTypeOK
    <3>2. QED BY <1>2, <3>1 DEF StoreFails, MqttTypeOK
  <2>3. pc' \in [{"http", "main"} -> Steps] /\ pc'["http"] # "done" /\ pc'["main"] = pc["main"]
    BY <1>2 DEF StoreFails, MqttTypeOK, Steps
  <2>4. UNCHANGED <<creds, state, clients, restart, known, roundvars, spent>>
    BY <1>2 DEF StoreFails
  <2>5. QED BY <2>2, <2>3, <2>4 DEF MqttTypeOK, clients, roundvars
<1>3. CASE Stop
  BY <1>3 DEF Stop, AfterStop, MqttTypeOK, clients, roundvars, Steps, States
<1>4. CASE Destroy
  BY <1>4 DEF Destroy, MqttTypeOK, roundvars, Steps
<1>5. CASE ForgetClient
  BY <1>5 DEF ForgetClient, AfterStop, MqttTypeOK, roundvars, Steps
<1>6. ASSUME NEW t \in {"http", "main"}, Load(t) PROVE MqttTypeOK'
  <2>1. /\ stored' \in Settings /\ creds' \in Settings
        /\ excuses' \subseteq {"boot", "torn", "flash", "raced"}
    BY <1>6, ValueTypes, OnlyTypes DEF Load, MqttTypeOK
  <2>2. /\ pc' \in [{"http", "main"} -> Steps] /\ pc'["http"] # "done"
        /\ pc'["main"] \in {"load", "start", "done"}
    BY <1>6 DEF Load, Ended, MqttTypeOK, Steps
  <2>3. QED BY <1>6, <2>1, <2>2 DEF Load, MqttTypeOK, clients, roundvars, States
<1>7. ASSUME NEW t \in {"http", "main"}, StartClient(t) PROVE MqttTypeOK'
  <2>1. /\ pc' \in [{"http", "main"} -> Steps] /\ pc'["http"] # "done"
        /\ pc'["main"] \in {"load", "start", "done"}
    BY <1>7 DEF StartClient, Ended, MqttTypeOK, Steps
  <2>2. QED BY <1>7, <2>1 DEF StartClient, MqttTypeOK, roundvars, States
<1>8. QED
  BY <1>1, <1>2, <1>3, <1>4, <1>5, <1>6, <1>7 DEF HttpStep, MainStep

\* The clients' tasks.
LEMMA ClientTypes ==
  ASSUME MqttTypeOK, NEW c \in Clients, HandlerStep(c) \/ Event(c)
  PROVE  MqttTypeOK'
<1>1. CASE SubscribeNodes(c)
  BY <1>1 DEF SubscribeNodes, MqttTypeOK, requests, roundvars
<1>2. CASE FindNode(c)
  BY <1>2 DEF FindNode, MqttTypeOK, requests, roundvars
<1>3. CASE DropTimer(c)
  BY <1>3 DEF DropTimer, Races, MqttTypeOK, requests, HaSteps
<1>4. CASE NullTimer(c)
  BY <1>4 DEF NullTimer, Races, MqttTypeOK, requests, HaSteps
<1>5. CASE CreateTimer(c)
  <2>1. /\ tries' = Tries \/ tries' = tries
        /\ rounds' = 0 \/ rounds' = rounds
        /\ asked' \in BOOLEAN
    BY <1>5 DEF CreateTimer
  <2>2. handle' \in Timers \union {Nobody} /\ armed' \subseteq Timers
    BY <1>5 DEF CreateTimer, MqttTypeOK
  <2>3. /\ hdl' \in [Clients -> {"idle", "nodes", "command"} \union HaSteps]
        /\ excuses' \subseteq {"boot", "torn", "flash", "raced"}
    BY <1>5 DEF CreateTimer, Races, MqttTypeOK
  <2>4. QED BY <1>5, <2>1, <2>2, <2>3, BootTypes DEF CreateTimer, MqttTypeOK, requests
<1>6. CASE ClientConnected(c) \/ Command(c) \/ Online(c)
  <2>1. /\ spent' \in [{"requests", "events", "restarts"} -> Nat]
        /\ spent'["requests"] <= MaxRequests
    BY <1>6 DEF ClientConnected, Command, Online, Allow, MqttTypeOK
  <2>2. CASE ClientConnected(c)
    BY <2>1, <2>2 DEF ClientConnected, MqttTypeOK, requests, roundvars, States
  <2>3. CASE Command(c)
    BY <2>1, <2>3 DEF Command, MqttTypeOK, requests, roundvars
  <2>4. CASE Online(c)
    BY <2>1, <2>4 DEF Online, Races, MqttTypeOK, requests, roundvars, HaSteps
  <2>5. QED BY <1>6, <2>2, <2>3, <2>4
<1>7. CASE Disconnected(c) \/ Unsubscribed(c)
  BY <1>7 DEF Disconnected, Unsubscribed, ConnectionLost, MqttTypeOK, requests, roundvars,
     States
<1>8. CASE Error(c)
  BY <1>8 DEF Error, MqttTypeOK, clients, requests, roundvars, States
<1>9. QED
  BY <1>1, <1>2, <1>3, <1>4, <1>5, <1>6, <1>7, <1>8 DEF HandlerStep, Event

\* The timer task.
LEMMA TimerTypes ==
  ASSUME MqttTypeOK, TimerStep
  PROVE  MqttTypeOK'
<1>1. IfExpired \in {"idle", "expire"}
  BY DEF IfExpired
<1>2. CASE Fire
  <2>1. tries' \in 0 .. Bytes - 1
    BY <1>2 DEF Fire, MqttTypeOK, Bytes
  <2>2. QED BY <1>1, <1>2, <2>1 DEF Fire, MqttTypeOK, clients, requests
<1>3. CASE FirstPass
  BY <1>3 DEF FirstPass, Subscribe, Up, MqttTypeOK, requests
<1>4. CASE AnnounceBridge
  BY <1>4 DEF AnnounceBridge, MqttTypeOK, clients, requests
<1>5. CASE SecondPass
  BY <1>1, <1>5 DEF SecondPass, Subscribe, Up, MqttTypeOK, requests
<1>6. CASE Expire \/ Expired
  BY <1>6 DEF Expire, Expired, MqttTypeOK, clients, requests
<1>7. QED BY <1>2, <1>3, <1>4, <1>5, <1>6 DEF TimerStep

\* Nodes, and a restart.
LEMMA OtherTypes ==
  ASSUME MqttTypeOK,
     Reboot \/ \E n \in Nodes : NodeReady(n) \/ NodeLeft(n)
  PROVE  MqttTypeOK'
<1>1. /\ spent' \in [{"requests", "events", "restarts"} -> Nat]
      /\ spent'["requests"] <= MaxRequests
  BY DEF Reboot, NodeReady, NodeLeft, Allow, MqttTypeOK
<1>2. CASE Reboot
  BY <1>1, <1>2, BootTypes, ValueTypes DEF Reboot, MqttTypeOK
<1>3. ASSUME NEW n \in Nodes, NodeReady(n) PROVE MqttTypeOK'
  BY <1>1, <1>3 DEF NodeReady, Up, MqttTypeOK, requests, roundvars
<1>4. ASSUME NEW n \in Nodes, NodeLeft(n) PROVE MqttTypeOK'
  BY <1>1, <1>4 DEF NodeLeft, Up, MqttTypeOK, requests, roundvars
<1>5. QED BY <1>2, <1>3, <1>4

LEMMA NextTypes == MqttTypeOK /\ [MqttNext]_mqttvars => MqttTypeOK'
<1> SUFFICES ASSUME MqttTypeOK, [MqttNext]_mqttvars PROVE MqttTypeOK' OBVIOUS
<1>1. CASE UNCHANGED mqttvars
  BY <1>1 DEF mqttvars, clients, requests, roundvars, MqttTypeOK
<1>2. CASE MqttNext
  BY <1>2, RequestTypes, HttpTypes, ClientTypes, TimerTypes, OtherTypes DEF MqttNext
<1>3. QED BY <1>1, <1>2

\* Every variable keeps to its type, for any number of clients, timers and requests.
THEOREM MqttTypeCorrect == MqttSpec => []MqttTypeOK
  BY InitTypes, NextTypes, PTL DEF MqttSpec

(***************************************************************************)
(* What runs is what is stored.                                            *)
(***************************************************************************)
Http == pc["http"]
Main == pc["main"]

\* While a save is under way, the keys before the present one are of it.
SaveInv ==
  Http \in Keys =>
    /\ restart
    /\ Http # "broker_host" => stored["broker_host"] = spent["requests"]
    /\ Http \in {"username", "password"} => stored["broker_port"] = spent["requests"]
    /\ Http = "password" => stored["username"] = spent["requests"]

\* Unless a request came while the firmware was starting, nobody but the client the bridge
\* knows runs, and it is gone before another is started.
AloneInv ==
  "boot" \notin excuses =>
    /\ Booting => Http = "idle" /\ client = Nobody
    /\ Http \in {"load", "start"} => client = Nobody
    /\ Http = "stopping" => client # Nobody
    /\ \A c \in Clients : c # client \/ Http = "forget" => run[c] = "none"

\* One save is in flash, in memory and in the client, or is about to be.
SameInv ==
  excuses \intersect {"boot", "torn", "flash"} = {} =>
    /\ Http \in Keys => Http = "broker_host"
    /\ Http = "start" \/ Main = "start" => creds = stored /\ Loads(stored)
    /\ Http \in {"stop", "stopping", "forget"} /\ ~restart => ~Loads(stored)
    /\ Http \in {"idle", "broker_host"} /\ Main = "done" /\ ~Loads(stored) => client = Nobody
    /\ Http \in {"idle", "broker_host"} /\ Main = "done" /\ Loads(stored) =>
         /\ creds = stored /\ client # Nobody
         /\ with[client] = stored /\ run[client] # "none"

RunInv == MqttTypeOK /\ SaveInv /\ AloneInv /\ SameInv

\* What the invariant is about.
runvars == <<stored, creds, client, with, pc, restart>>

LEMMA RunImplies == RunInv => RunsWhatIsStored
  BY MqttAssumption DEF RunInv, MqttTypeOK, SaveInv, AloneInv, SameInv, RunsWhatIsStored,
     MqttQuiet, Booting,
     Http, Main, MqttAssumption

LEMMA NothingDoesNotLoad == ~Loads(Nothing)
  BY DEF Loads, Nothing, Whole, Missing, Encrypted, Keys

LEMMA InitRun == MqttInit => RunInv
<1> SUFFICES ASSUME MqttInit PROVE RunInv OBVIOUS
<1>1. MqttTypeOK BY InitTypes
<1>2. Http = "idle" /\ Main = "load" BY DEF MqttInit, Http, Main
<1>3. QED
  BY <1>1, <1>2, MqttAssumption
  DEF RunInv, SaveInv, AloneInv, SameInv, MqttInit, Off, Http, Main, Keys,
     MqttAssumption

\* Clients come and go on the network, announcements are made, nodes are found and lost:
\* what the invariant is about stays, but whether a client that exists is connected.
LEMMA RunStutter ==
  ASSUME RunInv, MqttTypeOK', UNCHANGED runvars,
     spent'["requests"] = spent["requests"],
         \A c \in Clients : run'[c] = "none" <=> run[c] = "none",
         excuses' \intersect {"boot", "torn", "flash"} = excuses \intersect {"boot", "torn", "flash"}
  PROVE  RunInv'
<1>1. SaveInv'
  BY DEF RunInv, SaveInv, runvars, Http
<1>2. "boot" \in excuses' <=> "boot" \in excuses
  OBVIOUS
<1>3. AloneInv'
  BY <1>2 DEF RunInv, AloneInv, runvars, Http, Booting
<1>4. SameInv'
  BY DEF RunInv, MqttTypeOK, SameInv, runvars, Http, Main, Loads
<1>5. QED BY <1>1, <1>3, <1>4 DEF RunInv

LEMMA ClientRun ==
  ASSUME RunInv, MqttTypeOK', NEW c \in Clients,
     HandlerStep(c) \/ Event(c)
  PROVE  RunInv'
<1>1. UNCHANGED runvars /\ spent'["requests"] = spent["requests"]
  BY DEF HandlerStep, Event, SubscribeNodes, FindNode, DropTimer,
     NullTimer, CreateTimer, ClientConnected,
         Disconnected, Unsubscribed, ConnectionLost, Error, Command, Online,
            Allow, clients, requests, runvars,
         RunInv, MqttTypeOK
<1>2. \A d \in Clients : run'[d] = "none" <=> run[d] = "none"
  BY DEF HandlerStep, Event, SubscribeNodes, FindNode, DropTimer,
     NullTimer, CreateTimer, ClientConnected,
         Disconnected, Unsubscribed, ConnectionLost, Error, Command, Online,
            clients, RunInv, MqttTypeOK
<1>3. excuses' \intersect {"boot", "torn", "flash"} = excuses \intersect {"boot", "torn", "flash"}
  BY DEF HandlerStep, Event, SubscribeNodes, FindNode, DropTimer,
     NullTimer, CreateTimer, ClientConnected,
         Disconnected, Unsubscribed, Error, Command, Online, Races
<1>4. QED BY <1>1, <1>2, <1>3, RunStutter

LEMMA TimerRun ==
  ASSUME RunInv, MqttTypeOK', TimerStep
  PROVE  RunInv'
<1>1. UNCHANGED runvars /\ UNCHANGED <<run, spent>>
  BY DEF TimerStep, Fire, FirstPass, AnnounceBridge, SecondPass,
     Expire, Expired, Subscribe, clients,
         requests, runvars
<1>2. excuses' \intersect {"boot", "torn", "flash"} = excuses \intersect {"boot", "torn", "flash"}
  BY DEF TimerStep, Fire, FirstPass, AnnounceBridge, SecondPass,
     Expire, Expired
<1>3. QED BY <1>1, <1>2, RunStutter

LEMMA NodeRun ==
  ASSUME RunInv, MqttTypeOK', NEW n \in Nodes,
     NodeReady(n) \/ NodeLeft(n)
  PROVE  RunInv'
<1>1. UNCHANGED runvars /\ UNCHANGED <<run, excuses>> /\ spent'["requests"] = spent["requests"]
  BY DEF NodeReady, NodeLeft, Allow, requests, runvars, RunInv, MqttTypeOK
<1>2. QED BY <1>1, RunStutter

\* A restart forgets everything but what is stored, and whether that is whole.
LEMMA RebootRun ==
  ASSUME RunInv, MqttTypeOK', Reboot
  PROVE  RunInv'
<1>1. Http' = "idle" /\ Main' = "load" /\ client' = Nobody /\ \A c \in Clients : run'[c] = "none"
  BY DEF Reboot, Http, Main, Off
<1>2. QED
  BY <1>1 DEF RunInv, SaveInv, AloneInv, SameInv, Booting, Http, Main, Keys

\* Requests: a save begins, or everything is cleared.
LEMMA RequestRun ==
  ASSUME RunInv, MqttTypeOK', Config \/ Clear \/ ClearFails
  PROVE  RunInv'
<1>1. CASE Config
  <2>1. Http = "idle" /\ Http' = "broker_host" /\ Main' = Main
    BY <1>1 DEF Config, Http, Main, RunInv, MqttTypeOK
  <2>2. "boot" \notin excuses' => "boot" \notin excuses /\ ~Booting
    BY <1>1 DEF Config, AtBoot
  <2>3. excuses' \intersect {"boot", "torn", "flash"} = {} => excuses \intersect {"boot", "torn", "flash"} = {}
    BY <1>1 DEF Config, AtBoot
  <2>4. SaveInv'
    BY <1>1, <2>1 DEF SaveInv, Config, Http
  <2>5. AloneInv'
    BY <1>1, <2>1, <2>2 DEF RunInv, AloneInv, Config, Http, Main, Booting, clients
  <2>6. SameInv'
    BY <1>1, <2>1, <2>2, <2>3 DEF RunInv, SameInv, Config, Http, Main, Booting,
       clients, Loads, Keys
  <2>7. QED BY <2>4, <2>5, <2>6 DEF RunInv
<1>2. CASE Clear
  <2>1. Http = "idle" /\ Http' = "stop" /\ Main' = Main /\ ~restart'
    BY <1>2 DEF Clear, Erase, Http, Main, RunInv, MqttTypeOK
  <2>2. "boot" \notin excuses' => "boot" \notin excuses /\ ~Booting
    BY <1>2 DEF Clear, Erase, AtBoot
  <2>3. SaveInv'
    BY <2>1 DEF SaveInv, Keys
  <2>4. AloneInv'
    BY <1>2, <2>1, <2>2 DEF RunInv, AloneInv, Clear, Erase, Http, Main, Booting, clients
  <2>5. excuses' \intersect {"boot", "torn", "flash"} = {} => ~Loads(stored')
    BY <1>2, NothingDoesNotLoad DEF Clear, Erase
  <2>6. SameInv'
    BY <1>2, <2>1, <2>2, <2>5 DEF SameInv, Clear, Http, Main, Booting, Loads, Keys
  <2>7. QED BY <2>3, <2>4, <2>6 DEF RunInv
<1>3. CASE ClearFails
  <2>1. /\ Http = "idle" /\ Http' = Http /\ Main' = Main
        /\ UNCHANGED <<client, run, with, restart>>
    BY <1>3 DEF ClearFails, Erase, requests, clients, Http, Main
  <2>2. SaveInv'
    BY <2>1 DEF SaveInv, Keys
  <2>3. "boot" \notin excuses' => "boot" \notin excuses
    BY <1>3 DEF ClearFails, Erase
  <2>4. AloneInv'
    BY <2>1, <2>3 DEF RunInv, AloneInv, Booting, Main
  <2>5. CASE "flash" \in excuses'
    BY <2>2, <2>4, <2>5 DEF RunInv, SameInv
  <2>6. CASE UNCHANGED <<stored, creds, excuses>>
    <3>1. SameInv'
      BY <2>1, <2>6 DEF RunInv, SameInv, Loads
    <3>2. QED BY <2>2, <2>4, <3>1 DEF RunInv
  <2>7. QED BY <1>3, <2>5, <2>6 DEF ClearFails
<1>4. QED BY <1>1, <1>2, <1>3

\* A save goes on, key by key: it is torn until the last of them is there.
LEMMA StoreRun ==
  ASSUME RunInv, MqttTypeOK', StoreKey \/ StoreFails
  PROVE  RunInv'
<1>1. pc \in [{"http", "main"} -> Steps] /\ stored \in Settings
  BY DEF RunInv, MqttTypeOK
<1>2. CASE StoreKey
  <2>1. Http \in Keys /\ Http' = After[Http] /\ Main' = Main
    BY <1>1, <1>2 DEF StoreKey, Http, Main
  <2>2. stored' = [stored EXCEPT ![Http] = spent["requests"]]
        /\ spent' = spent /\ restart' = restart /\ UNCHANGED <<client, run, with>>
    BY <1>2 DEF StoreKey, Http, clients
  <2>3. restart' /\ Http' \in Keys \union {"stop"}
    BY <2>1, <2>2 DEF RunInv, SaveInv, After, Keys
  <2>4. SaveInv'
    BY <1>1, <2>1, <2>2, <2>3 DEF RunInv, SaveInv, After, Keys, Settings
  <2>5. "boot" \in excuses' <=> "boot" \in excuses
    BY <1>2 DEF StoreKey
  <2>6. AloneInv'
    BY <2>1, <2>2, <2>3, <2>5 DEF RunInv, AloneInv, Booting, Keys, Main
  <2>7. CASE Http # "password"
    <3>1. "torn" \in excuses'
      BY <1>2, <2>7 DEF StoreKey, Http
    <3>2. QED BY <2>4, <2>6, <3>1 DEF RunInv, SameInv
  <2>8. CASE Http = "password"
    <3>1. Http' = "stop"
      BY <2>1, <2>8 DEF After
    <3>2. "boot" \notin excuses' => Main' # "start"
      BY <2>1, <2>5, <2>8 DEF RunInv, AloneInv, Booting, Main
    <3>3. SameInv'
      BY <2>3, <3>1, <3>2 DEF SameInv, Keys
    <3>4. QED BY <2>4, <2>6, <3>3 DEF RunInv
  <2>9. QED BY <2>7, <2>8
<1>3. CASE StoreFails
  <2>1. Http \in Keys /\ Http' = "idle" /\ Main' = Main
    BY <1>1, <1>3 DEF StoreFails, Http, Main
  <2>2. /\ UNCHANGED <<creds, client, run, with, spent, restart>>
        /\ "boot" \in excuses' <=> "boot" \in excuses
        /\ UNCHANGED <<stored, excuses>> \/ "torn" \in excuses'
    BY <1>3 DEF StoreFails, clients
  <2>3. SaveInv' /\ AloneInv'
    BY <2>1, <2>2 DEF RunInv, SaveInv, AloneInv, Booting, Keys, Main
  <2>4. SameInv'
    BY <2>1, <2>2 DEF RunInv, SameInv, Loads, Keys
  <2>5. QED BY <2>3, <2>4 DEF RunInv
<1>4. QED BY <1>2, <1>3

\* The client is stopped before another is started.
LEMMA StopRun ==
  ASSUME RunInv, MqttTypeOK', Stop \/ Destroy \/ ForgetClient
  PROVE  RunInv'
<1>1. pc \in [{"http", "main"} -> Steps] /\ run \in [Clients -> {"none", "down", "up"}]
  BY DEF RunInv, MqttTypeOK
<1>2. Main' = Main /\ UNCHANGED <<stored, creds, with, spent, restart, excuses>>
  BY <1>1 DEF Stop, Destroy, ForgetClient, clients, Main
<1>3. CASE Stop
  <2>1. Http = "stop" /\ UNCHANGED <<client, run>>
        /\ Http' = IF client = Nobody THEN AfterStop ELSE "stopping"
    BY <1>1, <1>3 DEF Stop, Http, clients
  <2>2. SaveInv'
    BY <2>1 DEF SaveInv, AfterStop, Keys
  <2>3. AloneInv'
    BY <1>2, <2>1 DEF RunInv, AloneInv, AfterStop, Booting, Main
  <2>4. SameInv'
    BY <1>2, <2>1 DEF RunInv, SameInv, AfterStop, Loads, Keys
  <2>5. QED BY <2>2, <2>3, <2>4 DEF RunInv
<1>4. CASE Destroy
  <2>1. Http = "stopping" /\ Http' = "forget" /\ UNCHANGED client
        /\ run' = [run EXCEPT ![client] = "none"]
    BY <1>1, <1>4 DEF Destroy, Http
  <2>2. SaveInv'
    BY <2>1 DEF SaveInv, Keys
  <2>3. AloneInv'
    BY <1>1, <1>2, <2>1 DEF RunInv, AloneInv, Booting, Main
  <2>4. SameInv'
    BY <1>2, <2>1 DEF RunInv, SameInv, Loads, Keys
  <2>5. QED BY <2>2, <2>3, <2>4 DEF RunInv
<1>5. CASE ForgetClient
  <2>1. Http = "forget" /\ Http' = AfterStop /\ client' = Nobody /\ UNCHANGED run
    BY <1>1, <1>5 DEF ForgetClient, Http
  <2>2. SaveInv'
    BY <2>1 DEF SaveInv, AfterStop, Keys
  <2>3. AloneInv'
    BY <1>2, <2>1 DEF RunInv, AloneInv, AfterStop, Booting, Main
  <2>4. SameInv'
    BY <1>2, <2>1 DEF RunInv, SameInv, AfterStop, Loads, Keys
  <2>5. QED BY <2>2, <2>3, <2>4 DEF RunInv
<1>6. QED BY <1>3, <1>4, <1>5

\* What is loaded is what is stored, or nothing.
LEMMA LoadRun ==
  ASSUME RunInv, MqttTypeOK', NEW t \in {"http", "main"}, Load(t)
  PROVE  RunInv'
<1>1. pc \in [{"http", "main"} -> Steps] /\ Main \in {"load", "start", "done"}
  BY DEF RunInv, MqttTypeOK, Main
<1>2. UNCHANGED <<client, run, with, spent, restart>>
  BY DEF Load, clients
<1>3. pc[t] = "load" /\ \A u \in {"http", "main"} : u # t => pc'[u] = pc[u]
  BY <1>1 DEF Load
<1>4. /\ pc'[t] \in {"start", Ended(t)}
      /\ excuses' \in {excuses, excuses \union {"flash"}}
  BY <1>1 DEF Load
<1>5. ASSUME excuses' \intersect {"boot", "torn", "flash"} = {}
      PROVE  /\ excuses' = excuses
             /\ IF Loads(stored) THEN stored' = stored /\ creds' = stored /\ pc'[t] = "start"
                                 ELSE ~Loads(stored') /\ pc'[t] = Ended(t)
  <2>1. excuses' = excuses
    BY <1>4, <1>5
  <2>2. PICK lost \in Losses : LET found == Only(stored, Keys \ lost) IN
          /\ IF Loads(found) THEN creds' = found /\ pc' = [pc EXCEPT ![t] = "start"]
                             ELSE pc' = [pc EXCEPT ![t] = Ended(t)]
          /\ IF found["broker_host"] = Plain
               THEN \E remains \in Losses : stored' = Only(stored, remains)
               ELSE stored' = stored
          /\ excuses' = IF found = stored THEN excuses ELSE excuses \union {"flash"}
    BY DEF Load
  <2>3. Only(stored, Keys \ lost) = stored
    BY <1>5, <2>2
  <2>4. CASE Loads(stored)
    <3>1. stored["broker_host"] # Plain
      BY <2>4 DEF Loads, Encrypted, Keys, Plain
    <3>2. QED BY <1>1, <2>1, <2>2, <2>3, <2>4, <3>1
  <2>5. CASE ~Loads(stored)
    <3>1. ASSUME stored["broker_host"] = Plain, NEW remains, stored' = Only(stored, remains)
          PROVE  ~Loads(stored')
      BY <3>1 DEF Only, Loads, Encrypted, Keys, Plain, Missing
    <3>2. ~Loads(stored')
      BY <2>2, <2>3, <2>5, <3>1
    <3>3. QED BY <1>1, <2>1, <2>2, <2>3, <2>5, <3>2
  <2>6. QED BY <2>4, <2>5
<1>6. "boot" \in excuses' <=> "boot" \in excuses
  BY <1>4
<1>7. SaveInv'
  <2>1. CASE t = "http"
    BY <1>3, <1>4, <2>1 DEF SaveInv, Ended, Http, Keys
  <2>2. CASE t = "main"
    <3>1. Http' = Http
      BY <1>3, <2>2 DEF Http
    <3>2. ASSUME Http \in Keys \ {"broker_host"} PROVE stored' = stored
      <4>1. stored["broker_host"] # Plain
        BY <3>2 DEF RunInv, MqttTypeOK, SaveInv, Plain
      <4>2. \A keys : Only(stored, keys)["broker_host"] # Plain
        BY <4>1 DEF Only, Keys, Plain, Missing
      <4>3. QED BY <4>2 DEF Load
    <3>3. QED BY <1>2, <3>1, <3>2 DEF RunInv, SaveInv, Keys
  <2>3. QED BY <2>1, <2>2
<1>8. AloneInv'
  <2>1. CASE t = "http"
    BY <1>2, <1>3, <1>4, <1>6, <2>1 DEF RunInv, AloneInv, Ended, Booting, Http, Main
  <2>2. CASE t = "main"
    BY <1>1, <1>2, <1>3, <1>4, <1>6, <2>2 DEF RunInv, AloneInv, Ended, Booting, Http, Main
  <2>3. QED BY <2>1, <2>2
<1>9. ASSUME excuses' \intersect {"boot", "torn", "flash"} = {} PROVE SameInv'
  <2>1. client = Nobody /\ ~(Http = "load" /\ Main = "load")
    BY <1>3, <1>6, <1>9 DEF RunInv, AloneInv, Booting, Http, Main
  <2>2. CASE t = "http"
    <3>1. Http = "load" /\ Main = "done" /\ Main' = "done"
      BY <1>1, <1>3, <1>6, <1>9, <2>2 DEF RunInv, AloneInv, Booting, Http, Main
    <3>2. Http' = IF Loads(stored) THEN "start" ELSE "idle"
      BY <1>5, <1>9, <2>2 DEF Ended, Http
    <3>3. QED
      BY <1>2, <1>5, <1>9, <2>1, <2>2, <3>1, <3>2 DEF SameInv, Keys
  <2>3. CASE t = "main"
    <3>1. Http = "idle" /\ Http' = "idle"
      BY <1>3, <1>6, <1>9, <2>3 DEF RunInv, AloneInv, Booting, Http, Main
    <3>2. Main' = IF Loads(stored) THEN "start" ELSE "done"
      BY <1>5, <1>9, <2>3 DEF Ended, Main
    <3>3. QED
      BY <1>2, <1>5, <1>9, <2>1, <2>3, <3>1, <3>2 DEF SameInv, Keys
  <2>4. QED BY <2>2, <2>3
<1>10. SameInv'
  BY <1>9 DEF SameInv
<1>11. QED BY <1>7, <1>8, <1>10 DEF RunInv

\* A client is made with what was loaded.
LEMMA StartRun ==
  ASSUME RunInv, MqttTypeOK', NEW t \in {"http", "main"}, StartClient(t)
  PROVE  RunInv'
<1>1. pc \in [{"http", "main"} -> Steps] /\ Main \in {"load", "start", "done"}
      /\ run \in [Clients -> {"none", "down", "up"}] /\ with \in [Clients -> Settings]
  BY DEF RunInv, MqttTypeOK, Main
<1>2. UNCHANGED <<stored, creds, spent, restart, excuses>>
  BY DEF StartClient
<1>3. pc[t] = "start" /\ pc'[t] = Ended(t) /\ \A u \in {"http", "main"} : u # t => pc'[u] = pc[u]
  BY <1>1 DEF StartClient
<1>4. PICK c \in Clients : /\ run[c] = "none" /\ client' = c
                           /\ run' = [run EXCEPT ![c] = "down"]
                           /\ with' = [with EXCEPT ![c] = creds]
  BY DEF StartClient
<1>5. c # Nobody
  BY MqttAssumption DEF MqttAssumption
<1>6. SaveInv'
  <2>1. CASE t = "http"
    BY <1>3, <2>1 DEF SaveInv, Ended, Http, Keys
  <2>2. CASE t = "main"
    BY <1>2, <1>3, <2>2 DEF RunInv, SaveInv, Http
  <2>3. QED BY <2>1, <2>2
<1>7. ASSUME "boot" \notin excuses
      PROVE  Http' = "idle" /\ Main' = "done" /\ client = Nobody
  BY <1>1, <1>3, <1>7 DEF RunInv, AloneInv, Ended, Booting, Http, Main
<1>8. AloneInv'
  <2>1. SUFFICES ASSUME "boot" \notin excuses PROVE AloneInv'
    BY <1>2 DEF AloneInv
  <2>2. \A d \in Clients : run[d] = "none"
    BY <1>5, <1>7, <2>1, MqttAssumption DEF RunInv, AloneInv, MqttAssumption
  <2>3. QED BY <1>1, <1>4, <1>7, <2>1, <2>2 DEF AloneInv, Booting, Main
<1>9. SameInv'
  <2>1. SUFFICES ASSUME excuses \intersect {"boot", "torn", "flash"} = {} PROVE SameInv'
    BY <1>2 DEF SameInv
  <2>2. creds = stored /\ Loads(stored) /\ Loads(stored)'
    BY <1>2, <1>3, <2>1 DEF RunInv, SameInv, Http, Main, Loads
  <2>3. with'[client'] = stored' /\ run'[client'] # "none" /\ client' # Nobody
    BY <1>1, <1>2, <1>4, <1>5, <2>2
  <2>4. QED BY <1>2, <1>7, <2>1, <2>2, <2>3 DEF SameInv, Keys
<1>10. QED BY <1>6, <1>8, <1>9 DEF RunInv

LEMMA NextRun == RunInv /\ [MqttNext]_mqttvars => RunInv'
<1> SUFFICES ASSUME RunInv, [MqttNext]_mqttvars PROVE RunInv' OBVIOUS
<1>1. MqttTypeOK'
  BY NextTypes DEF RunInv
<1>2. CASE UNCHANGED mqttvars
  BY <1>1, <1>2, RunStutter DEF mqttvars, runvars, clients, requests
<1>3. CASE HttpStep \/ MainStep
  BY <1>1, <1>3, StoreRun, StopRun, LoadRun, StartRun DEF HttpStep, MainStep
<1>4. CASE MqttNext
  BY <1>1, <1>3, <1>4, RequestRun, ClientRun, TimerRun, NodeRun, RebootRun DEF MqttNext
<1>5. QED BY <1>2, <1>4

\* Whoever saves, clears, loads and starts, in whatever order, and wherever the bridge restarts:
\* at rest there is a client exactly when complete credentials are stored, one only, with them.
THEOREM MqttRunsStored == MqttSpec => []RunsWhatIsStored
  BY InitRun, NextRun, RunImplies, PTL DEF MqttSpec

(***************************************************************************)
(* Three rounds, a minute apart, whenever Home Assistant restarts.         *)
(***************************************************************************)
\* A client's task handles events of a connection.
HandlerInv == \A c \in Clients : hdl[c] # "idle" => run[c] = "up"

\* One handler at a time replaces the timer, and only between rounds.
ReplaceInv ==
  \A c \in Clients : hdl[c] \in HaSteps =>
    /\ timer = "idle"
    /\ hdl[c] = "drop" => handle # Nobody /\ armed = {handle}
    /\ hdl[c] = "null" => handle # Nobody /\ armed = {}
    /\ hdl[c] = "create" => handle = Nobody /\ armed = {}

\* The rounds made and those left add up, wherever the timer task is in a round.
CountInv ==
  /\ armed = IF timer = "null" THEN {} ELSE {handle} \ {Nobody}
  /\ timer # "idle" => handle # Nobody
  /\ handle # Nobody => asked
  /\ handle # Nobody =>
       CASE timer = "idle" -> tries \in 1 .. 3 /\ rounds + tries = 3
         [] timer \in {"nodes", "bridge"} -> tries \in 0 .. 2 /\ rounds + tries = 2
         [] timer = "again" -> tries \in 0 .. 2 /\ rounds + tries = 3
         [] timer \in {"expire", "null"} -> tries = 0 /\ rounds = 3
  /\ handle = Nobody /\ asked => rounds = 3

NoReplacement == \A c \in Clients : hdl[c] \notin HaSteps
Unraced == excuses \intersect {"boot", "raced"} = {}

RoundsInv ==
  /\ HandlerInv
  /\ Unraced => ReplaceInv /\ (NoReplacement => CountInv)

\* Two tasks that handle events would be of two clients.
LEMMA OneHandler ==
  ASSUME RunInv, "boot" \notin excuses, NEW c \in Clients, NEW d \in Clients,
         run[c] = "up", run[d] = "up"
  PROVE  c = d
  BY DEF RunInv, AloneInv

LEMMA InitRounds == MqttInit => RoundsInv
  BY DEF MqttInit, RoundsInv, HandlerInv, ReplaceInv, CountInv, Off, HaSteps, Tries

\* No step of the rounds, no handler's step in replacing the timer.
LEMMA RoundsStutter ==
  ASSUME RoundsInv, UNCHANGED roundvars, HandlerInv', Unraced' => Unraced,
         \A c \in Clients : hdl'[c] = hdl[c] \/ (hdl[c] \notin HaSteps /\ hdl'[c] \notin HaSteps)
  PROVE  RoundsInv'
  BY DEF RoundsInv, ReplaceInv, CountInv, NoReplacement, roundvars

LEMMA RequestRounds ==
  ASSUME RunInv, RoundsInv,
     Config \/ Clear \/ ClearFails \/ HttpStep \/ MainStep
  PROVE  RoundsInv'
<1>1. UNCHANGED roundvars /\ UNCHANGED hdl
  BY DEF Config, Clear, ClearFails, Erase, HttpStep, MainStep, StoreKey, StoreFails,
     Stop, Destroy, ForgetClient, Load,
         StartClient, roundvars, clients
<1>2. Unraced' => Unraced
  BY DEF Config, Clear, ClearFails, Erase, HttpStep, MainStep, StoreKey, StoreFails,
     Stop, Destroy, ForgetClient, Load,
         StartClient, Unraced
<1>3. HandlerInv'
  <2>1. CASE UNCHANGED run
    BY <1>1, <2>1 DEF RoundsInv, HandlerInv
  <2>2. CASE Destroy
    BY <2>2 DEF Destroy, RoundsInv, HandlerInv, RunInv, MqttTypeOK
  <2>3. ASSUME NEW t \in {"http", "main"}, StartClient(t) PROVE HandlerInv'
    BY <2>3 DEF StartClient, RoundsInv, HandlerInv, RunInv, MqttTypeOK
  <2>4. QED
    BY <2>1, <2>2, <2>3 DEF Config, Clear, ClearFails, Erase, HttpStep, MainStep, StoreKey,
       StoreFails, Stop,
       ForgetClient, Load, clients
<1>4. QED BY <1>1, <1>2, <1>3, RoundsStutter

LEMMA ClientRounds ==
  ASSUME RunInv, RoundsInv, NEW c \in Clients, HandlerStep(c) \/ Event(c)
  PROVE  RoundsInv'
<1>0. /\ hdl \in [Clients -> {"idle", "nodes", "command"} \union HaSteps]
      /\ run \in [Clients -> {"none", "down", "up"}]
  BY DEF RunInv, MqttTypeOK
<1>1. HandlerInv'
  BY <1>0 DEF HandlerStep, Event, SubscribeNodes, FindNode, DropTimer,
     NullTimer, CreateTimer,
     ClientConnected, Disconnected, Unsubscribed, ConnectionLost, Error, Command,
        Online, clients, RoundsInv, HandlerInv
<1>2. Unraced' => Unraced
  BY DEF HandlerStep, Event, SubscribeNodes, FindNode, DropTimer,
     NullTimer, CreateTimer,
     ClientConnected, Disconnected, Unsubscribed, Error, Command, Online,
        Unraced
<1>3. CASE SubscribeNodes(c) \/ FindNode(c) \/ ClientConnected(c) \/ Disconnected(c)
           \/ Unsubscribed(c) \/ Error(c) \/ Command(c)
  <2>1. UNCHANGED roundvars
    BY <1>3 DEF SubscribeNodes, FindNode, ClientConnected, Disconnected,
       Unsubscribed, Error, Command,
       roundvars
  <2>2. \A d \in Clients : hdl'[d] = hdl[d] \/ (hdl[d] \notin HaSteps /\ hdl'[d] \notin HaSteps)
    BY <1>0, <1>3 DEF SubscribeNodes, FindNode, ClientConnected, Disconnected,
       Unsubscribed, Error, Command,
       clients, HaSteps
  <2>3. QED BY <1>1, <1>2, <2>1, <2>2, RoundsStutter
<1>4. CASE Online(c) \/ DropTimer(c) \/ NullTimer(c) \/ CreateTimer(c)
  <2> SUFFICES ASSUME Unraced' PROVE ReplaceInv' /\ (NoReplacement' => CountInv')
    BY <1>1 DEF RoundsInv
  <2>1. ReplaceInv /\ (NoReplacement => CountInv) /\ "boot" \notin excuses
    BY <1>2 DEF RoundsInv, Unraced
  <2>2. run[c] = "up"
    BY <1>4 DEF Online, DropTimer, NullTimer, CreateTimer, RoundsInv, HandlerInv
  <2>3. \A d \in Clients \ {c} : hdl[d] = "idle"
    BY <2>1, <2>2, OneHandler DEF RoundsInv, HandlerInv
  <2>4. \A d \in Clients \ {c} : hdl'[d] = "idle"
    BY <1>0, <1>4, <2>3 DEF Online, DropTimer, NullTimer, CreateTimer
  <2>5. timer = "idle" /\ timer' = "idle"
    BY <1>4 DEF Online, DropTimer, NullTimer, CreateTimer, roundvars, Races,
       Unraced
  <2>6. CASE Online(c)
    <3>1. NoReplacement /\ CountInv
      BY <1>0, <2>1, <2>3, <2>6 DEF Online, NoReplacement, HaSteps
    <3>2. hdl'[c] = (IF handle = Nobody THEN "create" ELSE "drop")
      BY <1>0, <2>6 DEF Online
    <3>3. UNCHANGED roundvars
      BY <2>6 DEF Online, roundvars
    <3>4. QED
      BY <2>4, <2>5, <3>1, <3>2, <3>3 DEF ReplaceInv, CountInv, NoReplacement, HaSteps, roundvars
  <2>7. CASE DropTimer(c)
    <3>1. hdl'[c] = "null" /\ handle' = handle /\ handle # Nobody /\ armed' = {}
      BY <1>0, <2>1, <2>7 DEF DropTimer, ReplaceInv, HaSteps
    <3>2. QED BY <2>4, <2>5, <3>1 DEF ReplaceInv, NoReplacement, HaSteps
  <2>8. CASE NullTimer(c)
    <3>1. hdl'[c] = "create" /\ handle' = Nobody /\ armed' = {}
      BY <1>0, <2>1, <2>8 DEF NullTimer, ReplaceInv, HaSteps
    <3>2. QED BY <2>4, <2>5, <3>1 DEF ReplaceInv, NoReplacement, HaSteps
  <2>9. CASE CreateTimer(c)
    <3>1. handle = Nobody /\ armed = {} /\ hdl'[c] = "idle"
      BY <1>0, <2>1, <2>9 DEF CreateTimer, ReplaceInv, HaSteps
    <3>2. ReplaceInv'
      BY <2>4, <3>1 DEF ReplaceInv, HaSteps
    <3>3. CountInv'
      <4>1. CASE \E t \in Timers \ armed :
                   /\ handle' = t /\ armed' = armed \union {t}
                   /\ tries' = Tries /\ rounds' = 0 /\ asked' = TRUE
        BY <2>5, <3>1, <4>1, MqttAssumption DEF CountInv, Tries
      <4>2. CASE asked' = FALSE /\ UNCHANGED <<handle, armed, tries, rounds>>
        BY <2>5, <3>1, <4>2 DEF CountInv
      <4>3. QED BY <2>9, <4>1, <4>2 DEF CreateTimer
    <3>4. QED BY <3>2, <3>3
  <2>10. QED BY <1>4, <2>6, <2>7, <2>8, <2>9
<1>5. QED BY <1>3, <1>4 DEF HandlerStep, Event

LEMMA TimerRounds ==
  ASSUME RunInv, RoundsInv, TimerStep
  PROVE  RoundsInv'
<1>1. UNCHANGED <<run, hdl>>
  BY DEF TimerStep, Fire, FirstPass, AnnounceBridge, SecondPass,
     Expire, Expired, clients
<1>2. HandlerInv'
  BY <1>1 DEF RoundsInv, HandlerInv
<1> SUFFICES ASSUME Unraced' PROVE ReplaceInv' /\ (NoReplacement' => CountInv')
  BY <1>2 DEF RoundsInv
<1>3. Unraced /\ ReplaceInv /\ (NoReplacement => CountInv)
  BY DEF TimerStep, Fire, FirstPass, AnnounceBridge, SecondPass,
     Expire, Expired, Unraced, RoundsInv
<1>4. NoReplacement /\ CountInv
  <2>1. timer = "idle" => Fire
    BY DEF TimerStep, Fire, FirstPass, AnnounceBridge, SecondPass,
       Expire, Expired
  <2>2. CASE Fire
    BY <1>3, <2>2 DEF Fire, NoReplacement, Unraced
  <2>3. CASE timer # "idle"
    BY <1>3, <2>3 DEF ReplaceInv, NoReplacement
  <2>4. QED BY <1>3, <2>1, <2>2, <2>3
<1>5. ReplaceInv'
  BY <1>1, <1>4 DEF NoReplacement, ReplaceInv
<1>6. CASE Fire
  <2>1. /\ timer = "idle" /\ armed # {} /\ handle # Nobody /\ tries \in 1 .. 3
        /\ rounds + tries = 3 /\ asked
    BY <1>4, <1>6 DEF Fire, CountInv
  <2>2. /\ armed = {handle}
        /\ UNCHANGED <<handle, armed, rounds, asked>>
    BY <1>4, <1>6, <2>1 DEF Fire, CountInv
  <2>3. CASE state = "CONNECTED"
    <3>1. tries' = (tries + 256 - 1) % 256 /\ timer' = "nodes"
      BY <1>6, <2>3 DEF Fire, Bytes
    <3>2. tries' = tries - 1
      <4>1. tries \in {1, 2, 3}
        BY <2>1
      <4>2. QED BY <3>1, <4>1
    <3>3. rounds \in Nat
      BY DEF RunInv, MqttTypeOK
    <3>4. tries' \in 0 .. 2 /\ rounds' + tries' = 2
      BY <2>1, <2>2, <3>2, <3>3
    <3>5. QED BY <1>5, <2>1, <2>2, <3>1, <3>4 DEF CountInv
  <2>4. CASE state # "CONNECTED"
    <3>1. timer' = "idle" /\ tries' = tries
      BY <1>6, <2>1, <2>4 DEF Fire, IfExpired
    <3>2. QED BY <1>5, <2>1, <2>2, <3>1 DEF CountInv
  <2>5. QED BY <2>3, <2>4
<1>7. CASE FirstPass
  BY <1>4, <1>5, <1>7 DEF FirstPass, Subscribe, CountInv
<1>8. CASE AnnounceBridge
  <2>1. timer = "bridge" /\ timer' = "again" /\ rounds' = rounds + 1
        /\ UNCHANGED <<handle, armed, tries, asked>>
    BY <1>8 DEF AnnounceBridge
  <2>2. rounds \in Nat
    BY DEF RunInv, MqttTypeOK
  <2>3. QED BY <1>4, <1>5, <2>1, <2>2 DEF CountInv
<1>9. CASE SecondPass
  <2>1. timer = "again" /\ timer' = IfExpired /\ UNCHANGED <<handle, armed, tries, rounds, asked>>
    BY <1>9 DEF SecondPass, Subscribe
  <2>2. /\ handle # Nobody /\ tries \in 0 .. 2 /\ rounds + tries = 3 /\ asked
        /\ armed = {handle} \ {Nobody} /\ rounds \in Nat
    BY <1>4, <2>1 DEF CountInv, RunInv, MqttTypeOK
  <2>3. CASE tries = 0
    BY <1>5, <2>1, <2>2, <2>3 DEF CountInv, IfExpired
  <2>4. CASE tries # 0
    BY <1>5, <2>1, <2>2, <2>4 DEF CountInv, IfExpired
  <2>5. QED BY <2>3, <2>4
<1>10. CASE Expire
  BY <1>4, <1>5, <1>10 DEF Expire, CountInv
<1>11. CASE Expired
  BY <1>4, <1>5, <1>11 DEF Expired, CountInv
<1>12. QED BY <1>6, <1>7, <1>8, <1>9, <1>10, <1>11 DEF TimerStep

LEMMA NextRounds ==
  RunInv /\ RoundsInv /\ [MqttNext]_mqttvars => RoundsInv'
<1> SUFFICES ASSUME RunInv, RoundsInv, [MqttNext]_mqttvars PROVE RoundsInv'
  OBVIOUS
<1>1. ASSUME NEW n \in Nodes, NodeReady(n) \/ NodeLeft(n) PROVE RoundsInv'
  BY <1>1, RoundsStutter DEF NodeReady, NodeLeft, roundvars, RoundsInv,
     HandlerInv, Unraced
<1>2. CASE Reboot
  BY <1>2 DEF Reboot, RoundsInv, HandlerInv, ReplaceInv, CountInv, Off, HaSteps,
     Tries
<1>3. CASE UNCHANGED mqttvars
  BY <1>3, RoundsStutter DEF mqttvars, roundvars, clients, RoundsInv, HandlerInv, Unraced
<1>4. QED
  BY <1>1, <1>2, <1>3, RequestRounds, ClientRounds, TimerRounds DEF MqttNext

\* However often Home Assistant restarts and connections come and go: between rounds, those made
\* and those still to come are three, and no timer is left running that the bridge has forgotten,
\* unless the restart was heard in the middle of a round or a request came while booting.
THEOREM MqttThreeRounds == MqttSpec => []ThreeRounds
<1>1. RoundsInv => ThreeRounds
  BY DEF RoundsInv, CountInv, NoReplacement, Unraced, ThreeRounds, Tries
<1>2. QED
  BY InitRun, NextRun, InitRounds, NextRounds, <1>1, PTL DEF MqttSpec
=============================================================================
