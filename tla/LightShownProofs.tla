-------------------------- MODULE LightShownProofs --------------------------
(***************************************************************************)
(* Theorems about LightControl: that what Home Assistant is shown of a     *)
(* light is how the light is, for any lights, ranges, scales and           *)
(* brightness, and any number of commands, probes and losses.  What holds  *)
(* of both editions comes first, then the Companion's record, which        *)
(* follows what the light says, and then the Standalone one, which runs    *)
(* ahead of the light.                                                     *)
(***************************************************************************)
EXTENDS NodesProofs

(***************************************************************************)
(* What the light, the record of it and the messages have to do with each  *)
(* other whatever happens.                                                 *)
(***************************************************************************)
ModeFits(f, m) ==
  IF BothColours(f) THEN m \in {"hs", "color_temp"} ELSE m = CompositionMode(f)
Has(op) == op \in Local \/ ModelOf[op] \in light.models
Statuses == {"onoffGet", "levelSet", "lightGet", "hslGet", "tempGet"}
Ranges == {"lightRange", "hslRange", "tempRange"}
ValueSets == {"lightSet", "hslSet", "ctlSet"}

LightFits ==
  /\ light.models \in Lights /\ ModeFits(light.models, light.by) /\ light.l \in {0, light.was}
RecordFits ==
  /\ node.features \subseteq light.models /\ ModeFits(node.features, node.mode)
  /\ Standalone => node.features = light.models
OfferFits ==
  /\ "hs" \in offered => "hsl" \in light.models
  /\ "color_temp" \in offered => "ctl" \in light.models
  /\ "cover" \in offered => "level" \in light.models
QueueFits ==
  \A i \in DOMAIN queue : Has(queue[i].op) /\ (Companion => queue[i].op \in Sets \union Ranges)
AnswersFit ==
  /\ heard # Nothing => /\ ModelOf[heard.op] \in light.models
                        /\ Companion => heard.op \in Statuses
  /\ late # Nothing => ModelOf[late.op] \in light.models /\ ModelOf[late.op] \in {"onoff", "level"}
CompanionFits ==
  Companion =>
    /\ late = Nothing /\ node.l \in {0, node.last} /\ (node.on => node.l = node.last)
    /\ IF shown = Nothing THEN node.features = {} /\ offered = {} /\ queue = <<>>
                          ELSE shown = StatusOf(node) /\ node.features # {}

AllFit ==
  LightFits /\ RecordFits /\ OfferFits /\ QueueFits /\ AnswersFit /\ CompanionFits

(***************************************************************************)
(* What a status makes of the record of a node that is not provisioned.    *)
(***************************************************************************)
LightOps == {"lightSet", "lightGet", "hslSet", "hslGet", "ctlSet", "tempGet"}
Known(n, m) == (n.features \union {m}) \ (IF m \in LightModels THEN {"level"} ELSE {})
HeardAs(mode, l, max) == IF mode = "hs" THEN Brightness(l, max) ELSE l

LEMMA WithModelIs ==
  ASSUME NEW n \in ANode, NEW m \in Models, NEW w, w = WithModel(n, m)
  PROVE  /\ w \in ANode /\ w.features = Known(n, m) /\ w.l = n.l /\ w.on = n.on
         /\ w.mode = n.mode /\ w.maxL = n.maxL /\ w.level = n.level /\ w.last = n.last
<1>1. w = [n EXCEPT !.known = TRUE, !.features = Known(n, m)]
  <2> DEFINE x == n.features
  <2>1. [n EXCEPT !.known = TRUE,
           !.features = (@ \union {m}) \ (IF m \in LightModels THEN {"level"} ELSE {})]
        = [n EXCEPT !.known = TRUE,
             !.features = (n.features \union {m}) \ (IF m \in LightModels THEN {"level"} ELSE {})]
    BY DEF ANode
  <2> QED BY <2>1 DEF WithModel, Known
<1>2. Known(n, m) \in SUBSET Models
  BY DEF ANode, Known
<1> QED BY <1>1, <1>2 DEF ANode

LEMMA HeardOnOff ==
  ASSUME NEW n \in ANode, NEW op \in {"onoffSet", "onoffGet"}, NEW got, NEW s, NEW u,
         u = Upserted(n, op, got, s)
  PROVE  /\ u.features = n.features \union {"onoff"}
         /\ u.mode = n.mode /\ u.maxL = n.maxL /\ u.level = n.level /\ u.last = n.last
         /\ u.on = (got.l > 0)
         /\ u.l = IF got.l > 0 /\ n.l = 0 /\ n.last > 0 THEN n.last ELSE n.l
<1>1. u = UpsertOnOff(n, got)
  <2>1. ModelOf[op] = "onoff" /\ u = UpsertByModel(n, got, s)[ModelOf[op]]
    BY DEF Upserted, ModelOf
  <2> QED BY <2>1 DEF UpsertByModel
<1> DEFINE w == WithModel(n, "onoff")
<1>2. /\ w \in ANode /\ w.features = n.features \union {"onoff"} /\ w.l = n.l
      /\ w.mode = n.mode /\ w.maxL = n.maxL /\ w.level = n.level /\ w.last = n.last
  <2>1. "onoff" \in Models /\ Known(n, "onoff") = n.features \union {"onoff"}
    BY DEF Models, Known, LightModels
  <2> QED BY <2>1, WithModelIs
<1>3. u = [w EXCEPT !.on = got.l > 0,
                    !.l = IF got.l > 0 /\ @ = 0 /\ n.last > 0 THEN n.last ELSE @]
  BY <1>1 DEF UpsertOnOff
<1> HIDE DEF w
<1> QED BY <1>2, <1>3 DEF ANode

LEMMA HeardLevel ==
  ASSUME NEW n \in ANode, NEW got, NEW s, NEW u, u = Upserted(n, "levelSet", got, s)
  PROVE  /\ u.mode = n.mode /\ u.maxL = n.maxL /\ u.last = n.last /\ u.on = n.on /\ u.l = n.l
         /\ IF n.features \intersect LightModels # {}
              THEN u.features = n.features /\ u.level = n.level
              ELSE u.features = n.features \union {"level"} /\ u.level = got.level
<1>1. u = UpsertLevel(n, got)
  <2>1. ModelOf["levelSet"] = "level" /\ u = UpsertByModel(n, got, s)[ModelOf["levelSet"]]
    BY DEF Upserted, ModelOf
  <2> QED BY <2>1 DEF UpsertByModel
<1> DEFINE w == WithModel(n, "level")
<1>2. /\ w \in ANode /\ w.features = n.features \union {"level"} /\ w.l = n.l /\ w.on = n.on
      /\ w.mode = n.mode /\ w.maxL = n.maxL /\ w.last = n.last
  <2>1. "level" \in Models /\ Known(n, "level") = n.features \union {"level"}
    BY DEF Models, Known, LightModels
  <2> QED BY <2>1, WithModelIs
<1>3. u = IF n.features \intersect LightModels # {} THEN [n EXCEPT !.known = TRUE]
          ELSE [w EXCEPT !.level = got.level]
  BY <1>1 DEF UpsertLevel
<1> HIDE DEF w
<1> QED BY <1>2, <1>3 DEF ANode

LEMMA HeardLight ==
  ASSUME NEW n \in ANode, NEW op \in LightOps, NEW got, NEW s \in BOOLEAN, NEW u,
         u = Upserted(n, op, got, s)
  PROVE  /\ ModelOf[op] \in LightModels
         /\ u.features = (n.features \union {ModelOf[op]}) \ {"level"}
         /\ u.maxL = n.maxL /\ u.level = n.level
         /\ u.mode = IF ModelOf[op] = "lightness" \/ (~s /\ BothColours(u.features)) THEN n.mode
                     ELSE IF ModelOf[op] = "hsl" THEN "hs" ELSE "color_temp"
         /\ u.l = HeardAs(u.mode, got.l, n.maxL)
         /\ u.on = (u.l > 0) /\ u.last = IF u.l > 0 THEN u.l ELSE n.last
<1> DEFINE m == ModelOf[op]
           w == WithModel(n, m)
           mode == IF m = "lightness" \/ (~s /\ BothColours(w.features)) THEN n.mode
                   ELSE IF m = "hsl" THEN "hs" ELSE "color_temp"
           v == [w EXCEPT !.mode = mode]
<1>1. m \in {"lightness", "hsl", "ctl"}
  BY DEF LightOps, ModelOf
<1>2. /\ w \in ANode /\ w.features = (n.features \union {m}) \ {"level"}
      /\ w.mode = n.mode /\ w.maxL = n.maxL /\ w.level = n.level /\ w.last = n.last
  <2> HIDE DEF m
  <2>1. m \in Models /\ Known(n, m) = (n.features \union {m}) \ {"level"}
    BY <1>1 DEF Models, Known, LightModels
  <2> QED BY <2>1, WithModelIs
<1>3. v = IF m = "lightness" THEN w ELSE Moded(w, IF m = "hsl" THEN "hs" ELSE "color_temp", s)
  <2> HIDE DEF w, m
  <2>1. w = [w EXCEPT !.mode = n.mode]
    BY <1>2 DEF ANode
  <2> QED BY <1>1, <1>2, <2>1 DEF Moded
<1>4. u = Brightened(v, ToBrightness(v, got.l))
  <2>a. u = UpsertByModel(n, got, s)[m]
    BY DEF Upserted, LightOps
  <2> HIDE DEF m
  <2>1. CASE m = "lightness"
    <3>1. u = UpsertLightness(n, got)
      BY <2>a, <2>1 DEF UpsertByModel
    <3> QED BY <1>3, <2>1, <3>1 DEF UpsertLightness
  <2>2. CASE m = "hsl"
    <3>1. u = UpsertHsl(n, got, s)
      BY <2>a, <2>2 DEF UpsertByModel
    <3> QED BY <1>3, <2>2, <3>1 DEF UpsertHsl
  <2>3. CASE m = "ctl"
    <3>1. u = UpsertCtl(n, got, s)
      BY <2>a, <2>3 DEF UpsertByModel
    <3> QED BY <1>3, <2>3, <3>1 DEF UpsertCtl
  <2> QED BY <1>1, <2>1, <2>2, <2>3
<1>5. /\ v.mode = mode /\ v.features = w.features /\ v.maxL = n.maxL /\ v.level = n.level
      /\ v.last = n.last
      /\ DOMAIN v = {"known", "features", "mode", "on", "l", "last", "maxL", "level"}
  <2> HIDE DEF w, mode
  <2> QED BY <1>2 DEF ANode
<1> HIDE DEF v
<1>6. /\ u.mode = mode /\ u.features = w.features /\ u.maxL = n.maxL /\ u.level = n.level
      /\ u.l = ToBrightness(v, got.l) /\ u.on = (u.l > 0)
      /\ u.last = IF u.l > 0 THEN u.l ELSE n.last
  <2> HIDE DEF w, mode
  <2> QED BY <1>4, <1>5 DEF Brightened
<1>7. u.l = HeardAs(u.mode, got.l, n.maxL)
  BY <1>5, <1>6 DEF ToBrightness, HeardAs
<1> QED BY <1>1, <1>2, <1>6, <1>7 DEF LightModels

LEMMA HeardRange ==
  ASSUME NEW n \in ANode, NEW op \in Ranges, NEW got, NEW s, NEW u, u = Upserted(n, op, got, s)
  PROVE  /\ u.features = n.features /\ u.mode = n.mode /\ u.on = n.on /\ u.l = n.l
         /\ u.last = n.last /\ u.level = n.level /\ u.maxL \in {n.maxL, LightMax}
<1>1. u = n \/ u = UpsertLightnessRange(n)
  BY DEF Upserted, Ranges
<1> QED BY <1>1 DEF UpsertLightnessRange, ANode

\* Every message is one of these four kinds.
LEMMA EveryOp ==
  ASSUME NEW op \in DOMAIN ModelOf
  PROVE  op \in {"onoffSet", "onoffGet"} \/ op = "levelSet" \/ op \in LightOps \/ op \in Ranges
<1>1. op \in {"onoffSet", "onoffGet", "levelSet", "lightSet", "lightGet", "lightRange",
              "hslSet", "hslGet", "hslRange", "ctlSet", "tempGet", "tempRange"}
  BY ModelOfIs
<1>2. LightOps = {"lightSet", "lightGet", "hslSet", "hslGet", "ctlSet", "tempGet"}
      /\ Ranges = {"lightRange", "hslRange", "tempRange"}
  BY DEF LightOps, Ranges
<1> QED BY <1>1, <1>2

(***************************************************************************)
(* What a command puts behind everything else.                             *)
(***************************************************************************)
ASet(c) == SetFor[ModeOf(node, c)]

LEMMA ASetIs ==
  ASSUME LightTypeOK, NEW c \in Commands
  PROVE  /\ ASet(c) \in ValueSets /\ ASet(c) \in DOMAIN ModelOf
         /\ ASet(c) = "lightSet" <=> ModeOf(node, c) = "brightness"
         /\ ASet(c) = "hslSet" <=> ModeOf(node, c) = "hs"
         /\ ASet(c) = "ctlSet" <=> ModeOf(node, c) = "color_temp"
<1>1. ModeOf(node, c) \in {"brightness", "hs", "color_temp"}
  BY AskedType DEF Modes
<1>2. /\ SetFor["brightness"] = "lightSet" /\ SetFor["hs"] = "hslSet"
      /\ SetFor["color_temp"] = "ctlSet"
  BY DEF SetFor
<1> QED BY <1>1, <1>2, ModelOfIs DEF ASet, ValueSets

LEMMA StandaloneQueue ==
  ASSUME LightTypeOK, NEW c \in Commands, Standalone, LightCommand(c)
  PROVE  \E r \in Seq(AnItem) :
           /\ queue' = queue \o r /\ r[1].op = "onoffSet" /\ Len(r) \in {2, 3}
           /\ r[Len(r)].op = "status"
           /\ Len(r) = IF Changes(c) THEN 3 ELSE 2
           /\ Changes(c) => r[2].op = ASet(c)
<1> DEFINE m == ASet(c)
           r == Items(<<"onoffSet">> \o If(Changes(c), <<m>>) \o <<"status">>)
           x == Item("onoffSet", NoArgs)
           y == Item(m, NoArgs)
           z == Item("status", NoArgs)
<1>1. queue' = queue \o r
  BY DEF LightCommand, StandaloneCommand, ASet
<1>2. m \in ValueSets
  BY ASetIs
<1>3. {"onoffSet", "lightSet", "hslSet", "ctlSet", "status"} \subseteq DOMAIN ModelOf \union Local
  BY ModelOfIs DEF Local
<1>4. NoArgs \in [on : BOOLEAN, l : Numbers, level : LevelNumbers]
  BY ScalesAre DEF NoArgs
<1>5. {x, y, z} \subseteq AnItem /\ x.op = "onoffSet" /\ y.op = m /\ z.op = "status"
  <2> HIDE DEF m
  <2> QED BY <1>2, <1>3, <1>4, ItemsType, OpOfItem DEF ValueSets
<1>6. r = IF Changes(c) THEN <<x, y, z>> ELSE <<x, z>>
  <2>1. m \in DOMAIN ModelOf \union Local
    BY <1>2, <1>3 DEF ValueSets
  <2> HIDE DEF m
  <2> QED BY <1>3, <2>1, ItemsAre DEF If
<1> HIDE DEF r, x, y, z, m
<1>7. <<x, y, z>> \in Seq(AnItem) /\ <<x, z>> \in Seq(AnItem)
  BY <1>5
<1>8. /\ r \in Seq(AnItem) /\ r[1].op = "onoffSet" /\ Len(r) = (IF Changes(c) THEN 3 ELSE 2)
      /\ r[Len(r)].op = "status" /\ (Changes(c) => r[2].op = m)
  <2>1. CASE Changes(c)
    <3>1. r = <<x, y, z>>
      BY <1>6, <2>1
    <3> QED BY <1>5, <1>7, <2>1, <3>1
  <2>2. CASE ~Changes(c)
    <3>1. r = <<x, z>>
      BY <1>6, <2>2
    <3> QED BY <1>5, <1>7, <2>2, <3>1
  <2> QED BY <2>1, <2>2
<1>9. Len(r) \in {2, 3}
  BY <1>8
<1> QED BY <1>1, <1>8, <1>9 DEF m

LEMMA CompanionQueue ==
  ASSUME LightTypeOK, NEW c \in Commands, Companion, LightCommand(c)
  PROVE  \E r \in Seq(AnItem) :
           /\ queue' = queue \o r /\ Len(r) \in {1, 2}
           /\ IF Changes(c)
                THEN /\ r[Len(r)].op = ASet(c)
                     /\ r[Len(r)].args.l = Rendered(ModeOf(node, c), AskedLightness(c))
                     /\ Len(r) = 2 => r[1].op = "onoffSet" /\ r[1].args.on = c.on
                ELSE Len(r) = 1 /\ r[1].op = "onoffSet" /\ r[1].args.on = c.on
<1> DEFINE y == ExternalSet(node, ModeOf(node, c), AskedLightness(c))
           x == external_command(c.on)
<1>1. PICK state \in IF Changes(c) THEN {<<>>, <<x>>} ELSE {<<x>>} :
        queue' = queue \o state \o If(Changes(c), <<y>>)
  BY DEF LightCommand, CompanionCommand, Companion, Standalone
<1>2. /\ AskedLightness(c) \in Numbers /\ ModeOf(node, c) \in Modes
      /\ Changes(c) \in BOOLEAN /\ c.on \in BOOLEAN
  BY AskedType
<1>3. {"onoffSet", "lightSet", "hslSet", "ctlSet", "status"} \subseteq DOMAIN ModelOf \union Local
  BY ModelOfIs DEF Local
<1>4. x \in AnItem /\ x.op = "onoffSet" /\ x.args.on = c.on
  <2>1. [NoArgs EXCEPT !.on = c.on] \in [on : BOOLEAN, l : Numbers, level : LevelNumbers]
        /\ [NoArgs EXCEPT !.on = c.on].on = c.on
    BY <1>2, ScalesAre DEF NoArgs
  <2> QED BY <1>3, <2>1, ItemsType, OpOfItem DEF external_command
<1>5. y \in AnItem /\ y.op = ASet(c)
      /\ y.args.l = Rendered(ModeOf(node, c), AskedLightness(c))
  <2>1. \A l \in Numbers : /\ [NoArgs EXCEPT !.l = l] \in [on : BOOLEAN, l : Numbers, level : LevelNumbers]
                           /\ [NoArgs EXCEPT !.l = l].l = l
    BY ScalesAre DEF NoArgs
  <2>2. HslLightness(AskedLightness(c), node.maxL) \in Numbers
    BY <1>2, HslLightnessType DEF LightTypeOK, ANode
  <2>3. \A l \in Numbers : \A op \in {"lightSet", "hslSet", "ctlSet"} :
          /\ Item(op, [NoArgs EXCEPT !.l = l]) \in AnItem /\ Item(op, [NoArgs EXCEPT !.l = l]).op = op
          /\ Item(op, [NoArgs EXCEPT !.l = l]).args.l = l
    BY <1>3, <2>1, ItemsType, OpOfItem
  <2> QED BY <1>2, <2>2, <2>3, ASetIs DEF ExternalSet, Modes, Rendered, external_lightness_command,
               external_hsl_command, external_ctl_command
<1> HIDE DEF x, y
<1>6. <<x, y>> \in Seq(AnItem) /\ <<x>> \in Seq(AnItem) /\ <<y>> \in Seq(AnItem)
      /\ queue \in Seq(AnItem)
  BY <1>4, <1>5 DEF LightTypeOK
<1>7. \/ Changes(c) /\ queue' = queue \o <<x, y>>
      \/ Changes(c) /\ queue' = queue \o <<y>>
      \/ ~Changes(c) /\ queue' = queue \o <<x>>
  <2>1. (queue \o <<x>>) \o <<y>> = queue \o <<x, y>>
    <3>1. <<x>> \o <<y>> = <<x, y>>
      BY <1>4, <1>5, Joined
    <3>2. (queue \o <<x>>) \o <<y>> = queue \o (<<x>> \o <<y>>)
      BY <1>6, ConcatAssociative
    <3> QED BY ONLY <3>1, <3>2
  <2>2. queue \o <<>> = queue
    BY <1>6
  <2>3. (queue \o <<x>>) \o <<>> = queue \o <<x>>
    BY <1>6
  <2> QED BY <1>1, <2>1, <2>2, <2>3 DEF If
<1>8. CASE Changes(c) /\ queue' = queue \o <<x, y>>
  <2> DEFINE r == <<x, y>>
  <2>1. r \in Seq(AnItem) /\ Len(r) = 2 /\ r[1] = x /\ r[2] = y
    BY <1>6
  <2> HIDE DEF r
  <2> QED BY <1>4, <1>5, <1>8, <2>1 DEF r
<1>9. CASE Changes(c) /\ queue' = queue \o <<y>>
  <2> DEFINE r == <<y>>
  <2>1. r \in Seq(AnItem) /\ Len(r) = 1 /\ r[1] = y
    BY <1>6
  <2> HIDE DEF r
  <2>2. /\ queue' = queue \o r /\ Len(r) \in {1, 2} /\ Len(r) # 2
        /\ r[Len(r)].op = ASet(c) /\ r[Len(r)].args.l = Rendered(ModeOf(node, c), AskedLightness(c))
    BY <1>5, <1>9, <2>1 DEF r
  <2> QED BY <1>9, <2>1, <2>2
<1>10. CASE ~Changes(c) /\ queue' = queue \o <<x>>
  <2> DEFINE r == <<x>>
  <2>1. r \in Seq(AnItem) /\ Len(r) = 1 /\ r[1] = x
    BY <1>6
  <2> HIDE DEF r
  <2> QED BY <1>4, <1>10, <2>1 DEF r
<1> QED BY <1>7, <1>8, <1>9, <1>10

(***************************************************************************)
(* Where the messages in the queue after a step come from: d of them have  *)
(* left, and those behind the others are new.                              *)
(***************************************************************************)
Moved(d, ops) ==
  /\ \A i \in DOMAIN queue : i > d => i - d \in DOMAIN queue'
  /\ \A j \in DOMAIN queue' :
       IF j + d \in DOMAIN queue
         THEN queue'[j].op = queue[j + d].op /\ queue'[j].args = queue[j + d].args
         ELSE queue'[j].op \in ops

LEMMA MovedNot ==
  ASSUME LightTypeOK, queue' = queue, NEW ops
  PROVE  Moved(0, ops)
BY DEF LightTypeOK, Moved

LEMMA MovedBehind ==
  ASSUME LightTypeOK, NEW r \in Seq(AnItem), queue' = queue \o r, NEW ops,
         \A i \in DOMAIN r : r[i].op \in ops
  PROVE  Moved(0, ops)
<1>1. queue \in Seq(AnItem)
  BY DEF LightTypeOK
<1>2. /\ queue' \in Seq(AnItem) /\ Len(queue') = Len(queue) + Len(r)
      /\ \A i \in 1 .. Len(queue) : queue'[i] = queue[i]
      /\ \A i \in 1 .. Len(queue') : i > Len(queue) => i - Len(queue) \in 1 .. Len(r) /\ queue'[i] = r[i - Len(queue)]
  BY <1>1, Appended
<1>3. /\ DOMAIN queue = 1 .. Len(queue) /\ DOMAIN queue' = 1 .. Len(queue') /\ DOMAIN r = 1 .. Len(r)
      /\ Len(queue) \in Nat /\ Len(r) \in Nat
  BY <1>1, <1>2
<1>4. ASSUME NEW j \in DOMAIN queue'
      PROVE  IF j + 0 \in DOMAIN queue
               THEN queue'[j].op = queue[j + 0].op /\ queue'[j].args = queue[j + 0].args
               ELSE queue'[j].op \in ops
  <2>1. CASE j <= Len(queue)
    BY <1>2, <1>3, <1>4, <2>1
  <2>2. CASE ~(j <= Len(queue))
    BY <1>2, <1>3, <1>4, <2>2
  <2> QED BY <2>1, <2>2
<1> QED BY <1>2, <1>3, <1>4 DEF Moved

LEMMA MovedOn ==
  ASSUME LightTypeOK, queue # <<>>, NEW r \in Seq(AnItem), queue' = Tail(queue) \o r, NEW ops,
         \A i \in DOMAIN r : r[i].op \in ops
  PROVE  Moved(1, ops)
<1> DEFINE t == Tail(queue)
<1>1. queue \in Seq(AnItem)
  BY DEF LightTypeOK
<1>2. /\ t \in Seq(AnItem) /\ Len(t) = Len(queue) - 1 /\ Len(queue) \in Nat /\ Len(t) \in Nat
      /\ \A i \in 1 .. Len(t) : t[i] = queue[i + 1]
  BY <1>1
<1> HIDE DEF t
<1>3. /\ queue' \in Seq(AnItem) /\ Len(queue') = Len(t) + Len(r)
      /\ \A i \in 1 .. Len(t) : queue'[i] = t[i]
      /\ \A i \in 1 .. Len(queue') : i > Len(t) => i - Len(t) \in 1 .. Len(r) /\ queue'[i] = r[i - Len(t)]
  <2> DEFINE q == queue'
  <2>1. q = t \o r
    BY DEF t
  <2> HIDE DEF q
  <2>a. t \in Seq(AnItem)
    BY <1>2
  <2>2. /\ q \in Seq(AnItem) /\ Len(q) = Len(t) + Len(r)
        /\ \A i \in 1 .. Len(t) : q[i] = t[i]
        /\ \A i \in 1 .. Len(q) : i > Len(t) => i - Len(t) \in 1 .. Len(r) /\ q[i] = r[i - Len(t)]
    BY ONLY <2>a, <2>1, r \in Seq(AnItem), Appended
  <2> QED BY <2>2 DEF q
<1>4. /\ DOMAIN queue = 1 .. Len(queue) /\ DOMAIN queue' = 1 .. Len(queue') /\ DOMAIN r = 1 .. Len(r)
      /\ Len(r) \in Nat
  BY <1>1, <1>3
<1>5. ASSUME NEW j \in DOMAIN queue'
      PROVE  IF j + 1 \in DOMAIN queue
               THEN queue'[j].op = queue[j + 1].op /\ queue'[j].args = queue[j + 1].args
               ELSE queue'[j].op \in ops
  <2>1. CASE j <= Len(t)
    <3>1. queue'[j] = t[j] /\ t[j] = queue[j + 1] /\ j + 1 \in DOMAIN queue
      BY <1>2, <1>3, <1>4, <1>5, <2>1
    <3> QED BY <3>1
  <2>2. CASE ~(j <= Len(t))
    <3>1. j - Len(t) \in DOMAIN r /\ queue'[j] = r[j - Len(t)] /\ j + 1 \notin DOMAIN queue
      BY <1>2, <1>3, <1>4, <1>5, <2>2
    <3> QED BY <3>1
  <2> QED BY <2>1, <2>2
<1> QED BY <1>2, <1>3, <1>4, <1>5 DEF Moved

LEMMA MovedBack ==
  ASSUME LightTypeOK, queue # <<>>, NEW x, x.op = Head(queue).op, x.args = Head(queue).args,
         queue' = <<x>> \o Tail(queue), x \in AnItem, NEW ops
  PROVE  Moved(0, ops)
<1> DEFINE t == Tail(queue)
           s == <<x>>
<1>1. queue \in Seq(AnItem) /\ s \in Seq(AnItem) /\ Len(s) = 1 /\ s[1] = x
  BY DEF LightTypeOK
<1>2. /\ t \in Seq(AnItem) /\ Len(t) = Len(queue) - 1 /\ Len(queue) \in Nat /\ Len(t) \in Nat
      /\ \A i \in 1 .. Len(t) : t[i] = queue[i + 1]
      /\ Head(queue) = queue[1]
  BY <1>1
<1>a. queue' = s \o t
  OBVIOUS
<1> HIDE DEF t, s
<1>3. /\ queue' \in Seq(AnItem) /\ Len(queue') = 1 + Len(t)
      /\ queue'[1] = x
      /\ \A i \in 1 .. Len(queue') : i > 1 => i - 1 \in 1 .. Len(t) /\ queue'[i] = t[i - 1]
  BY <1>1, <1>2, <1>a, Appended
<1>4. DOMAIN queue = 1 .. Len(queue) /\ DOMAIN queue' = 1 .. Len(queue)
  BY <1>1, <1>2, <1>3
<1>5. \A j \in DOMAIN queue' : queue'[j].op = queue[j].op /\ queue'[j].args = queue[j].args
  <2>1. SUFFICES ASSUME NEW j \in DOMAIN queue'
                 PROVE  queue'[j].op = queue[j].op /\ queue'[j].args = queue[j].args
    OBVIOUS
  <2>2. CASE j = 1
    BY <1>2, <1>3, <2>2
  <2>3. CASE j # 1
    BY <1>2, <1>3, <1>4, <2>1, <2>3
  <2> QED BY <2>2, <2>3
<1> QED BY <1>2, <1>4, <1>5 DEF Moved

(***************************************************************************)
(* The mode of a light or of a record goes with its models.                *)
(***************************************************************************)
LEMMA ModesGo ==
  ASSUME NEW f, NEW m
  PROVE  /\ "hsl" \in f => ModeFits(f, "hs")
         /\ "ctl" \in f => ModeFits(f, "color_temp")
         /\ ModeFits(f, m) => m \in Modes
         /\ ModeFits(f, m) /\ m = "hs" => "hsl" \in f
         /\ ModeFits(f, m) /\ m = "color_temp" => "ctl" \in f
BY DEF ModeFits, CompositionMode, BothColours, Modes

LEMMA LightHas ==
  ASSUME NEW f \in Lights
  PROVE  /\ f \subseteq Models
         /\ f \intersect LightModels # {} => "onoff" \in f /\ "lightness" \in f
         /\ ~IsCover(f) => "onoff" \in f
<1>1. f \subseteq Models /\ f # {} /\ (f \intersect LightModels # {} => "onoff" \in f /\ "lightness" \in f)
  BY LightAssumption, LightsAssumption
<1>2. ASSUME ~IsCover(f), f \intersect LightModels = {}
      PROVE  "onoff" \in f
  <2>1. "level" \notin f
    BY <1>2 DEF IsCover
  <2> QED BY <1>1, <1>2, <2>1 DEF Models, LightModels
<1> QED BY <1>1, <1>2

LEMMA SupportedFit ==
  ASSUME NEW f
  PROVE  /\ "hs" \in SupportedModes(f) => "hsl" \in f
         /\ "color_temp" \in SupportedModes(f) => "ctl" \in f
         /\ "cover" \in SupportedModes(f) => "level" \in f
BY DEF SupportedModes, IsCover

LEMMA UpsertFits ==
  ASSUME NEW n \in ANode, NEW op \in DOMAIN ModelOf, NEW got \in ALight, NEW s \in BOOLEAN, NEW u,
         u = Upserted(n, op, got, s), NEW M, ModelOf[op] \in M, n.features \subseteq M,
         ModeFits(n.features, n.mode), n.l \in {0, n.last}, n.on => n.l = n.last
  PROVE  /\ u.features \subseteq M /\ ModeFits(u.features, u.mode)
         /\ u.l \in {0, u.last} /\ (u.on => u.l = u.last)
         /\ op \notin Ranges \/ n.features # {} => u.features # {}
<1>0. /\ u.l \in Nat /\ u.on \in BOOLEAN /\ u.last \in Nat
      /\ n.l \in Nat /\ n.last \in Nat /\ n.on \in BOOLEAN
  <2>1. u \in ANode
    BY UpsertedType
  <2> QED BY <2>1, ScalesAre DEF ANode, Numbers
<1>1. CASE op \in {"onoffSet", "onoffGet"}
  <2>1. /\ u.features = n.features \union {"onoff"} /\ u.mode = n.mode /\ u.last = n.last
        /\ u.on = (got.l > 0) /\ u.l = IF got.l > 0 /\ n.l = 0 /\ n.last > 0 THEN n.last ELSE n.l
    BY <1>1, HeardOnOff
  <2>2. ModelOf[op] = "onoff"
    BY <1>1 DEF ModelOf
  <2>3. ModeFits(u.features, u.mode)
    BY <2>1 DEF ModeFits, BothColours, CompositionMode
  <2>4. u.l \in {0, u.last} /\ (u.on => u.l = u.last)
    BY <1>0, <2>1
  <2> QED BY <2>1, <2>2, <2>3, <2>4
<1>2. CASE op = "levelSet"
  <2>1. /\ u.mode = n.mode /\ u.last = n.last /\ u.on = n.on /\ u.l = n.l
        /\ u.features = n.features \union {"level"} \/ (u.features = n.features /\ n.features \intersect LightModels # {})
    BY <1>2, HeardLevel
  <2>2. ModelOf[op] = "level"
    BY <1>2 DEF ModelOf
  <2>3. ModeFits(u.features, u.mode)
    BY <2>1 DEF ModeFits, BothColours, CompositionMode
  <2> QED BY <2>1, <2>2, <2>3
<1>3. CASE op \in LightOps
  <2>1. /\ ModelOf[op] \in LightModels
        /\ u.features = (n.features \union {ModelOf[op]}) \ {"level"}
        /\ u.mode = IF ModelOf[op] = "lightness" \/ (~s /\ BothColours(u.features)) THEN n.mode
                     ELSE IF ModelOf[op] = "hsl" THEN "hs" ELSE "color_temp"
        /\ u.on = (u.l > 0) /\ u.last = IF u.l > 0 THEN u.l ELSE n.last
        /\ u.l = HeardAs(u.mode, got.l, n.maxL)
    BY <1>3, HeardLight
  <2>3. ModeFits(u.features, u.mode)
    BY <2>1 DEF ModeFits, BothColours, CompositionMode, LightModels
  <2>4. u.l \in {0, u.last} /\ (u.on => u.l = u.last)
    <3>1. u.on = (u.l > 0) /\ u.last = IF u.l > 0 THEN u.l ELSE n.last
      BY <2>1
    <3>2. CASE u.l > 0
      BY <3>1, <3>2
    <3>3. CASE ~(u.l > 0)
      <4>1. u.l = 0
        BY <1>0, <3>3
      <4>2. ~u.on
        BY <3>1, <3>3
      <4> QED BY <4>1, <4>2
    <3> QED BY <3>2, <3>3
  <2> QED BY <2>1, <2>3, <2>4 DEF LightModels
<1>4. CASE op \in Ranges
  <2>1. /\ u.features = n.features /\ u.mode = n.mode /\ u.on = n.on /\ u.l = n.l /\ u.last = n.last
    BY <1>4, HeardRange
  <2> QED BY <1>4, <2>1
<1> QED BY <1>1, <1>2, <1>3, <1>4, EveryOp

LEMMA EffectFits ==
  ASSUME LightFits, light \in ALight, NEW op \in DOMAIN ModelOf, ModelOf[op] \in light.models,
         NEW a, a.l \in Numbers, NEW e, e = Effect(op, a)
  PROVE  e.models = light.models /\ ModeFits(e.models, e.by) /\ e.l \in {0, e.was}
<1>0. light.l \in Nat /\ light.was \in Nat /\ LightMax \in Nat \ {0} /\ a.l \in Nat
      /\ light.l \in {0, light.was} /\ ModeFits(light.models, light.by)
  BY ScalesAre DEF ALight, LightFits, Numbers
<1> DEFINE sh == Shine(a.l)
<1>1. /\ sh.models = light.models /\ sh.by = light.by /\ sh.l \in {0, sh.was}
      /\ DOMAIN sh = {"models", "l", "was", "by", "level"}
  <2> DEFINE to == Raised(LeastOf(a.l, LightMax))
  <2>1. sh = [light EXCEPT !.l = to, !.was = IF a.l > 0 THEN to ELSE @]
    BY DEF Shine
  <2>2. a.l = 0 => to = 0
    BY <1>0 DEF Raised, LeastOf
  <2> HIDE DEF to, sh
  <2> QED BY <1>0, <2>1, <2>2 DEF ALight
<1>2. CASE op = "onoffSet"
  BY <1>0, <1>2 DEF Effect, ALight
<1>3. CASE op = "lightSet"
  BY <1>0, <1>1, <1>3 DEF Effect
<1>4. CASE op = "hslSet"
  <2>1. ModelOf[op] = "hsl"
    BY <1>4 DEF ModelOf
  <2>2. e = [sh EXCEPT !.by = "hs"]
    BY <1>4 DEF Effect
  <2> HIDE DEF sh
  <2>3. e.models = light.models /\ e.by = "hs" /\ e.l = sh.l /\ e.was = sh.was
    BY <1>1, <2>2
  <2> QED BY <1>1, <2>1, <2>3, ModesGo
<1>5. CASE op = "ctlSet"
  <2>1. ModelOf[op] = "ctl"
    BY <1>5 DEF ModelOf
  <2>2. e = [sh EXCEPT !.by = "color_temp"]
    BY <1>5 DEF Effect
  <2> HIDE DEF sh
  <2>3. e.models = light.models /\ e.by = "color_temp" /\ e.l = sh.l /\ e.was = sh.was
    BY <1>1, <2>2
  <2> QED BY <1>1, <2>1, <2>3, ModesGo
<1>6. CASE op = "levelSet"
  BY <1>0, <1>6 DEF Effect, ALight
<1>7. CASE op \notin {"onoffSet", "lightSet", "hslSet", "ctlSet", "levelSet"}
  BY <1>0, <1>7 DEF Effect
<1> QED BY <1>2, <1>3, <1>4, <1>5, <1>6, <1>7

LEMMA QueueFitsStill ==
  ASSUME QueueFits, NEW d \in {0, 1}, NEW ops, Moved(d, ops), light'.models = light.models,
         edition' = edition, \A op \in ops : Has(op) /\ (Companion => op \in Sets \union Ranges)
  PROVE  QueueFits'
<1>1. Companion' = Companion
  BY DEF Companion
<1>2. ASSUME NEW j \in DOMAIN queue'
      PROVE  Has(queue'[j].op) /\ (Companion => queue'[j].op \in Sets \union Ranges)
  <2>1. CASE j + d \in DOMAIN queue
    <3>1. queue'[j].op = queue[j + d].op
      BY <1>2, <2>1 DEF Moved
    <3> QED BY <2>1, <3>1 DEF QueueFits
  <2>2. CASE j + d \notin DOMAIN queue
    <3>1. queue'[j].op \in ops
      BY <1>2, <2>2 DEF Moved
    <3> QED BY <3>1
  <2> QED BY <2>1, <2>2
<1> QED BY <1>1, <1>2 DEF QueueFits, Has

\* What is left alone keeps fitting.
LEMMA FitStays ==
  ASSUME AllFit, edition' = edition
  PROVE  /\ light' = light => LightFits'
         /\ light'.models = light.models /\ node' = node => RecordFits'
         /\ light'.models = light.models /\ offered' = offered => OfferFits'
         /\ light'.models = light.models /\ heard' \in {heard, Nothing} /\ late' \in {late, Nothing}
              => AnswersFit'
         /\ Standalone => CompanionFits'
         /\ UNCHANGED <<node, late, shown>> /\ shown # Nothing => CompanionFits'
         /\ UNCHANGED <<node, late, shown, offered, queue>> => CompanionFits'
<1>1. Companion' = Companion /\ Standalone' = Standalone /\ (Standalone => ~Companion)
  BY DEF Companion, Standalone
<1>2. light' = light => LightFits'
  BY DEF AllFit, LightFits
<1>3. light'.models = light.models /\ node' = node => RecordFits'
  BY <1>1 DEF AllFit, RecordFits
<1>4. light'.models = light.models /\ offered' = offered => OfferFits'
  BY <1>1 DEF AllFit, OfferFits
<1>5. light'.models = light.models /\ heard' \in {heard, Nothing} /\ late' \in {late, Nothing}
        => AnswersFit'
  BY <1>1 DEF AllFit, AnswersFit
<1>6. Standalone => CompanionFits'
  BY <1>1 DEF CompanionFits
<1>7. UNCHANGED <<node, late, shown>> /\ shown # Nothing => CompanionFits'
  <2>1. StatusOf(node)' = StatusOf(node) \/ node' # node
    BY <1>1 DEF StatusOf
  <2> QED BY <1>1, <2>1 DEF AllFit, CompanionFits
<1>8. UNCHANGED <<node, late, shown, offered, queue>> => CompanionFits'
  <2>1. StatusOf(node)' = StatusOf(node) \/ node' # node
    BY <1>1 DEF StatusOf
  <2> QED BY <1>1, <2>1 DEF AllFit, CompanionFits
<1> QED BY <1>2, <1>3, <1>4, <1>5, <1>6, <1>7, <1>8

\* A command only asks a light for what its models can do.
LEMMA CommandHas ==
  ASSUME LightTypeOK, AllFit, NEW c \in Commands, LightCommand(c)
  PROVE  /\ "onoff" \in light.models /\ Has("onoffSet")
         /\ Changes(c) => ModelOf[ASet(c)] \in light.models
         /\ Changes(c) /\ ModeOf(node, c) = "hs" => "hsl" \in light.models
         /\ Changes(c) /\ ModeOf(node, c) = "color_temp" => "ctl" \in light.models
         /\ Companion => shown # Nothing
<1>1. /\ offered # {} /\ ~IsCover(node.features) /\ (c.colour = "none" \/ c.colour \in offered)
  BY DEF LightCommand
<1>2. /\ light.models \in Lights /\ node.features \subseteq light.models
      /\ ModeFits(node.features, node.mode) /\ (Standalone => node.features = light.models)
  BY DEF AllFit, LightFits, RecordFits
<1>3. /\ "hs" \in offered => "hsl" \in light.models
      /\ "color_temp" \in offered => "ctl" \in light.models
      /\ (Companion => shown # Nothing /\ node.features # {})
  BY <1>1 DEF AllFit, OfferFits, CompanionFits
<1>4. Standalone \/ Companion
  BY DEF LightTypeOK, Standalone, Companion
<1>5. light.models \subseteq Models /\ node.features \subseteq Models
  BY <1>2, LightHas
<1>6. "onoff" \in light.models
  <2>1. CASE node.features \intersect LightModels # {}
    <3>1. light.models \intersect LightModels # {}
      BY <1>2, <2>1
    <3> QED BY <1>2, <3>1, LightHas
  <2>2. CASE node.features \intersect LightModels = {} /\ Companion
    <3>1. "level" \notin node.features
      BY <1>1, <2>2 DEF IsCover
    <3> QED BY <1>2, <1>3, <1>5, <2>2, <3>1 DEF Models, LightModels
  <2>3. CASE Standalone
    BY <1>1, <1>2, <2>3, LightHas
  <2> QED BY <1>4, <2>1, <2>2, <2>3
<1>7. ASSUME ModeOf(node, c) = "hs"
      PROVE  "hsl" \in light.models
  <2>1. CASE c.colour = "none"
    <3>1. node.mode = "hs"
      BY <1>7, <2>1 DEF ModeOf
    <3> QED BY <1>2, <3>1, ModesGo
  <2>2. CASE c.colour # "none"
    BY <1>1, <1>3, <1>7, <2>2 DEF ModeOf
  <2> QED BY <2>1, <2>2
<1>8. ASSUME ModeOf(node, c) = "color_temp"
      PROVE  "ctl" \in light.models
  <2>1. CASE c.colour = "none"
    <3>1. node.mode = "color_temp"
      BY <1>8, <2>1 DEF ModeOf
    <3> QED BY <1>2, <3>1, ModesGo
  <2>2. CASE c.colour # "none"
    BY <1>1, <1>3, <1>8, <2>2 DEF ModeOf
  <2> QED BY <2>1, <2>2
<1>9. ASSUME ModeOf(node, c) = "brightness", Changes(c)
      PROVE  "lightness" \in light.models
  <2>1. c.colour = "none" \/ c.colour = "brightness"
    BY <1>9 DEF ModeOf
  <2>2. HasBrightness(c)
    BY <1>9, <2>1 DEF Changes, Commands
  <2>3. node.features \intersect LightModels # {}
    BY <2>2 DEF HasBrightness, LightModels
  <2>4. light.models \intersect LightModels # {}
    BY <1>2, <2>3
  <2> QED BY <1>2, <2>4, LightHas
<1>10. Changes(c) => ModelOf[ASet(c)] \in light.models
  <2>1. /\ ModelOf["lightSet"] = "lightness" /\ ModelOf["hslSet"] = "hsl" /\ ModelOf["ctlSet"] = "ctl"
    BY DEF ModelOf
  <2>2. ModeOf(node, c) \in {"brightness", "hs", "color_temp"}
    BY AskedType DEF Modes
  <2> QED BY <1>7, <1>8, <1>9, <2>1, <2>2, ASetIs
<1>11. Has("onoffSet")
  BY <1>6 DEF Has, ModelOf
<1> QED BY <1>3, <1>6, <1>7, <1>8, <1>10, <1>11

LEMMA LightCommandFits ==
  ASSUME LightTypeOK, AllFit, NEW c \in Commands, LightCommand(c)
  PROVE  AllFit'
<1>1. /\ UNCHANGED <<edition, light, waiting, air, late, heard, offered, shown>>
  BY DEF LightCommand, Given
<1>2. /\ "onoff" \in light.models /\ Has("onoffSet") /\ (Companion => shown # Nothing)
      /\ Changes(c) => ModelOf[ASet(c)] \in light.models
      /\ Changes(c) /\ ModeOf(node, c) = "color_temp" => "ctl" \in light.models
  BY CommandHas
<1>4. ASet(c) \in Sets /\ (Changes(c) => Has(ASet(c)))
  BY <1>2, ASetIs DEF Has, ValueSets, Sets
<1>5. CASE Standalone
  <2>1. PICK r \in Seq(AnItem) :
          /\ queue' = queue \o r /\ r[1].op = "onoffSet" /\ Len(r) \in {2, 3}
          /\ r[Len(r)].op = "status"
          /\ Len(r) = IF Changes(c) THEN 3 ELSE 2
          /\ Changes(c) => r[2].op = ASet(c)
    BY <1>5, StandaloneQueue
  <2> DEFINE ops == {"onoffSet", "status"} \union (IF Changes(c) THEN {ASet(c)} ELSE {})
  <2>2. \A i \in DOMAIN r : r[i].op \in ops
    <3>1. CASE Changes(c)
      <4>1. DOMAIN r = 1 .. 3 /\ Len(r) = 3
        BY <2>1, <3>1
      <4>2. r[1].op \in ops /\ r[2].op \in ops /\ r[3].op \in ops
        BY <2>1, <3>1, <4>1
      <4> HIDE DEF ops
      <4> QED BY <4>1, <4>2
    <3>2. CASE ~Changes(c)
      <4>1. DOMAIN r = 1 .. 2 /\ Len(r) = 2
        BY <2>1, <3>2
      <4>2. r[1].op \in ops /\ r[2].op \in ops
        BY <2>1, <4>1
      <4> HIDE DEF ops
      <4> QED BY <4>1, <4>2
    <3> QED BY <3>1, <3>2
  <2>3. Moved(0, ops)
    <3> HIDE DEF ops
    <3> QED BY <2>1, <2>2, MovedBehind
  <2>4. \A op \in ops : Has(op) /\ (Companion => op \in Sets \union Ranges)
    BY <1>2, <1>4, <1>5 DEF Has, Local, Standalone, Companion
  <2> HIDE DEF ops
  <2>5. QueueFits'
    BY <1>1, <2>3, <2>4, QueueFitsStill DEF AllFit
  <2>6. RecordFits'
    <3>1. /\ node'.features = node.features
          /\ node'.mode = IF Changes(c) /\ ModeOf(node, c) = "color_temp" THEN "color_temp" ELSE node.mode
      BY <1>5 DEF LightCommand, StandaloneCommand, LightTypeOK, ANode
    <3>2. /\ node.features = light.models /\ ModeFits(node.features, node.mode)
      BY <1>5 DEF AllFit, RecordFits
    <3>3. ModeFits(node'.features, node'.mode)
      BY <1>2, <3>1, <3>2, ModesGo
    <3> QED BY <1>1, <3>1, <3>2, <3>3 DEF RecordFits
  <2> QED BY <1>1, <1>5, <2>5, <2>6, FitStays DEF AllFit
<1>6. CASE Companion
  <2>1. PICK r \in Seq(AnItem) :
          /\ queue' = queue \o r /\ Len(r) \in {1, 2}
          /\ IF Changes(c)
               THEN /\ r[Len(r)].op = ASet(c)
                    /\ r[Len(r)].args.l = Rendered(ModeOf(node, c), AskedLightness(c))
                    /\ Len(r) = 2 => r[1].op = "onoffSet" /\ r[1].args.on = c.on
               ELSE Len(r) = 1 /\ r[1].op = "onoffSet" /\ r[1].args.on = c.on
    BY <1>6, CompanionQueue
  <2> DEFINE ops == {"onoffSet"} \union (IF Changes(c) THEN {ASet(c)} ELSE {})
  <2>2. \A i \in DOMAIN r : r[i].op \in ops
    <3>1. CASE Len(r) = 2
      <4>1. DOMAIN r = 1 .. 2
        BY <3>1
      <4>2. r[1].op \in ops /\ r[2].op \in ops
        BY <2>1, <3>1
      <4> HIDE DEF ops
      <4> QED BY <4>1, <4>2
    <3>2. CASE Len(r) = 1
      <4>1. DOMAIN r = 1 .. 1
        BY <3>2
      <4>2. r[1].op \in ops
        BY <2>1, <3>2
      <4> HIDE DEF ops
      <4> QED BY <4>1, <4>2
    <3> QED BY <2>1, <3>1, <3>2
  <2>3. Moved(0, ops)
    <3> HIDE DEF ops
    <3> QED BY <2>1, <2>2, MovedBehind
  <2>4. \A op \in ops : Has(op) /\ (Companion => op \in Sets \union Ranges)
    BY <1>2, <1>4 DEF Has, Sets
  <2> HIDE DEF ops
  <2>5. QueueFits'
    BY <1>1, <2>3, <2>4, QueueFitsStill DEF AllFit
  <2>6. node' = node
    BY <1>6 DEF LightCommand, CompanionCommand, Companion, Standalone
  <2> QED BY <1>1, <1>2, <1>6, <2>5, <2>6, FitStays DEF AllFit
<1> QED BY <1>5, <1>6 DEF LightTypeOK, Standalone, Companion

LEMMA OneBehind ==
  ASSUME LightTypeOK, NEW x \in AnItem, queue' = Append(queue, x)
  PROVE  Moved(0, {x.op}) /\ queue' \in Seq(AnItem) /\ Len(queue') = Len(queue) + 1
         /\ queue'[Len(queue')] = x
<1> DEFINE r == <<x>>
<1>1. queue \in Seq(AnItem) /\ r \in Seq(AnItem) /\ DOMAIN r = {1} /\ r[1] = x
  BY DEF LightTypeOK
<1>2. queue' = queue \o r
  BY <1>1
<1>3. queue' \in Seq(AnItem) /\ Len(queue') = Len(queue) + 1 /\ queue'[Len(queue')] = x
  BY <1>1
<1> HIDE DEF r
<1>4. \A i \in DOMAIN r : r[i].op \in {x.op}
  BY <1>1
<1> QED BY <1>1, <1>2, <1>3, <1>4, MovedBehind

LEMMA RefreshHas ==
  ASSUME NEW f
  PROVE  LET fit == {op \in Asks : op \in Local \/ ModelOf[op] \in f}
         IN RefreshOps(f) \in Seq(fit) /\ RefreshOps(f) \o <<"announce", "status">> \in Seq(fit)
<1> DEFINE fit == {op \in Asks : op \in Local \/ ModelOf[op] \in f}
<1>1. \A p, r \in Seq(fit) : p \o r \in Seq(fit)
  OBVIOUS
<1>2. <<>> \in Seq(fit)
  OBVIOUS
<1>3. /\ "onoff" \in f => "onoffGet" \in fit
      /\ "hsl" \in f => "hslGet" \in fit /\ "hslRange" \in fit
      /\ "lightness" \in f => "lightGet" \in fit /\ "lightRange" \in fit
      /\ "ctl" \in f => "tempRange" \in fit /\ "tempGet" \in fit
      /\ "status" \in fit /\ "announce" \in fit
  BY DEF Asks, Local, ModelOf
<1> HIDE DEF fit
<1>4. /\ If("onoff" \in f, <<"onoffGet">>) \in Seq(fit)
      /\ If("hsl" \in f, <<"hslGet", "hslRange">>) \in Seq(fit)
      /\ If("lightness" \in f, <<"lightGet", "lightRange">>) \in Seq(fit)
      /\ If("ctl" \in f, <<"tempRange", "tempGet">>) \in Seq(fit)
      /\ <<"status">> \in Seq(fit) /\ <<"announce", "status">> \in Seq(fit)
  BY <1>2, <1>3 DEF If
<1>5. RefreshOps(f) \in Seq(fit)
  BY ONLY <1>1, <1>4 DEF RefreshOps
<1>6. RefreshOps(f) \o <<"announce", "status">> \in Seq(fit)
  BY ONLY <1>1, <1>4, <1>5
<1> QED BY <1>5, <1>6 DEF fit

LEMMA ToldAdds ==
  ASSUME LightTypeOK, NEW n, NEW q \in Seq(AnItem), NEW m \in Models, Told(n, q, m)
  PROVE  /\ node' = n /\ offered' = SupportedModes(n.features) /\ shown' = StatusOf(n)
         /\ \E r \in Seq(AnItem) :
              /\ queue' = q \o r
              /\ \A i \in DOMAIN r : r[i].op = RangeOf[m] /\ m \in LightModels
<1> DEFINE x == Item(RangeOf[m], NoArgs)
           r == <<x>>
<1>1. CASE m \in LightModels /\ m \notin node.features
  <2>1. RangeOf[m] \in DOMAIN ModelOf \union Local
    BY <1>1, ModelOfIs DEF RangeOf, LightModels
  <2>2. NoArgs \in [on : BOOLEAN, l : Numbers, level : LevelNumbers]
    BY ScalesAre DEF NoArgs
  <2>3. x \in AnItem /\ x.op = RangeOf[m]
    BY <2>1, <2>2, ItemsType, OpOfItem
  <2>4. queue' = Append(q, x)
    BY <1>1 DEF Told
  <2> HIDE DEF x
  <2>5. r \in Seq(AnItem) /\ DOMAIN r = {1} /\ r[1] = x /\ queue' = q \o r
    BY <2>3, <2>4
  <2> HIDE DEF r
  <2>6. \A i \in DOMAIN r : r[i].op = RangeOf[m] /\ m \in LightModels
    BY <1>1, <2>3, <2>5
  <2> QED BY <2>5, <2>6 DEF Told
<1>2. CASE ~(m \in LightModels /\ m \notin node.features)
  <2> DEFINE e == <<>>
  <2>1. queue' = q /\ q \o e = q /\ e \in Seq(AnItem) /\ DOMAIN e = {}
    BY <1>2 DEF Told
  <2> HIDE DEF e
  <2> QED BY <2>1 DEF Told
<1> QED BY <1>1, <1>2

LEMMA RangesOf ==
  ASSUME NEW m \in LightModels
  PROVE  RangeOf[m] \in Ranges /\ ModelOf[RangeOf[m]] = m
BY DEF RangeOf, Ranges, ModelOf, LightModels

LEMMA TimeoutMoves ==
  ASSUME LightTypeOK, Shapes, Timeout
  PROVE  /\ queue # <<>>
         /\ IF Head(queue).left > 1 THEN Moved(0, {}) ELSE Moved(1, {})
<1> DEFINE i == Head(queue)
           again == [i EXCEPT !.left = @ - 1]
<1>1. /\ waiting
      /\ queue' = IF i.left > 1 THEN <<again>> \o Tail(queue) ELSE Tail(queue)
  BY DEF Timeout
<1>2. /\ queue # <<>> /\ queue \in Seq(AnItem) /\ i \in AnItem
  BY <1>1 DEF LightTypeOK, Shapes
<1>3. i.left > 1 => again \in AnItem /\ again.op = i.op /\ again.args = i.args
  <2>1. i.left \in 0 .. Retries /\ Retries \in Nat
    BY <1>2, LightAssumption DEF AnItem
  <2>2. i.left > 1 => i.left - 1 \in 0 .. Retries
    BY <2>1
  <2> QED BY <1>2, <2>2 DEF AnItem
<1> HIDE DEF again
<1>4. CASE i.left > 1
  BY <1>1, <1>2, <1>3, <1>4, MovedBack
<1>5. CASE ~(i.left > 1)
  <2> DEFINE e == <<>>
  <2>1. e \in Seq(AnItem) /\ queue' = Tail(queue) \o e /\ DOMAIN e = {}
    BY <1>1, <1>2, <1>5, NoneAdded
  <2> HIDE DEF e
  <2> QED BY <1>2, <1>5, <2>1, MovedOn
<1> QED BY <1>2, <1>4, <1>5

LEMMA PageFits ==
  ASSUME LightTypeOK, AllFit, NEW c \in Commands, set_onoff_handler(c) \/ set_hsl_handler(c)
  PROVE  AllFit'
<1>1. /\ Standalone /\ UNCHANGED <<edition, light, waiting, air, late, heard, offered, shown>>
  BY DEF set_onoff_handler, set_hsl_handler, ByPage
<1>2. light.models \in Lights /\ node.features = light.models
  BY <1>1 DEF AllFit, LightFits, RecordFits
<1>4. NoArgs \in [on : BOOLEAN, l : Numbers, level : LevelNumbers]
      /\ "onoffSet" \in DOMAIN ModelOf /\ "hslSet" \in DOMAIN ModelOf
  BY ScalesAre, ModelOfIs DEF NoArgs
<1>5. \E op \in {"onoffSet", "hslSet"} : queue' = Append(queue, Item(op, NoArgs)) /\ Has(op)
  <2>1. CASE set_onoff_handler(c)
    <3>1. ModelOf["onoffSet"] \in light.models
      BY <1>2, <2>1, LightHas DEF set_onoff_handler, ModelOf
    <3> QED BY <2>1, <3>1 DEF set_onoff_handler, Has
  <2>2. CASE set_hsl_handler(c)
    <3>1. ModelOf["hslSet"] \in light.models
      BY <1>2, <2>2 DEF set_hsl_handler, ModelOf
    <3> QED BY <2>2, <3>1 DEF set_hsl_handler, Has
  <2> QED BY <2>1, <2>2
<1>6. PICK op \in {"onoffSet", "hslSet"} : queue' = Append(queue, Item(op, NoArgs)) /\ Has(op)
  BY <1>5
<1>7. Item(op, NoArgs) \in AnItem /\ Item(op, NoArgs).op = op
  BY <1>4, ItemsType, OpOfItem
<1>8. Moved(0, {op})
  <2> DEFINE x == Item(op, NoArgs)
  <2>1. x \in AnItem /\ x.op = op /\ queue' = Append(queue, x)
    BY <1>6, <1>7
  <2> HIDE DEF x
  <2> QED BY <2>1, OneBehind
<1>9. QueueFits'
  BY <1>1, <1>6, <1>8, QueueFitsStill DEF AllFit, Standalone, Companion
<1>10. RecordFits'
  <2>1. node'.features = node.features /\ node'.mode = node.mode
    BY DEF set_onoff_handler, set_hsl_handler, LightTypeOK, ANode
  <2> QED BY <1>1, <2>1 DEF AllFit, RecordFits, Standalone
<1> QED BY <1>1, <1>9, <1>10, FitStays DEF AllFit

LEMMA CoverFits ==
  ASSUME LightTypeOK, AllFit, NEW p \in 0 .. Percent, CoverCommand(p)
  PROVE  AllFit'
<1>1. /\ offered = {"cover"} /\ UNCHANGED <<edition, light, late, heard, offered, shown>>
  BY DEF CoverCommand
<1>2. Has("levelSet") /\ "levelSet" \in Sets /\ (Companion => shown # Nothing)
  BY <1>1 DEF AllFit, OfferFits, CompanionFits, Has, ModelOf, Sets
<1>3. NoArgs \in [on : BOOLEAN, l : Numbers, level : LevelNumbers]
      /\ {"levelSet", "status"} \subseteq DOMAIN ModelOf \union Local
      /\ PositionToLevel(p) \in LevelNumbers
  BY ScalesAre, ModelOfIs, PositionType DEF NoArgs, Local
<1>4. CASE Standalone
  <2> DEFINE x == Item("levelSet", NoArgs)
             z == Item("status", NoArgs)
             r == <<x, z>>
  <2>1. queue' = queue \o r
    BY <1>3, <1>4, ItemsAre DEF CoverCommand
  <2>2. x \in AnItem /\ z \in AnItem /\ x.op = "levelSet" /\ z.op = "status"
    BY <1>3, ItemsType, OpOfItem
  <2> HIDE DEF x, z
  <2>3. r \in Seq(AnItem) /\ DOMAIN r = 1 .. 2 /\ r[1] = x /\ r[2] = z
    BY <2>2
  <2> HIDE DEF r
  <2>4. \A i \in DOMAIN r : r[i].op \in {"levelSet", "status"}
    BY <2>2, <2>3
  <2>5. Moved(0, {"levelSet", "status"})
    BY <2>1, <2>3, <2>4, MovedBehind
  <2>6. QueueFits'
    BY <1>1, <1>2, <1>4, <2>5, QueueFitsStill DEF AllFit, Standalone, Companion, Has, Local
  <2>7. RecordFits'
    <3>1. node'.features = node.features /\ node'.mode = node.mode
      BY <1>4 DEF CoverCommand, LightTypeOK, ANode
    <3> QED BY <1>1, <3>1 DEF AllFit, RecordFits, Standalone
  <2> QED BY <1>1, <1>4, <2>6, <2>7, FitStays DEF AllFit
<1>5. CASE Companion
  <2> DEFINE x == external_level_command(PositionToLevel(p))
  <2>1. queue' = Append(queue, x) /\ node' = node
    BY <1>5 DEF CoverCommand, Standalone, Companion
  <2>2. x \in AnItem /\ x.op = "levelSet"
    <3>1. [NoArgs EXCEPT !.level = PositionToLevel(p)] \in [on : BOOLEAN, l : Numbers, level : LevelNumbers]
      BY <1>3, ScalesAre DEF NoArgs
    <3> QED BY <1>3, <3>1, ItemsType, OpOfItem DEF external_level_command
  <2> HIDE DEF x
  <2>3. Moved(0, {x.op})
    BY <2>1, <2>2, OneBehind
  <2>4. QueueFits'
    BY <1>1, <1>2, <2>2, <2>3, QueueFitsStill DEF AllFit
  <2>5. shown # Nothing
    BY <1>2, <1>5
  <2> QED BY <1>1, <2>1, <2>4, <2>5, FitStays DEF AllFit
<1> QED BY <1>4, <1>5 DEF LightTypeOK, Standalone, Companion

LEMMA SetLightnessFits ==
  ASSUME LightTypeOK, AllFit, NEW b \in Levels, SetLightness(b)
  PROVE  AllFit'
<1>1. /\ "lightness" \in node.features
      /\ UNCHANGED <<edition, light, late, heard, offered, shown>>
  BY DEF SetLightness
<1>2. Has("lightSet") /\ "lightSet" \in Sets /\ (Companion => shown # Nothing)
  BY <1>1 DEF AllFit, RecordFits, CompanionFits, Has, ModelOf, Sets
<1>3. NoArgs \in [on : BOOLEAN, l : Numbers, level : LevelNumbers]
      /\ "lightSet" \in DOMAIN ModelOf /\ b \in Numbers
  BY ScalesAre, ModelOfIs, LightAssumption DEF NoArgs, Numbers
<1>4. \E x \in AnItem : queue' = Append(queue, x) /\ x.op = "lightSet"
  <2>1. [NoArgs EXCEPT !.l = b] \in [on : BOOLEAN, l : Numbers, level : LevelNumbers]
    BY <1>3, ScalesAre DEF NoArgs
  <2>2. Item("lightSet", NoArgs) \in AnItem /\ external_lightness_command(b) \in AnItem
        /\ Item("lightSet", NoArgs).op = "lightSet" /\ external_lightness_command(b).op = "lightSet"
    BY <1>3, <2>1, ItemsType, OpOfItem DEF external_lightness_command
  <2> QED BY <2>2 DEF SetLightness
<1>5. Moved(0, {"lightSet"})
  BY <1>4, OneBehind
<1>6. QueueFits'
  BY <1>1, <1>2, <1>5, QueueFitsStill DEF AllFit
<1>7. RecordFits' /\ (Companion => node' = node)
  <2>1. node'.features = node.features /\ node'.mode = node.mode /\ (Companion => node' = node)
    BY DEF SetLightness, LightTypeOK, ANode, Standalone, Companion
  <2> QED BY <1>1, <2>1 DEF AllFit, RecordFits, Standalone
<1> QED BY <1>1, <1>2, <1>6, <1>7, FitStays DEF AllFit, LightTypeOK, Standalone, Companion

LEMMA AsideFits ==
  ASSUME LightTypeOK, AllFit, Shapes,
         \/ ble_mesh_ctl_temperature_set \/ console_ctl_temperature_set \/ console_get
         \/ ByHand \/ Answer
  PROVE  AllFit'
<1>1. /\ UNCHANGED <<edition, queue, waiting, air, late>> /\ light'.models = light.models
      /\ QueueFits'
  <2>1. /\ UNCHANGED <<edition, queue, waiting, air, late>>
    BY DEF ble_mesh_ctl_temperature_set, console_ctl_temperature_set, Unacknowledged, console_get,
           ByHand, Answer
  <2>2. light'.models = light.models
    BY DEF ble_mesh_ctl_temperature_set, console_ctl_temperature_set, Unacknowledged, console_get,
           ByHand, Answer, LightTypeOK, ALight
  <2>3. Moved(0, {})
    BY <2>1, MovedNot
  <2> QED BY <2>1, <2>2, <2>3, QueueFitsStill DEF AllFit
<1>2. CASE ble_mesh_ctl_temperature_set \/ console_ctl_temperature_set
  <2>1. /\ Standalone /\ "ctl" \in node.features /\ UNCHANGED <<heard, offered>>
        /\ light' = light \/ light' = [light EXCEPT !.by = "color_temp"]
        /\ node' = node \/ node' = [node EXCEPT !.mode = "color_temp"]
    BY <1>2 DEF ble_mesh_ctl_temperature_set, console_ctl_temperature_set, Unacknowledged
  <2>2. node.features = light.models /\ LightFits /\ RecordFits
    BY <2>1 DEF AllFit, RecordFits
  <2>3. LightFits'
    <3>1. light'.l = light.l /\ light'.was = light.was /\ light'.by \in {light.by, "color_temp"}
      BY <2>1 DEF LightTypeOK, ALight
    <3> QED BY <1>1, <2>1, <2>2, <3>1, ModesGo DEF LightFits
  <2>4. RecordFits'
    <3>1. node'.features = node.features /\ node'.mode \in {node.mode, "color_temp"}
      BY <2>1 DEF LightTypeOK, ANode
    <3> QED BY <1>1, <2>1, <2>2, <3>1, ModesGo DEF RecordFits, Standalone
  <2> QED BY <1>1, <2>1, <2>3, <2>4, FitStays DEF AllFit
<1>3. CASE console_get
  <2>1. Standalone /\ UNCHANGED <<light, node, offered>> /\ ModelOf[heard'.op] \in light.models
    BY <1>3 DEF console_get
  <2>2. AnswersFit'
    BY <1>1, <2>1 DEF AllFit, AnswersFit, Standalone, Companion
  <2> QED BY <1>1, <2>1, <2>2, FitStays DEF AllFit
<1>4. CASE ByHand
  <2>1. Standalone /\ UNCHANGED <<light, node, heard>>
        /\ offered' \in {offered, SupportedModes(node.features), {}}
    BY <1>4 DEF ByHand
  <2>2. node.features = light.models
    BY <2>1 DEF AllFit, RecordFits
  <2>3. OfferFits'
    BY <1>1, <2>1, <2>2, SupportedFit DEF AllFit, OfferFits
  <2> QED BY <1>1, <2>1, <2>3, FitStays DEF AllFit
<1>5. CASE Answer
  <2>1. UNCHANGED <<light, node, offered, shown>>
    BY <1>5 DEF Answer
  <2>2. PICK m \in light.models : heard' = [op |-> StatusFrom[m], got |-> light]
    BY <1>5 DEF Answer
  <2>3. m \in Models
    BY LightHas DEF AllFit, LightFits
  <2>4. StatusFrom[m] \in Statuses /\ ModelOf[StatusFrom[m]] = m
    BY <2>3 DEF StatusFrom, Statuses, ModelOf, Models
  <2>5. AnswersFit'
    BY <1>1, <2>1, <2>2, <2>4 DEF AllFit, AnswersFit
  <2> QED BY <1>1, <2>1, <2>5, FitStays DEF AllFit
<1> QED BY <1>2, <1>3, <1>4, <1>5

LEMMA RefreshFits ==
  ASSUME LightTypeOK, AllFit, Refresh
  PROVE  AllFit'
<1> DEFINE fit == {op \in Asks : op \in Local \/ ModelOf[op] \in node.features}
           ops == RefreshOps(node.features)
           r == Items(ops)
<1>1. Standalone /\ queue' = queue \o r
      /\ UNCHANGED <<edition, light, node, waiting, air, late, heard, offered, shown>>
  BY DEF Refresh
<1>2. ops \in Seq(fit)
  BY RefreshHas
<1> HIDE DEF ops
<1>3. r \in Seq(AnItem) /\ (\A i \in DOMAIN r : r[i].op \in fit)
  <2>1. fit \subseteq DOMAIN ModelOf \union Local
    BY ModelOfIs DEF Asks, Local
  <2> HIDE DEF fit
  <2>2. r \in Seq(AnItem)
    <3>1. ops \in Seq(DOMAIN ModelOf \union Local)
      BY <1>2, <2>1
    <3> QED BY <3>1, ItemsType
  <2>3. \A i \in DOMAIN r : i \in DOMAIN ops /\ r[i].op = ops[i]
    BY OpOfItem DEF Items
  <2>4. \A i \in DOMAIN ops : ops[i] \in fit
    BY <1>2
  <2> QED BY <2>2, <2>3, <2>4
<1> HIDE DEF r
<1>4. Moved(0, fit)
  <2> HIDE DEF fit
  <2> QED BY <1>1, <1>3, MovedBehind
<1>5. \A op \in fit : Has(op) /\ (Companion => op \in Sets \union Ranges)
  BY <1>1 DEF Has, AllFit, RecordFits, Standalone, Companion
<1> HIDE DEF fit
<1>6. QueueFits'
  BY <1>1, <1>4, <1>5, QueueFitsStill DEF AllFit
<1> QED BY <1>1, <1>6, FitStays DEF AllFit

\* A status heard, in answer to a message or to a group Get, by the Companion.
LEMMA ToldFits ==
  ASSUME LightTypeOK, AllFit, Companion, NEW op \in DOMAIN ModelOf, NEW got \in ALight, NEW s \in BOOLEAN,
         NEW q \in Seq(AnItem), Told(Upserted(node, op, got, s), q, ModelOf[op]),
         q = queue \/ (queue # <<>> /\ q = Tail(queue)),
         ModelOf[op] \in light.models, op \in Statuses \/ queue # <<>>,
         UNCHANGED <<edition, light, late>>, heard' \in {heard, Nothing}
  PROVE  AllFit'
<1> DEFINE u == Upserted(node, op, got, s)
           m == ModelOf[op]
<1>0. m \in Models /\ node \in ANode /\ RecordFits /\ CompanionFits /\ QueueFits
  BY ModelOfIs DEF LightTypeOK, AllFit
<1>1. /\ node' = u /\ offered' = SupportedModes(u.features) /\ shown' = StatusOf(u)
      /\ \E r \in Seq(AnItem) : /\ queue' = q \o r
                                /\ \A i \in DOMAIN r : r[i].op = RangeOf[m] /\ m \in LightModels
  <2> HIDE DEF u, m
  <2>1. Told(u, q, m)
    BY DEF u, m
  <2> QED BY <1>0, <2>1, ToldAdds
<1>2. /\ u.features \subseteq light.models /\ ModeFits(u.features, u.mode)
      /\ u.l \in {0, u.last} /\ (u.on => u.l = u.last)
      /\ op \notin Ranges \/ node.features # {} => u.features # {}
  <2>1. node.features \subseteq light.models /\ ModeFits(node.features, node.mode)
        /\ node.l \in {0, node.last} /\ (node.on => node.l = node.last)
    BY <1>0 DEF RecordFits, CompanionFits
  <2> HIDE DEF u
  <2>2. u = Upserted(node, op, got, s)
    BY DEF u
  <2> QED BY <1>0, <2>1, <2>2, UpsertFits
<1> HIDE DEF u
<1>3. u.features # {}
  <2>1. op \in Statuses => op \notin Ranges
    BY DEF Statuses, Ranges
  <2>2. queue # <<>> => node.features # {}
    BY <1>0 DEF CompanionFits
  <2> QED BY <1>2, <2>1, <2>2
<1>4. PICK r \in Seq(AnItem) : /\ queue' = q \o r
                               /\ \A i \in DOMAIN r : r[i].op = RangeOf[m] /\ m \in LightModels
  BY <1>1
<1> DEFINE ops == IF m \in LightModels THEN {RangeOf[m]} ELSE {}
<1>5. \E d \in {0, 1} : Moved(d, ops)
  <2>1. \A i \in DOMAIN r : r[i].op \in ops
    BY <1>4
  <2> HIDE DEF ops
  <2>2. CASE q = queue
    BY <1>4, <2>1, <2>2, MovedBehind
  <2>3. CASE queue # <<>> /\ q = Tail(queue)
    BY <1>4, <2>1, <2>3, MovedOn
  <2> QED BY <2>2, <2>3
<1>6. \A x \in ops : Has(x) /\ (Companion => x \in Sets \union Ranges)
  BY RangesOf DEF Has
<1> HIDE DEF ops
<1>7. QueueFits'
  BY <1>0, <1>5, <1>6, QueueFitsStill
<1>8. RecordFits'
  BY <1>1, <1>2 DEF RecordFits, Standalone, Companion
<1>9. OfferFits'
  <2>1. \A x : x \in offered' => x \in SupportedModes(u.features)
    BY <1>1
  <2> QED BY <1>2, <2>1, SupportedFit DEF OfferFits
<1>10. CompanionFits'
  <2>1. shown' = StatusOf(node') /\ StatusOf(node') = StatusOf(node)'
    BY <1>1 DEF StatusOf, Companion
  <2>2. StatusOf(u) # Nothing
    <3>1. "mode" \in DOMAIN StatusOf(u) /\ "mode" \notin DOMAIN Nothing
      BY DEF StatusOf, Nothing
    <3> QED BY <3>1
  <2>3. late' = Nothing
    BY <1>0 DEF CompanionFits
  <2> QED BY <1>1, <1>2, <1>3, <2>1, <2>2, <2>3 DEF CompanionFits, Companion
<1> QED BY <1>7, <1>8, <1>9, <1>10, FitStays DEF AllFit

LEMMA OverhearFits ==
  ASSUME LightTypeOK, AllFit, Shapes, Overhear
  PROVE  AllFit'
<1>1. heard # Nothing /\ heard' = Nothing /\ UNCHANGED <<edition, light, waiting, air, late>>
  BY DEF Overhear
<1>2. /\ ModelOf[heard.op] \in light.models /\ heard.op \in DOMAIN ModelOf /\ heard.got \in ALight
      /\ (Companion => heard.op \in Statuses) /\ queue \in Seq(AnItem)
  BY <1>1 DEF AllFit, AnswersFit, LightTypeOK, AnAnswer
<1>3. CASE Companion
  <2>1. Told(Upserted(node, heard.op, heard.got, FALSE), queue, ModelOf[heard.op])
    BY <1>3 DEF Overhear, Standalone, Companion
  <2> QED BY <1>1, <1>2, <1>3, <2>1, ToldFits
<1>4. CASE Standalone
  <2>1. node' = Stored(node, heard.op, heard.got) /\ UNCHANGED <<queue, offered, shown>>
    BY <1>4 DEF Overhear
  <2>2. node'.features = node.features /\ node'.mode = node.mode
    BY <2>1 DEF Stored, LightTypeOK, ANode
  <2>3. RecordFits'
    BY <1>1, <2>2 DEF AllFit, RecordFits, Standalone
  <2>4. Moved(0, {})
    BY <2>1, MovedNot
  <2>5. QueueFits'
    BY <1>1, <2>4, QueueFitsStill DEF AllFit
  <2> QED BY <1>1, <1>4, <2>1, <2>3, <2>5, FitStays DEF AllFit
<1> QED BY <1>3, <1>4 DEF LightTypeOK, Standalone, Companion

LEMMA SendFrontFits ==
  ASSUME LightTypeOK, AllFit, Shapes, SendFront
  PROVE  AllFit'
<1> DEFINE i == Head(queue)
           a == IF Standalone THEN MadeOf(node, i.op) ELSE i.args
           after == Effect(i.op, a)
<1>1. /\ queue # <<>> /\ i.op \notin Local /\ node' = SentMode(node, i.op)
      /\ light' \in {light, after}
      /\ UNCHANGED <<edition, queue, late, heard, offered, shown>>
  <2>1. /\ queue # <<>> /\ i.op \notin Local /\ node' = SentMode(node, i.op)
        /\ light' = after \/ light' \in {light, after}
        /\ UNCHANGED <<edition, queue, late, heard, offered, shown>>
    BY DEF SendFront
  <2>2. light' \in {light, after}
    BY <2>1
  <2> HIDE DEF i, after
  <2> QED BY <2>1, <2>2
<1>2. /\ queue \in Seq(AnItem) /\ i \in AnItem /\ i.op \in DOMAIN ModelOf /\ 1 \in DOMAIN queue /\ i = queue[1]
      /\ node \in ANode /\ light \in ALight
  <2>1. queue \in Seq(AnItem) /\ node \in ANode /\ light \in ALight
    BY DEF LightTypeOK
  <2>2. i \in AnItem /\ 1 \in DOMAIN queue /\ i = queue[1]
    BY <1>1, <2>1
  <2> HIDE DEF i
  <2>3. i.op \in DOMAIN ModelOf
    BY <1>1, <2>2 DEF AnItem
  <2> QED BY <2>1, <2>2, <2>3
<1>3. ModelOf[i.op] \in light.models
  BY <1>1, <1>2 DEF AllFit, QueueFits, Has
<1>4. a.l \in Numbers
  BY <1>2, SaidType DEF AnItem
<1> HIDE DEF a
<1>5. after.models = light.models /\ ModeFits(after.models, after.by) /\ after.l \in {0, after.was}
  <2> HIDE DEF after, i
  <2>1. after = Effect(i.op, a)
    BY DEF after
  <2> QED BY <1>2, <1>3, <1>4, <2>1, EffectFits DEF AllFit
<1> HIDE DEF after
<1>6. LightFits' /\ light'.models = light.models
  BY <1>1, <1>5 DEF AllFit, LightFits
<1>7. Moved(0, {})
  BY <1>1, MovedNot
<1>8. QueueFits'
  BY <1>1, <1>6, <1>7, QueueFitsStill DEF AllFit
<1>9. RecordFits' /\ (Companion => node' = node)
  <2>1. /\ node'.features = node.features /\ (Companion => node' = node)
        /\ node'.mode = node.mode \/ (i.op = "hslSet" /\ node'.mode = "hs" /\ Standalone)
    BY <1>1, <1>2 DEF SentMode, ANode, Standalone, Companion
  <2>2. i.op = "hslSet" => "hsl" \in light.models
    BY <1>3 DEF ModelOf
  <2> QED BY <1>1, <1>6, <2>1, <2>2, ModesGo DEF AllFit, RecordFits, Standalone
<1>11. CompanionFits'
  <2>1. CASE Companion
    BY <1>1, <1>9, <2>1, FitStays
  <2>2. CASE Standalone
    BY <1>1, <2>2, FitStays
  <2> QED BY <2>1, <2>2 DEF LightTypeOK, Standalone, Companion
<1> QED BY <1>1, <1>6, <1>8, <1>9, <1>11, FitStays DEF AllFit

LEMMA PublishFits ==
  ASSUME LightTypeOK, AllFit, Shapes, Publish
  PROVE  AllFit'
<1>1. /\ queue # <<>> /\ Head(queue).op \in Local /\ queue' = Tail(queue)
      /\ UNCHANGED <<edition, light, node, waiting, air, late, heard>>
      /\ offered' \in {offered, SupportedModes(node.features)}
  BY DEF Publish
<1>2. Standalone
  <2>1. queue[1] = Head(queue) /\ 1 \in DOMAIN queue
    BY <1>1 DEF LightTypeOK
  <2>2. Companion => Head(queue).op \in Sets \union Ranges
    BY <2>1 DEF AllFit, QueueFits
  <2> QED BY <1>1, <2>2 DEF Local, Sets, Ranges, LightTypeOK, Standalone, Companion
<1>3. QueueFits'
  <2> DEFINE e == <<>>
  <2>1. e \in Seq(AnItem) /\ queue' = Tail(queue) \o e /\ DOMAIN e = {}
    BY <1>1, NoneAdded
  <2> HIDE DEF e
  <2>2. Moved(1, {})
    BY <1>1, <2>1, MovedOn
  <2> QED BY <1>1, <2>2, QueueFitsStill DEF AllFit
<1>4. OfferFits'
  BY <1>1, <1>2, SupportedFit DEF AllFit, OfferFits, RecordFits
<1> QED BY <1>1, <1>2, <1>3, <1>4, FitStays DEF AllFit

LEMMA ReplyFits ==
  ASSUME LightTypeOK, AllFit, Shapes, Reply
  PROVE  AllFit'
<1>1. /\ waiting /\ air \notin {Nothing, Lost} /\ late = Nothing
      /\ UNCHANGED <<edition, light, heard>>
  BY DEF Reply
<1>2. /\ queue # <<>> /\ queue \in Seq(AnItem) /\ Tail(queue) \in Seq(AnItem)
      /\ air \in AnAnswer /\ air.op = Head(queue).op /\ air.op \in DOMAIN ModelOf
      /\ air.got \in ALight /\ node \in ANode
  BY <1>1 DEF LightTypeOK, Shapes, AnAnswer
<1>3. ModelOf[air.op] \in light.models
  <2>1. queue[1] = Head(queue) /\ 1 \in DOMAIN queue
    BY <1>2
  <2> QED BY <1>2, <2>1, ModelOfIs DEF AllFit, QueueFits, Has, Local
<1>4. CASE Companion
  <2>1. Told(Upserted(node, air.op, air.got, air.op \in Sets), Tail(queue), ModelOf[air.op]) /\ late' = late
    BY <1>4 DEF Reply, Companion
  <2>2. (air.op \in Sets) \in BOOLEAN
    OBVIOUS
  <2> QED BY <1>1, <1>2, <1>3, <1>4, <2>1, <2>2, ToldFits
<1>5. CASE Standalone
  <2>1. /\ queue' = Tail(queue) /\ offered' = offered
        /\ IF ModelOf[air.op] \in {"onoff", "level"}
             THEN late' = air /\ node' = node
             ELSE node' = Stored(node, air.op, air.got) /\ late' = late
    BY <1>5 DEF Reply, Companion, Standalone
  <2>2. node'.features = node.features /\ node'.mode = node.mode
    BY <1>2, <2>1 DEF Stored, ANode
  <2>3. RecordFits'
    BY <1>1, <2>2 DEF AllFit, RecordFits, Standalone
  <2>4. QueueFits'
    <3> DEFINE e == <<>>
    <3>1. e \in Seq(AnItem) /\ queue' = Tail(queue) \o e /\ DOMAIN e = {}
      BY <1>2, <2>1, NoneAdded
    <3> HIDE DEF e
    <3>2. Moved(1, {})
      BY <1>2, <3>1, MovedOn
    <3> QED BY <1>1, <3>2, QueueFitsStill DEF AllFit
  <2>5. AnswersFit'
    BY <1>1, <1>3, <1>5, <2>1 DEF AllFit, AnswersFit, Standalone, Companion
  <2> QED BY <1>1, <1>5, <2>1, <2>3, <2>4, <2>5, FitStays DEF AllFit
<1> QED BY <1>4, <1>5 DEF LightTypeOK, Standalone, Companion

LEMMA StoreLateFits ==
  ASSUME LightTypeOK, AllFit, Shapes, StoreLate
  PROVE  AllFit'
<1>1. /\ late # Nothing /\ node' = StoredLate(node, late.op, late.got) /\ late' = Nothing
      /\ UNCHANGED <<edition, light, queue, waiting, air, heard, offered, shown>>
  BY DEF StoreLate
<1>2. Standalone
  BY <1>1 DEF AllFit, CompanionFits, LightTypeOK, Standalone, Companion
<1>3. node'.features = node.features /\ node'.mode = node.mode
  BY <1>1 DEF StoredLate, LightTypeOK, ANode
<1>4. RecordFits'
  BY <1>1, <1>3 DEF AllFit, RecordFits, Standalone
<1>5. Moved(0, {})
  BY <1>1, MovedNot
<1>6. QueueFits'
  BY <1>1, <1>5, QueueFitsStill DEF AllFit
<1> QED BY <1>1, <1>2, <1>4, <1>6, FitStays DEF AllFit

LEMMA TimeoutFits ==
  ASSUME LightTypeOK, AllFit, Shapes, Timeout
  PROVE  AllFit'
<1>1. /\ waiting /\ late = Nothing
      /\ late' = (IF Standalone /\ Head(queue).op = "onoffSet"
                    THEN [op |-> Head(queue).op, got |-> [light EXCEPT !.l = 0]] ELSE Nothing)
      /\ UNCHANGED <<edition, light, node, heard, offered, shown>>
  BY DEF Timeout
<1>2. queue # <<>> /\ \E d \in {0, 1} : Moved(d, {})
  BY TimeoutMoves
<1>3. QueueFits'
  BY <1>1, <1>2, QueueFitsStill DEF AllFit
<1>4. Has(Head(queue).op)
  <2>1. queue[1] = Head(queue) /\ 1 \in DOMAIN queue
    BY <1>2 DEF LightTypeOK
  <2> QED BY <2>1 DEF AllFit, QueueFits
<1>5. CASE Companion
  <2>1. late' = late /\ shown # Nothing
    BY <1>1, <1>2, <1>5 DEF Standalone, Companion, AllFit, CompanionFits
  <2> QED BY <1>1, <1>3, <2>1, FitStays DEF AllFit
<1>6. CASE Standalone
  <2>1. AnswersFit'
    <3>1. late' # Nothing => late'.op = Head(queue).op /\ Head(queue).op = "onoffSet"
      BY <1>1
    <3>2. late' # Nothing => ModelOf[late'.op] \in light.models /\ ModelOf[late'.op] \in {"onoff", "level"}
      BY <1>4, <3>1 DEF Has, ModelOf, Local
    <3> QED BY <1>1, <1>6, <3>2 DEF AllFit, AnswersFit, Standalone, Companion
  <2> QED BY <1>1, <1>3, <1>6, <2>1, FitStays DEF AllFit
<1> QED BY <1>5, <1>6 DEF LightTypeOK, Standalone, Companion

(***************************************************************************)
(* What the light is shown as.                                             *)
(***************************************************************************)
Sure == doubts \subseteq {"web", "belated"}
ColourSets == {"hslSet", "ctlSet"}
View(by, l) == IF by = "hs" THEN Brightness(l, LightMax) ELSE l
HasLight(n) == n.features \intersect LightModels # {}
Learned == light.models \intersect LightModels \subseteq node.features
Matches(n) == n.mode = "hs" <=> light.by = "hs"
Answered == waiting /\ air \notin {Nothing, Lost}

LEMMA ViewIs ==
  ASSUME NEW by, NEW l \in 0 .. LightMax
  PROVE  View(by, l) \in 0 .. LightMax /\ (View(by, l) > 0 <=> l > 0)
<1> DEFINE half == LightMax \div 2
           hd == half \div 2
           a == l * LightMax + hd
           b == a \div half
<1>1. LightMax \in Nat \ {0} /\ l \in Nat /\ half \in Nat /\ hd \in Nat
      /\ LightMax \in {2 * half, 2 * half + 1} /\ half \in {2 * hd, 2 * hd + 1}
  BY ScalesAre
<1>2. CASE by # "hs" \/ half = 0
  BY <1>1, <1>2 DEF View, Brightness
<1>3. CASE by = "hs" /\ half # 0
  <2>1. View(by, l) = LeastOf(b, LightMax)
    BY <1>3 DEF View, Brightness
  <2>2. a \in Nat /\ (l = 0 => a = hd) /\ (l > 0 => a >= LightMax)
    <3>1. l * LightMax \in Nat /\ (l = 0 => l * LightMax = 0)
      BY <1>1
    <3>2. l > 0 => l * LightMax >= LightMax
      <4>1. SUFFICES ASSUME l > 0 PROVE l * LightMax >= LightMax
        OBVIOUS
      <4>2. (l - 1) * LightMax \in Nat /\ l * LightMax = (l - 1) * LightMax + LightMax
        BY <1>1, <4>1
      <4> QED BY <1>1, <4>2
    <3> HIDE DEF half, hd
    <3> QED BY <1>1, <3>1, <3>2
  <2> HIDE DEF a, half, hd
  <2>3. b \in Nat /\ half * b <= a /\ a < half * b + half
    BY <1>1, <1>3, <2>2, QuotientIs
  <2> HIDE DEF b
  <2>4. l = 0 => b = 0
    <3>1. SUFFICES ASSUME l = 0, b # 0 PROVE FALSE
      OBVIOUS
    <3>2. half * b = half * (b - 1) + half /\ half * (b - 1) \in Nat
      BY <1>1, <2>3, <3>1
    <3> QED BY <1>1, <1>3, <2>2, <2>3, <3>1, <3>2
  <2>5. l > 0 => b > 0
    <3>1. SUFFICES ASSUME l > 0, b = 0 PROVE FALSE
      BY <2>3
    <3>2. half * b = 0
      BY <1>1, <3>1
    <3> QED BY <1>1, <1>3, <2>2, <2>3, <3>1, <3>2
  <2> QED BY <1>1, <2>1, <2>3, <2>4, <2>5 DEF LeastOf
<1> QED BY <1>2, <1>3

LEMMA PendingMoves ==
  ASSUME LightTypeOK, LightTypeOK', NEW d \in {0, 1}, NEW ops, Moved(d, ops), NEW S
  PROVE  /\ S \intersect ops = {} /\ Pending(S)' => Pending(S)
         /\ (d = 0 \/ (queue # <<>> /\ Head(queue).op \notin S)) /\ Pending(S) => Pending(S)'
<1>1. queue \in Seq(AnItem) /\ DOMAIN queue = 1 .. Len(queue) /\ Len(queue) \in Nat
  BY DEF LightTypeOK
<1>2. ASSUME S \intersect ops = {}, NEW j \in DOMAIN queue', queue'[j].op \in S
      PROVE  Pending(S)
  <2>1. j + d \in DOMAIN queue
    BY <1>2 DEF Moved
  <2>2. queue'[j].op = queue[j + d].op
    BY <1>2, <2>1 DEF Moved
  <2> QED BY <1>2, <2>1, <2>2 DEF Pending
<1>3. ASSUME d = 0 \/ (queue # <<>> /\ Head(queue).op \notin S), NEW i \in DOMAIN queue, queue[i].op \in S
      PROVE  Pending(S)'
  <2>1. i > d
    BY <1>1, <1>3
  <2>2. i - d \in DOMAIN queue' /\ (i - d) + d = i
    BY <1>1, <1>3, <2>1 DEF Moved
  <2>3. queue'[i - d].op = queue[i].op
    BY <1>3, <2>2 DEF Moved
  <2> QED BY <1>3, <2>2, <2>3 DEF Pending
<1> QED BY <1>2, <1>3 DEF Pending

\* What the Companion's record is after a status that says how the light is.
LEMMA UpsertShows ==
  ASSUME LightTypeOK, AllFit, NEW op \in DOMAIN ModelOf, ModelOf[op] \in light.models,
         NEW s \in BOOLEAN, NEW u, u = Upserted(node, op, light, s),
         "hsl" \in light.models => node.maxL = LightMax
  PROVE  /\ node.features \intersect LightModels \subseteq u.features
         /\ "hsl" \in light.models => u.maxL = LightMax
         /\ op \in LightOps =>
              /\ HasLight(u) /\ "level" \notin u.features
              /\ u.mode = IF ModelOf[op] = "lightness" \/ (~s /\ BothColours(u.features)) THEN node.mode
                     ELSE IF ModelOf[op] = "hsl" THEN "hs" ELSE "color_temp"
              /\ Matches(u) => /\ u.l = View(light.by, light.l) /\ (u.on <=> light.l > 0)
                               /\ u.last = IF light.l > 0 THEN View(light.by, light.was) ELSE node.last
         /\ op \notin LightOps =>
              /\ u.last = node.last /\ u.mode = node.mode
              /\ u.features \intersect LightModels = node.features \intersect LightModels
         /\ op \in {"onoffSet", "onoffGet"} => (u.on <=> light.l > 0) /\ "onoff" \in u.features
         /\ op \notin LightOps \union {"onoffSet", "onoffGet"} =>
              u.on = node.on /\ u.features \intersect {"onoff"} = node.features \intersect {"onoff"}
         /\ "level" \in u.features /\ ~HasLight(u) =>
              IF op = "levelSet" THEN u.level = light.level
              ELSE "level" \in node.features /\ ~HasLight(node) /\ u.level = node.level
<1>0. node \in ANode /\ light \in ALight /\ u \in ANode /\ light.l \in 0 .. LightMax
      /\ light.was \in 0 .. LightMax /\ light.l \in {0, light.was}
  <2>1. node \in ANode /\ light \in ALight
    BY DEF LightTypeOK
  <2>2. u \in ANode
    BY <2>1, UpsertedType
  <2> QED BY <2>1, <2>2, ScalesAre DEF ALight, AllFit, LightFits
<1>1. CASE op \in {"onoffSet", "onoffGet"}
  <2>1. /\ u.features = node.features \union {"onoff"} /\ u.mode = node.mode /\ u.maxL = node.maxL
        /\ u.level = node.level /\ u.last = node.last
    BY <1>0, <1>1, HeardOnOff
  <2>2. u.on = (light.l > 0)
    BY <1>0, <1>1, HeardOnOff
  <2>3. op \notin LightOps /\ op # "levelSet"
    BY <1>1 DEF LightOps
  <2> QED BY <1>1, <2>1, <2>2, <2>3 DEF LightModels, HasLight
<1>2. CASE op = "levelSet"
  <2>1. /\ u.mode = node.mode /\ u.maxL = node.maxL /\ u.last = node.last /\ u.on = node.on
        /\ IF node.features \intersect LightModels # {}
             THEN u.features = node.features /\ u.level = node.level
             ELSE u.features = node.features \union {"level"} /\ u.level = light.level
    BY <1>0, <1>2, HeardLevel
  <2>2. op \notin LightOps /\ op \notin {"onoffSet", "onoffGet"}
    BY <1>2 DEF LightOps
  <2> QED BY <1>2, <2>1, <2>2 DEF LightModels, HasLight
<1>3. CASE op \in LightOps
  <2>1. /\ ModelOf[op] \in LightModels
        /\ u.features = (node.features \union {ModelOf[op]}) \ {"level"}
        /\ u.maxL = node.maxL
        /\ u.mode = IF ModelOf[op] = "lightness" \/ (~s /\ BothColours(u.features)) THEN node.mode
                     ELSE IF ModelOf[op] = "hsl" THEN "hs" ELSE "color_temp"
    BY <1>0, <1>3, HeardLight
  <2>2. u.l = HeardAs(u.mode, light.l, node.maxL)
    BY <1>0, <1>3, HeardLight
  <2>3. u.on = (u.l > 0) /\ u.last = IF u.l > 0 THEN u.l ELSE node.last
    BY <1>0, <1>3, HeardLight
  <2>4. HasLight(u) /\ node.features \intersect LightModels \subseteq u.features /\ "level" \notin u.features
    BY <2>1 DEF HasLight, LightModels
  <2>5. ASSUME Matches(u)
        PROVE  u.l = View(light.by, light.l)
    <3>1. u.mode = "hs" => "hsl" \in light.models
      BY <2>5, ModesGo DEF Matches, AllFit, LightFits
    <3> QED BY <2>2, <2>5, <3>1 DEF HeardAs, View, Matches
  <2>6. View(light.by, light.l) \in 0 .. LightMax /\ (View(light.by, light.l) > 0 <=> light.l > 0)
    BY <1>0, ViewIs
  <2>7. ASSUME Matches(u)
        PROVE  /\ (u.on <=> light.l > 0)
               /\ u.last = IF light.l > 0 THEN View(light.by, light.was) ELSE node.last
    <3>1. light.l > 0 => light.l = light.was
      BY <1>0
    <3> QED BY <2>3, <2>5, <2>6, <2>7, <3>1
  <2>8. op \notin {"onoffSet", "onoffGet", "levelSet"}
    BY <1>3 DEF LightOps
  <2> QED BY <1>3, <2>1, <2>4, <2>5, <2>7, <2>8
<1>4. CASE op \in Ranges
  <2>1. /\ u.features = node.features /\ u.mode = node.mode /\ u.on = node.on
        /\ u.last = node.last /\ u.level = node.level /\ u.maxL \in {node.maxL, LightMax}
    BY <1>0, <1>4, HeardRange
  <2>2. op \notin LightOps /\ op \notin {"onoffSet", "onoffGet", "levelSet"}
    BY <1>4 DEF LightOps, Ranges
  <2> QED BY <2>1, <2>2 DEF HasLight
<1> QED BY <1>1, <1>2, <1>3, <1>4, EveryOp

(***************************************************************************)
(* The Companion's record and the light, while nothing is in doubt: which  *)
(* mode and range are known, what the messages say, that the record is of  *)
(* the light as it was heard last unless a message is still to change it,  *)
(* and that the brightness asked for has come to the light or is to come.  *)
(***************************************************************************)
Switches == ValueSets \union {"onoffSet"}

CKnown ==
  /\ "hsl" \in light.models => node.maxL = LightMax /\ Learned
  /\ ~Learned => ~Pending({"onoffSet"} \union ColourSets)
  /\ ~Pending(ColourSets) => Matches(node)
  /\ "level" \in node.features /\ ~Pending({"levelSet"}) => HasLight(node) \/ node.level = light.level
  /\ want # Nothing /\ ~want.cover => "level" \notin light.models \/ HasLight(node)

CSent ==
  /\ \A i \in DOMAIN queue : queue[i].op \in ValueSets => queue[i].args.l > 0
  /\ Answered => /\ air.got = light
                 /\ air.op \in ValueSets => light.l > 0
                 /\ air.op = "hslSet" => light.by = "hs"
                 /\ air.op = "ctlSet" => light.by = "color_temp"

AllOff == \A i \in DOMAIN queue : queue[i].op = "onoffSet" => ~queue[i].args.on
CLast ==
  ~Pending(ValueSets) =>
    /\ node.last > 0 => node.last = View(light.by, light.was)
    /\ node.last = 0 /\ HasLight(node) => light.l = 0 /\ AllOff
COn ==
  ~Pending(Switches) /\ (HasLight(node) \/ "onoff" \in node.features) => (node.on <=> light.l > 0)

CShows == Companion /\ Sure => CKnown /\ CSent /\ CLast /\ COn

\* What the light says of itself leaves the record true.
LEMMA ToldShows ==
  ASSUME LightTypeOK, LightTypeOK', AllFit, CKnown, CSent, CLast, COn, NEW op \in DOMAIN ModelOf,
         ModelOf[op] \in light.models, NEW s \in BOOLEAN, node' = Upserted(node, op, light, s),
         NEW d \in {0, 1}, Moved(d, Ranges), UNCHANGED <<light, want>>,
         d = 1 => queue # <<>> /\ Head(queue).op = op /\ (op \in ValueSets => light.l > 0),
         ~Pending(ColourSets)' => Matches(node)'
  PROVE  CKnown' /\ CLast' /\ COn'
<1> DEFINE u == node'
<1>0. op \in ValueSets => op \in LightOps
  BY DEF ValueSets, LightOps
<1>1. /\ node.features \intersect LightModels \subseteq u.features
      /\ "hsl" \in light.models => u.maxL = LightMax
      /\ op \in LightOps =>
           /\ HasLight(u) /\ "level" \notin u.features
           /\ Matches(u) => /\ u.l = View(light.by, light.l) /\ (u.on <=> light.l > 0)
                            /\ u.last = IF light.l > 0 THEN View(light.by, light.was) ELSE node.last
      /\ op \notin LightOps =>
           /\ u.last = node.last /\ u.mode = node.mode
           /\ u.features \intersect LightModels = node.features \intersect LightModels
      /\ op \in {"onoffSet", "onoffGet"} => (u.on <=> light.l > 0) /\ "onoff" \in u.features
      /\ op \notin LightOps \union {"onoffSet", "onoffGet"} =>
           u.on = node.on /\ u.features \intersect {"onoff"} = node.features \intersect {"onoff"}
      /\ "level" \in u.features /\ ~HasLight(u) =>
           IF op = "levelSet" THEN u.level = light.level
           ELSE "level" \in node.features /\ ~HasLight(node) /\ u.level = node.level
  <2>1. "hsl" \in light.models => node.maxL = LightMax
    BY DEF CKnown
  <2> HIDE DEF u
  <2>2. u = Upserted(node, op, light, s)
    BY DEF u
  <2> QED BY <2>1, <2>2, UpsertShows
<1>2. HasLight(node) => HasLight(u)
  BY <1>1 DEF HasLight
<1>3. /\ \A S : S \intersect Ranges = {} /\ Pending(S)' => Pending(S)
      /\ \A S : op \notin S /\ Pending(S) => Pending(S)'
  BY PendingMoves
<1>4. /\ Learned' = (light.models \intersect LightModels \subseteq u.features)
      /\ HasLight(node)' = HasLight(u) /\ Matches(node)' = Matches(u)
  BY DEF Learned, HasLight, Matches
<1>5. Learned => Learned'
  BY <1>1, <1>4 DEF Learned
<1>6. CKnown'
  <2>1. "hsl" \in light.models => u.maxL = LightMax /\ Learned'
    BY <1>1, <1>5 DEF CKnown
  <2>2. ~Learned' => ~Pending({"onoffSet"} \union ColourSets)'
    <3>1. ({"onoffSet"} \union ColourSets) \intersect Ranges = {}
      BY DEF ColourSets, Ranges
    <3> QED BY <1>3, <1>5, <3>1 DEF CKnown
  <2>3. "level" \in u.features /\ ~Pending({"levelSet"})' => HasLight(u) \/ u.level = light.level
    <3>1. op # "levelSet" /\ ~Pending({"levelSet"})' => ~Pending({"levelSet"})
      BY <1>3
    <3> QED BY <1>1, <3>1 DEF CKnown
  <2>4. want # Nothing /\ ~want.cover => "level" \notin light.models \/ HasLight(u)
    BY <1>2 DEF CKnown
  <2> QED BY <1>4, <2>1, <2>2, <2>3, <2>4 DEF CKnown
<1>7. ~Pending(ValueSets)' => ~Pending(ColourSets)'
  BY DEF Pending, ValueSets, ColourSets
<1>8. ~Pending(Switches)' => ~Pending(ValueSets)'
  BY DEF Pending, Switches
<1>9. CLast'
  <2>1. SUFFICES ASSUME ~Pending(ValueSets)'
                 PROVE  /\ u.last > 0 => u.last = View(light.by, light.was)
                        /\ u.last = 0 /\ HasLight(u) => light.l = 0 /\ AllOff'
    BY <1>4 DEF CLast
  <2>2. Matches(u)
    BY <1>4, <1>7, <2>1
  <2>3. AllOff => AllOff'
    <3>1. "onoffSet" \notin Ranges
      BY DEF Ranges
    <3> QED BY <3>1 DEF AllOff, Moved
  <2>4. CASE op \notin ValueSets /\ ~Pending(ValueSets) /\ (op \notin LightOps \/ light.l = 0)
    <3>1. u.last = node.last
      BY <1>1, <2>2, <2>4
    <3>2. node.last > 0 => node.last = View(light.by, light.was)
      BY <2>4 DEF CLast
    <3>3. ASSUME node.last = 0, HasLight(u)
          PROVE  light.l = 0 /\ AllOff'
      <4>1. CASE HasLight(node)
        BY <2>3, <2>4, <3>3, <4>1 DEF CLast
      <4>2. CASE ~HasLight(node)
        <5>1. op \in LightOps /\ light.l = 0
          BY <1>1, <2>4, <3>3, <4>2 DEF HasLight
        <5>2. ModelOf[op] \in LightModels
          BY <5>1 DEF LightOps, LightModels, ModelOf
        <5>3. ~Learned
          BY <4>2, <5>2 DEF Learned, HasLight
        <5>4. ~Pending({"onoffSet"} \union ColourSets)
          BY <5>3 DEF CKnown
        <5>5. AllOff
          BY <5>4 DEF Pending, AllOff
        <5> QED BY <2>3, <5>1, <5>5
      <4> QED BY <4>1, <4>2
    <3> QED BY <3>1, <3>2, <3>3
  <2>5. CASE op \in LightOps /\ light.l > 0
    <3>1. u.last = View(light.by, light.was)
      BY <1>1, <2>2, <2>5
    <3>2. u.last > 0
      <4>1. light.was \in 0 .. LightMax /\ light.was > 0
        BY ScalesAre DEF LightTypeOK, ALight
      <4> QED BY <3>1, <4>1, ViewIs
    <3> QED BY <3>1, <3>2
  <2>6. light.l \in Nat
    BY DEF LightTypeOK, ALight
  <2>7. op \notin ValueSets => ~Pending(ValueSets)
    BY <1>3, <2>1
  <2>8. CASE op \in ValueSets /\ light.l = 0 /\ d = 0
    <3>1. ~Pending(ValueSets)
      BY <2>1, <2>8, PendingMoves
    <3>2. u.last = node.last
      BY <1>0, <1>1, <2>2, <2>8
    <3>3. node.last > 0 => node.last = View(light.by, light.was)
      BY <3>1 DEF CLast
    <3>4. ASSUME node.last = 0
          PROVE  AllOff'
      <4>1. CASE HasLight(node)
        BY <2>3, <3>1, <3>4, <4>1 DEF CLast
      <4>2. CASE ~HasLight(node)
        <5>2. ModelOf[op] \in LightModels
          BY <1>0, <2>8 DEF LightOps, LightModels, ModelOf
        <5>3. ~Learned
          BY <4>2, <5>2 DEF Learned, HasLight
        <5>4. ~Pending({"onoffSet"} \union ColourSets)
          BY <5>3 DEF CKnown
        <5>5. AllOff
          BY <5>4 DEF Pending, AllOff
        <5> QED BY <2>3, <5>5
      <4> QED BY <4>1, <4>2
    <3> QED BY <2>8, <3>2, <3>3, <3>4
  <2> QED BY <1>0, <2>4, <2>5, <2>6, <2>7, <2>8
<1>10. COn'
  <2>1. SUFFICES ASSUME ~Pending(Switches)', HasLight(u) \/ "onoff" \in u.features
                 PROVE  u.on <=> light.l > 0
    BY <1>4 DEF COn
  <2>2. CASE op \in LightOps
    <3>1. Matches(u)
      BY <1>4, <1>7, <1>8, <2>1
    <3> QED BY <1>1, <2>2, <3>1
  <2>3. CASE op \in {"onoffSet", "onoffGet"}
    BY <1>1, <2>3
  <2>4. CASE op \notin LightOps \union {"onoffSet", "onoffGet"}
    <3>1. op \notin Switches
      BY <1>0, <2>4 DEF Switches
    <3>2. ~Pending(Switches)
      BY <1>3, <2>1, <3>1
    <3>3. HasLight(node) \/ "onoff" \in node.features
      BY <1>1, <2>1, <2>4 DEF HasLight
    <3>4. u.on = node.on /\ (node.on <=> light.l > 0)
      BY <1>1, <2>4, <3>2, <3>3 DEF COn
    <3> QED BY <3>4
  <2> QED BY <2>2, <2>3, <2>4
<1> QED BY <1>6, <1>9, <1>10

\* A status that is not an answer to a message says of both colours what the mode is of.
LEMMA ModeStays ==
  ASSUME LightTypeOK, AllFit, CKnown, NEW op \in DOMAIN ModelOf, ModelOf[op] \in light.models,
         node' = Upserted(node, op, light, FALSE), Matches(node), light' = light
  PROVE  Matches(node)'
<1> DEFINE u == node'
<1>1. /\ op \notin LightOps => u.mode = node.mode
      /\ op \in LightOps => u.mode = IF ModelOf[op] = "lightness" \/ BothColours(u.features) THEN node.mode
                     ELSE IF ModelOf[op] = "hsl" THEN "hs" ELSE "color_temp"
      /\ node.features \intersect LightModels \subseteq u.features
  <2>1. "hsl" \in light.models => node.maxL = LightMax
    BY DEF CKnown
  <2> HIDE DEF u
  <2>2. u = Upserted(node, op, light, FALSE)
    BY DEF u
  <2>3. FALSE \in BOOLEAN
    OBVIOUS
  <2>4. op \in LightOps => u.mode = IF ModelOf[op] = "lightness" \/ (~FALSE /\ BothColours(u.features))
                                   THEN node.mode ELSE IF ModelOf[op] = "hsl" THEN "hs" ELSE "color_temp"
    BY <2>1, <2>2, <2>3, UpsertShows
  <2> QED BY <2>1, <2>2, <2>3, <2>4, UpsertShows
<1>2. ModeFits(light.models, light.by)
  BY DEF AllFit, LightFits
<1>3. "hsl" \in light.models => light.models \intersect LightModels \subseteq u.features
  BY <1>1 DEF CKnown, Learned
<1>4. op \in LightOps => ModelOf[op] \in {"lightness", "hsl", "ctl"}
  BY DEF LightOps, ModelOf
<1>5. Matches(u)
  <2>1. CASE u.mode = node.mode
    BY <2>1 DEF Matches
  <2>2. CASE op \in LightOps /\ ~BothColours(u.features) /\ ModelOf[op] = "hsl" /\ u.mode = "hs"
    <3>1. ~BothColours(light.models)
      BY <1>3, <2>2 DEF BothColours, LightModels
    <3>2. light.by = "hs"
      BY <1>2, <2>2, <3>1 DEF ModeFits, BothColours, CompositionMode
    <3> QED BY <2>2, <3>2 DEF Matches
  <2>3. CASE op \in LightOps /\ ~BothColours(u.features) /\ ModelOf[op] = "ctl" /\ u.mode = "color_temp"
    <3>1. ~BothColours(light.models)
      BY <1>3, <2>3 DEF BothColours, LightModels
    <3>2. light.by # "hs"
      BY <1>2, <2>3, <3>1 DEF ModeFits, BothColours, CompositionMode
    <3> QED BY <2>3, <3>2 DEF Matches
  <2> QED BY <1>1, <1>4, <2>1, <2>2, <2>3
<1> QED BY <1>5 DEF Matches

LEMMA CompanionOverhears ==
  ASSUME LightTypeOK, LightTypeOK', AllFit, Shapes, CShows, Overhear
  PROVE  CShows'
<1>1. /\ heard # Nothing /\ UNCHANGED <<edition, light, waiting, air, late, want>>
      /\ doubts' = IF heard.got = light /\ ~waiting THEN doubts ELSE doubts \union {"stale"}
  BY DEF Overhear
<1>2. SUFFICES ASSUME Companion', Sure'
               PROVE  CKnown' /\ CSent' /\ CLast' /\ COn'
  BY DEF CShows
<1>3. Companion /\ Sure /\ heard.got = light /\ ~waiting
  <2>1. doubts' = doubts /\ heard.got = light /\ ~waiting
    BY <1>1, <1>2 DEF Sure
  <2> QED BY <1>1, <1>2, <2>1 DEF Sure, Companion
<1>4. CKnown /\ CSent /\ CLast /\ COn
  BY <1>3 DEF CShows
<1>5. /\ heard.op \in DOMAIN ModelOf /\ heard.op \in Statuses /\ ModelOf[heard.op] \in light.models
      /\ ModelOf[heard.op] \in Models /\ queue \in Seq(AnItem)
  BY <1>1, <1>3, ModelOfIs DEF AllFit, AnswersFit, LightTypeOK, AnAnswer
<1>6. Told(Upserted(node, heard.op, light, FALSE), queue, ModelOf[heard.op])
  BY <1>3 DEF Overhear, Standalone, Companion
<1>7. /\ node' = Upserted(node, heard.op, light, FALSE)
      /\ \E r \in Seq(AnItem) :
           /\ queue' = queue \o r
           /\ \A i \in DOMAIN r : r[i].op = RangeOf[ModelOf[heard.op]] /\ ModelOf[heard.op] \in LightModels
  <2> DEFINE n == Upserted(node, heard.op, light, FALSE)
             m == ModelOf[heard.op]
  <2>1. Told(n, queue, m) /\ m \in Models
    BY <1>5, <1>6
  <2> HIDE DEF n, m
  <2>2. /\ node' = n
        /\ \E r \in Seq(AnItem) :
             queue' = queue \o r /\ \A i \in DOMAIN r : r[i].op = RangeOf[m] /\ m \in LightModels
    BY <1>5, <2>1, ToldAdds
  <2> QED BY <2>2 DEF n, m
<1>8. Moved(0, Ranges)
  <2>1. PICK r \in Seq(AnItem) :
           /\ queue' = queue \o r
           /\ \A i \in DOMAIN r : r[i].op = RangeOf[ModelOf[heard.op]] /\ ModelOf[heard.op] \in LightModels
    BY <1>7
  <2>2. \A i \in DOMAIN r : r[i].op \in Ranges
    BY <2>1, RangesOf
  <2> QED BY <2>1, <2>2, MovedBehind
<1>9. Ranges \intersect Switches = {} /\ Ranges \intersect ValueSets = {} /\ Ranges \intersect ColourSets = {}
  BY DEF Ranges, Switches, ValueSets, ColourSets
<1>10. ~Pending(ColourSets)' => Matches(node)'
  <2>1. SUFFICES ASSUME ~Pending(ColourSets)' PROVE Matches(node)'
    OBVIOUS
  <2>2. ~Pending(ColourSets)
    BY <1>8, <2>1, PendingMoves
  <2>3. Matches(node)
    BY <1>4, <2>2 DEF CKnown
  <2> QED BY <1>1, <1>4, <1>5, <1>7, <2>3, ModeStays
<1>11. CKnown' /\ CLast' /\ COn'
  <2> DEFINE s == FALSE
             d == 0
             op == heard.op
  <2>1. /\ node' = Upserted(node, op, light, s) /\ s \in BOOLEAN /\ d \in {0, 1} /\ Moved(d, Ranges)
        /\ d # 1 /\ op \in DOMAIN ModelOf /\ ModelOf[op] \in light.models
    BY <1>5, <1>7, <1>8
  <2> HIDE DEF s, d, op
  <2> QED BY <1>1, <1>4, <1>10, <2>1, ToldShows
<1>12. CSent'
  <2>1. \A j \in DOMAIN queue' : queue'[j].op \in ValueSets => queue'[j].args.l > 0
    <3>1. SUFFICES ASSUME NEW j \in DOMAIN queue', queue'[j].op \in ValueSets
                   PROVE  queue'[j].args.l > 0
      OBVIOUS
    <3>2. j + 0 \in DOMAIN queue /\ queue'[j].op = queue[j + 0].op /\ queue'[j].args = queue[j + 0].args
      BY <1>8, <1>9, <3>1 DEF Moved
    <3> QED BY <1>4, <3>1, <3>2 DEF CSent
  <2>2. ~Answered'
    BY <1>1, <1>3 DEF Answered
  <2> QED BY <2>1, <2>2 DEF CSent
<1> QED BY <1>11, <1>12

LEMMA CompanionHearsReply ==
  ASSUME LightTypeOK, LightTypeOK', AllFit, Shapes, CShows, Reply
  PROVE  CShows'
<1>1. /\ waiting /\ air \notin {Nothing, Lost} /\ waiting' = FALSE
      /\ UNCHANGED <<edition, light, want, doubts>>
  BY DEF Reply
<1>2. SUFFICES ASSUME Companion, Sure
               PROVE  CKnown' /\ CSent' /\ CLast' /\ COn'
  BY <1>1 DEF CShows, Companion, Sure
<1>3. CKnown /\ CSent /\ CLast /\ COn /\ Answered
  BY <1>1, <1>2 DEF CShows, Answered
<1> DEFINE op == air.op
           s == op \in Sets
<1>4. /\ queue # <<>> /\ queue \in Seq(AnItem) /\ Tail(queue) \in Seq(AnItem) /\ op = Head(queue).op
      /\ op \in DOMAIN ModelOf /\ ModelOf[op] \in Models /\ queue[1] = Head(queue) /\ 1 \in DOMAIN queue
  BY <1>1, ModelOfIs DEF LightTypeOK, Shapes, AnAnswer
<1>5. ModelOf[op] \in light.models /\ op \in Sets \union Ranges
  BY <1>2, <1>4, ModelOfIs DEF AllFit, QueueFits, Has, Local
<1>6. air.got = light /\ (op \in ValueSets => light.l > 0)
      /\ (op = "hslSet" => light.by = "hs") /\ (op = "ctlSet" => light.by = "color_temp")
  BY <1>3 DEF CSent
<1>7. Told(Upserted(node, op, light, s), Tail(queue), ModelOf[op])
  BY <1>2, <1>6 DEF Reply, Companion
<1>s. s \in BOOLEAN
  OBVIOUS
<1> HIDE DEF s, op
<1>8. /\ node' = Upserted(node, op, light, s)
      /\ \E r \in Seq(AnItem) :
           queue' = Tail(queue) \o r /\ \A i \in DOMAIN r : r[i].op = RangeOf[ModelOf[op]] /\ ModelOf[op] \in LightModels
  <2> DEFINE n == Upserted(node, op, light, s)
             m == ModelOf[op]
             q == Tail(queue)
  <2>1. Told(n, q, m) /\ m \in Models /\ q \in Seq(AnItem)
    BY <1>4, <1>7
  <2> HIDE DEF n, m, q
  <2>2. /\ node' = n
        /\ \E r \in Seq(AnItem) : queue' = q \o r /\ \A i \in DOMAIN r : r[i].op = RangeOf[m] /\ m \in LightModels
    BY <2>1, ToldAdds
  <2> QED BY <2>2 DEF n, m, q
<1>9. Moved(1, Ranges)
  <2>1. PICK r \in Seq(AnItem) :
           queue' = Tail(queue) \o r /\ \A i \in DOMAIN r : r[i].op = RangeOf[ModelOf[op]] /\ ModelOf[op] \in LightModels
    BY <1>8
  <2>2. \A i \in DOMAIN r : r[i].op \in Ranges
    BY <2>1, RangesOf
  <2> QED BY <1>4, <2>1, <2>2, MovedOn
<1>10. Ranges \intersect Switches = {} /\ Ranges \intersect ValueSets = {} /\ Ranges \intersect ColourSets = {}
  BY DEF Ranges, Switches, ValueSets, ColourSets
<1>11. ~Pending(ColourSets)' => Matches(node)'
  <2>1. SUFFICES ASSUME ~Pending(ColourSets)' PROVE Matches(node)'
    OBVIOUS
  <2>2. /\ op \notin LightOps => node'.mode = node.mode
        /\ op \in LightOps => node'.mode = IF ModelOf[op] = "lightness" \/ (~s /\ BothColours(node'.features))
                                 THEN node.mode ELSE IF ModelOf[op] = "hsl" THEN "hs" ELSE "color_temp"
    <3> DEFINE u == node'
    <3>1. u = Upserted(node, op, light, s) /\ ("hsl" \in light.models => node.maxL = LightMax)
      BY <1>3, <1>8 DEF CKnown
    <3> HIDE DEF u
    <3>2. /\ op \notin LightOps => u.mode = node.mode
          /\ op \in LightOps => u.mode = IF ModelOf[op] = "lightness" \/ (~s /\ BothColours(u.features))
                                 THEN node.mode ELSE IF ModelOf[op] = "hsl" THEN "hs" ELSE "color_temp"
      BY <1>4, <1>5, <1>s, <3>1, UpsertShows
    <3> QED BY <3>2 DEF u
  <2>3. CASE op = "hslSet"
    <3>1. ModelOf[op] = "hsl" /\ op \in LightOps /\ s
      BY <2>3 DEF ModelOf, LightOps, s, Sets
    <3>2. node'.mode = "hs"
      BY <2>2, <3>1
    <3> QED BY <1>1, <1>6, <2>3, <3>2 DEF Matches
  <2>4. CASE op = "ctlSet"
    <3>1. ModelOf[op] = "ctl" /\ op \in LightOps /\ s
      BY <2>4 DEF ModelOf, LightOps, s, Sets
    <3>2. node'.mode = "color_temp"
      BY <2>2, <3>1
    <3> QED BY <1>1, <1>6, <2>4, <3>2 DEF Matches
  <2>5. CASE op \notin ColourSets
    <3>1. op \in LightOps => ModelOf[op] = "lightness"
      BY <1>5, <2>5 DEF Sets, Ranges, LightOps, ColourSets, ModelOf
    <3>2. node'.mode = node.mode
      BY <2>2, <3>1
    <3>3. ~Pending(ColourSets)
      BY <1>4, <1>9, <2>1, <2>5, PendingMoves
    <3> QED BY <1>1, <1>3, <3>2, <3>3 DEF Matches, CKnown
  <2> QED BY <2>3, <2>4, <2>5 DEF ColourSets
<1>12. CKnown' /\ CLast' /\ COn'
  <2> DEFINE d == 1
  <2>1. d \in {0, 1} /\ Moved(d, Ranges)
    BY <1>9
  <2> HIDE DEF d
  <2> QED BY <1>1, <1>3, <1>4, <1>5, <1>6, <1>s, <1>8, <1>11, <2>1, ToldShows
<1>13. CSent'
  <2>1. \A j \in DOMAIN queue' : queue'[j].op \in ValueSets => queue'[j].args.l > 0
    <3>1. SUFFICES ASSUME NEW j \in DOMAIN queue', queue'[j].op \in ValueSets
                   PROVE  queue'[j].args.l > 0
      OBVIOUS
    <3>2. j + 1 \in DOMAIN queue /\ queue'[j].op = queue[j + 1].op /\ queue'[j].args = queue[j + 1].args
      BY <1>9, <1>10, <3>1 DEF Moved
    <3> QED BY <1>3, <3>1, <3>2 DEF CSent
  <2>2. ~Answered'
    BY <1>1 DEF Answered
  <2> QED BY <2>1, <2>2 DEF CSent
<1> QED BY <1>12, <1>13

LEMMA EffectShows ==
  ASSUME light \in ALight, NEW op, NEW a, a.l \in Numbers, NEW e, e = Effect(op, a)
  PROVE  /\ e.models = light.models
         /\ op \in ValueSets => /\ e.l = Raised(LeastOf(a.l, LightMax))
                                /\ e.was = IF a.l > 0 THEN Raised(LeastOf(a.l, LightMax)) ELSE light.was
         /\ op \notin ValueSets => e.was = light.was
         /\ op = "hslSet" => e.by = "hs"
         /\ op = "ctlSet" => e.by = "color_temp"
         /\ op \notin ColourSets => e.by = light.by
         /\ op = "onoffSet" => e.l = IF ~a.on THEN 0 ELSE IF light.l = 0 THEN light.was ELSE light.l
         /\ op \notin Switches => e.l = light.l
         /\ op # "levelSet" => e.level = light.level
         /\ op = "levelSet" => e.level = a.level
<1> DEFINE sh == Shine(a.l)
<1>1. /\ sh.models = light.models /\ sh.by = light.by /\ sh.l = Raised(LeastOf(a.l, LightMax))
      /\ sh.was = (IF a.l > 0 THEN Raised(LeastOf(a.l, LightMax)) ELSE light.was)
      /\ sh.level = light.level
      /\ DOMAIN sh = {"models", "l", "was", "by", "level"}
  BY DEF Shine, ALight
<1>2. /\ ValueSets = {"lightSet", "hslSet", "ctlSet"} /\ ColourSets = {"hslSet", "ctlSet"}
      /\ Switches = {"lightSet", "hslSet", "ctlSet", "onoffSet"}
  BY DEF ValueSets, ColourSets, Switches
<1>3. CASE op = "onoffSet"
  BY <1>2, <1>3 DEF Effect, ALight
<1>4. CASE op = "lightSet"
  <2>1. e = sh
    BY <1>4 DEF Effect
  <2> HIDE DEF sh
  <2> QED BY <1>1, <1>2, <1>4, <2>1
<1>5. CASE op = "hslSet"
  <2>1. e = [sh EXCEPT !.by = "hs"]
    BY <1>5 DEF Effect
  <2> HIDE DEF sh
  <2> QED BY <1>1, <1>2, <1>5, <2>1
<1>6. CASE op = "ctlSet"
  <2>1. e = [sh EXCEPT !.by = "color_temp"]
    BY <1>6 DEF Effect
  <2> HIDE DEF sh
  <2> QED BY <1>1, <1>2, <1>6, <2>1
<1>7. CASE op = "levelSet"
  BY <1>2, <1>7 DEF Effect, ALight
<1>8. CASE op \notin {"onoffSet", "lightSet", "hslSet", "ctlSet", "levelSet"}
  <2>1. e = light
    BY <1>8 DEF Effect
  <2> QED BY <1>2, <1>8, <2>1
<1> QED BY <1>3, <1>4, <1>5, <1>6, <1>7, <1>8

\* A brightness sent by a colour's message comes back within two units of it.
LEMMA SentView ==
  ASSUME NEW x \in 1 .. LightMax, NEW op \in ValueSets, NEW l,
         l = IF op = "hslSet" THEN HslLightness(x, LightMax) ELSE x
  PROVE  /\ LeastOf(l, LightMax) = l /\ l \in 0 .. LightMax
         /\ op = "hslSet" => Brightness(l, LightMax) \in x - 2 .. x
<1>1. LightMax \in Nat /\ LightMax <= FullScale /\ FullScale \in Nat /\ x \in Numbers /\ LightMax \in Numbers
  BY ScalesAre DEF Numbers
<1>2. HslLightness(x, LightMax) \in 0 .. x
  BY <1>1, HslLightnessType
<1>3. Brightness(HslLightness(x, LightMax), LightMax) \in x - 2 .. x
  BY <1>1, RoundTrip
<1> QED BY <1>1, <1>2, <1>3 DEF LeastOf

LEMMA CompanionSends ==
  ASSUME LightTypeOK, LightTypeOK', AllFit, Shapes, CShows, SendFront
  PROVE  CShows'
<1>0. SUFFICES ASSUME Companion, Sure
               PROVE  CKnown' /\ CSent' /\ CLast' /\ COn'
  BY DEF CShows, Companion, Sure, SendFront
<1> DEFINE a == Head(queue).args
           op == Head(queue).op
           after == Effect(op, a)
<1>1. /\ queue # <<>> /\ node' = node /\ UNCHANGED <<edition, queue, want, doubts>> /\ ~waiting
      /\ \/ light' = after /\ air' = [op |-> op, got |-> after]
         \/ light' \in {light, after} /\ air' = Lost
  <2>1. /\ queue # <<>> /\ ~waiting /\ UNCHANGED <<edition, queue, want>>
        /\ node' = SentMode(node, op)
    BY DEF SendFront
  <2>0. doubts' = doubts
    <3>1. \E x : doubts' = doubts \union (IF Raises(op, x) THEN {"raised"} ELSE {})
      BY DEF SendFront
    <3>2. \A x : ~Raises(op, x)
      BY <1>0 DEF Raises, Companion, Standalone
    <3> QED BY <3>1, <3>2
  <2>2. \/ light' = after /\ air' = [op |-> op, got |-> after]
        \/ light' \in {light, after} /\ air' = Lost
    <3> DEFINE b == IF Standalone THEN MadeOf(node, op) ELSE a
               e == Effect(op, b)
    <3>1. \/ light' = e /\ air' = [op |-> op, got |-> e]
          \/ light' \in {light, e} /\ air' = Lost
      BY DEF SendFront
    <3>2. b = a
      BY <1>0 DEF Companion, Standalone
    <3> HIDE DEF b
    <3> QED BY <3>1, <3>2
  <2>3. SentMode(node, op) = node
    BY <1>0 DEF SentMode, Companion, Standalone
  <2> QED BY <2>0, <2>1, <2>2, <2>3
<1>2. CKnown /\ CSent /\ CLast /\ COn
  BY <1>0 DEF CShows
<1>3. /\ queue \in Seq(AnItem) /\ 1 \in DOMAIN queue /\ queue[1] = Head(queue) /\ a.l \in Numbers
      /\ light \in ALight /\ light' \in ALight /\ light.l \in Nat
  <2>1. queue \in Seq(AnItem) /\ light \in ALight /\ light' \in ALight
    BY DEF LightTypeOK
  <2>2. 1 \in DOMAIN queue /\ queue[1] = Head(queue) /\ Head(queue) \in AnItem
    BY <1>1, <2>1
  <2>3. a.l \in Numbers
    BY <2>2 DEF AnItem
  <2>4. light.l \in Nat
    BY <2>1 DEF ALight
  <2> QED BY <2>1, <2>2, <2>3, <2>4
<1> HIDE DEF after, op, a
<1>4. /\ after.models = light.models
      /\ op \in ValueSets => /\ after.l = Raised(LeastOf(a.l, LightMax))
                             /\ after.was = IF a.l > 0 THEN Raised(LeastOf(a.l, LightMax)) ELSE light.was
      /\ op \notin ValueSets => after.was = light.was
      /\ op = "hslSet" => after.by = "hs"
      /\ op = "ctlSet" => after.by = "color_temp"
      /\ op \notin ColourSets => after.by = light.by
      /\ op = "onoffSet" => after.l = IF ~a.on THEN 0 ELSE IF light.l = 0 THEN light.was ELSE light.l
      /\ op \notin Switches => after.l = light.l
      /\ op # "levelSet" => after.level = light.level
  BY <1>3, EffectShows DEF after
<1>5. /\ \A S : op \in S => Pending(S)
      /\ \A S : Pending(S)' <=> Pending(S)
      /\ op = "onoffSet" /\ AllOff => ~a.on
      /\ op \in ValueSets => a.l > 0
  BY <1>1, <1>2, <1>3 DEF Pending, AllOff, CSent, op, a
<1>6. light' \in {light, after}
  BY <1>1
<1>7. light'.models = light.models
  BY <1>4, <1>6
<1>8. CKnown'
  <2>1. "hsl" \in light'.models => node'.maxL = LightMax /\ Learned'
    BY <1>1, <1>2, <1>7 DEF CKnown, Learned
  <2>2. ~Learned' => ~Pending({"onoffSet"} \union ColourSets)'
    BY <1>1, <1>2, <1>5, <1>7 DEF CKnown, Learned
  <2>3. ~Pending(ColourSets)' => Matches(node)'
    BY <1>1, <1>2, <1>4, <1>5, <1>6 DEF CKnown, Matches
  <2>4. "level" \in node'.features /\ ~Pending({"levelSet"})' => HasLight(node)' \/ node'.level = light'.level
    BY <1>1, <1>2, <1>4, <1>5, <1>6 DEF CKnown, HasLight
  <2>5. want' # Nothing /\ ~want'.cover => "level" \notin light'.models \/ HasLight(node)'
    BY <1>1, <1>2, <1>7 DEF CKnown, HasLight
  <2> QED BY <2>1, <2>2, <2>3, <2>4, <2>5 DEF CKnown
<1>9. op \in ValueSets => after.l > 0
  BY <1>3, <1>4, <1>5, RaisedIs
<1>10. CSent'
  <2>1. \A i \in DOMAIN queue' : queue'[i].op \in ValueSets => queue'[i].args.l > 0
    BY <1>1, <1>2 DEF CSent
  <2>2. Answered' => air' = [op |-> op, got |-> after] /\ light' = after
    BY <1>1 DEF Answered
  <2> QED BY <1>4, <1>9, <2>1, <2>2 DEF CSent
<1>11. CLast'
  <2>1. SUFFICES ASSUME ~Pending(ValueSets)
                 PROVE  /\ node.last > 0 => node.last = View(light'.by, light'.was)
                        /\ node.last = 0 /\ HasLight(node) => light'.l = 0 /\ AllOff
    BY <1>1, <1>5 DEF CLast, HasLight, AllOff, View
  <2>2. op \notin ValueSets /\ op \notin ColourSets
    BY <1>5, <2>1 DEF ValueSets, ColourSets
  <2>3. op # "onoffSet" => op \notin Switches
    BY <2>2 DEF Switches
  <2> QED BY <1>2, <1>4, <1>5, <1>6, <2>1, <2>2, <2>3 DEF CLast
<1>12. COn'
  BY <1>1, <1>2, <1>4, <1>5, <1>6 DEF COn, HasLight
<1>13. Moved(0, {})
  BY <1>1, MovedNot
<1> QED BY <1>8, <1>10, <1>11, <1>12

\* Messages behind the others leave the record and the light what they are to each other.
LEMMA KnownStays ==
  ASSUME LightTypeOK, LightTypeOK', NEW ops, Moved(0, ops), UNCHANGED <<light, node>>, CKnown,
         Learned \/ ops \intersect ({"onoffSet"} \union ColourSets) = {},
         want' # Nothing /\ ~want'.cover => "level" \notin light.models \/ HasLight(node)
  PROVE  CKnown'
<1>1. /\ \A S : S \intersect ops = {} /\ Pending(S)' => Pending(S)
      /\ \A S : Pending(S) => Pending(S)'
  BY PendingMoves
<1>2. "hsl" \in light'.models => node'.maxL = LightMax /\ Learned'
  BY DEF CKnown, Learned
<1>3. ~Learned' => ~Pending({"onoffSet"} \union ColourSets)'
  BY <1>1 DEF CKnown, Learned
<1>4. ~Pending(ColourSets)' => Matches(node)'
  BY <1>1 DEF CKnown, Matches
<1>5. "level" \in node'.features /\ ~Pending({"levelSet"})' => HasLight(node)' \/ node'.level = light'.level
  BY <1>1 DEF CKnown, HasLight
<1>6. want' # Nothing /\ ~want'.cover => "level" \notin light'.models \/ HasLight(node)'
  BY DEF HasLight
<1> QED BY <1>2, <1>3, <1>4, <1>5, <1>6 DEF CKnown

LEMMA ShowsStay ==
  ASSUME LightTypeOK, LightTypeOK', NEW ops, Moved(0, ops),
         ops \intersect Switches = {}, UNCHANGED <<light, node>>,
         CKnown, CSent, CLast, COn,
         want' # Nothing /\ ~want'.cover => "level" \notin light.models \/ HasLight(node),
         Answered' => Answered /\ air' = air
  PROVE  CKnown' /\ CSent' /\ CLast' /\ COn'
<1>1. /\ \A S : S \intersect ops = {} /\ Pending(S)' => Pending(S)
      /\ \A S : Pending(S) => Pending(S)'
  BY PendingMoves
<1>2. CKnown'
  <2>1. ops \intersect ({"onoffSet"} \union ColourSets) = {}
    BY DEF Switches, ColourSets, ValueSets
  <2> QED BY <2>1, KnownStays
<1>3. CSent'
  <2>1. ops \intersect ValueSets = {}
    BY DEF Switches
  <2>2. ASSUME NEW j \in DOMAIN queue', queue'[j].op \in ValueSets
        PROVE  queue'[j].args.l > 0
    <3>1. j + 0 \in DOMAIN queue /\ queue'[j].op = queue[j + 0].op /\ queue'[j].args = queue[j + 0].args
      BY <2>1, <2>2 DEF Moved
    <3> QED BY <2>2, <3>1 DEF CSent
  <2> QED BY <2>2 DEF CSent
<1>4. CLast'
  <2>1. AllOff => AllOff'
    BY DEF AllOff, Moved, Switches
  <2> QED BY <1>1, <2>1 DEF CLast, HasLight, View
<1>5. COn'
  BY <1>1 DEF COn, HasLight
<1> QED BY <1>2, <1>3, <1>4, <1>5

LEMMA CompanionWaits ==
  ASSUME LightTypeOK, LightTypeOK', AllFit, Shapes, CShows, Timeout
  PROVE  CShows'
<1>1. SUFFICES ASSUME Companion, Sure'
               PROVE  CKnown' /\ CSent' /\ CLast' /\ COn'
  BY DEF CShows, Companion, Timeout
<1>2. /\ UNCHANGED <<light, node, want>> /\ waiting' = FALSE
      /\ doubts' = (IF Head(queue).left > 1 /\ (Companion \/ Head(queue).op # "onoffSet") THEN doubts
                    ELSE doubts \union {"lost"})
  BY DEF Timeout
<1>3. Head(queue).left > 1 /\ Sure
  BY <1>1, <1>2 DEF Sure
<1>4. Moved(0, {})
  BY <1>3, TimeoutMoves
<1>5. CKnown /\ CSent /\ CLast /\ COn
  BY <1>1, <1>3 DEF CShows
<1>6. ~Answered'
  BY <1>2 DEF Answered
<1> QED BY <1>2, <1>4, <1>5, <1>6, ShowsStay DEF AllFit, CKnown

LEMMA CompanionAnswers ==
  ASSUME LightTypeOK, LightTypeOK', AllFit, CShows, Answer
  PROVE  CShows'
<1>1. UNCHANGED <<edition, light, node, queue, want, doubts, waiting, air>>
  BY DEF Answer
<1>2. SUFFICES ASSUME Companion, Sure
               PROVE  CKnown' /\ CSent' /\ CLast' /\ COn'
  BY <1>1 DEF CShows, Companion, Sure
<1>3. Moved(0, {})
  BY <1>1, MovedNot
<1>4. CKnown /\ CSent /\ CLast /\ COn
  BY <1>2 DEF CShows
<1> QED BY <1>1, <1>3, <1>4, ShowsStay DEF AllFit, CKnown, Answered

LEMMA CompanionCovers ==
  ASSUME LightTypeOK, LightTypeOK', AllFit, CShows, NEW p \in 0 .. Percent, CoverCommand(p)
  PROVE  CShows'
<1>1. /\ UNCHANGED <<edition, light, waiting, air>> /\ want' = [on |-> TRUE, cover |-> TRUE, l |-> p]
      /\ doubts \subseteq doubts'
  BY DEF CoverCommand
<1>2. SUFFICES ASSUME Companion, Sure
               PROVE  CKnown' /\ CSent' /\ CLast' /\ COn'
  BY <1>1 DEF CShows, Companion, Sure
<1> DEFINE x == external_level_command(PositionToLevel(p))
<1>3. queue' = Append(queue, x) /\ node' = node
  BY <1>2 DEF CoverCommand, Standalone, Companion
<1>4. x \in AnItem /\ x.op = "levelSet"
  <2>1. [NoArgs EXCEPT !.level = PositionToLevel(p)] \in [on : BOOLEAN, l : Numbers, level : LevelNumbers]
    BY ScalesAre, PositionType DEF NoArgs
  <2>2. "levelSet" \in DOMAIN ModelOf \union Local
    BY ModelOfIs
  <2> QED BY <2>1, <2>2, ItemsType, OpOfItem DEF external_level_command
<1> HIDE DEF x
<1>5. Moved(0, {x.op}) /\ {x.op} \intersect Switches = {}
  BY <1>3, <1>4, OneBehind DEF Switches, ValueSets
<1>6. CKnown /\ CSent /\ CLast /\ COn
  BY <1>2 DEF CShows
<1>7. want'.cover = TRUE
  BY <1>1
<1> QED BY <1>1, <1>3, <1>5, <1>6, <1>7, ShowsStay DEF AllFit, Answered

LEMMA CompanionSetsLightness ==
  ASSUME LightTypeOK, LightTypeOK', AllFit, CShows, NEW b \in Levels, SetLightness(b)
  PROVE  CShows'
<1>1. /\ UNCHANGED <<edition, light, waiting, air>>
      /\ "lightness" \in node.features /\ doubts \subseteq doubts'
  BY DEF SetLightness
<1>2. SUFFICES ASSUME Companion, Sure
               PROVE  CKnown' /\ CSent' /\ CLast' /\ COn'
  BY <1>1 DEF CShows, Companion, Sure
<1> DEFINE x == external_lightness_command(b)
<1>3. queue' = Append(queue, x) /\ node' = node
  BY <1>2 DEF SetLightness, Standalone, Companion
<1>4. x \in AnItem /\ x.op = "lightSet" /\ x.args.l = b /\ b > 0
  <2>1. b \in Numbers /\ b > 0
    BY ScalesAre, LightAssumption DEF Numbers
  <2>2. [NoArgs EXCEPT !.l = b] \in [on : BOOLEAN, l : Numbers, level : LevelNumbers]
        /\ [NoArgs EXCEPT !.l = b].l = b
    BY <2>1, ScalesAre DEF NoArgs
  <2>3. "lightSet" \in DOMAIN ModelOf \union Local
    BY ModelOfIs
  <2> QED BY <2>1, <2>2, <2>3, ItemsType, OpOfItem DEF external_lightness_command
<1> HIDE DEF x
<1>5. Moved(0, {x.op}) /\ queue' \in Seq(AnItem) /\ Len(queue') = Len(queue) + 1
      /\ queue'[Len(queue')] = x /\ queue \in Seq(AnItem)
  BY <1>3, <1>4, OneBehind DEF LightTypeOK
<1>6. CKnown /\ CSent /\ CLast /\ COn
  BY <1>2 DEF CShows
<1>7. HasLight(node)
  BY <1>1 DEF HasLight, LightModels
<1>8. CKnown'
  <2>1. {x.op} \intersect ({"onoffSet"} \union ColourSets) = {}
    BY <1>4 DEF ColourSets
  <2> QED BY <1>1, <1>3, <1>5, <1>6, <1>7, <2>1, KnownStays
<1>9. CSent'
  <2>1. ASSUME NEW j \in DOMAIN queue', queue'[j].op \in ValueSets
        PROVE  queue'[j].args.l > 0
    <3>1. CASE j + 0 \in DOMAIN queue
      <4>1. queue'[j].op = queue[j + 0].op /\ queue'[j].args = queue[j + 0].args
        BY <1>5, <2>1, <3>1 DEF Moved
      <4> QED BY <1>6, <2>1, <3>1, <4>1 DEF CSent
    <3>2. CASE j + 0 \notin DOMAIN queue
      <4>1. j = Len(queue')
        BY <1>5, <2>1, <3>2
      <4> QED BY <1>4, <1>5, <4>1
    <3> QED BY <3>1, <3>2
  <2>2. Answered' => Answered /\ air' = air
    BY <1>1 DEF Answered
  <2> QED BY <1>1, <1>6, <2>1, <2>2 DEF CSent
<1>10. Pending(ValueSets)' /\ Pending(Switches)'
  <2>1. Len(queue') \in DOMAIN queue' /\ queue'[Len(queue')].op = "lightSet"
    BY <1>4, <1>5
  <2> QED BY <2>1 DEF Pending, Switches, ValueSets
<1>11. CLast' /\ COn'
  BY <1>1, <1>10 DEF CLast, COn
<1> QED BY <1>8, <1>9, <1>11

\* What there is to know of a command that leaves nothing in doubt.
LEMMA CommandKnows ==
  ASSUME LightTypeOK, AllFit, Companion, NEW c \in Commands, LightCommand(c), Sure'
  PROVE  /\ Learned /\ ("level" \in light.models => HasLight(node))
         /\ Changes(c) => node.maxL = LightMax /\ Rendered(ModeOf(node, c), AskedLightness(c)) > 0
         /\ c.b # Absent \/ c.colour # "none" => c.on /\ Changes(c)
         /\ c.b # Absent <=> HasBrightness(c)
         /\ Changes(c) => HasLight(node)
         /\ c.on /\ c.b = Absent /\ HasLight(node) => node.last # 0
         /\ Changes(c) /\ ASet(c) = "lightSet" => "hsl" \notin light.models /\ Matches(node)
         /\ HasBrightness(c) => AskedLightness(c) = Clamped(node, c.b) /\ Clamped(node, c.b) \in 1 .. LightMax
<1>1. /\ offered # {} /\ ~IsCover(node.features)
      /\ c.colour = "none" \/ c.colour \in offered
      /\ c.on \/ (c.b = Absent /\ c.colour = "none")
      /\ c.b # Absent => node.features \intersect LightModels # {}
      /\ NewDoubts(c) \subseteq doubts'
  BY DEF LightCommand, Given
<1>2. /\ Changes(c) => node.maxL = LightMax
      /\ c.on /\ c.b = Absent /\ node.last = 0 => light.models \intersect LightModels = {}
      /\ ~(Changes(c) /\ ~HasBrightness(c) /\ Rendered(ModeOf(node, c), Kept) = 0)
      /\ Wanted(c).l # 0
      /\ ModelsShown \subseteq node.features
  <2>1. NewDoubts(c) \intersect {"range", "unseen", "unlit", "dark", "learning"} = {}
    BY <1>1 DEF Sure
  <2>2. ~Standalone
    BY DEF Standalone, Companion
  <2> HIDE DEF Sure
  <2> QED BY <2>1, <2>2 DEF NewDoubts
<1>3. node.features \subseteq light.models /\ ModeFits(node.features, node.mode)
      /\ ModeFits(light.models, light.by) /\ OfferFits
  BY DEF AllFit, RecordFits, LightFits
<1>4. Learned /\ ("level" \in light.models => HasLight(node))
  <2>1. CASE IsCover(light.models)
    BY <1>1, <1>2, <1>3, <2>1 DEF ModelsShown, IsCover, Learned, HasLight
  <2>2. CASE ~IsCover(light.models)
    BY <1>1, <1>2, <1>3, <2>2 DEF ModelsShown, IsCover, Learned, HasLight
  <2> QED BY <2>1, <2>2
<1>5. c.b # Absent <=> HasBrightness(c)
  BY <1>1 DEF HasBrightness, Standalone, Companion
<1>6. c.b # Absent \/ c.colour # "none" => c.on /\ Changes(c)
  BY <1>1, <1>5 DEF Changes
<1>7. ASSUME Changes(c)
      PROVE  HasLight(node)
  <2>1. CASE c.b # Absent
    BY <1>1, <2>1 DEF HasLight
  <2>2. CASE c.b = Absent
    <3>1. c.colour \in {"hs", "color_temp"} /\ c.colour \in offered
      BY <1>1, <1>5, <1>7, <2>2 DEF Changes, Commands
    <3>2. light.models \intersect {"hsl", "ctl"} # {}
      BY <1>3, <3>1 DEF OfferFits
    <3> QED BY <1>4, <3>2 DEF Learned, HasLight, LightModels
  <2> QED BY <2>1, <2>2
<1>8. c.on /\ c.b = Absent /\ HasLight(node) => node.last # 0
  BY <1>2, <1>3 DEF HasLight
<1>9. ASSUME Changes(c), ASet(c) = "lightSet"
      PROVE  "hsl" \notin light.models /\ Matches(node)
  <2>1. ModeOf(node, c) = "brightness"
    BY <1>9, ASetIs
  <2>2. node.mode = "brightness"
    BY <2>1 DEF ModeOf, Commands
  <2>3. "hsl" \notin node.features /\ "ctl" \notin node.features
    BY <1>3, <2>2 DEF ModeFits, BothColours, CompositionMode
  <2>4. "hsl" \notin light.models /\ "ctl" \notin light.models
    BY <1>4, <2>3 DEF Learned, LightModels
  <2>5. light.by # "hs"
    BY <1>3, <2>4 DEF ModeFits, BothColours, CompositionMode
  <2> QED BY <2>2, <2>4, <2>5 DEF Matches
<1>10. /\ AskedLightness(c) \in Numbers /\ Rendered(ModeOf(node, c), AskedLightness(c)) \in Nat
       /\ FullScale \in Nat /\ LightMax \in 1 .. FullScale /\ c.b \in (1 .. FullScale) \union {Absent}
  <2>1. /\ AskedLightness(c) \in Numbers
        /\ Rendered(ModeOf(node, c), AskedLightness(c)) \in 0 .. AskedLightness(c)
    BY AskedType
  <2>2. FullScale \in Nat /\ LightMax \in 1 .. FullScale /\ c.b \in (1 .. FullScale) \union {Absent}
    BY ScalesAre, LightAssumption DEF Commands
  <2> QED BY <2>1, <2>2 DEF Numbers
<1>11. ASSUME HasBrightness(c)
       PROVE  AskedLightness(c) = Clamped(node, c.b) /\ Clamped(node, c.b) \in 1 .. LightMax
  <2>1. AskedLightness(c) = Clamped(node, c.b)
    BY <1>5, <1>11 DEF AskedLightness
  <2>2. node.maxL = LightMax /\ c.b \in 1 .. FullScale
    BY <1>2, <1>5, <1>6, <1>10, <1>11 DEF Absent
  <2>3. Clamped(node, c.b) \in 1 .. LightMax
    BY <1>10, <2>2 DEF Clamped, LeastOf
  <2> QED BY <2>1, <2>3
<1>12. ASSUME Changes(c)
       PROVE  Rendered(ModeOf(node, c), AskedLightness(c)) > 0
  <2>1. CASE HasBrightness(c)
    <3>1. Wanted(c).l = Rendered(ModeOf(node, c), AskedLightness(c))
      BY <1>5, <1>6, <1>11, <2>1 DEF Wanted
    <3> QED BY <1>2, <1>10, <3>1
  <2>2. CASE ~HasBrightness(c)
    <3>1. AskedLightness(c) = Kept
      BY <1>5, <1>12, <2>2, ColourKeeps
    <3> QED BY <1>2, <1>10, <1>12, <2>2, <3>1
  <2> QED BY <2>1, <2>2
<1> QED BY <1>2, <1>4, <1>5, <1>6, <1>7, <1>8, <1>9, <1>11, <1>12

LEMMA CompanionCommands ==
  ASSUME LightTypeOK, LightTypeOK', AllFit, AllFit', Shapes, CShows, NEW c \in Commands, LightCommand(c)
  PROVE  CShows'
<1>1. /\ UNCHANGED <<edition, light, waiting, air, late, heard>>
      /\ want' = Wanted(c) /\ doubts' = Left(c) \union NewDoubts(c)
  BY DEF LightCommand, Given
<1>2. SUFFICES ASSUME Companion, Sure'
               PROVE  CKnown' /\ CSent' /\ CLast' /\ COn'
  BY <1>1 DEF CShows, Companion
<1>3. node' = node
  BY <1>2 DEF LightCommand, CompanionCommand, Companion, Standalone
<1>4. /\ Learned /\ ("level" \in light.models => HasLight(node))
      /\ Changes(c) => node.maxL = LightMax /\ Rendered(ModeOf(node, c), AskedLightness(c)) > 0
      /\ c.b # Absent \/ c.colour # "none" => c.on /\ Changes(c)
      /\ c.b # Absent <=> HasBrightness(c)
      /\ Changes(c) => HasLight(node)
      /\ c.on /\ c.b = Absent /\ HasLight(node) => node.last # 0
      /\ Changes(c) /\ ASet(c) = "lightSet" => "hsl" \notin light.models /\ Matches(node)
      /\ HasBrightness(c) => AskedLightness(c) = Clamped(node, c.b) /\ Clamped(node, c.b) \in 1 .. LightMax
  BY <1>2, CommandKnows
<1>5. PICK r \in Seq(AnItem) :
        /\ queue' = queue \o r /\ Len(r) \in {1, 2}
        /\ IF Changes(c)
             THEN /\ r[Len(r)].op = ASet(c)
                  /\ r[Len(r)].args.l = Rendered(ModeOf(node, c), AskedLightness(c))
                  /\ Len(r) = 2 => r[1].op = "onoffSet" /\ r[1].args.on = c.on
             ELSE Len(r) = 1 /\ r[1].op = "onoffSet" /\ r[1].args.on = c.on
  BY <1>2, CompanionQueue
<1>6. /\ ASet(c) \in ValueSets
      /\ ASet(c) = "lightSet" <=> ModeOf(node, c) = "brightness"
      /\ ASet(c) = "hslSet" <=> ModeOf(node, c) = "hs"
      /\ ASet(c) = "ctlSet" <=> ModeOf(node, c) = "color_temp"
  BY ASetIs
<1>7. "onoffSet" \notin ValueSets
  BY DEF ValueSets
<1>8. /\ queue \in Seq(AnItem) /\ queue' \in Seq(AnItem) /\ Len(queue') = Len(queue) + Len(r)
      /\ DOMAIN queue = 1 .. Len(queue) /\ DOMAIN queue' = 1 .. Len(queue') /\ Len(queue) \in Nat
      /\ \A i \in 1 .. Len(queue) : queue'[i] = queue[i]
      /\ \A i \in 1 .. Len(queue') : i > Len(queue) => i - Len(queue) \in 1 .. Len(r) /\ queue'[i] = r[i - Len(queue)]
  BY <1>5, Appended DEF LightTypeOK
<1>9. /\ Len(queue') \in DOMAIN queue' /\ queue'[Len(queue')] = r[Len(r)] /\ Len(queue') > Len(queue)
  <2>1. Len(queue') \in 1 .. Len(queue') /\ Len(queue') > Len(queue) /\ Len(queue') - Len(queue) = Len(r)
    <3> DEFINE n == Len(queue')
               m == Len(queue)
               l == Len(r)
    <3>1. n = m + l /\ m \in Nat /\ l \in {1, 2}
      BY <1>5, <1>8
    <3> HIDE DEF n, m, l
    <3>2. n \in 1 .. n /\ n > m /\ n - m = l
      BY <3>1
    <3> QED BY <3>2 DEF n, m, l
  <2> QED BY <1>8, <2>1
\* The new messages.
<1>10. ASSUME NEW j \in DOMAIN queue', j \notin DOMAIN queue
       PROVE  \/ queue'[j].op = "onoffSet" /\ queue'[j].args.on = c.on
              \/ /\ Changes(c) /\ j = Len(queue') /\ queue'[j].op = ASet(c)
                 /\ queue'[j].args.l = Rendered(ModeOf(node, c), AskedLightness(c))
  <2>1. j > Len(queue) /\ j - Len(queue) \in 1 .. Len(r) /\ queue'[j] = r[j - Len(queue)]
    BY <1>8, <1>10
  <2>2. PICK i \in 1 .. Len(r) : i = j - Len(queue)
    BY <2>1
  <2>3. j = Len(queue) + i
    BY <1>8, <2>1, <2>2
  <2>4. i = Len(r) \/ (i = 1 /\ Len(r) = 2)
    BY <1>5, <2>2
  <2> QED BY <1>5, <1>8, <2>1, <2>2, <2>3, <2>4
<1>11. Moved(0, Switches)
  <2>1. \A i \in DOMAIN r : r[i].op \in Switches
    <3>1. \A i \in DOMAIN r : i = Len(r) \/ (i = 1 /\ Len(r) = 2)
      BY <1>5
    <3> QED BY <1>5, <1>6, <3>1 DEF Switches
  <2> QED BY <1>5, <2>1, MovedBehind
<1>12. Changes(c) => queue'[Len(queue')].op = ASet(c)
         /\ queue'[Len(queue')].args.l = Rendered(ModeOf(node, c), AskedLightness(c))
  BY <1>5, <1>9
<1>13. Changes(c) => Pending(ValueSets)'
  BY <1>6, <1>9, <1>12 DEF Pending
<1>14. Pending(Switches)'
  <2>1. r[Len(r)].op \in Switches
    BY <1>5, <1>6 DEF Switches
  <2> QED BY <1>9, <2>1 DEF Pending
<1>15. COn'
  BY <1>14 DEF COn
<1>16. Sure \/ (Quiet /\ (c.b # Absent \/ c.colour # "none"))
  <2>1. ASSUME ~Sure
        PROVE  Quiet /\ (c.b # Absent \/ c.colour # "none")
    <3>1. Left(c) \subseteq {"web", "belated"}
      BY <1>1, <1>2 DEF Sure
    <3>2. Quiet
      BY <2>1, <3>1 DEF Left, Sure
    <3>3. c.b # Absent \/ c.colour # "none"
      BY <2>1, <3>1 DEF Left, Sure
    <3> QED BY <3>2, <3>3
  <2> QED BY <2>1
<1>17. ~Sure => queue = <<>> /\ ~waiting /\ Changes(c)
  BY <1>4, <1>16 DEF Quiet
<1>18. Sure => CKnown /\ CSent /\ CLast /\ COn
  BY <1>2 DEF CShows
<1>19. want' # Nothing /\ ~want'.cover => "level" \notin light.models \/ HasLight(node)
  BY <1>4
<1>20. CKnown'
  <2>1. CASE Sure
    BY <1>1, <1>3, <1>4, <1>11, <1>18, <1>19, <2>1, KnownStays
  <2>2. CASE ~Sure
    <3>1. HasLight(node)
      BY <1>4, <1>17, <2>2
    <3>2. "hsl" \in light'.models => node'.maxL = LightMax /\ Learned'
      BY <1>1, <1>3, <1>4, <1>17, <2>2 DEF Learned
    <3>3. Learned'
      BY <1>1, <1>3, <1>4 DEF Learned
    <3>4. ~Pending(ColourSets)' => Matches(node)'
      <4>1. ~Pending(ColourSets)' => ASet(c) = "lightSet"
        BY <1>6, <1>9, <1>12, <1>17, <2>2 DEF Pending, ColourSets, ValueSets
      <4> QED BY <1>1, <1>3, <1>4, <1>17, <2>2, <4>1 DEF Matches
    <3> QED BY <1>1, <1>3, <3>1, <3>2, <3>3, <3>4 DEF CKnown, HasLight
  <2> QED BY <2>1, <2>2
<1>21. CSent'
  <2>1. ASSUME NEW j \in DOMAIN queue', queue'[j].op \in ValueSets
        PROVE  queue'[j].args.l > 0
    <3>1. CASE j \notin DOMAIN queue
      BY <1>4, <1>7, <1>10, <2>1, <3>1
    <3>2. CASE j \in DOMAIN queue
      <4>1. queue'[j] = queue[j] /\ Sure
        BY <1>8, <1>17, <3>2
      <4> QED BY <1>18, <2>1, <3>2, <4>1 DEF CSent
    <3> QED BY <3>1, <3>2
  <2>2. Answered' => Answered /\ air' = air /\ Sure
    BY <1>1, <1>17 DEF Answered
  <2> QED BY <1>1, <1>18, <2>1, <2>2 DEF CSent
<1>22. CLast'
  <2>1. CASE Changes(c)
    BY <1>13, <2>1 DEF CLast
  <2>2. CASE ~Changes(c)
    <3>1. Sure /\ CLast
      BY <1>17, <1>18, <2>2
    <3>2. ASSUME ~Pending(ValueSets)'
          PROVE  ~Pending(ValueSets)
      <4>1. Pending(ValueSets) => Pending(ValueSets)'
        BY <1>8 DEF Pending
      <4> QED BY <3>2, <4>1
    <3>3. ASSUME node.last = 0, HasLight(node), AllOff
          PROVE  AllOff'
      <4>1. ~c.on
        BY <1>4, <2>2, <3>3
      <4>2. ASSUME NEW j \in DOMAIN queue', queue'[j].op = "onoffSet"
            PROVE  ~queue'[j].args.on
        <5>1. CASE j \notin DOMAIN queue
          BY <1>10, <2>2, <4>1, <4>2, <5>1
        <5>2. CASE j \in DOMAIN queue
          <6>1. queue'[j] = queue[j]
            BY <1>8, <5>2
          <6> QED BY <3>3, <4>2, <5>2, <6>1 DEF AllOff
        <5> QED BY <5>1, <5>2
      <4> QED BY <4>2 DEF AllOff
    <3> QED BY <1>1, <1>3, <3>1, <3>2, <3>3 DEF CLast, HasLight, View
  <2> QED BY <2>1, <2>2
<1> QED BY <1>15, <1>20, <1>21, <1>22

(***************************************************************************)
(* The first states.  f: the light's models.                               *)
(***************************************************************************)
GoodRecord(n) ==
  /\ n \in ANode /\ n.features \subseteq light.models /\ ModeFits(n.features, n.mode)
  /\ n.l \in {0, n.last} /\ (n.on => n.l = n.last)
TrueRecord(n) ==
  /\ "level" \in n.features => HasLight(n) \/ n.level = light.level
  /\ n.last > 0 => n.last = light.was
  /\ HasLight(n) /\ n.last = 0 => light.l = 0
  /\ HasLight(n) \/ "onoff" \in n.features => (n.on <=> light.l > 0)

LEMMA HearsTrue ==
  ASSUME light \in ALight, light.l \in {0, light.was}, NEW n, GoodRecord(n), "hsl" \notin light.models,
         TrueRecord(n), NEW op \in DOMAIN ModelOf, ModelOf[op] \in light.models, NEW u,
         NEW s \in BOOLEAN, u = Upserted(n, op, light, s), u.features \subseteq light.models, ModeFits(u.features, u.mode)
  PROVE  TrueRecord(u)
<1>0. light.l \in Nat /\ n.last \in Nat /\ n \in ANode /\ u.mode # "hs"
  <2>1. u.mode # "hs" /\ n \in ANode
    BY ModesGo DEF GoodRecord
  <2> QED BY <2>1, ScalesAre DEF ALight, ANode, Numbers
<1>1. CASE op \in {"onoffSet", "onoffGet"}
  <2>1. /\ u.features = n.features \union {"onoff"} /\ u.level = n.level /\ u.last = n.last
        /\ u.on = (light.l > 0)
    BY <1>0, <1>1, HeardOnOff
  <2>2. HasLight(u) <=> HasLight(n)
    BY <2>1 DEF HasLight, LightModels
  <2> QED BY <2>1, <2>2 DEF TrueRecord
<1>2. CASE op = "levelSet"
  <2>1. /\ u.last = n.last /\ u.on = n.on
        /\ IF n.features \intersect LightModels # {}
             THEN u.features = n.features /\ u.level = n.level
             ELSE u.features = n.features \union {"level"} /\ u.level = light.level
    BY <1>0, <1>2, HeardLevel
  <2>2. HasLight(u) <=> HasLight(n)
    BY <2>1 DEF HasLight, LightModels
  <2> QED BY <2>1, <2>2 DEF TrueRecord, HasLight
<1>3. CASE op \in LightOps
  <2>1. /\ u.features = (n.features \union {ModelOf[op]}) \ {"level"}
        /\ u.l = HeardAs(u.mode, light.l, n.maxL)
        /\ u.on = (u.l > 0) /\ u.last = IF u.l > 0 THEN u.l ELSE n.last
    BY <1>0, <1>3, HeardLight
  <2>2. u.l = light.l
    BY <1>0, <2>1 DEF HeardAs
  <2>3. "level" \notin u.features
    BY <2>1
  <2>4. u.on <=> light.l > 0
    BY <2>1, <2>2
  <2>5. u.last > 0 => u.last = light.was
    BY <1>0, <2>1, <2>2 DEF TrueRecord
  <2>6. u.last = 0 => light.l = 0
    BY <1>0, <2>1, <2>2
  <2> QED BY <2>3, <2>4, <2>5, <2>6 DEF TrueRecord
<1>4. CASE op \in Ranges
  <2>1. /\ u.features = n.features /\ u.on = n.on /\ u.last = n.last /\ u.level = n.level
    BY <1>0, <1>4, HeardRange
  <2> QED BY <2>1 DEF TrueRecord, HasLight
<1> QED BY <1>1, <1>2, <1>3, <1>4, EveryOp

LEMMA DiscoveredIs ==
  ASSUME light \in ALight, light.models \in Lights, light.l \in {0, light.was}, NEW n, GoodRecord(n), TrueRecord(n),
         NEW d, d = Discovered(n, light)
  PROVE  GoodRecord(d) /\ ("hsl" \notin light.models => TrueRecord(d)) /\ d.features # {}
<1> DEFINE no == FALSE
           Hear(k, m, op) == IF m \in light.models THEN Upserted(k, op, light, no) ELSE k
           Fine(k) == GoodRecord(k) /\ ("hsl" \notin light.models => TrueRecord(k))
<1>1. d = Hear(Hear(Hear(Hear(Hear(Hear(n, "onoff", "onoffGet"), "level", "levelSet"),
          "lightness", "lightGet"), "hsl", "hslGet"), "ctl", "tempGet"), "lightness", "lightRange")
  BY DEF Discovered
<1>2. ASSUME NEW k, Fine(k), NEW op \in DOMAIN ModelOf, NEW m, m = ModelOf[op]
      PROVE  /\ Fine(Hear(k, m, op))
             /\ k.features # {} \/ (op \notin Ranges /\ m \in light.models) => Hear(k, m, op).features # {}
  <2> DEFINE u == Upserted(k, op, light, no)
  <2>1. SUFFICES ASSUME m \in light.models
                 PROVE  Fine(u) /\ (k.features # {} \/ op \notin Ranges => u.features # {})
    BY <1>2
  <2>2. no \in BOOLEAN /\ GoodRecord(k)
    BY <1>2
  <2> HIDE DEF no
  <2>3. u \in ANode
    BY <2>2, UpsertedType DEF GoodRecord
  <2>a. u = Upserted(k, op, light, no)
    OBVIOUS
  <2> HIDE DEF u
  <2>4. /\ u.features \subseteq light.models /\ ModeFits(u.features, u.mode)
        /\ u.l \in {0, u.last} /\ (u.on => u.l = u.last)
        /\ op \notin Ranges \/ k.features # {} => u.features # {}
    <3>1. /\ k \in ANode /\ k.features \subseteq light.models /\ ModeFits(k.features, k.mode)
          /\ k.l \in {0, k.last} /\ (k.on => k.l = k.last)
      BY <2>2 DEF GoodRecord
    <3>2. ModelOf[op] \in light.models
      BY <1>2, <2>1
    <3> QED BY <2>2, <2>a, <3>1, <3>2, UpsertFits
  <2>5. "hsl" \notin light.models => TrueRecord(u)
    <3>1. ModelOf[op] \in light.models
      BY <1>2, <2>1
    <3> QED BY <1>2, <2>2, <2>a, <2>4, <3>1, HearsTrue
  <2> QED BY <2>3, <2>4, <2>5 DEF GoodRecord
<1>3. /\ ModelOf["onoffGet"] = "onoff" /\ ModelOf["levelSet"] = "level" /\ ModelOf["lightGet"] = "lightness"
      /\ ModelOf["hslGet"] = "hsl" /\ ModelOf["tempGet"] = "ctl" /\ ModelOf["lightRange"] = "lightness"
      /\ {"onoffGet", "levelSet", "lightGet", "hslGet", "tempGet", "lightRange"} \subseteq DOMAIN ModelOf
      /\ {"onoffGet", "levelSet"} \intersect Ranges = {}
  BY ModelOfIs DEF ModelOf, Ranges
<1>4. "onoff" \in light.models \/ "level" \in light.models
  <2>1. light.models \subseteq Models /\ (light.models \intersect LightModels # {} => "onoff" \in light.models)
        /\ (~IsCover(light.models) => "onoff" \in light.models)
    BY LightHas
  <2> QED BY <2>1 DEF IsCover
<1>5. Fine(n)
  OBVIOUS
<1> DEFINE n1 == Hear(n, "onoff", "onoffGet")
           n2 == Hear(n1, "level", "levelSet")
           n3 == Hear(n2, "lightness", "lightGet")
           n4 == Hear(n3, "hsl", "hslGet")
           n5 == Hear(n4, "ctl", "tempGet")
           n6 == Hear(n5, "lightness", "lightRange")
<1>6. d = n6
  BY <1>1
<1> HIDE DEF Fine, Hear
<1>7. Fine(n1) /\ ("onoff" \in light.models => n1.features # {})
  BY <1>2, <1>3, <1>5
<1> HIDE DEF n1
<1>8. Fine(n2) /\ n2.features # {}
  <2>1. Fine(n2) /\ (n1.features # {} \/ "level" \in light.models => n2.features # {})
    BY <1>2, <1>3, <1>7
  <2> QED BY <1>4, <1>7, <2>1
<1> HIDE DEF n2
<1>9. Fine(n3) /\ n3.features # {}
  BY <1>2, <1>3, <1>8
<1> HIDE DEF n3
<1>10. Fine(n4) /\ n4.features # {}
  BY <1>2, <1>3, <1>9
<1> HIDE DEF n4
<1>11. Fine(n5) /\ n5.features # {}
  BY <1>2, <1>3, <1>10
<1> HIDE DEF n5
<1>12. Fine(n6) /\ n6.features # {}
  BY <1>2, <1>3, <1>11
<1> QED BY <1>6, <1>12 DEF Fine

LEMMA FirstRecord ==
  ASSUME LightInit, LightTypeOK
  PROVE  /\ light.models \in Lights /\ LightFits
         /\ doubts = (IF BothColours(light.models) THEN {"guess"} ELSE {}) \union
                       (IF "hsl" \in light.models THEN {"scale"} ELSE {})
         /\ queue = IF Standalone
                      THEN Items(RefreshOps(light.models) \o <<"announce", "status">>) ELSE <<>>
         /\ GoodRecord(node) /\ (Companion /\ "hsl" \notin light.models => TrueRecord(node))
         /\ Standalone => node = NewNode(edition, light.models) /\ offered = {} /\ shown = Nothing
         /\ \/ offered = {} /\ shown = Nothing /\ (Companion => node.features = {})
            \/ offered = SupportedModes(node.features) /\ shown = StatusOf(node) /\ node.features # {}
<1>1. PICK f \in Lights, l \in Lit : \E by \in (IF BothColours(f) THEN {"hs", "color_temp"}
                                              ELSE {CompositionMode(f)}) :
         /\ light = [models |-> f, l |-> l, was |-> IF l > 0 THEN l ELSE LightMax,
                      by |-> by, level |-> LevelMin]
         /\ \/ node = NewNode(edition, f) /\ offered = {} /\ shown = Nothing
            \/ /\ Companion /\ node = Discovered(NewNode(edition, f), light)
               /\ offered = SupportedModes(node.features) /\ shown = StatusOf(node)
         /\ doubts = (IF BothColours(f) THEN {"guess"} ELSE {}) \union
                       (IF "hsl" \in f THEN {"scale"} ELSE {})
         /\ queue = IF Standalone
                      THEN Items(RefreshOps(f) \o <<"announce", "status">>) ELSE <<>>
  BY DEF LightInit
<1>2. PICK by \in (IF BothColours(f) THEN {"hs", "color_temp"} ELSE {CompositionMode(f)}) :
         light = [models |-> f, l |-> l, was |-> IF l > 0 THEN l ELSE LightMax, by |-> by, level |-> LevelMin]
  BY <1>1
<1>3. light.models = f /\ light.by = by /\ light.l = l /\ light.was = IF l > 0 THEN l ELSE LightMax
  BY <1>2
<1>4. l \in Nat /\ light \in ALight /\ node \in ANode /\ (Standalone => ~Companion) /\ (Standalone \/ Companion)
  BY LightAssumption, ScalesAre DEF LightTypeOK, Standalone, Companion
<1>5. LightFits
  <2>1. ModeFits(f, by)
    BY <1>2 DEF ModeFits
  <2> QED BY <1>3, <1>4, <2>1 DEF LightFits
<1> DEFINE n == NewNode(edition, f)
<1>6. /\ n.features = (IF edition = "standalone" THEN f ELSE {})
      /\ n.mode = (IF edition = "standalone" THEN CompositionMode(f) ELSE "brightness")
      /\ n.on = FALSE /\ n.l = 0 /\ n.last = 0
  BY DEF NewNode
<1>7. n \in ANode
  <2>1. CompositionMode(f) \in Modes /\ "brightness" \in Modes /\ 0 \in Numbers /\ FullScale \in Numbers
        /\ 0 \in LevelNumbers /\ f \in SUBSET Models
    BY ScalesAre, LightAssumption DEF CompositionMode, Modes, Numbers
  <2> QED BY <2>1 DEF NewNode, ANode
<1> HIDE DEF n
<1>8. GoodRecord(n)
  <2>1. n.features \subseteq light.models
    BY <1>3, <1>6
  <2>2. ModeFits(n.features, n.mode)
    BY <1>6 DEF ModeFits, BothColours, CompositionMode
  <2> QED BY <1>6, <1>7, <2>1, <2>2 DEF GoodRecord
<1>9. Companion => TrueRecord(n) /\ n.features = {}
  BY <1>6 DEF TrueRecord, HasLight, Companion
<1>10. CASE node = n /\ offered = {} /\ shown = Nothing
  BY <1>1, <1>3, <1>5, <1>8, <1>9, <1>10 DEF n
<1>11. CASE /\ Companion /\ node = Discovered(n, light)
            /\ offered = SupportedModes(node.features) /\ shown = StatusOf(node)
  <2>1. light.l \in {0, light.was} /\ light.models \in Lights
    BY <1>5 DEF LightFits
  <2>2. GoodRecord(node) /\ ("hsl" \notin light.models => TrueRecord(node)) /\ node.features # {}
    BY <1>4, <1>8, <1>9, <1>11, <2>1, DiscoveredIs
  <2> QED BY <1>1, <1>3, <1>4, <1>5, <1>11, <2>1, <2>2
<1> QED BY <1>1, <1>10, <1>11 DEF n

LEMMA InitFits ==
  ASSUME LightInit, LightTypeOK
  PROVE  AllFit
<1> DEFINE f == light.models
<1>1. /\ f \in Lights /\ LightFits /\ GoodRecord(node)
      /\ queue = IF Standalone THEN Items(RefreshOps(f) \o <<"announce", "status">>) ELSE <<>>
      /\ Standalone => node = NewNode(edition, f) /\ offered = {} /\ shown = Nothing
      /\ \/ offered = {} /\ shown = Nothing /\ (Companion => node.features = {})
         \/ offered = SupportedModes(node.features) /\ shown = StatusOf(node) /\ node.features # {}
  BY FirstRecord
<1>2. late = Nothing /\ heard = Nothing
  BY DEF LightInit
<1>3. Standalone <=> ~Companion
  BY DEF LightTypeOK, Standalone, Companion
<1>4. RecordFits
  <2>1. Standalone => node.features = f
    BY <1>1 DEF NewNode, Standalone
  <2> QED BY <1>1, <2>1 DEF RecordFits, GoodRecord
<1>5. OfferFits
  <2>1. node.features \subseteq f
    BY <1>1 DEF GoodRecord
  <2> QED BY <1>1, <2>1, SupportedFit DEF OfferFits
<1>6. QueueFits
  <2>1. CASE Companion
    <3>1. DOMAIN queue = {}
      BY <1>1, <1>3, <2>1
    <3> QED BY <3>1 DEF QueueFits
  <2>2. CASE Standalone
    <3> DEFINE fit == {op \in Asks : op \in Local \/ ModelOf[op] \in f}
               ops == RefreshOps(f) \o <<"announce", "status">>
    <3>1. ops \in Seq(fit)
      BY RefreshHas
    <3>2. queue = Items(ops)
      BY <1>1, <2>2
    <3>3. \A op \in fit : Has(op)
      BY DEF Has
    <3> HIDE DEF fit, ops
    <3>4. \A i \in DOMAIN queue : i \in DOMAIN ops /\ queue[i].op = ops[i]
      BY <3>2, OpOfItem DEF Items
    <3>5. \A i \in DOMAIN ops : ops[i] \in fit
      BY <3>1
    <3> QED BY <1>3, <2>2, <3>3, <3>4, <3>5 DEF QueueFits
  <2> QED BY <1>3, <2>1, <2>2
<1>7. CompanionFits
  <2>1. StatusOf(node) # Nothing
    <3>1. "mode" \in DOMAIN StatusOf(node) /\ "mode" \notin DOMAIN Nothing
      BY DEF StatusOf, Nothing
    <3> QED BY <3>1
  <2>2. Companion => queue = <<>>
    BY <1>1, <1>3
  <2> QED BY <1>1, <1>2, <2>1, <2>2 DEF CompanionFits, GoodRecord
<1> QED BY <1>1, <1>2, <1>4, <1>5, <1>6, <1>7 DEF AllFit, AnswersFit

LEMMA StepFits ==
  ASSUME LightTypeOK, Shapes, AllFit, [LightNext]_lightvars
  PROVE  AllFit'
<1>1. CASE UNCHANGED lightvars
  <2>1. UNCHANGED <<edition, light, node, queue, late, heard, offered, shown>>
    BY <1>1 DEF lightvars
  <2>2. Moved(0, {})
    BY <2>1, MovedNot
  <2>3. QueueFits'
    BY <2>1, <2>2, QueueFitsStill DEF AllFit
  <2> QED BY <2>1, <2>3, FitStays DEF AllFit
<1>2. ASSUME NEW c \in Commands, LightCommand(c)
      PROVE  AllFit'
  BY <1>2, LightCommandFits
<1>3. ASSUME NEW c \in Commands, set_onoff_handler(c) \/ set_hsl_handler(c)
      PROVE  AllFit'
  BY <1>3, PageFits
<1>4. ASSUME NEW p \in 0 .. Percent, CoverCommand(p)
      PROVE  AllFit'
  BY <1>4, CoverFits
<1>5. ASSUME NEW b \in Levels, SetLightness(b)
      PROVE  AllFit'
  BY <1>5, SetLightnessFits
<1>6. CASE ble_mesh_ctl_temperature_set \/ console_ctl_temperature_set \/ console_get \/ ByHand \/ Answer
  BY <1>6, AsideFits
<1>7. CASE Refresh
  BY <1>7, RefreshFits
<1>8. CASE Overhear
  BY <1>8, OverhearFits
<1>9. CASE SendFront
  BY <1>9, SendFrontFits
<1>10. CASE Publish
  BY <1>10, PublishFits
<1>11. CASE Reply
  BY <1>11, ReplyFits
<1>12. CASE StoreLate
  BY <1>12, StoreLateFits
<1>13. CASE Timeout
  BY <1>13, TimeoutFits
<1> QED BY <1>1, <1>2, <1>3, <1>4, <1>5, <1>6, <1>7, <1>8, <1>9, <1>10, <1>11, <1>12, <1>13
  DEF LightNext

LEMMA InitShows ==
  ASSUME LightInit, LightTypeOK, AllFit
  PROVE  CShows
<1>1. /\ doubts = (IF BothColours(light.models) THEN {"guess"} ELSE {}) \union
                       (IF "hsl" \in light.models THEN {"scale"} ELSE {})
      /\ queue = IF Standalone
                      THEN Items(RefreshOps(light.models) \o <<"announce", "status">>) ELSE <<>>
      /\ GoodRecord(node) /\ (Companion /\ "hsl" \notin light.models => TrueRecord(node))
  BY FirstRecord
<1>2. waiting = FALSE /\ want = Nothing
  BY DEF LightInit
<1>3. SUFFICES ASSUME Companion, Sure
               PROVE  CKnown /\ CSent /\ CLast /\ COn
  BY DEF CShows
<1>4. "hsl" \notin light.models
  BY <1>1, <1>3 DEF Sure
<1>5. TrueRecord(node) /\ queue = <<>> /\ DOMAIN queue = {}
  BY <1>1, <1>3, <1>4 DEF Standalone, Companion
<1>6. light.by # "hs" /\ node.mode # "hs"
  <2>1. ModeFits(light.models, light.by) /\ ModeFits(node.features, node.mode) /\ "hsl" \notin node.features
    BY <1>4 DEF AllFit, LightFits, RecordFits
  <2> QED BY <1>4, <2>1, ModesGo
<1>7. \A S : ~Pending(S)
  BY <1>5 DEF Pending
<1>8. CKnown
  BY <1>2, <1>4, <1>5, <1>6, <1>7 DEF CKnown, Matches, TrueRecord
<1>9. CSent
  BY <1>2, <1>5 DEF CSent, Answered
<1>10. CLast
  BY <1>5, <1>6 DEF CLast, AllOff, TrueRecord, View
<1>11. COn
  BY <1>5 DEF COn, TrueRecord
<1> QED BY <1>2, <1>8, <1>9, <1>10, <1>11

LEMMA CompanionShows ==
  ASSUME LightTypeOK, LightTypeOK', Shapes, AllFit, AllFit', CShows, [LightNext]_lightvars
  PROVE  CShows'
<1>1. CASE UNCHANGED lightvars
  <2>1. UNCHANGED <<edition, light, node, queue, waiting, air, want, doubts>>
    BY <1>1 DEF lightvars
  <2>2. SUFFICES ASSUME Companion, Sure
                 PROVE  CKnown' /\ CSent' /\ CLast' /\ COn'
    BY <2>1 DEF CShows, Companion, Sure
  <2>3. Moved(0, {})
    BY <2>1, MovedNot
  <2>4. CKnown /\ CSent /\ CLast /\ COn
    BY <2>2 DEF CShows
  <2> QED BY <2>1, <2>3, <2>4, ShowsStay DEF AllFit, CKnown, Answered
<1>2. CASE Standalone /\ edition' = edition
  BY <1>2 DEF CShows, Standalone, Companion
<1>3. ASSUME NEW c \in Commands, LightCommand(c)
      PROVE  CShows'
  BY <1>3, CompanionCommands
<1>4. ASSUME NEW c \in Commands, set_onoff_handler(c) \/ set_hsl_handler(c)
      PROVE  CShows'
  BY <1>2, <1>4 DEF set_onoff_handler, set_hsl_handler, ByPage
<1>5. ASSUME NEW p \in 0 .. Percent, CoverCommand(p)
      PROVE  CShows'
  BY <1>5, CompanionCovers
<1>6. ASSUME NEW b \in Levels, SetLightness(b)
      PROVE  CShows'
  BY <1>6, CompanionSetsLightness
<1>7. CASE ble_mesh_ctl_temperature_set \/ console_ctl_temperature_set \/ console_get \/ ByHand \/ Refresh
  BY <1>2, <1>7 DEF ble_mesh_ctl_temperature_set, console_ctl_temperature_set, Unacknowledged,
     console_get, ByHand, Refresh
<1>8. CASE Answer
  BY <1>8, CompanionAnswers
<1>9. CASE Overhear
  BY <1>9, CompanionOverhears
<1>10. CASE SendFront
  BY <1>10, CompanionSends
<1>11. CASE Publish
  <2>1. queue # <<>> /\ Head(queue).op \in Local /\ edition' = edition
    BY <1>11 DEF Publish
  <2>2. Companion => Head(queue).op \in Sets \union Ranges
    <3>1. queue[1] = Head(queue) /\ 1 \in DOMAIN queue
      BY <2>1 DEF LightTypeOK
    <3> QED BY <3>1 DEF AllFit, QueueFits
  <2>3. Standalone
    BY <2>1, <2>2 DEF Local, Sets, Ranges, LightTypeOK, Standalone, Companion
  <2> QED BY <1>2, <2>1, <2>3
<1>12. CASE Reply
  BY <1>12, CompanionHearsReply
<1>13. CASE StoreLate
  <2>1. late # Nothing /\ edition' = edition
    BY <1>13 DEF StoreLate
  <2>2. Standalone
    BY <2>1 DEF AllFit, CompanionFits, LightTypeOK, Standalone, Companion
  <2> QED BY <1>2, <2>1, <2>2
<1>14. CASE Timeout
  BY <1>14, CompanionWaits
<1> QED BY <1>1, <1>3, <1>4, <1>5, <1>6, <1>7, <1>8, <1>9, <1>10, <1>11, <1>12, <1>13, <1>14
  DEF LightNext

(***************************************************************************)
(* Positions: there and back a position loses one at most.                 *)
(***************************************************************************)
LEMMA CoverTrip ==
  ASSUME NEW p \in 0 .. Percent
  PROVE  LevelToPosition(PositionToLevel(p)) \in {p - 1, p}
<1> DEFINE q == (p * FullScale) \div Percent
           r == (q * Percent) \div FullScale
<1>1. /\ FullScale \in Nat \ {0} /\ Percent \in 1 .. FullScale /\ p \in Nat /\ p <= Percent
      /\ LevelMax - LevelMin = FullScale /\ LevelMin \in Int /\ LevelMax \in Int
  <2> DEFINE h == FullScale \div 2
  <2>1. FullScale \in Nat /\ FullScale % 2 = 1 /\ Percent \in 1 .. FullScale
    BY ScaleAssumption
  <2>2. FullScale = 2 * h + 1 /\ h \in Nat
    BY <2>1
  <2>3. LevelMax = h /\ LevelMin = -h - 1
    BY DEF LevelMax, LevelMin
  <2> HIDE DEF h
  <2> QED BY <2>1, <2>2, <2>3
<1>2. PositionToLevel(p) = q + LevelMin
  <2>1. LeastOf(GreatestOf(p, 0), Percent) = p
    BY <1>1 DEF LeastOf, GreatestOf
  <2>2. PositionToLevel(p) = ((p - 0) * (LevelMax - LevelMin)) \div (Percent - 0) + LevelMin
    BY <1>1, <2>1 DEF PositionToLevel, map
  <2>3. p - 0 = p /\ Percent - 0 = Percent
    BY <1>1
  <2> QED BY <1>1, <2>2, <2>3
<1>3. p * FullScale \in Nat
  BY <1>1
<1>4. q \in Nat /\ Percent * q <= p * FullScale /\ p * FullScale < Percent * q + Percent
  BY <1>1, <1>3, QuotientIs
<1> HIDE DEF q
<1>5. LevelToPosition(PositionToLevel(p)) = r
  <2> DEFINE v == PositionToLevel(p)
  <2>1. LevelMax # LevelMin
    BY <1>1
  <2>2. v - LevelMin = q
    BY <1>1, <1>2, <1>4
  <2>3. r \in Int
    BY <1>1, <1>4
  <2> HIDE DEF v
  <2>4. LevelToPosition(v) = ((v - LevelMin) * (Percent - 0)) \div (LevelMax - LevelMin) + 0
    BY ONLY <2>1 DEF LevelToPosition, map
  <2>5. Percent - 0 = Percent
    BY <1>1
  <2>6. ((v - LevelMin) * (Percent - 0)) \div (LevelMax - LevelMin) = r
    BY ONLY <1>1, <2>2, <2>5
  <2> HIDE DEF r
  <2>7. LevelToPosition(v) = r
    BY <2>3, <2>4, <2>6
  <2> QED BY <2>7 DEF v
<1>6. q * Percent = Percent * q /\ q * Percent \in Nat
  BY <1>1, <1>4
<1>7. r \in Nat /\ FullScale * r <= q * Percent /\ q * Percent < FullScale * r + FullScale
  BY <1>1, <1>6, QuotientIs
<1> HIDE DEF r
<1>8. r <= p
  <2>1. SUFFICES ASSUME r >= p + 1 PROVE FALSE
    BY <1>1, <1>7
  <2>2. FullScale * r >= FullScale * (p + 1)
    BY <1>1, <1>7, <2>1
  <2>3. FullScale * (p + 1) = p * FullScale + FullScale
    BY <1>1
  <2> QED BY <1>1, <1>3, <1>4, <1>6, <1>7, <2>2, <2>3
<1>9. r >= p - 1
  <2>1. SUFFICES ASSUME r + 2 <= p PROVE FALSE
    BY <1>1, <1>7
  <2>2. FullScale * (r + 2) <= FullScale * p
    BY <1>1, <1>7, <2>1
  <2>3. FullScale * (r + 2) = FullScale * r + FullScale + FullScale /\ FullScale * p = p * FullScale
    BY <1>1, <1>7
  <2> QED BY <1>1, <1>3, <1>4, <1>6, <1>7, <2>2, <2>3
<1> QED BY <1>1, <1>5, <1>7, <1>8, <1>9

CoverAsked == want # Nothing /\ want.cover => want.l \in 0 .. Percent

LEMMA CoverAskedStays ==
  ASSUME LightTypeOK, CoverAsked, [LightNext]_lightvars
  PROVE  CoverAsked'
<1>1. ASSUME want' = want
      PROVE  CoverAsked'
  BY <1>1 DEF CoverAsked
<1>2. ASSUME NEW c \in Commands, LightCommand(c) \/ set_onoff_handler(c) \/ set_hsl_handler(c)
      PROVE  CoverAsked'
  <2>1. want' = Wanted(c)
    BY <1>2 DEF LightCommand, Given, set_onoff_handler, set_hsl_handler, ByPage
  <2> QED BY <2>1 DEF CoverAsked, Wanted
<1>3. ASSUME NEW p \in 0 .. Percent, CoverCommand(p)
      PROVE  CoverAsked'
  <2>1. want' = [on |-> TRUE, cover |-> TRUE, l |-> p]
    BY <1>3 DEF CoverCommand
  <2> QED BY <2>1 DEF CoverAsked
<1>4. ASSUME NEW b \in Levels, SetLightness(b)
      PROVE  CoverAsked'
  <2>1. want' = [on |-> TRUE, cover |-> FALSE, l |-> LeastOf(b, LightMax)]
    BY <1>4 DEF SetLightness
  <2> QED BY <2>1 DEF CoverAsked
<1>5. CASE \/ ble_mesh_ctl_temperature_set \/ console_ctl_temperature_set \/ console_get \/ ByHand
           \/ Refresh \/ Answer \/ Overhear \/ SendFront \/ Publish \/ Reply \/ StoreLate \/ Timeout
           \/ UNCHANGED lightvars
  BY <1>1, <1>5 DEF ble_mesh_ctl_temperature_set, console_ctl_temperature_set, Unacknowledged,
     console_get, ByHand, Refresh, Answer, Overhear, SendFront, Publish, Reply, StoreLate, Timeout, lightvars
<1> QED BY <1>2, <1>3, <1>4, <1>5 DEF LightNext

\* What Home Assistant is told of a record.
LEMMA StatusIs ==
  ASSUME NEW n \in ANode, NEW s, s = StatusOf(n)
  PROVE  /\ s.mode = "cover" <=> IsCover(n.features)
         /\ IsCover(n.features) => s.l = LevelToPosition(n.level)
         /\ ~IsCover(n.features) =>
              /\ s.on = n.on
              /\ s.mode # "onoff" => HasLight(n) /\ s.l = n.l
<1>1. n.mode # "cover"
  BY DEF ANode, Modes
<1>2. CASE IsCover(n.features)
  BY <1>2 DEF StatusOf
<1>3. CASE ~IsCover(n.features)
  <2>1. s = [on |-> n.on, mode |-> "onoff", l |-> 0] \/ (HasLight(n) /\ s = [on |-> n.on, mode |-> n.mode, l |-> n.l])
    BY <1>3 DEF StatusOf, HasLight
  <2> QED BY <1>1, <1>3, <2>1
<1> QED BY <1>2, <1>3

LEMMA CompanionTruth ==
  ASSUME LightTypeOK, AllFit, CShows, OnItsWay, CoverAsked, Companion
  PROVE  ShownIsTrue
<1>1. SUFFICES ASSUME Quiet, doubts = {}
               PROVE  ShownIsTrue
  BY DEF ShownIsTrue
<1>2. CKnown /\ CLast /\ COn /\ queue = <<>> /\ DOMAIN queue = {}
  BY <1>1 DEF CShows, Sure, Quiet
<1>3. \A S : ~Pending(S)
  BY <1>2 DEF Pending
<1>4. /\ node.last \in Nat /\ node.on \in BOOLEAN /\ light.l \in Nat /\ node \in ANode
      /\ light.l \in 0 .. LightMax /\ LightMax \in Nat
      /\ light.l \in {0, light.was} /\ node.l \in {0, node.last} /\ (node.on => node.l = node.last)
      /\ node.features \subseteq light.models /\ light.models \subseteq Models
  <2>1. node \in ANode /\ light \in ALight
    BY DEF LightTypeOK
  <2>2. node.last \in Nat /\ node.on \in BOOLEAN /\ light.l \in Nat /\ light.l \in 0 .. LightMax /\ LightMax \in Nat
    BY <2>1, ScalesAre DEF ANode, ALight, Numbers
  <2> QED BY <2>1, <2>2, LightHas DEF AllFit, LightFits, RecordFits, CompanionFits
<1>5. ASSUME node.l > 0, light.l > 0
      PROVE  node.l = View(light.by, light.l)
  <2>1. node.l = node.last /\ node.last > 0 /\ light.l = light.was
    BY <1>4, <1>5
  <2> QED BY <1>2, <1>3, <2>1 DEF CLast
<1>6. ShownIsTrue
  <2>1. SUFFICES ASSUME shown # Nothing
                 PROVE  IF shown.mode = "cover"
                          THEN want # Nothing => shown.l \in {want.l - 1, want.l}
                          ELSE /\ shown.on <=> light.l > 0
                               /\ shown.on /\ shown.mode # "onoff" =>
                                    shown.l - View(light.by, light.l) \in -2 .. 2
    BY DEF ShownIsTrue, View
  <2>2. shown = StatusOf(node) /\ node.features # {}
    BY <2>1 DEF AllFit, CompanionFits
  <2>3. /\ shown.mode = "cover" <=> IsCover(node.features)
        /\ IsCover(node.features) => shown.l = LevelToPosition(node.level)
        /\ ~IsCover(node.features) =>
             /\ shown.on = node.on
             /\ shown.mode # "onoff" => HasLight(node) /\ shown.l = node.l
    BY <1>4, <2>2, StatusIs
  <2>4. ASSUME IsCover(node.features), want # Nothing
        PROVE  shown.l \in {want.l - 1, want.l}
    <3>1. "level" \in node.features /\ ~HasLight(node) /\ "level" \in light.models
      BY <1>4, <2>4 DEF IsCover, HasLight
    <3>2. node.level = light.level /\ want.cover
      BY <1>2, <1>3, <2>4, <3>1 DEF CKnown
    <3>3. light.level = PositionToLevel(want.l)
      <4>1. Trusted
        BY <1>1 DEF Trusted
      <4>2. Arrived
        BY <1>2, <2>4, <4>1 DEF OnItsWay
      <4> QED BY <3>2, <4>2 DEF Arrived
    <3> QED BY <2>3, <2>4, <3>2, <3>3, CoverTrip DEF CoverAsked
  <2>5. ASSUME ~IsCover(node.features)
        PROVE  /\ shown.on <=> light.l > 0
               /\ shown.on /\ shown.mode # "onoff" => shown.l - View(light.by, light.l) \in -2 .. 2
    <3>1. HasLight(node) \/ "onoff" \in node.features
      <4>1. node.features \subseteq Models
        BY <1>4
      <4> QED BY <2>2, <2>5, <4>1 DEF IsCover, HasLight, Models, LightModels
    <3>2. shown.on <=> light.l > 0
      BY <1>2, <1>3, <2>3, <2>5, <3>1 DEF COn
    <3>3. ASSUME shown.on, shown.mode # "onoff"
          PROVE  shown.l = View(light.by, light.l)
      <4>1. HasLight(node) /\ shown.l = node.l /\ node.l = node.last /\ light.l > 0
        BY <1>4, <2>3, <2>5, <3>2, <3>3
      <4>2. node.last # 0
        BY <1>2, <1>3, <4>1 DEF CLast
      <4> QED BY <1>4, <1>5, <4>1, <4>2
    <3>4. View(light.by, light.l) \in Nat
      BY <1>4, ViewIs
    <3> QED BY <3>2, <3>3, <3>4
  <2> QED BY <2>3, <2>4, <2>5
<1> QED BY <1>6

(***************************************************************************)
(* The Standalone record and the light, while nothing is in doubt.  The    *)
(* record holds what was asked for until the messages made of it are sent; *)
(* answers that are stored must not come over it.                          *)
(***************************************************************************)
Stores == {"onoffGet", "lightGet", "hslGet", "onoffSet", "levelSet"}
Weak == doubts \subseteq {"web", "belated"} \union ModeDoubts
Near(x, v) == x \in v .. v + 2
Seen == View(light.by, light.l)
Final(k, S) == \A j \in DOMAIN queue : j > k => queue[j].op \notin S

\* The light's range is known and kept to.
SReach ==
  Standalone /\ Weak => ("hsl" \in light.models => node.maxL = LightMax) /\ node.l <= LightMax

\* A cover is asked for positions.
SWant == Standalone /\ want # Nothing /\ IsCover(light.models) => want.cover

\* The mode is the light's, or what the last colour's message will make it.
SMode ==
  /\ ~Pending(ColourSets) => Matches(node)
  /\ Pending({"ctlSet"}) /\ ~Pending({"hslSet"}) => node.mode = "color_temp"
  /\ waiting /\ Head(queue).op = "hslSet" => node.mode = "hs"
  /\ \A i, j \in DOMAIN queue : queue[i].op = "hslSet" /\ queue[j].op = "ctlSet" => j < i
  /\ \A k \in DOMAIN queue :
       /\ queue[k].op = "lightSet"
       /\ Final(k, ValueSets)
       => node.mode # "hs" /\ ~Pending({"hslSet"})

\* What an answer overwrites is not waiting to be sent behind it.
SOrder ==
  \A i, j \in DOMAIN queue :
    i < j /\ queue[i].op \in Stores /\ queue[j].op \in Sets =>
      queue[i].op = "onoffSet" /\ queue[j].op \in ValueSets
SGets ==
  \A i \in DOMAIN queue :
    queue[i].op = "hslGet" => \E j \in DOMAIN queue : j > i /\ queue[j].op = "lightGet"

\* The answer on its way is of the light as it is, and as the record says.
SAir ==
  Answered =>
    /\ air.got = light
    /\ air.op = "hslSet" => light.by = "hs"
    /\ air.op = "ctlSet" => light.by = "color_temp"
    /\ air.op = "levelSet" => light.level = node.level
    /\ air.op = "onoffSet" => (node.on <=> light.l > 0)
    /\ air.op \in ValueSets /\ Final(1, ValueSets) =>
         /\ light.l > 0 /\ Near(node.l, Seen)

\* So is the answer that is to be stored late.
SLate ==
  late # Nothing =>
    /\ ~Pending({"onoffSet", "levelSet"})
    /\ late.op \in {"onoffGet", "levelSet"} => ~Pending(Sets)
    /\ late.op = "levelSet" => late.got.level = node.level
    /\ late.op = "onoffSet" => (node.on <=> late.got.l > 0)
    /\ late.op # "levelSet" /\ ~Pending(ValueSets) => (late.got.l > 0 <=> light.l > 0)

\* The brightness in the record is to be sent ...
SValue ==
  Pending(ValueSets) =>
    /\ node.l > 0
    /\ Pending({"hslSet"}) => HslLightness(node.l, LightMax) > 0

\* ... or is the light's, or is to be asked for.
SLight ==
  HasLight(node) /\ ~Pending(ValueSets) =>
    /\ ~Pending({"lightGet"}) =>
         /\ light.l > 0 => Near(node.l, Seen)
         /\ light.l = 0 => node.l = 0 \/ Near(node.l, View(light.by, light.was))

\* A light is not switched on at a brightness that is lost on the way to it.
SBright ==
  HasLight(node) /\ node.on =>
    \A i \in DOMAIN queue :
      queue[i].op = "onoffSet" /\ Final(i, ValueSets) =>
        node.l > 2

SCover == want # Nothing /\ want.cover => node.level = PositionToLevel(want.l)

\* Commands that Home Assistant gave: on is what the light is or is to be, and it is told.
SOn ==
  "web" \notin doubts =>
    /\ \A k \in DOMAIN queue :
         /\ queue[k].op \in ValueSets
         /\ Final(k, Switches)
         => node.on
    /\ /\ ~Pending(Switches \union {"onoffGet"}) /\ (late = Nothing \/ late.op = "levelSet")
       /\ "onoff" \in light.models
       => (node.on <=> light.l > 0)
SEnds == "web" \notin doubts /\ queue # <<>> => queue[Len(queue)].op = "status"
STold == doubts = {} /\ shown # Nothing => shown = StatusOf(node) \/ Pending({"status"})

SShows ==
  Standalone /\ Sure =>
    /\ SMode /\ SOrder /\ SGets /\ SAir /\ SLate /\ SValue /\ SLight /\ SBright /\ SCover
    /\ SOn /\ SEnds /\ STold

LEMMA FinalMoves ==
  ASSUME LightTypeOK, LightTypeOK', NEW d \in {0, 1}, NEW ops, Moved(d, ops), NEW S,
         NEW k \in DOMAIN queue', Final(k, S)'
  PROVE  Final(k + d, S)
<1>1. SUFFICES ASSUME NEW j \in DOMAIN queue, j > k + d, queue[j].op \in S
               PROVE  FALSE
  BY DEF Final
<1>2. k \in Nat /\ k >= 1 /\ j \in Nat
  BY DEF LightTypeOK
<1>3. j - d \in DOMAIN queue' /\ (j - d) + d = j /\ j - d > k
  BY <1>1, <1>2 DEF Moved
<1>4. queue'[j - d].op = queue[j].op
  BY <1>3 DEF Moved
<1> QED BY <1>1, <1>3, <1>4 DEF Final

\* What is in the queue after a step that puts no Set into it.
LEMMA OldSets ==
  ASSUME LightTypeOK, LightTypeOK', NEW d \in {0, 1}, NEW ops, Moved(d, ops), ops \intersect Sets = {},
         NEW k \in DOMAIN queue', queue'[k].op \in Sets
  PROVE  /\ k + d \in DOMAIN queue /\ queue'[k].op = queue[k + d].op
         /\ \A i \in DOMAIN queue' : i < k => i + d \in DOMAIN queue /\ queue'[i].op = queue[i + d].op /\ i + d < k + d
<1>1. k + d \in DOMAIN queue /\ queue'[k].op = queue[k + d].op
  BY DEF Moved
<1>2. ASSUME NEW i \in DOMAIN queue', i < k
      PROVE  i + d \in DOMAIN queue /\ queue'[i].op = queue[i + d].op /\ i + d < k + d
  <2>1. i \in Nat /\ k \in Nat /\ i >= 1 /\ queue \in Seq(AnItem)
    BY DEF LightTypeOK
  <2>2. i + d \in DOMAIN queue /\ i + d < k + d
    BY <1>1, <1>2, <2>1
  <2> QED BY <2>2 DEF Moved
<1> QED BY <1>1, <1>2

\* The front stays while its answer is awaited.
LEMMA HeadStays ==
  ASSUME LightTypeOK, LightTypeOK', Shapes, NEW ops, NEW d \in {0, 1}, Moved(d, ops), d = 0, waiting
  PROVE  queue # <<>> /\ queue' # <<>> /\ Head(queue').op = Head(queue).op /\ 1 \in DOMAIN queue'
<1>1. queue \in Seq(AnItem) /\ queue' \in Seq(AnItem) /\ queue # <<>>
  BY DEF LightTypeOK, Shapes
<1>2. 1 \in DOMAIN queue /\ 1 - 0 = 1 /\ 1 + 0 = 1
  BY <1>1
<1>3. 1 \in DOMAIN queue' /\ queue'[1].op = queue[1].op
  BY <1>2 DEF Moved
<1> QED BY <1>1, <1>3

\* A step that leaves the messages that switch the light, its record and the light as they are.
LEMMA ValuesStay ==
  ASSUME LightTypeOK, LightTypeOK', Shapes, NEW d \in {0, 1}, NEW ops, Moved(d, ops),
         ops \intersect Switches = {},
         d = 1 => queue # <<>> /\ Head(queue).op \notin Switches \union {"lightGet", "onoffGet"},
         UNCHANGED <<light>>,
         late' = Nothing \/ late'.op = "levelSet" => late = Nothing \/ late.op = "levelSet",
         node'.mode = node.mode, node'.l = node.l, node'.on = node.on, node'.features = node.features,
         "web" \notin doubts' => "web" \notin doubts,
         waiting' => waiting /\ d = 0,
         SMode, SValue, SLight, SBright, SOn
  PROVE  SMode' /\ SValue' /\ SLight' /\ SBright' /\ SOn'
<1>1. /\ ColourSets \subseteq Switches /\ ValueSets \subseteq Switches
      /\ "onoffSet" \in Switches /\ "hslSet" \in Switches /\ "ctlSet" \in Switches
      /\ "lightSet" \in Switches
  BY DEF ColourSets, ValueSets, Switches
<1>2. \A S : S \subseteq Switches => (Pending(S)' <=> Pending(S))
  <2>1. SUFFICES ASSUME NEW S, S \subseteq Switches PROVE Pending(S)' <=> Pending(S)
    OBVIOUS
  <2>2. S \intersect ops = {} /\ (d = 0 \/ (queue # <<>> /\ Head(queue).op \notin S))
    BY <2>1
  <2> QED BY <2>2, PendingMoves
<1>3. Pending({"lightGet"}) => Pending({"lightGet"})'
  <2>1. d = 0 \/ (queue # <<>> /\ Head(queue).op \notin {"lightGet"})
    OBVIOUS
  <2> QED BY <2>1, PendingMoves
<1>4. Pending(Switches \union {"onoffGet"}) => Pending(Switches \union {"onoffGet"})'
  <2>1. d = 0 \/ (queue # <<>> /\ Head(queue).op \notin Switches \union {"onoffGet"})
    BY <1>1
  <2> QED BY <2>1, PendingMoves
<1>5. \A k \in DOMAIN queue' :
        /\ queue'[k].op \in Switches => k + d \in DOMAIN queue /\ queue'[k].op = queue[k + d].op
        /\ \A S : Final(k, S)' => Final(k + d, S)
  BY FinalMoves DEF Moved
<1>6. /\ HasLight(node)' = HasLight(node) /\ Matches(node)' = Matches(node)
      /\ Seen' = Seen
  BY DEF HasLight, Matches, Seen, View
<1>8. SMode'
  <2>1. ~Pending(ColourSets)' => Matches(node)'
    BY <1>1, <1>2, <1>6 DEF SMode
  <2>2. Pending({"ctlSet"})' /\ ~Pending({"hslSet"})' => node'.mode = "color_temp"
    BY <1>1, <1>2 DEF SMode
  <2>3. waiting' /\ Head(queue').op = "hslSet" => node'.mode = "hs"
    BY HeadStays DEF SMode
  <2>4. ASSUME NEW i \in DOMAIN queue', NEW j \in DOMAIN queue', queue'[i].op = "hslSet", queue'[j].op = "ctlSet"
        PROVE  j < i
    <3>1. j + d < i + d
      BY <1>1, <1>5, <2>4 DEF SMode
    <3> QED BY <3>1 DEF LightTypeOK
  <2>5. ASSUME NEW k \in DOMAIN queue', queue'[k].op = "lightSet", Final(k, ValueSets)'
        PROVE  node'.mode # "hs" /\ ~Pending({"hslSet"})'
    <3>1. k + d \in DOMAIN queue /\ queue[k + d].op = "lightSet" /\ Final(k + d, ValueSets)
      BY <1>1, <1>5, <2>5
    <3>2. node.mode # "hs" /\ ~Pending({"hslSet"})
      BY <3>1 DEF SMode
    <3> QED BY <1>1, <1>2, <3>2
  <2> QED BY <2>1, <2>2, <2>3, <2>4, <2>5 DEF SMode
<1>12. SValue'
  BY <1>1, <1>2, <1>6 DEF SValue
<1>13. SLight'
  <2>1. View(light.by, light.was)' = View(light.by, light.was)
    BY DEF View
  <2> QED BY <1>1, <1>2, <1>3, <1>6, <2>1 DEF SLight
<1>14. SBright'
  <2>1. SUFFICES ASSUME HasLight(node), node.on, NEW i \in DOMAIN queue', queue'[i].op = "onoffSet",
                        Final(i, ValueSets)'
                 PROVE  node.l > 2
    BY <1>6 DEF SBright
  <2>2. i + d \in DOMAIN queue /\ queue[i + d].op = "onoffSet" /\ Final(i + d, ValueSets)
    BY <1>1, <1>5, <2>1
  <2> QED BY <2>1, <2>2 DEF SBright
<1>17. SOn'
  <2>1. SUFFICES ASSUME "web" \notin doubts'
                 PROVE  /\ \A k \in DOMAIN queue' : queue'[k].op \in ValueSets /\ Final(k, Switches)' => node.on
                        /\ /\ ~Pending(Switches \union {"onoffGet"})' /\ (late' = Nothing \/ late'.op = "levelSet")
                           /\ "onoff" \in light.models
                           => (node.on <=> light.l > 0)
    BY DEF SOn
  <2>2. ASSUME NEW k \in DOMAIN queue', queue'[k].op \in ValueSets, Final(k, Switches)'
        PROVE  node.on
    <3>1. k + d \in DOMAIN queue /\ queue[k + d].op \in ValueSets /\ Final(k + d, Switches)
      BY <1>1, <1>5, <2>2
    <3> QED BY <2>1, <3>1 DEF SOn
  <2> QED BY <1>4, <2>1, <2>2 DEF SOn
<1> QED BY <1>8, <1>12, <1>13, <1>14, <1>17

\* A step that puts no Set into the queue and takes none from it, likewise.
LEMMA AnswersStay ==
  ASSUME LightTypeOK, LightTypeOK', Shapes, NEW d \in {0, 1}, NEW ops, Moved(d, ops),
         ops \intersect Sets = {}, d = 1 => queue # <<>> /\ Head(queue).op \notin Sets,
         UNCHANGED <<light, want, late>>,
         node'.l = node.l, node'.on = node.on, node'.level = node.level,
         waiting' => waiting /\ d = 0 /\ air' = air,
         SOrder, SAir, SLate, SCover
  PROVE  SOrder' /\ SAir' /\ SLate' /\ SCover'
<1>1. "onoffSet" \in Sets /\ "levelSet" \in Sets /\ ValueSets \subseteq Sets
  BY DEF Sets, ValueSets
<1>2. \A S : S \subseteq Sets => (Pending(S)' <=> Pending(S))
  <2>1. SUFFICES ASSUME NEW S, S \subseteq Sets PROVE Pending(S)' <=> Pending(S)
    OBVIOUS
  <2>2. S \intersect ops = {} /\ (d = 0 \/ (queue # <<>> /\ Head(queue).op \notin S))
    BY <2>1
  <2> QED BY <2>2, PendingMoves
<1>3. Seen' = Seen
  BY DEF Seen, View
<1>4. SOrder'
  <2>1. SUFFICES ASSUME NEW i \in DOMAIN queue', NEW j \in DOMAIN queue', i < j,
                        queue'[i].op \in Stores, queue'[j].op \in Sets
                 PROVE  queue'[i].op = "onoffSet" /\ queue'[j].op \in ValueSets
    BY DEF SOrder
  <2>2. /\ j + d \in DOMAIN queue /\ queue'[j].op = queue[j + d].op
        /\ i + d \in DOMAIN queue /\ queue'[i].op = queue[i + d].op /\ i + d < j + d
    BY <2>1, OldSets
  <2> QED BY <2>1, <2>2 DEF SOrder
<1>5. SAir'
  <2>1. SUFFICES ASSUME Answered' PROVE SAir'
    BY DEF SAir
  <2>2. Answered /\ air' = air /\ d = 0 /\ waiting' /\ waiting
    BY <2>1 DEF Answered
  <2>3. Final(1, ValueSets)' => Final(1, ValueSets)
    <3>1. 1 \in DOMAIN queue' /\ 1 + 0 = 1
      BY <2>2, HeadStays
    <3> QED BY <2>2, <3>1, FinalMoves
  <2> QED BY <1>3, <2>2, <2>3 DEF SAir
<1>6. SLate'
  BY <1>1, <1>2 DEF SLate
<1>7. SCover'
  BY DEF SCover
<1> QED BY <1>4, <1>5, <1>6, <1>7

\* A Get of the HSL lightness is never the last word.
LEMMA GetsMove ==
  ASSUME LightTypeOK, LightTypeOK', NEW d \in {0, 1}, NEW ops, Moved(d, ops), "hslGet" \notin ops, SGets
  PROVE  SGets'
<1>1. SUFFICES ASSUME NEW i \in DOMAIN queue', queue'[i].op = "hslGet"
               PROVE  \E j \in DOMAIN queue' : j > i /\ queue'[j].op = "lightGet"
  BY DEF SGets
<1>2. i + d \in DOMAIN queue /\ queue[i + d].op = "hslGet" /\ i \in Nat /\ i >= 1
  BY <1>1 DEF Moved, LightTypeOK
<1>3. PICK j \in DOMAIN queue : j > i + d /\ queue[j].op = "lightGet"
  BY <1>2 DEF SGets
<1>4. j \in Nat /\ j - d \in DOMAIN queue' /\ (j - d) + d = j /\ j - d > i
  BY <1>2, <1>3 DEF Moved, LightTypeOK
<1>5. queue'[j - d].op = queue[j].op
  BY <1>3, <1>4 DEF Moved
<1> QED BY <1>3, <1>4, <1>5

(***************************************************************************)
(* What a refresh asks for, and in which order.                            *)
(***************************************************************************)
Among(op, s) == \E i \in DOMAIN s : s[i] = op
Followed(s) == \A i \in DOMAIN s : s[i] = "hslGet" => \E j \in DOMAIN s : j > i /\ s[j] = "lightGet"

LEMMA AmongBoth ==
  ASSUME NEW T, NEW q \in Seq(T), NEW r \in Seq(T), NEW s, s = q \o r
  PROVE  \A op : Among(op, q) \/ Among(op, r) => Among(op, s)
<1>1. /\ s \in Seq(T) /\ Len(s) = Len(q) + Len(r)
      /\ \A i \in 1 .. Len(q) : s[i] = q[i]
      /\ \A i \in 1 .. Len(r) : s[Len(q) + i] = r[i]
  OBVIOUS
<1>2. /\ DOMAIN q = 1 .. Len(q) /\ DOMAIN r = 1 .. Len(r) /\ DOMAIN s = 1 .. Len(s)
      /\ Len(q) \in Nat /\ Len(r) \in Nat
  BY <1>1
<1>3. /\ \A i \in DOMAIN q : i \in DOMAIN s /\ s[i] = q[i]
      /\ \A i \in DOMAIN r : Len(q) + i \in DOMAIN s /\ s[Len(q) + i] = r[i]
  BY <1>1, <1>2
<1> QED BY <1>3 DEF Among

LEMMA FollowedBy ==
  ASSUME NEW T, NEW q \in Seq(T), NEW r \in Seq(T), Followed(r),
         Followed(q) \/ Among("lightGet", r), NEW s, s = q \o r
  PROVE  /\ s \in Seq(T) /\ Followed(s) /\ (r # <<>> => s # <<>> /\ s[Len(s)] = r[Len(r)])
         /\ \A op : Among(op, q) \/ Among(op, r) => Among(op, s)
<1>1. /\ s \in Seq(T) /\ Len(s) = Len(q) + Len(r)
      /\ \A i \in 1 .. Len(q) : s[i] = q[i]
      /\ \A i \in 1 .. Len(r) : s[Len(q) + i] = r[i]
      /\ \A i \in 1 .. Len(s) : i > Len(q) => i - Len(q) \in 1 .. Len(r) /\ s[i] = r[i - Len(q)]
  OBVIOUS
<1>2. /\ DOMAIN q = 1 .. Len(q) /\ DOMAIN r = 1 .. Len(r) /\ DOMAIN s = 1 .. Len(s)
      /\ Len(q) \in Nat /\ Len(r) \in Nat
  BY <1>1
<1>3. /\ \A i \in DOMAIN q : i \in DOMAIN s /\ s[i] = q[i]
      /\ \A i \in DOMAIN r : Len(q) + i \in DOMAIN s /\ s[Len(q) + i] = r[i]
  BY <1>1, <1>2
<1>4. ASSUME r # <<>>
      PROVE  s # <<>> /\ s[Len(s)] = r[Len(r)]
  <2>1. Len(r) \in DOMAIN r
    BY <1>2, <1>4
  <2>2. Len(q) + Len(r) \in DOMAIN s /\ s[Len(q) + Len(r)] = r[Len(r)]
    BY <1>3, <2>1
  <2> QED BY <1>1, <2>2
<1>5. Followed(s)
  <2>1. SUFFICES ASSUME NEW i \in DOMAIN s, s[i] = "hslGet"
                 PROVE  \E j \in DOMAIN s : j > i /\ s[j] = "lightGet"
    BY DEF Followed
  <2>2. CASE i <= Len(q) /\ Followed(q)
    <3>1. i \in DOMAIN q /\ q[i] = "hslGet"
      BY <1>1, <1>2, <2>1, <2>2
    <3> QED BY <1>3, <2>2, <3>1 DEF Followed
  <2>3. CASE i <= Len(q) /\ Among("lightGet", r)
    <3>1. PICK j \in DOMAIN r : r[j] = "lightGet"
      BY <2>3 DEF Among
    <3>2. Len(q) + j > i
      BY <1>2, <2>3, <3>1
    <3> QED BY <1>3, <3>1, <3>2
  <2>4. CASE i > Len(q)
    <3>1. i - Len(q) \in DOMAIN r /\ r[i - Len(q)] = "hslGet"
      BY <1>1, <1>2, <2>1, <2>4
    <3>2. PICK j \in DOMAIN r : j > i - Len(q) /\ r[j] = "lightGet"
      BY <3>1 DEF Followed
    <3>3. Len(q) + j > i
      BY <1>2, <2>4, <3>2
    <3> QED BY <1>3, <3>2, <3>3
  <2> QED BY <1>2, <2>2, <2>3, <2>4
<1>6. \A op : Among(op, q) \/ Among(op, r) => Among(op, s)
  BY <1>3 DEF Among
<1> QED BY <1>1, <1>4, <1>5, <1>6

LEMMA RefreshAsks ==
  ASSUME NEW f \in Lights, NEW e \in {<<>>, <<"announce", "status">>}, NEW ops, ops = RefreshOps(f) \o e
  PROVE  /\ ops \in Seq(Asks) /\ ops # <<>> /\ ops[Len(ops)] = "status" /\ Followed(ops)
         /\ "onoff" \in f => Among("onoffGet", ops)
         /\ f \intersect LightModels # {} => Among("lightGet", ops)
<1> DEFINE a == If("onoff" \in f, <<"onoffGet">>)
           b == If("hsl" \in f, <<"hslGet", "hslRange">>)
           c == If("lightness" \in f, <<"lightGet", "lightRange">>)
           d == If("ctl" \in f, <<"tempRange", "tempGet">>)
           last == <<"status">>
<1>1. a \in Seq(Asks) /\ b \in Seq(Asks) /\ c \in Seq(Asks) /\ d \in Seq(Asks)
      /\ last \in Seq(Asks) /\ e \in Seq(Asks)
  <2>1. {"onoffGet", "hslGet", "hslRange", "lightGet", "lightRange", "tempRange", "tempGet",
         "status", "announce"} \subseteq Asks
    BY DEF Asks, Local
  <2>2. \A x, y \in Asks : <<x>> \in Seq(Asks) /\ <<x, y>> \in Seq(Asks) /\ <<>> \in Seq(Asks)
    OBVIOUS
  <2> QED BY <2>1, <2>2 DEF If
<1>2. Followed(a) /\ Followed(c) /\ Followed(d) /\ Followed(last) /\ Followed(e)
  <2>1. /\ \A i \in DOMAIN a : a[i] # "hslGet"
        /\ \A i \in DOMAIN last : last[i] # "hslGet"
    BY DEF If
  <2>2. \A i \in DOMAIN c : c[i] # "hslGet"
    BY DEF If
  <2>3. \A i \in DOMAIN d : d[i] # "hslGet"
    BY DEF If
  <2>4. \A i \in DOMAIN e : e[i] # "hslGet"
    OBVIOUS
  <2> HIDE DEF a, c, d, last
  <2> QED BY <2>1, <2>2, <2>3, <2>4 DEF Followed
<1>3. last # <<>> /\ last[Len(last)] = "status" /\ (e # <<>> => e[Len(e)] = "status")
  <2>1. last # <<>> /\ Len(last) = 1 /\ last[1] = "status"
    OBVIOUS
  <2>2. CASE e = <<"announce", "status">>
    <3>1. Len(e) = 2 /\ e[2] = "status"
      BY <2>2
    <3> QED BY <2>1, <3>1
  <2>3. CASE e = <<>>
    BY <2>1, <2>3
  <2> QED BY <2>2, <2>3
<1>4. "onoff" \in f => Among("onoffGet", a)
  BY DEF If, Among
<1>5. "lightness" \in f => Among("lightGet", c)
  BY DEF If, Among
<1>6. f \intersect LightModels # {} => "lightness" \in f
  BY LightHas
<1>7. b = <<>> \/ "lightness" \in f
  BY <1>6 DEF If, LightModels
<1>8. ops = (((a \o b) \o c) \o d \o last) \o e
  BY DEF RefreshOps
<1> HIDE DEF a, b, c, d, last
<1>9. PICK p : p = (a \o b) \o c
  OBVIOUS
<1>10. p \in Seq(Asks) /\ Followed(p) /\ ("onoff" \in f => Among("onoffGet", p))
       /\ ("lightness" \in f => Among("lightGet", p))
  <2> DEFINE q == a \o b
  <2>1. q \in Seq(Asks) /\ (b = <<>> => q = a) /\ p = q \o c
    BY <1>1, <1>9
  <2>2. Followed(q) \/ Among("lightGet", c)
    BY <1>2, <1>5, <1>7, <2>1
  <2>3. \A op : Among(op, a) => Among(op, q)
    BY <1>1, AmongBoth
  <2> HIDE DEF q
  <2>4. Followed(p) /\ p \in Seq(Asks)
    <3>1. q \in Seq(Asks) /\ c \in Seq(Asks) /\ Followed(c) /\ p = q \o c
      BY <1>1, <1>2, <2>1
    <3> QED BY ONLY <2>2, <3>1, FollowedBy
  <2>5. \A op : Among(op, q) \/ Among(op, c) => Among(op, p)
    BY ONLY <1>1, <2>1, AmongBoth
  <2> QED BY <1>4, <1>5, <2>3, <2>4, <2>5
<1>11. PICK x : x = p \o d
  OBVIOUS
<1>12. x \in Seq(Asks) /\ Followed(x) /\ (\A op : Among(op, p) => Among(op, x))
  BY <1>1, <1>2, <1>10, <1>11, FollowedBy
<1>13. PICK y : y = x \o last
  OBVIOUS
<1>14. y \in Seq(Asks) /\ Followed(y) /\ (\A op : Among(op, x) => Among(op, y))
       /\ y # <<>> /\ y[Len(y)] = last[Len(last)]
  BY <1>1, <1>2, <1>3, <1>12, <1>13, FollowedBy
<1>15. ops = y \o e
  BY <1>8, <1>9, <1>11, <1>13
<1>16. ops \in Seq(Asks) /\ Followed(ops) /\ (\A op : Among(op, y) => Among(op, ops))
       /\ (e # <<>> => ops # <<>> /\ ops[Len(ops)] = e[Len(e)])
  <2>1. \A op : Among(op, y) => Among(op, ops)
    BY ONLY <1>1, <1>14, <1>15, AmongBoth
  <2>2. ops \in Seq(Asks) /\ Followed(ops) /\ (e # <<>> => ops # <<>> /\ ops[Len(ops)] = e[Len(e)])
    <3>1. y \in Seq(Asks) /\ e \in Seq(Asks) /\ Followed(e) /\ Followed(y) /\ ops = y \o e
      BY <1>1, <1>2, <1>14, <1>15
    <3>2. ops \in Seq(Asks) /\ Followed(ops)
      BY ONLY <3>1, FollowedBy
    <3>3. ASSUME e # <<>>
          PROVE  ops # <<>> /\ ops[Len(ops)] = e[Len(e)]
      BY ONLY <3>1, <3>3, FollowedBy
    <3> QED BY <3>2, <3>3
  <2> QED BY <2>1, <2>2
<1>17. e = <<>> => ops = y
  BY <1>14, <1>15
<1> QED BY <1>3, <1>6, <1>10, <1>12, <1>14, <1>16, <1>17

LEMMA EndsMove ==
  ASSUME LightTypeOK, LightTypeOK', NEW d \in {0, 1}, Moved(d, {}), queue' # <<>>
  PROVE  queue # <<>> /\ queue'[Len(queue')].op = queue[Len(queue)].op
<1>1. /\ queue \in Seq(AnItem) /\ queue' \in Seq(AnItem) /\ DOMAIN queue = 1 .. Len(queue)
      /\ DOMAIN queue' = 1 .. Len(queue') /\ Len(queue) \in Nat /\ Len(queue') \in Nat /\ Len(queue') > 0
  BY DEF LightTypeOK
<1>2. PICK h \in DOMAIN queue' : h = Len(queue')
  BY <1>1
<1>3. h + d \in DOMAIN queue /\ queue'[h].op = queue[h + d].op
  BY DEF Moved
<1>4. PICK m \in DOMAIN queue : m = Len(queue)
  BY <1>1, <1>3
<1>5. m \in Nat /\ h \in Nat /\ h > 0 /\ h + d <= m
  BY <1>1, <1>3, <1>4
<1>6. m - d \in DOMAIN queue'
  BY <1>5 DEF Moved
<1>7. m - d <= h
  BY <1>1, <1>2, <1>6
<1>8. m = h + d
  BY <1>5, <1>7
<1> QED BY <1>2, <1>3, <1>4, <1>8

LEMMA StatusEnds ==
  ASSUME LightTypeOK, queue # <<>>, queue[Len(queue)].op = "status"
  PROVE  Pending({"status"})
<1>1. Len(queue) \in DOMAIN queue
  BY DEF LightTypeOK
<1> QED BY <1>1 DEF Pending

\* What Home Assistant is told of a record is not of its range.
LEMMA StatusStays ==
  ASSUME UNCHANGED edition, node'.mode = node.mode, node'.l = node.l, node'.on = node.on,
         node'.level = node.level, node'.features = node.features
  PROVE  StatusOf(node)' = StatusOf(node)
BY DEF StatusOf, Companion

\* Steps that put nothing into the queue and take nothing from it.
LEMMA StandaloneIdles ==
  ASSUME LightTypeOK, LightTypeOK', Shapes, SShows, Moved(0, {}),
         UNCHANGED <<edition, light, want, late>>, doubts \subseteq doubts',
         node'.mode = node.mode, node'.l = node.l, node'.on = node.on, node'.level = node.level,
         node'.features = node.features,
         waiting' => waiting /\ air' = air, shown' \in {shown, StatusOf(node)}
  PROVE  SShows'
<1>1. SUFFICES ASSUME Standalone, Sure
               PROVE  /\ SMode' /\ SOrder' /\ SGets' /\ SAir' /\ SLate' /\ SValue' /\ SLight'
                      /\ SBright' /\ SCover' /\ SOn' /\ SEnds' /\ STold'
  BY DEF SShows, Standalone, Sure
<1>2. /\ SMode /\ SOrder /\ SGets /\ SAir /\ SLate /\ SValue /\ SLight /\ SBright
      /\ SCover /\ SOn /\ SEnds /\ STold
  BY <1>1 DEF SShows
<1> DEFINE d == 0
           ops == {}
<1>3. d \in {0, 1} /\ Moved(d, ops) /\ ops \intersect Switches = {} /\ ops \intersect Sets = {}
      /\ "hslGet" \notin ops /\ (waiting' => waiting /\ d = 0 /\ air' = air) /\ d # 1
  OBVIOUS
<1> HIDE DEF d, ops
<1>4. SMode' /\ SValue' /\ SLight' /\ SBright' /\ SOn'
  BY <1>2, <1>3, ValuesStay
<1>5. SOrder' /\ SAir' /\ SLate' /\ SCover'
  BY <1>2, <1>3, AnswersStay
<1>6. SGets'
  BY <1>2, <1>3, GetsMove
<1>7. SEnds'
  <2>1. queue' # <<>> => queue # <<>> /\ queue'[Len(queue')].op = queue[Len(queue)].op
    BY EndsMove
  <2> QED BY <1>2, <2>1 DEF SEnds
<1>8. STold'
  <2>1. Pending({"status"}) => Pending({"status"})'
    BY PendingMoves
  <2>2. StatusOf(node)' = StatusOf(node)
    BY StatusStays
  <2> QED BY <1>2, <2>1, <2>2 DEF STold
<1> QED BY <1>4, <1>5, <1>6, <1>7, <1>8

LEMMA StandaloneAside ==
  ASSUME LightTypeOK, LightTypeOK', Shapes, SShows,
         console_get \/ ByHand \/ Answer \/ UNCHANGED lightvars
  PROVE  SShows'
<1>1. /\ UNCHANGED <<edition, light, node, queue, want, late, waiting, air, doubts>>
      /\ Standalone => shown' \in {shown, StatusOf(node)}
  BY DEF console_get, ByHand, Answer, lightvars, Companion, Standalone
<1>2. SUFFICES ASSUME Standalone PROVE SShows'
  BY <1>1 DEF SShows, Standalone
<1>3. Moved(0, {})
  BY <1>1, MovedNot
<1> QED BY <1>1, <1>2, <1>3, StandaloneIdles

LEMMA StandaloneWaits ==
  ASSUME LightTypeOK, LightTypeOK', Shapes, SShows, Timeout
  PROVE  SShows'
<1>1. SUFFICES ASSUME Standalone, Sure' PROVE SShows'
  BY DEF SShows, Standalone, Timeout
<1>2. /\ UNCHANGED <<edition, light, node, want, shown>> /\ waiting' = FALSE /\ late = Nothing
      /\ doubts' = (IF Head(queue).left > 1 /\ (Companion \/ Head(queue).op # "onoffSet") THEN doubts
                    ELSE doubts \union {"lost"})
      /\ late' = IF Standalone /\ Head(queue).op = "onoffSet"
                   THEN [op |-> Head(queue).op, got |-> [light EXCEPT !.l = 0]] ELSE Nothing
  BY DEF Timeout
<1>3. Head(queue).left > 1 /\ Head(queue).op # "onoffSet"
  BY <1>1, <1>2 DEF Sure, Companion, Standalone
<1>4. Moved(0, {})
  BY <1>3, TimeoutMoves
<1>5. late' = late /\ doubts' = doubts
  BY <1>2, <1>3
<1> QED BY <1>2, <1>4, <1>5, StandaloneIdles

LEMMA StandaloneOverhears ==
  ASSUME LightTypeOK, LightTypeOK', Shapes, SShows, Overhear
  PROVE  SShows'
<1>1. /\ heard # Nothing /\ UNCHANGED <<edition, light, waiting, air, late, want>>
      /\ doubts \subseteq doubts'
  BY DEF Overhear
<1>2. SUFFICES ASSUME Standalone PROVE SShows'
  BY <1>1 DEF SShows, Standalone
<1>3. /\ node' = Stored(node, heard.op, heard.got) /\ UNCHANGED <<queue, offered, shown>>
      /\ heard.op \in {"hslRange", "lightRange", "tempGet", "tempRange"}
  BY <1>1, <1>2 DEF Overhear, Shapes
<1>4. node' \in {node, [node EXCEPT !.maxL = LightMax]}
  BY <1>3 DEF Stored
<1>5. /\ node'.mode = node.mode /\ node'.l = node.l /\ node'.on = node.on
      /\ node'.level = node.level /\ node'.features = node.features
  BY <1>4 DEF LightTypeOK, ANode
<1>6. Moved(0, {})
  BY <1>3, MovedNot
<1> QED BY <1>1, <1>3, <1>5, <1>6, StandaloneIdles

LEMMA AsksBehind ==
  ASSUME LightTypeOK, NEW ops \in Seq(Asks), Followed(ops), ops # <<>>, SGets,
         NEW r, r = Items(ops), queue' = queue \o r
  PROVE  /\ Moved(0, Asks) /\ SGets' /\ queue' # <<>> /\ queue'[Len(queue')].op = ops[Len(ops)]
<1>1. Asks \subseteq DOMAIN ModelOf \union Local
  BY ModelOfIs DEF Asks, Local
<1>2. r \in Seq(AnItem) /\ Len(r) = Len(ops) /\ DOMAIN r = DOMAIN ops /\ (\A i \in DOMAIN r : r[i].op = ops[i])
  <2>1. r \in Seq(AnItem)
    <3>1. ops \in Seq(DOMAIN ModelOf \union Local)
      BY <1>1
    <3> QED BY <3>1, ItemsType
  <2>2. DOMAIN r = DOMAIN ops /\ \A i \in DOMAIN r : r[i].op = ops[i]
    BY OpOfItem DEF Items
  <2>3. Len(r) = Len(ops)
    BY <2>1, <2>2
  <2> QED BY <2>1, <2>2, <2>3
<1>3. /\ queue \in Seq(AnItem) /\ queue' \in Seq(AnItem) /\ Len(queue') = Len(queue) + Len(r)
      /\ \A i \in 1 .. Len(queue) : queue'[i] = queue[i]
      /\ \A i \in 1 .. Len(r) : queue'[Len(queue) + i] = r[i]
      /\ \A i \in 1 .. Len(queue') : i > Len(queue) => i - Len(queue) \in 1 .. Len(r) /\ queue'[i] = r[i - Len(queue)]
  <2> DEFINE q == queue'
  <2>1. queue \in Seq(AnItem) /\ r \in Seq(AnItem) /\ q = queue \o r
    BY <1>2 DEF LightTypeOK
  <2> HIDE DEF q
  <2>2. /\ q \in Seq(AnItem) /\ Len(q) = Len(queue) + Len(r)
        /\ \A i \in 1 .. Len(queue) : q[i] = queue[i]
        /\ \A i \in 1 .. Len(r) : q[Len(queue) + i] = r[i]
        /\ \A i \in 1 .. Len(q) : i > Len(queue) => i - Len(queue) \in 1 .. Len(r) /\ q[i] = r[i - Len(queue)]
    BY <2>1
  <2> QED BY <2>1, <2>2 DEF q
<1>4. /\ DOMAIN queue = 1 .. Len(queue) /\ DOMAIN queue' = 1 .. Len(queue') /\ DOMAIN r = 1 .. Len(r)
      /\ Len(queue) \in Nat /\ Len(r) \in Nat /\ Len(r) > 0
  BY <1>2, <1>3
<1>5. Moved(0, Asks)
  <2>1. \A i \in DOMAIN r : r[i].op \in Asks
    BY <1>2
  <2> QED BY <1>2, <2>1, MovedBehind
<1>6. \A i \in DOMAIN r : Len(queue) + i \in DOMAIN queue' /\ queue'[Len(queue) + i].op = ops[i]
  BY <1>2, <1>3, <1>4
<1>7. SGets'
  <2>1. SUFFICES ASSUME NEW i \in DOMAIN queue', queue'[i].op = "hslGet"
                 PROVE  \E j \in DOMAIN queue' : j > i /\ queue'[j].op = "lightGet"
    BY DEF SGets
  <2>2. CASE i <= Len(queue)
    <3>1. i \in DOMAIN queue /\ queue[i].op = "hslGet"
      BY <1>3, <1>4, <2>1, <2>2
    <3>2. PICK j \in DOMAIN queue : j > i /\ queue[j].op = "lightGet"
      BY <3>1 DEF SGets
    <3> QED BY <1>3, <1>4, <3>2
  <2>3. CASE i > Len(queue)
    <3>1. i - Len(queue) \in DOMAIN ops /\ ops[i - Len(queue)] = "hslGet"
      BY <1>2, <1>3, <1>4, <2>1, <2>3
    <3>2. PICK j \in DOMAIN ops : j > i - Len(queue) /\ ops[j] = "lightGet"
      BY <3>1 DEF Followed
    <3>3. Len(queue) + j > i
      BY <1>2, <1>4, <2>1, <2>3, <3>2
    <3> QED BY <1>2, <1>6, <3>2, <3>3
  <2> QED BY <1>4, <2>2, <2>3
<1>8. queue' # <<>> /\ queue'[Len(queue')].op = ops[Len(ops)]
  <2>1. Len(r) \in DOMAIN r
    BY <1>4
  <2>2. queue'[Len(queue) + Len(r)].op = ops[Len(r)]
    BY <1>6, <2>1
  <2>3. queue' # <<>>
    BY <1>3, <1>4
  <2> QED BY <1>2, <1>3, <2>2, <2>3
<1> QED BY <1>5, <1>7, <1>8

LEMMA StandaloneRefreshes ==
  ASSUME LightTypeOK, LightTypeOK', AllFit, Shapes, SShows, Refresh
  PROVE  SShows'
<1> DEFINE ops == RefreshOps(node.features)
           r == Items(ops)
<1>1. /\ Standalone /\ queue' = queue \o r
      /\ UNCHANGED <<edition, light, node, waiting, air, late, shown, want, doubts>>
  BY DEF Refresh
<1>2. SUFFICES ASSUME Sure
               PROVE  /\ SMode' /\ SOrder' /\ SGets' /\ SAir' /\ SLate' /\ SValue' /\ SLight'
                      /\ SBright' /\ SCover' /\ SOn' /\ SEnds' /\ STold'
  BY <1>1 DEF SShows, Standalone, Sure
<1>3. /\ SMode /\ SOrder /\ SGets /\ SAir /\ SLate /\ SValue /\ SLight /\ SBright
      /\ SCover /\ SOn /\ SEnds /\ STold
  BY <1>1, <1>2 DEF SShows
<1>4. ops \in Seq(Asks) /\ ops # <<>> /\ ops[Len(ops)] = "status" /\ Followed(ops)
  <2> DEFINE e == <<>>
             all == ops \o e
  <2>1. node.features \in Lights /\ e \in {<<>>, <<"announce", "status">>}
    BY <1>1 DEF AllFit, RecordFits, LightFits
  <2>2. all = RefreshOps(node.features) \o e
    OBVIOUS
  <2> HIDE DEF all
  <2>3. all \in Seq(Asks) /\ all # <<>> /\ all[Len(all)] = "status" /\ Followed(all)
    BY ONLY <2>1, <2>2, RefreshAsks
  <2>4. all = ops
    <3>1. LET fit == {op \in Asks : op \in Local \/ ModelOf[op] \in node.features}
          IN  ops \in Seq(fit)
      BY RefreshHas
    <3>2. PICK T : ops \in Seq(T)
      BY <3>1
    <3> HIDE DEF ops
    <3> QED BY <2>2, <3>2, ConcatEmptySeq DEF all
  <2> QED BY <2>3, <2>4
<1> HIDE DEF ops, r
<1>5. r = Items(ops)
  BY DEF r
<1>6. Moved(0, Asks) /\ SGets' /\ queue' # <<>> /\ queue'[Len(queue')].op = "status"
  BY <1>1, <1>3, <1>4, <1>5, AsksBehind
<1> DEFINE d == 0
<1>7. d \in {0, 1} /\ Moved(d, Asks) /\ Asks \intersect Switches = {} /\ Asks \intersect Sets = {}
      /\ (waiting' => waiting /\ d = 0 /\ air' = air) /\ d # 1
  <2>1. Asks \intersect Sets = {} /\ Switches \subseteq Sets
    BY DEF Asks, Local, Sets, Switches, ValueSets
  <2> QED BY <1>1, <1>6, <2>1
<1> HIDE DEF d
<1>8. SMode' /\ SValue' /\ SLight' /\ SBright' /\ SOn'
  BY <1>1, <1>3, <1>7, ValuesStay
<1>9. SOrder' /\ SAir' /\ SLate' /\ SCover'
  BY <1>1, <1>3, <1>7, AnswersStay
<1>10. SEnds'
  BY <1>6 DEF SEnds
<1>11. STold'
  <2>1. Len(queue') \in DOMAIN queue'
    BY <1>6 DEF LightTypeOK
  <2> QED BY <1>6, <2>1 DEF STold, Pending
<1> QED BY <1>6, <1>8, <1>9, <1>10, <1>11

LEMMA StandalonePublishes ==
  ASSUME LightTypeOK, LightTypeOK', Shapes, SShows, Publish
  PROVE  SShows'
<1>1. /\ ~waiting /\ queue # <<>> /\ Head(queue).op \in Local /\ queue' = Tail(queue)
      /\ IF Head(queue).op = "status" THEN shown' = StatusOf(node) ELSE shown' = shown
      /\ UNCHANGED <<edition, light, node, waiting, air, late, want, doubts>>
  BY DEF Publish
<1>2. SUFFICES ASSUME Standalone, Sure
               PROVE  /\ SMode' /\ SOrder' /\ SGets' /\ SAir' /\ SLate' /\ SValue' /\ SLight'
                      /\ SBright' /\ SCover' /\ SOn' /\ SEnds' /\ STold'
  BY <1>1 DEF SShows, Standalone, Sure
<1>3. /\ SMode /\ SOrder /\ SGets /\ SAir /\ SLate /\ SValue /\ SLight /\ SBright
      /\ SCover /\ SOn /\ SEnds /\ STold
  BY <1>2 DEF SShows
<1> DEFINE d == 1
           ops == {}
<1>4. Moved(1, {})
  <2> DEFINE e == <<>>
  <2>1. e \in Seq(AnItem) /\ queue' = Tail(queue) \o e /\ DOMAIN e = {}
    BY <1>1, NoneAdded DEF LightTypeOK
  <2> HIDE DEF e
  <2> QED BY <1>1, <2>1, MovedOn
<1>5. /\ d \in {0, 1} /\ Moved(d, ops) /\ ops \intersect Switches = {} /\ ops \intersect Sets = {}
      /\ "hslGet" \notin ops /\ ~waiting' /\ queue # <<>>
      /\ Head(queue).op \notin Sets /\ Head(queue).op \notin Switches \union {"lightGet", "onoffGet"}
  BY <1>1, <1>4 DEF Local, Sets, Switches, ValueSets
<1> HIDE DEF d, ops
<1>6. SMode' /\ SValue' /\ SLight' /\ SBright' /\ SOn'
  BY <1>1, <1>3, <1>5, ValuesStay
<1>7. SOrder' /\ SAir' /\ SLate' /\ SCover'
  BY <1>1, <1>3, <1>5, AnswersStay
<1>8. SGets'
  BY <1>3, <1>5, GetsMove
<1>9. SEnds'
  <2>1. queue' # <<>> => queue # <<>> /\ queue'[Len(queue')].op = queue[Len(queue)].op
    BY <1>4, EndsMove
  <2> QED BY <1>1, <1>3, <2>1 DEF SEnds
<1>10. STold'
  <2>1. Head(queue).op # "status" /\ Pending({"status"}) => Pending({"status"})'
    BY <1>1, <1>4, PendingMoves
  <2>2. StatusOf(node)' = StatusOf(node)
    BY <1>1, StatusStays
  <2> QED BY <1>1, <1>3, <2>1, <2>2 DEF STold
<1> QED BY <1>6, <1>7, <1>8, <1>9, <1>10

(***************************************************************************)
(* A Standalone command: chg says whether it changes the brightness, which *)
(* is a then and goes out with message m.                                  *)
(***************************************************************************)
New(j) == j \in DOMAIN queue' /\ j \notin DOMAIN queue
Commanded(chg, m, a) ==
  /\ late = Nothing /\ ~Pending(Stores) /\ UNCHANGED <<light, waiting, air, late>>
  /\ chg \in BOOLEAN /\ m \in ValueSets /\ Moved(0, {"onoffSet", m, "status"})
  /\ \A j \in DOMAIN queue' : New(j) /\ queue'[j].op \in ValueSets => chg /\ queue'[j].op = m
  /\ \A i, j \in DOMAIN queue' :
       /\ New(i) /\ New(j) /\ queue'[i].op = "onoffSet"
       => /\ queue'[j].op = "onoffSet" => i = j
          /\ queue'[j].op \in ValueSets => i < j
  /\ chg => \E j \in DOMAIN queue' : New(j) /\ queue'[j].op = m
  /\ "web" \notin doubts' =>
       /\ queue' # <<>> /\ queue'[Len(queue')].op = "status" /\ (chg => node'.on)
       /\ \E j \in DOMAIN queue' : New(j) /\ queue'[j].op = "onoffSet"
  /\ node'.features = node.features /\ want'.cover = FALSE
  /\ node'.l = (IF chg THEN a ELSE node.l)
  /\ node'.mode = (IF chg /\ m = "ctlSet" THEN "color_temp" ELSE node.mode)
  /\ chg => a > 0 /\ (m = "hslSet" => HslLightness(a, LightMax) > 0)
  /\ chg /\ m = "ctlSet" => ~Pending({"hslSet"})
  /\ chg /\ m = "lightSet" => node.mode # "hs" /\ ~Pending({"hslSet"}) /\ (Sure \/ Matches(node))
  /\ ~chg /\ HasLight(node) /\ node'.on /\ Pending({"onoffSet"})' => node.l > 2
  /\ Sure \/ (Quiet /\ chg)

\* What is old comes before what is new.
LEMMA OldFirst ==
  ASSUME LightTypeOK, LightTypeOK', NEW ops, Moved(0, ops)
  PROVE  /\ \A i \in DOMAIN queue : i \in DOMAIN queue' /\ queue'[i].op = queue[i].op
         /\ \A i \in DOMAIN queue, j \in DOMAIN queue' : New(j) => i < j
         /\ \A S : Pending(S) => Pending(S)'
         /\ \A S : S \intersect ops = {} /\ Pending(S)' => Pending(S)
         /\ \A j \in DOMAIN queue' : New(j) => queue'[j].op \in ops
<1>1. /\ \A i \in DOMAIN queue : i \in Nat /\ i > 0 /\ i - 0 = i /\ i + 0 = i
      /\ \A j \in DOMAIN queue' : j \in Nat /\ j > 0 /\ j + 0 = j
  BY DEF LightTypeOK
<1>2. \A i \in DOMAIN queue : i \in DOMAIN queue' /\ queue'[i].op = queue[i].op
  BY <1>1 DEF Moved
<1>3. ASSUME NEW i \in DOMAIN queue, NEW j \in DOMAIN queue', New(j)
      PROVE  i < j
  <2>1. queue \in Seq(AnItem) /\ DOMAIN queue = 1 .. Len(queue) /\ Len(queue) \in Nat
    BY DEF LightTypeOK
  <2> QED BY <1>1, <1>3, <2>1 DEF New
<1>4. \A j \in DOMAIN queue' : New(j) => queue'[j].op \in ops
  BY <1>1 DEF Moved, New
<1>5. \A S : Pending(S) => Pending(S)'
  BY <1>2 DEF Pending
<1>6. \A S : S \intersect ops = {} /\ Pending(S)' => Pending(S)
  <2>1. SUFFICES ASSUME NEW S, S \intersect ops = {}, NEW j \in DOMAIN queue', queue'[j].op \in S
                 PROVE  Pending(S)
    BY DEF Pending
  <2>2. j \in DOMAIN queue /\ queue'[j].op = queue[j].op
    BY <1>2, <1>4, <2>1 DEF New
  <2> QED BY <2>1, <2>2 DEF Pending
<1> QED BY <1>2, <1>3, <1>4, <1>5, <1>6

LEMMA CommandModes ==
  ASSUME LightTypeOK, LightTypeOK', Shapes, NEW chg, NEW m, NEW a, Commanded(chg, m, a),
         Sure => SMode
  PROVE  SMode'
<1>1. /\ chg \in BOOLEAN /\ m \in {"lightSet", "hslSet", "ctlSet"} /\ UNCHANGED <<light, waiting>>
      /\ \A j \in DOMAIN queue' : New(j) /\ queue'[j].op \in ValueSets => chg /\ queue'[j].op = m
      /\ chg => \E j \in DOMAIN queue' : New(j) /\ queue'[j].op = m
      /\ node'.mode = (IF chg /\ m = "ctlSet" THEN "color_temp" ELSE node.mode)
      /\ chg /\ m = "ctlSet" => ~Pending({"hslSet"})
      /\ chg /\ m = "lightSet" => node.mode # "hs" /\ ~Pending({"hslSet"}) /\ (Sure \/ Matches(node))
      /\ Sure \/ (Quiet /\ chg)
  BY DEF Commanded, ValueSets
<1>2. Moved(0, {"onoffSet", m, "status"})
  BY DEF Commanded
<1>3. /\ \A i \in DOMAIN queue : i \in DOMAIN queue' /\ queue'[i].op = queue[i].op
      /\ \A i \in DOMAIN queue, j \in DOMAIN queue' : New(j) => i < j
      /\ \A S : Pending(S) => Pending(S)'
  BY <1>2, OldFirst
<1>4. \A op \in ValueSets : ~(chg /\ m = op) => (Pending({op})' => Pending({op}))
  <2>1. SUFFICES ASSUME NEW op \in ValueSets, ~(chg /\ m = op), NEW j \in DOMAIN queue', queue'[j].op = op
                 PROVE  Pending({op})
    BY DEF Pending
  <2>2. j \in DOMAIN queue /\ queue[j].op = op
    BY <1>1, <1>3, <2>1 DEF New
  <2> QED BY <2>2 DEF Pending
<1>5. \A op \in ValueSets : chg /\ m = op => Pending({op})'
  BY <1>1 DEF Pending
<1>6. ~Sure => DOMAIN queue = {} /\ ~waiting /\ chg
  BY <1>1 DEF Quiet
<1>7. "hslSet" \in ValueSets /\ "ctlSet" \in ValueSets /\ "lightSet" \in ValueSets
      /\ "hslSet" \in ColourSets /\ "ctlSet" \in ColourSets
  BY DEF ValueSets, ColourSets
<1>8. ~Pending(ColourSets)' => Matches(node)'
  <2>1. SUFFICES ASSUME ~Pending(ColourSets)' PROVE Matches(node)'
    OBVIOUS
  <2>2. ~Pending({"hslSet"})' /\ ~Pending({"ctlSet"})' /\ ~Pending(ColourSets)
    BY <1>3, <1>7, <2>1 DEF Pending
  <2>3. ~(chg /\ m = "hslSet") /\ ~(chg /\ m = "ctlSet")
    BY <1>5, <1>7, <2>2
  <2>4. node'.mode = node.mode /\ light' = light
    BY <1>1, <2>3
  <2>5. Matches(node)
    BY <1>1, <1>6, <2>2, <2>3 DEF SMode
  <2> QED BY <2>4, <2>5 DEF Matches
<1>9. Pending({"ctlSet"})' /\ ~Pending({"hslSet"})' => node'.mode = "color_temp"
  <2>1. SUFFICES ASSUME Pending({"ctlSet"})', ~Pending({"hslSet"})', ~(chg /\ m = "ctlSet")
                 PROVE  node'.mode = "color_temp"
    BY <1>1
  <2>2. Pending({"ctlSet"}) /\ ~Pending({"hslSet"}) /\ node'.mode = node.mode
    BY <1>1, <1>3, <1>4, <1>7, <2>1
  <2>3. Sure
    BY <1>6, <2>2 DEF Pending
  <2> QED BY <2>2, <2>3 DEF SMode
<1>10. waiting' /\ Head(queue').op = "hslSet" => node'.mode = "hs"
  <2>1. SUFFICES ASSUME waiting, Head(queue').op = "hslSet" PROVE node'.mode = "hs"
    BY <1>1
  <2>2. queue # <<>> /\ Head(queue).op = "hslSet" /\ 1 \in DOMAIN queue /\ queue[1] = Head(queue)
    <3>1. queue # <<>> /\ queue \in Seq(AnItem) /\ queue' \in Seq(AnItem)
      BY <2>1 DEF Shapes, LightTypeOK
    <3>2. 1 \in DOMAIN queue /\ queue[1] = Head(queue)
      BY <3>1
    <3>3. 1 \in DOMAIN queue' /\ queue'[1].op = queue[1].op
      BY <1>3, <3>2
    <3>4. queue'[1] = Head(queue')
      BY <3>1, <3>3
    <3> QED BY <2>1, <3>1, <3>2, <3>3, <3>4
  <2>3. Pending({"hslSet"})
    BY <2>2 DEF Pending
  <2> QED BY <1>1, <1>6, <2>1, <2>2, <2>3 DEF SMode
<1>11. ASSUME NEW i \in DOMAIN queue', NEW j \in DOMAIN queue', queue'[i].op = "hslSet", queue'[j].op = "ctlSet"
       PROVE  j < i
  <2>1. CASE New(i) /\ New(j)
    BY <1>1, <1>7, <1>11, <2>1
  <2>2. CASE New(i) /\ ~New(j)
    BY <1>3, <1>11, <2>2 DEF New
  <2>3. CASE ~New(i) /\ New(j)
    <3>1. chg /\ m = "ctlSet" /\ i \in DOMAIN queue /\ queue[i].op = "hslSet"
      BY <1>1, <1>3, <1>7, <1>11, <2>3 DEF New
    <3> QED BY <1>1, <3>1 DEF Pending
  <2>4. CASE ~New(i) /\ ~New(j)
    <3>1. i \in DOMAIN queue /\ queue[i].op = "hslSet" /\ j \in DOMAIN queue /\ queue[j].op = "ctlSet"
      BY <1>3, <1>11, <2>4 DEF New
    <3> QED BY <1>6, <3>1 DEF SMode
  <2> QED BY <2>1, <2>2, <2>3, <2>4
<1>12. ASSUME NEW k \in DOMAIN queue', queue'[k].op = "lightSet", Final(k, ValueSets)'
       PROVE  node'.mode # "hs" /\ ~Pending({"hslSet"})'
  <2>1. CASE chg
    <3>1. PICK j \in DOMAIN queue' : New(j) /\ queue'[j].op = m
      BY <1>1, <2>1
    <3>2. ~(j > k)
      BY <1>1, <1>7, <1>12, <3>1 DEF Final
    <3>3. New(k)
      BY <1>3, <3>1, <3>2 DEF New, LightTypeOK
    <3>4. m = "lightSet"
      BY <1>1, <1>7, <1>12, <3>3
    <3>5. node'.mode # "hs" /\ ~Pending({"hslSet"})
      BY <1>1, <2>1, <3>4
    <3>6. Pending({"hslSet"})' => Pending({"hslSet"})
      BY <1>4, <1>7, <3>4
    <3> QED BY <3>5, <3>6
  <2>2. CASE ~chg
    <3>1. k + 0 = k /\ ~New(k)
      BY <1>1, <1>7, <1>12, <2>2 DEF LightTypeOK
    <3>2. k \in DOMAIN queue /\ queue[k].op = "lightSet" /\ Final(k + 0, ValueSets)
      BY <1>2, <1>3, <1>12, <3>1, FinalMoves DEF New
    <3>3. node.mode # "hs" /\ ~Pending({"hslSet"})
      BY <1>6, <2>2, <3>1, <3>2 DEF SMode
    <3> QED BY <1>1, <1>4, <1>7, <2>2, <3>3
  <2> QED BY <1>1, <2>1, <2>2
<1> QED BY <1>8, <1>9, <1>10, <1>11, <1>12 DEF SMode

LEMMA CommandOrder ==
  ASSUME LightTypeOK, LightTypeOK', NEW chg, NEW m, NEW a, Commanded(chg, m, a), Sure => SGets
  PROVE  SOrder' /\ SGets' /\ SLate' /\ SCover'
<1>1. /\ late' = Nothing /\ ~Pending(Stores) /\ want'.cover = FALSE
      /\ m \in ValueSets /\ Moved(0, {"onoffSet", m, "status"})
      /\ \A j \in DOMAIN queue' : New(j) /\ queue'[j].op \in ValueSets => chg /\ queue'[j].op = m
      /\ \A i, j \in DOMAIN queue' : New(i) /\ New(j) /\ queue'[i].op = "onoffSet" /\ queue'[j].op = "onoffSet" => i = j
      /\ Sure \/ Quiet
  BY DEF Commanded
<1>2. /\ \A i \in DOMAIN queue : i \in DOMAIN queue' /\ queue'[i].op = queue[i].op
      /\ \A i \in DOMAIN queue, j \in DOMAIN queue' : New(j) => i < j
      /\ \A j \in DOMAIN queue' : New(j) => queue'[j].op \in {"onoffSet", m, "status"}
  BY <1>1, OldFirst
<1>3. m \in Sets /\ m \notin Stores /\ "status" \notin Sets /\ m # "hslGet" /\ "hslGet" \notin {"onoffSet", m, "status"}
  BY <1>1 DEF ValueSets, Sets, Stores
<1>4. SOrder'
  <2>1. SUFFICES ASSUME NEW i \in DOMAIN queue', NEW j \in DOMAIN queue', i < j,
                        queue'[i].op \in Stores, queue'[j].op \in Sets
                 PROVE  queue'[i].op = "onoffSet" /\ queue'[j].op \in ValueSets
    BY DEF SOrder
  <2>2. New(i)
    <3>1. i \in DOMAIN queue => Pending(Stores)
      BY <1>2, <2>1 DEF Pending
    <3> QED BY <1>1, <3>1 DEF New
  <2>3. queue'[i].op = "onoffSet"
    BY <1>2, <1>3, <2>1, <2>2 DEF Stores
  <2>4. i \in Nat /\ j \in Nat
    BY DEF LightTypeOK
  <2>5. New(j)
    <3>1. j \in DOMAIN queue => j < i
      BY <1>2, <2>2
    <3> QED BY <2>1, <2>4, <3>1 DEF New
  <2>6. i # j
    BY <2>1, <2>4
  <2>7. queue'[j].op # "onoffSet"
    BY <1>1, <2>2, <2>3, <2>5, <2>6
  <2> QED BY <1>1, <1>2, <1>3, <2>1, <2>3, <2>5, <2>7
<1>5. SGets'
  <2>1. CASE Sure
    <3> DEFINE d == 0
               ops == {"onoffSet", m, "status"}
    <3>1. d \in {0, 1} /\ Moved(d, ops) /\ "hslGet" \notin ops
      BY <1>1, <1>3
    <3> HIDE DEF d, ops
    <3> QED BY <2>1, <3>1, GetsMove
  <2>2. CASE Quiet
    <3>1. \A j \in DOMAIN queue' : New(j)
      BY <2>2 DEF New, Quiet
    <3> QED BY <1>2, <1>3, <3>1 DEF SGets
  <2> QED BY <1>1, <2>1, <2>2
<1>6. SLate' /\ SCover'
  BY <1>1 DEF SLate, SCover
<1> QED BY <1>4, <1>5, <1>6

LEMMA CommandAir ==
  ASSUME LightTypeOK, LightTypeOK', Shapes, NEW chg, NEW m, NEW a, Commanded(chg, m, a), Sure => SAir
  PROVE  SAir'
<1>1. /\ ~Pending(Stores) /\ UNCHANGED <<light, waiting, air>> /\ chg \in BOOLEAN /\ m \in ValueSets
      /\ Moved(0, {"onoffSet", m, "status"})
      /\ chg => \E j \in DOMAIN queue' : New(j) /\ queue'[j].op = m
      /\ node'.l = (IF chg THEN a ELSE node.l)
      /\ Sure \/ Quiet
  BY DEF Commanded
<1>2. SUFFICES ASSUME Answered, waiting PROVE SAir'
  BY <1>1 DEF SAir, Answered
<1>3. /\ air.op = Head(queue).op /\ ~Quiet /\ 1 \in DOMAIN queue /\ queue[1] = Head(queue) /\ SAir
      /\ air.got = light
  <2>1. air.op = Head(queue).op /\ ~Quiet /\ queue # <<>>
    BY <1>2 DEF Shapes, Answered, Quiet
  <2>2. SAir
    BY <1>1, <2>1
  <2> QED BY <1>2, <2>1, <2>2 DEF LightTypeOK, SAir
<1>4. air.op # "levelSet" /\ air.op # "onoffSet"
  BY <1>1, <1>3 DEF Pending, Stores
<1>5. ASSUME air.op \in ValueSets, Final(1, ValueSets)'
      PROVE  light.l > 0 /\ Near(node'.l, Seen)
  <2>1. /\ \A i \in DOMAIN queue : i \in DOMAIN queue' /\ queue'[i].op = queue[i].op
        /\ \A i \in DOMAIN queue, j \in DOMAIN queue' : New(j) => i < j
    BY <1>1, OldFirst
  <2>2. ~chg
    <3>1. SUFFICES ASSUME chg PROVE FALSE
      OBVIOUS
    <3>2. PICK j \in DOMAIN queue' : New(j) /\ queue'[j].op = m
      BY <1>1, <3>1
    <3>3. j > 1
      BY <1>3, <2>1, <3>2 DEF LightTypeOK
    <3> QED BY <1>1, <1>5, <3>2, <3>3 DEF Final
  <2>3. Final(1 + 0, ValueSets)
    <3>1. 1 \in DOMAIN queue'
      BY <1>3, <2>1
    <3> QED BY <1>1, <1>5, <3>1, FinalMoves
  <2>4. 1 + 0 = 1
    OBVIOUS
  <2>5. light.l > 0 /\ Near(node.l, Seen)
    BY <1>2, <1>3, <1>5, <2>3, <2>4 DEF SAir
  <2> QED BY <1>1, <1>3, <2>2, <2>5
<1>6. Seen' = Seen
  BY <1>1 DEF Seen, View
<1>7. air'.op \in ValueSets /\ Final(1, ValueSets)' => light'.l > 0 /\ Near(node.l, Seen)'
  BY <1>1, <1>5, <1>6 DEF Near
<1>8. /\ air'.got = light' /\ air'.op # "levelSet" /\ air'.op # "onoffSet"
      /\ (air'.op = "hslSet" => light'.by = "hs") /\ (air'.op = "ctlSet" => light'.by = "color_temp")
  BY <1>1, <1>2, <1>3, <1>4 DEF SAir
<1> QED BY <1>7, <1>8 DEF SAir

LEMMA CommandValue ==
  ASSUME LightTypeOK, LightTypeOK', NEW chg, NEW m, NEW a, Commanded(chg, m, a),
         Sure => SValue /\ SLight
  PROVE  SValue' /\ SLight'
<1>1. /\ UNCHANGED light /\ chg \in BOOLEAN /\ m \in ValueSets
      /\ Moved(0, {"onoffSet", m, "status"})
      /\ \A j \in DOMAIN queue' : New(j) /\ queue'[j].op \in ValueSets => chg /\ queue'[j].op = m
      /\ chg => \E j \in DOMAIN queue' : New(j) /\ queue'[j].op = m
      /\ node'.features = node.features
      /\ node'.l = (IF chg THEN a ELSE node.l)
      /\ chg => a > 0 /\ (m = "hslSet" => HslLightness(a, LightMax) > 0)
      /\ chg /\ m = "ctlSet" => ~Pending({"hslSet"})
      /\ chg /\ m = "lightSet" => ~Pending({"hslSet"})
      /\ Sure \/ (Quiet /\ chg)
  BY DEF Commanded
<1>2. /\ \A i \in DOMAIN queue : i \in DOMAIN queue' /\ queue'[i].op = queue[i].op
      /\ \A S : Pending(S) => Pending(S)'
  BY <1>1, OldFirst
<1>3. chg => Pending(ValueSets)'
  BY <1>1 DEF Pending
<1>4. \A S : S \subseteq ValueSets /\ Pending(S)' /\ ~(chg /\ m \in S) => Pending(S)
  <2>1. SUFFICES ASSUME NEW S, S \subseteq ValueSets, ~(chg /\ m \in S), NEW j \in DOMAIN queue', queue'[j].op \in S
                 PROVE  Pending(S)
    BY DEF Pending
  <2>2. j \in DOMAIN queue /\ queue[j].op \in S
    BY <1>1, <1>2, <2>1 DEF New
  <2> QED BY <2>2 DEF Pending
<1>5. "hslSet" \in ValueSets /\ (m # "hslSet" => m = "ctlSet" \/ m = "lightSet")
  BY <1>1 DEF ValueSets
<1>6. SValue'
  <2>1. CASE chg
    <3>1. node'.l = a /\ node'.l > 0
      BY <1>1, <2>1
    <3>2. Pending({"hslSet"})' => m = "hslSet"
      BY <1>1, <1>4, <1>5, <2>1
    <3> QED BY <1>1, <2>1, <3>1, <3>2 DEF SValue
  <2>2. CASE ~chg
    <3>1. SUFFICES ASSUME Pending(ValueSets)'
                   PROVE  /\ node'.l > 0
                          /\ Pending({"hslSet"})' => HslLightness(node'.l, LightMax) > 0
                         
      BY DEF SValue
    <3>2. Pending(ValueSets) /\ (Pending({"hslSet"})' => Pending({"hslSet"}))
      BY <1>4, <1>5, <2>2, <3>1
    <3>3. ~Quiet
      BY <3>2 DEF Quiet, Pending
    <3> QED BY <1>1, <2>2, <3>2, <3>3 DEF SValue
  <2> QED BY <1>1, <2>1, <2>2
<1>7. SLight'
  <2>1. SUFFICES ASSUME HasLight(node)', ~Pending(ValueSets)' PROVE SLight'
    BY DEF SLight
  <2>2. ~chg /\ Sure /\ HasLight(node) /\ ~Pending(ValueSets) /\ node'.l = node.l
    BY <1>1, <1>2, <1>3, <2>1 DEF HasLight
  <2>3. Pending({"lightGet"}) => Pending({"lightGet"})'
    BY <1>2
  <2>4. ~Pending({"lightGet"}) =>
          /\ light.l > 0 => Near(node.l, Seen)
          /\ light.l = 0 => node.l = 0 \/ Near(node.l, View(light.by, light.was))
    BY <2>2 DEF SLight
  <2>5. Seen' = Seen /\ View(light.by, light.was)' = View(light.by, light.was)
    BY <1>1 DEF Seen, View
  <2>6. ASSUME ~Pending({"lightGet"})'
        PROVE  /\ light'.l > 0 => Near(node.l, Seen)'
               /\ light'.l = 0 => node'.l = 0 \/ Near(node.l, View(light.by, light.was))'
    <3>1. /\ light'.l > 0 => Near(node'.l, Seen')
          /\ light'.l = 0 => node'.l = 0 \/ Near(node'.l, View(light.by, light.was)')
      BY <1>1, <2>2, <2>3, <2>4, <2>5, <2>6
    <3> QED BY <3>1 DEF Near
  <2> QED BY <2>6 DEF SLight
<1> QED BY <1>6, <1>7

LEMMA CommandSwitch ==
  ASSUME LightTypeOK, LightTypeOK', NEW chg, NEW m, NEW a, Commanded(chg, m, a)
  PROVE  SBright' /\ SOn' /\ SEnds' /\ STold'
<1>1. /\ chg \in BOOLEAN /\ m \in ValueSets /\ Moved(0, {"onoffSet", m, "status"})
      /\ \A j \in DOMAIN queue' : New(j) /\ queue'[j].op \in ValueSets => chg
      /\ \A i, j \in DOMAIN queue' :
           New(i) /\ New(j) /\ queue'[i].op = "onoffSet" /\ queue'[j].op \in ValueSets => i < j
      /\ chg => \E j \in DOMAIN queue' : New(j) /\ queue'[j].op = m
      /\ "web" \notin doubts' =>
           /\ queue' # <<>> /\ queue'[Len(queue')].op = "status" /\ (chg => node'.on)
           /\ \E j \in DOMAIN queue' : New(j) /\ queue'[j].op = "onoffSet"
      /\ node'.features = node.features
      /\ node'.l = (IF chg THEN a ELSE node.l)
      /\ ~chg /\ HasLight(node) /\ node'.on /\ Pending({"onoffSet"})' => node.l > 2
  BY DEF Commanded
<1>2. /\ \A i \in DOMAIN queue : i \in DOMAIN queue' /\ queue'[i].op = queue[i].op
      /\ \A i \in DOMAIN queue, j \in DOMAIN queue' : New(j) => i < j
  BY <1>1, OldFirst
<1>3. HasLight(node)' = HasLight(node)
  BY <1>1 DEF HasLight
<1>4. SBright'
  <2>1. SUFFICES ASSUME HasLight(node)', node'.on, NEW i \in DOMAIN queue', queue'[i].op = "onoffSet",
                        Final(i, ValueSets)'
                 PROVE  node'.l > 2
    BY DEF SBright
  <2>2. ~chg
    <3>1. SUFFICES ASSUME chg PROVE FALSE
      OBVIOUS
    <3>2. PICK j \in DOMAIN queue' : New(j) /\ queue'[j].op = m
      BY <1>1, <3>1
    <3>3. j > i
      <4>1. i < j
        <5>1. CASE New(i)
          BY <1>1, <2>1, <3>2, <5>1
        <5>2. CASE ~New(i)
          BY <1>2, <2>1, <3>2, <5>2 DEF New
        <5> QED BY <5>1, <5>2
      <4> QED BY <4>1 DEF LightTypeOK
    <3> QED BY <1>1, <2>1, <3>2, <3>3 DEF Final
  <2>3. Pending({"onoffSet"})'
    BY <2>1 DEF Pending
  <2> QED BY <1>1, <1>3, <2>1, <2>2, <2>3
<1>6. SOn'
  <2>1. SUFFICES ASSUME "web" \notin doubts'
                 PROVE  /\ \A k \in DOMAIN queue' : queue'[k].op \in ValueSets /\ Final(k, Switches)' => node'.on
                        /\ Pending(Switches \union {"onoffGet"})'
    BY DEF SOn
  <2>2. PICK j \in DOMAIN queue' : New(j) /\ queue'[j].op = "onoffSet"
    BY <1>1, <2>1
  <2>3. "onoffSet" \in Switches
    BY DEF Switches
  <2>4. Pending(Switches \union {"onoffGet"})'
    BY <2>2, <2>3 DEF Pending
  <2>5. ASSUME NEW k \in DOMAIN queue', queue'[k].op \in ValueSets, Final(k, Switches)'
        PROVE  node'.on
    <3>1. ~(j > k)
      BY <2>2, <2>3, <2>5 DEF Final
    <3>2. New(k)
      BY <1>2, <2>2, <3>1 DEF New, LightTypeOK
    <3> QED BY <1>1, <2>1, <2>5, <3>2
  <2> QED BY <2>4, <2>5
<1>7. SEnds'
  BY <1>1 DEF SEnds
<1>8. STold'
  <2>1. SUFFICES ASSUME doubts' = {} PROVE Pending({"status"})'
    BY DEF STold
  <2>2. queue' # <<>> /\ queue'[Len(queue')].op = "status"
    BY <1>1, <2>1
  <2>3. Len(queue') \in DOMAIN queue'
    BY <2>2 DEF LightTypeOK
  <2> QED BY <2>2, <2>3 DEF Pending
<1> QED BY <1>4, <1>6, <1>7, <1>8

LEMMA CommandShows ==
  ASSUME LightTypeOK, LightTypeOK', Shapes, SShows, Standalone, NEW chg, NEW m, NEW a,
         Commanded(chg, m, a)
  PROVE  SShows'
<1>1. Sure => /\ SMode /\ SOrder /\ SGets /\ SAir /\ SLate /\ SValue /\ SLight /\ SBright
              /\ SCover /\ SOn /\ SEnds /\ STold
  BY DEF SShows
<1>2. SMode'
  BY <1>1, CommandModes
<1>3. SOrder' /\ SGets' /\ SLate' /\ SCover'
  BY <1>1, CommandOrder
<1>4. SAir'
  BY <1>1, CommandAir
<1>5. SValue' /\ SLight'
  BY <1>1, CommandValue
<1>6. SBright' /\ SOn' /\ SEnds' /\ STold'
  BY CommandSwitch
<1> QED BY <1>2, <1>3, <1>4, <1>5, <1>6 DEF SShows

\* What there is to know of a Standalone command that leaves nothing in doubt.
LEMMA StandaloneKnows ==
  ASSUME LightTypeOK, AllFit, Standalone, SShows, SReach, NEW c \in Commands,
         Left(c) \union NewDoubts(c) \subseteq doubts', doubts' \subseteq Left(c) \union NewDoubts(c) \union {"web"},
         Sure', HasBrightness(c) <=> c.b # Absent,
         c.on \/ (c.b = Absent /\ c.colour = "none"),
         c.colour = "hs" => "hsl" \in light.models, c.colour = "color_temp" => "ctl" \in light.models
  PROVE  /\ late = Nothing /\ ~Pending(Stores)
         /\ Changes(c) =>
              /\ node.maxL = LightMax /\ AskedLightness(c) \in 1 .. LightMax
              /\ Rendered(ModeOf(node, c), AskedLightness(c)) > 0
              /\ ModeOf(node, c) = "color_temp" => ~Pending({"hslSet"})
              /\ ModeOf(node, c) = "brightness" =>
                   node.mode # "hs" /\ ~Pending({"hslSet"}) /\ Matches(node)
         /\ c.on /\ c.b = Absent /\ HasLight(node) => node.l > 2
         /\ Sure \/ (Quiet /\ Changes(c))
<1>1. /\ Changes(c) => node.maxL = LightMax
      /\ ~Overwriting
      /\ ~(Changes(c) /\ ModeOf(node, c) = "color_temp" /\ Pending({"hslSet"}))
      /\ ~(c.on /\ c.b = Absent /\ node.l < 3 /\ light.models \intersect LightModels # {})
      /\ ~(Changes(c) /\ ~HasBrightness(c) /\ Rendered(ModeOf(node, c), Kept) = 0)
      /\ Wanted(c).l # 0
  <2>1. NewDoubts(c) \intersect {"range", "overwritten", "overtaken", "unseen", "unlit", "dark"} = {}
    BY DEF Sure
  <2> HIDE DEF Sure
  <2> QED BY <2>1 DEF NewDoubts
<1>2. late = Nothing /\ ~Pending(Stores)
  <2>1. late = Nothing /\ ~Pending({"onoffSet", "onoffGet", "levelSet", "lightGet", "hslGet"})
    BY <1>1 DEF Overwriting
  <2> QED BY <2>1 DEF Pending, Stores
<1>3. /\ node.features = light.models /\ ModeFits(light.models, node.mode) /\ ModeFits(light.models, light.by)
      /\ light.models \in Lights /\ QueueFits
  BY DEF AllFit, RecordFits, LightFits
<1>4. c.b # Absent \/ c.colour # "none" => c.on /\ Changes(c)
  BY DEF Changes
<1>5. /\ node.l \in Nat /\ AskedLightness(c) \in Nat /\ Rendered(ModeOf(node, c), AskedLightness(c)) \in Nat
      /\ Rendered(ModeOf(node, c), AskedLightness(c)) <= AskedLightness(c)
      /\ FullScale \in Nat /\ LightMax \in 1 .. FullScale /\ c.b \in (1 .. FullScale) \union {Absent}
      /\ LightMax \in Nat
  <2>1. /\ AskedLightness(c) \in Numbers
        /\ Rendered(ModeOf(node, c), AskedLightness(c)) \in 0 .. AskedLightness(c)
    BY AskedType
  <2>2. FullScale \in Nat /\ LightMax \in 1 .. FullScale /\ c.b \in (1 .. FullScale) \union {Absent} /\ node.l \in Numbers
    BY ScalesAre, LightAssumption DEF Commands, LightTypeOK, ANode
  <2> QED BY <2>1, <2>2 DEF Numbers
<1>6. ASSUME ~Sure
      PROVE  Quiet /\ Changes(c)
  <2>1. Left(c) \subseteq {"web", "belated"}
    BY DEF Sure
  <2>2. Quiet
    BY <1>6, <2>1 DEF Left, Sure
  <2>3. c.b # Absent \/ c.colour # "none"
    BY <1>6, <2>1 DEF Left, Sure
  <2> QED BY <1>4, <2>2, <2>3
<1>7. c.b = Absent => Weak
  <2>1. SUFFICES ASSUME c.b = Absent PROVE Weak
    OBVIOUS
  <2>2. Left(c) \subseteq {"web", "belated"}
    BY DEF Sure
  <2> QED BY <2>1, <2>2 DEF Left, Weak
<1>8. AskedLightness(c) = IF HasBrightness(c) THEN Clamped(node, c.b) ELSE node.l
  BY DEF AskedLightness, Companion, Standalone
<1>9. ASSUME Changes(c)
      PROVE  AskedLightness(c) \in 1 .. LightMax /\ Rendered(ModeOf(node, c), AskedLightness(c)) > 0
  <2>1. CASE c.b # Absent
    <3>1. AskedLightness(c) = Clamped(node, c.b) /\ c.on
      BY <1>8, <2>1
    <3>2. node.maxL = LightMax /\ c.b \in 1 .. FullScale
      BY <1>1, <1>5, <1>9, <2>1
    <3>3. Clamped(node, c.b) \in 1 .. LightMax
      BY <1>5, <3>2 DEF Clamped, LeastOf
    <3>4. Wanted(c).l = Rendered(ModeOf(node, c), AskedLightness(c))
      BY <2>1, <3>1 DEF Wanted
    <3> QED BY <1>1, <1>5, <3>1, <3>3, <3>4
  <2>2. CASE c.b = Absent
    <3>1. AskedLightness(c) = node.l /\ Kept = node.l
      BY <1>8, <2>2 DEF Kept
    <3>2. Rendered(ModeOf(node, c), AskedLightness(c)) > 0
      BY <1>1, <1>5, <1>9, <2>2, <3>1
    <3>3. node.l <= LightMax
      BY <1>7, <2>2 DEF SReach
    <3> QED BY <1>5, <3>1, <3>2, <3>3
  <2> QED BY <2>1, <2>2
<1>10. ASSUME ModeOf(node, c) = "brightness"
       PROVE  node.mode # "hs" /\ ~Pending({"hslSet"}) /\ Matches(node)
  <2>1. node.mode = "brightness"
    BY <1>10 DEF ModeOf, Commands
  <2>2. "hsl" \notin light.models
    BY <1>3, <2>1 DEF ModeFits, BothColours, CompositionMode
  <2>3. light.by # "hs"
    BY <1>3, <2>2, ModesGo
  <2>4. ~Pending({"hslSet"})
    <3>1. ModelOf["hslSet"] = "hsl" /\ "hslSet" \notin Local
      BY DEF ModelOf, Local
    <3> QED BY <1>3, <2>2, <3>1 DEF Pending, QueueFits, Has
  <2> QED BY <2>1, <2>3, <2>4 DEF Matches
<1>11. ASSUME c.on, c.b = Absent, HasLight(node)
       PROVE  node.l > 2
  BY <1>1, <1>3, <1>5, <1>11 DEF HasLight
<1> QED BY <1>1, <1>2, <1>6, <1>9, <1>10, <1>11

\* One message behind the others.
LEMMA OneNew ==
  ASSUME LightTypeOK, NEW x \in AnItem, queue' = Append(queue, x)
  PROVE  /\ \A j \in DOMAIN queue' : New(j) => j = Len(queue') /\ queue'[j] = x
         /\ Len(queue') \in DOMAIN queue' /\ New(Len(queue')) /\ queue'[Len(queue')] = x
         /\ \A S : x.op \in S => Pending(S)'
<1>1. queue \in Seq(AnItem) /\ Len(queue) \in Nat /\ DOMAIN queue = 1 .. Len(queue)
  BY DEF LightTypeOK
<1>2. queue' \in Seq(AnItem) /\ Len(queue') = Len(queue) + 1 /\ queue'[Len(queue')] = x
      /\ DOMAIN queue' = 1 .. Len(queue')
  BY <1>1
<1>3. Len(queue') \in DOMAIN queue' /\ New(Len(queue'))
  BY <1>1, <1>2 DEF New
<1>4. \A j \in DOMAIN queue' : New(j) => j = Len(queue')
  BY <1>1, <1>2 DEF New
<1> QED BY <1>2, <1>3, <1>4 DEF Pending

LEMMA StandaloneCommands ==
  ASSUME LightTypeOK, LightTypeOK', Shapes, AllFit, SShows, SReach, NEW c \in Commands, LightCommand(c)
  PROVE  SShows'
<1>1. /\ UNCHANGED <<edition, light, waiting, air, late>> /\ want' = Wanted(c)
      /\ doubts' = Left(c) \union NewDoubts(c)
      /\ c.colour = "none" \/ c.colour \in offered
      /\ c.on \/ (c.b = Absent /\ c.colour = "none")
      /\ c.b # Absent => node.features \intersect LightModels # {}
  BY DEF LightCommand, Given
<1>2. SUFFICES ASSUME Standalone, Sure' PROVE SShows'
  BY <1>1 DEF SShows, Standalone
<1> DEFINE chg == Changes(c)
           m == ASet(c)
           a == AskedLightness(c)
<1>3. /\ node'.on = c.on /\ node'.l = (IF chg THEN a ELSE node.l) /\ node'.features = node.features
      /\ node'.mode = (IF chg /\ ModeOf(node, c) = "color_temp" THEN "color_temp" ELSE node.mode)
  <2>1. node \in ANode
    BY DEF LightTypeOK
  <2>2. node' = [node EXCEPT !.on = c.on, !.l = IF chg THEN a ELSE node.l,
                  !.mode = IF chg /\ ModeOf(node, c) = "color_temp" THEN ModeOf(node, c) ELSE node.mode]
    BY <1>2, <2>1 DEF LightCommand, StandaloneCommand, ANode
  <2> HIDE DEF chg, a
  <2> QED BY <2>1, <2>2 DEF ANode
<1>4. HasBrightness(c) <=> c.b # Absent
  <2>1. c.b # Absent => "lightness" \in node.features
    BY <1>1, <1>2, LightHas DEF AllFit, RecordFits, LightFits
  <2> QED BY <1>2, <2>1 DEF HasBrightness
<1>5. (c.colour = "hs" => "hsl" \in light.models) /\ (c.colour = "color_temp" => "ctl" \in light.models)
  BY <1>1 DEF AllFit, OfferFits
<1>6. /\ late = Nothing /\ ~Pending(Stores)
      /\ chg =>
           /\ node.maxL = LightMax /\ a \in 1 .. LightMax
           /\ Rendered(ModeOf(node, c), a) > 0
           /\ ModeOf(node, c) = "color_temp" => ~Pending({"hslSet"})
           /\ ModeOf(node, c) = "brightness" => node.mode # "hs" /\ ~Pending({"hslSet"}) /\ Matches(node)
      /\ c.on /\ c.b = Absent /\ HasLight(node) => node.l > 2
      /\ Sure \/ (Quiet /\ chg)
  <2>1. Left(c) \union NewDoubts(c) \subseteq doubts' /\ doubts' \subseteq Left(c) \union NewDoubts(c) \union {"web"}
    BY <1>1
  <2> QED BY <1>1, <1>2, <1>4, <1>5, <2>1, StandaloneKnows
<1>7. /\ chg \in BOOLEAN /\ (c.b # Absent \/ c.colour # "none" => chg) /\ (chg => c.on)
      /\ c.on \in BOOLEAN
  BY <1>1, <1>4, AskedType DEF Changes, Commands
<1>8. /\ m \in ValueSets
      /\ m = "lightSet" <=> ModeOf(node, c) = "brightness"
      /\ m = "hslSet" <=> ModeOf(node, c) = "hs"
      /\ m = "ctlSet" <=> ModeOf(node, c) = "color_temp"
      /\ m # "onoffSet" /\ m # "status"
  <2>1. m \in ValueSets => m # "onoffSet" /\ m # "status"
    BY DEF ValueSets
  <2> QED BY <2>1, ASetIs
<1>9. PICK r \in Seq(AnItem) :
           /\ queue' = queue \o r /\ r[1].op = "onoffSet" /\ Len(r) \in {2, 3}
           /\ r[Len(r)].op = "status"
           /\ Len(r) = IF chg THEN 3 ELSE 2
           /\ chg => r[2].op = m
  BY <1>2, StandaloneQueue
<1>10. want'.cover = FALSE
  BY <1>1 DEF Wanted
<1>11. chg /\ m = "hslSet" => HslLightness(a, LightMax) > 0
  BY <1>6, <1>8 DEF Rendered
<1> HIDE DEF chg, m, a
<1>12. /\ queue' \in Seq(AnItem) /\ Len(queue') = Len(queue) + Len(r)
       /\ DOMAIN queue = 1 .. Len(queue) /\ DOMAIN queue' = 1 .. Len(queue') /\ DOMAIN r = 1 .. Len(r)
       /\ Len(queue) \in Nat /\ Len(r) \in Nat
       /\ \A i \in 1 .. Len(r) : queue'[Len(queue) + i] = r[i]
       /\ \A i \in 1 .. Len(queue') : i > Len(queue) => i - Len(queue) \in 1 .. Len(r) /\ queue'[i] = r[i - Len(queue)]
  <2>1. queue \in Seq(AnItem)
    BY DEF LightTypeOK
  <2>2. /\ queue' \in Seq(AnItem) /\ Len(queue') = Len(queue) + Len(r)
        /\ \A i \in 1 .. Len(r) : queue'[Len(queue) + i] = r[i]
        /\ \A i \in 1 .. Len(queue') : i > Len(queue) => i - Len(queue) \in 1 .. Len(r) /\ queue'[i] = r[i - Len(queue)]
    <3> DEFINE q == queue'
    <3>1. q = queue \o r
      BY <1>9
    <3> HIDE DEF q
    <3>2. /\ q \in Seq(AnItem) /\ Len(q) = Len(queue) + Len(r)
          /\ \A i \in 1 .. Len(r) : q[Len(queue) + i] = r[i]
          /\ \A i \in 1 .. Len(q) : i > Len(queue) => i - Len(queue) \in 1 .. Len(r) /\ q[i] = r[i - Len(queue)]
      BY ONLY <2>1, r \in Seq(AnItem), <3>1, Appended
    <3> QED BY <3>2 DEF q
  <2> QED BY <2>1, <2>2
<1>13. /\ r[1].op = "onoffSet"
       /\ \A i \in DOMAIN r : i # 1 => r[i].op \in {m, "status"}
       /\ \A i \in DOMAIN r : r[i].op = m => chg /\ i = 2
  <2>1. CASE chg
    <3>1. Len(r) = 3 /\ DOMAIN r = 1 .. 3 /\ r[1].op = "onoffSet" /\ r[2].op = m /\ r[3].op = "status"
      BY <1>9, <1>12, <2>1
    <3>2. \A i \in 1 .. 3 : i = 1 \/ i = 2 \/ i = 3
      OBVIOUS
    <3> QED BY <1>8, <2>1, <3>1, <3>2
  <2>2. CASE ~chg
    <3>1. Len(r) = 2 /\ DOMAIN r = 1 .. 2 /\ r[1].op = "onoffSet" /\ r[2].op = "status"
      BY <1>9, <1>12, <2>2
    <3>2. \A i \in 1 .. 2 : i = 1 \/ i = 2
      OBVIOUS
    <3> QED BY <1>8, <3>1, <3>2
  <2> QED BY <2>1, <2>2
<1>14. \A j \in DOMAIN queue' : New(j) => \E i \in DOMAIN r : j = Len(queue) + i /\ queue'[j] = r[i]
  <2>1. SUFFICES ASSUME NEW j \in DOMAIN queue', New(j)
                 PROVE  \E i \in DOMAIN r : j = Len(queue) + i /\ queue'[j] = r[i]
    OBVIOUS
  <2>2. j > Len(queue)
    BY <1>12, <2>1 DEF New
  <2>3. PICK i \in 1 .. Len(r) : i = j - Len(queue)
    BY <1>12, <2>2
  <2>4. j = Len(queue) + i /\ queue'[j] = r[i]
    BY <1>12, <2>2, <2>3
  <2> QED BY <1>12, <2>4
<1>15. \A i \in DOMAIN r : New(Len(queue) + i) /\ Len(queue) + i \in DOMAIN queue' /\ queue'[Len(queue) + i] = r[i]
  BY <1>12 DEF New
<1>16. /\ Moved(0, {"onoffSet", m, "status"})
       /\ \A j \in DOMAIN queue' : New(j) /\ queue'[j].op \in ValueSets => chg /\ queue'[j].op = m
       /\ \A i, j \in DOMAIN queue' :
            /\ New(i) /\ New(j) /\ queue'[i].op = "onoffSet"
            => /\ queue'[j].op = "onoffSet" => i = j
               /\ queue'[j].op \in ValueSets => i < j
       /\ chg => \E j \in DOMAIN queue' : New(j) /\ queue'[j].op = m
       /\ \E j \in DOMAIN queue' : New(j) /\ queue'[j].op = "onoffSet"
  <2>1. Moved(0, {"onoffSet", m, "status"})
    <3>1. \A i \in DOMAIN r : r[i].op \in {"onoffSet", m, "status"}
      BY <1>13
    <3> QED BY <1>9, <3>1, MovedBehind
  <2>2. "status" \notin ValueSets /\ "onoffSet" \notin ValueSets
    BY DEF ValueSets
  <2>3. ASSUME NEW j \in DOMAIN queue', New(j), queue'[j].op \in ValueSets
        PROVE  chg /\ queue'[j].op = m /\ j = Len(queue) + 2
    <3>1. PICK i \in DOMAIN r : j = Len(queue) + i /\ queue'[j] = r[i]
      BY <1>14, <2>3
    <3>2. r[i].op = m
      BY <1>13, <2>2, <2>3, <3>1
    <3> QED BY <1>13, <3>1, <3>2
  <2>4. ASSUME NEW j \in DOMAIN queue', New(j), queue'[j].op = "onoffSet"
        PROVE  j = Len(queue) + 1
    <3>1. PICK i \in DOMAIN r : j = Len(queue) + i /\ queue'[j] = r[i]
      BY <1>14, <2>4
    <3>2. i = 1
      BY <1>8, <1>13, <2>4, <3>1
    <3> QED BY <3>1, <3>2
  <2>5. chg => \E j \in DOMAIN queue' : New(j) /\ queue'[j].op = m
    <3>1. chg => 2 \in DOMAIN r /\ r[2].op = m
      BY <1>9, <1>12
    <3> QED BY <1>15, <3>1
  <2>6. \E j \in DOMAIN queue' : New(j) /\ queue'[j].op = "onoffSet"
    <3>1. 1 \in DOMAIN r /\ r[1].op = "onoffSet"
      BY <1>9, <1>12
    <3> QED BY <1>15, <3>1
  <2>7. Len(queue) + 1 < Len(queue) + 2
    BY <1>12
  <2> QED BY <2>1, <2>3, <2>4, <2>5, <2>6, <2>7
<1>17. queue' # <<>> /\ queue'[Len(queue')].op = "status"
  <2>1. Len(r) \in DOMAIN r
    BY <1>9, <1>12
  <2>2. queue'[Len(queue) + Len(r)] = r[Len(r)] /\ Len(queue) + Len(r) \in DOMAIN queue'
    BY <1>15, <2>1
  <2> QED BY <1>9, <1>12, <2>2
<1>18. ~chg /\ HasLight(node) /\ node'.on => node.l > 2
  BY <1>3, <1>6, <1>7
<1>19. /\ late' = late
       /\ chg => node'.on
       /\ node'.mode = (IF chg /\ m = "ctlSet" THEN "color_temp" ELSE node.mode)
       /\ chg => a > 0
       /\ chg /\ m = "ctlSet" => ~Pending({"hslSet"})
       /\ chg /\ m = "lightSet" => node.mode # "hs" /\ ~Pending({"hslSet"}) /\ Matches(node)
  BY <1>1, <1>3, <1>6, <1>7, <1>8
<1>20. Commanded(chg, m, a)
  BY <1>1, <1>3, <1>6, <1>7, <1>8, <1>10, <1>11, <1>16, <1>17, <1>18, <1>19 DEF Commanded
<1> QED BY <1>2, <1>20, CommandShows

\* A command of the web page or the console puts one message into the queue.
LEMMA OneCommanded ==
  ASSUME LightTypeOK, NEW x \in AnItem, queue' = Append(queue, x), NEW chg \in BOOLEAN, NEW m \in ValueSets,
         x.op = IF chg THEN m ELSE "onoffSet"
  PROVE  /\ Moved(0, {"onoffSet", m, "status"})
         /\ \A j \in DOMAIN queue' : New(j) /\ queue'[j].op \in ValueSets => chg /\ queue'[j].op = m
         /\ \A i, j \in DOMAIN queue' :
              /\ New(i) /\ New(j) /\ queue'[i].op = "onoffSet"
              => /\ queue'[j].op = "onoffSet" => i = j
                 /\ queue'[j].op \in ValueSets => i < j
         /\ chg => \E j \in DOMAIN queue' : New(j) /\ queue'[j].op = m
<1>1. /\ \A j \in DOMAIN queue' : New(j) => j = Len(queue') /\ queue'[j] = x
      /\ Len(queue') \in DOMAIN queue' /\ New(Len(queue')) /\ queue'[Len(queue')] = x
  BY OneNew
<1>2. "onoffSet" \notin ValueSets
  BY DEF ValueSets
<1>3. Moved(0, {"onoffSet", m, "status"})
  <2>1. Moved(0, {x.op})
    BY OneBehind
  <2> QED BY <2>1 DEF Moved
<1>4. \A j \in DOMAIN queue' : New(j) /\ queue'[j].op \in ValueSets => chg /\ queue'[j].op = m
  BY <1>1, <1>2
<1>5. \A i, j \in DOMAIN queue' :
        /\ New(i) /\ New(j) /\ queue'[i].op = "onoffSet"
        => /\ queue'[j].op = "onoffSet" => i = j
           /\ queue'[j].op \in ValueSets => i < j
  BY <1>1, <1>2
<1>6. chg => \E j \in DOMAIN queue' : New(j) /\ queue'[j].op = m
  BY <1>1
<1> QED BY <1>3, <1>4, <1>5, <1>6

LEMMA ArgsAre == NoArgs \in [on : BOOLEAN, l : Numbers, level : LevelNumbers]
BY ScalesAre DEF NoArgs

LEMMA OpsAre ==
  /\ {"onoffSet", "levelSet", "lightSet", "hslSet", "ctlSet"} \subseteq DOMAIN ModelOf
  /\ \A op \in DOMAIN ModelOf : Item(op, NoArgs) \in AnItem /\ Item(op, NoArgs).op = op
BY ModelOfIs, ArgsAre, ItemsType, OpOfItem

LEMMA StandaloneSwitches ==
  ASSUME LightTypeOK, LightTypeOK', Shapes, AllFit, SShows, SReach, NEW c \in Commands, set_onoff_handler(c)
  PROVE  SShows'
<1> DEFINE chg == FALSE
           m == "lightSet"
           x == Item("onoffSet", NoArgs)
<1>1. /\ Standalone /\ UNCHANGED <<edition, light, waiting, air, late>>
      /\ want' = Wanted(c) /\ doubts' = Left(c) \union NewDoubts(c) \union {"web"}
      /\ c.b = Absent /\ c.colour = "none"
      /\ node' = [node EXCEPT !.on = c.on] /\ queue' = Append(queue, x)
  BY DEF set_onoff_handler, ByPage
<1>2. SUFFICES ASSUME Sure' PROVE SShows'
  BY <1>1 DEF SShows
<1>3. /\ node'.on = c.on /\ node'.l = node.l /\ node'.features = node.features /\ node'.mode = node.mode
  BY <1>1 DEF LightTypeOK, ANode
<1>4. ~HasBrightness(c) /\ ~Changes(c)
  BY <1>1 DEF HasBrightness, Changes
<1>5. /\ late = Nothing /\ ~Pending(Stores)
      /\ c.on /\ c.b = Absent /\ HasLight(node) => node.l > 2
      /\ Sure
  <2>1. Left(c) \union NewDoubts(c) \subseteq doubts' /\ doubts' \subseteq Left(c) \union NewDoubts(c) \union {"web"}
    BY <1>1
  <2>2. (HasBrightness(c) <=> c.b # Absent) /\ (c.on \/ (c.b = Absent /\ c.colour = "none"))
        /\ (c.colour = "hs" => "hsl" \in light.models) /\ (c.colour = "color_temp" => "ctl" \in light.models)
    BY <1>1, <1>4
  <2>3. /\ late = Nothing /\ ~Pending(Stores)
        /\ c.on /\ c.b = Absent /\ HasLight(node) => node.l > 2
        /\ Sure \/ (Quiet /\ Changes(c))
    BY <1>1, <1>2, <2>1, <2>2, StandaloneKnows
  <2> QED BY <1>4, <2>3
<1>6. want'.cover = FALSE /\ "web" \in doubts'
  BY <1>1 DEF Wanted
<1>7. x \in AnItem /\ x.op = "onoffSet" /\ chg \in BOOLEAN /\ ~chg /\ m \in ValueSets
  BY OpsAre DEF ValueSets
<1> HIDE DEF chg, m, x
<1>8. /\ Moved(0, {"onoffSet", m, "status"})
      /\ \A j \in DOMAIN queue' : New(j) /\ queue'[j].op \in ValueSets => chg /\ queue'[j].op = m
      /\ \A i, j \in DOMAIN queue' :
           /\ New(i) /\ New(j) /\ queue'[i].op = "onoffSet"
           => /\ queue'[j].op = "onoffSet" => i = j
              /\ queue'[j].op \in ValueSets => i < j
  <2>1. queue' = Append(queue, x) /\ x.op = IF chg THEN m ELSE "onoffSet"
    BY <1>1, <1>7
  <2> QED BY <1>7, <2>1, OneCommanded
<1>9. \A a : Commanded(chg, m, a)
  BY <1>1, <1>3, <1>5, <1>6, <1>7, <1>8 DEF Commanded
<1>10. PICK a : Commanded(chg, m, a)
  BY <1>9
<1> QED BY <1>1, <1>10, CommandShows

LEMMA StandaloneColours ==
  ASSUME LightTypeOK, LightTypeOK', Shapes, AllFit, SShows, SReach, NEW c \in Commands, set_hsl_handler(c)
  PROVE  SShows'
<1> DEFINE chg == TRUE
           m == "hslSet"
           x == Item("hslSet", NoArgs)
           a == Clamped(node, c.b)
<1>1. /\ Standalone /\ UNCHANGED <<edition, light, waiting, air, late>>
      /\ want' = Wanted(c) /\ doubts' = Left(c) \union NewDoubts(c) \union {"web"}
      /\ c.on /\ c.b # Absent /\ c.colour = "hs" /\ "hsl" \in node.features
      /\ node' = [node EXCEPT !.l = a] /\ queue' = Append(queue, x)
  BY DEF set_hsl_handler, ByPage
<1>2. SUFFICES ASSUME Sure' PROVE SShows'
  BY <1>1 DEF SShows
<1>3. /\ node'.l = a /\ node'.features = node.features /\ node'.mode = node.mode /\ node'.on = node.on
  <2> HIDE DEF a
  <2> QED BY <1>1 DEF LightTypeOK, ANode
<1>4. HasBrightness(c) /\ Changes(c) /\ ModeOf(node, c) = "hs" /\ AskedLightness(c) = a
  <2>1. HasBrightness(c)
    BY <1>1 DEF HasBrightness
  <2> QED BY <1>1, <2>1 DEF Changes, ModeOf, AskedLightness, Companion, Standalone
<1>5. "hsl" \in light.models /\ node.features = light.models
  BY <1>1 DEF AllFit, RecordFits
<1>6. /\ late = Nothing /\ ~Pending(Stores)
      /\ node.maxL = LightMax /\ a \in 1 .. LightMax /\ Rendered("hs", a) > 0
      /\ Sure \/ Quiet
  <2>1. Left(c) \union NewDoubts(c) \subseteq doubts' /\ doubts' \subseteq Left(c) \union NewDoubts(c) \union {"web"}
    BY <1>1
  <2>2. (HasBrightness(c) <=> c.b # Absent) /\ (c.on \/ (c.b = Absent /\ c.colour = "none"))
        /\ (c.colour = "hs" => "hsl" \in light.models) /\ (c.colour = "color_temp" => "ctl" \in light.models)
    BY <1>1, <1>4, <1>5
  <2> HIDE DEF a
  <2>3. /\ late = Nothing /\ ~Pending(Stores)
        /\ Changes(c) =>
             /\ node.maxL = LightMax /\ AskedLightness(c) \in 1 .. LightMax
             /\ Rendered(ModeOf(node, c), AskedLightness(c)) > 0
        /\ Sure \/ (Quiet /\ Changes(c))
    BY <1>1, <1>2, <2>1, <2>2, StandaloneKnows
  <2> QED BY <1>4, <2>3
<1>7. want'.cover = FALSE /\ "web" \in doubts'
  BY <1>1 DEF Wanted
<1>8. x \in AnItem /\ x.op = "hslSet" /\ chg \in BOOLEAN /\ chg /\ m \in ValueSets /\ m = "hslSet"
  BY OpsAre DEF ValueSets
<1>9. HslLightness(a, LightMax) > 0 /\ a > 0
  BY <1>6, LightAssumption, ScalesAre DEF Rendered
<1> HIDE DEF chg, m, x, a
<1>10. /\ Moved(0, {"onoffSet", m, "status"})
       /\ \A j \in DOMAIN queue' : New(j) /\ queue'[j].op \in ValueSets => chg /\ queue'[j].op = m
       /\ \A i, j \in DOMAIN queue' :
            /\ New(i) /\ New(j) /\ queue'[i].op = "onoffSet"
            => /\ queue'[j].op = "onoffSet" => i = j
               /\ queue'[j].op \in ValueSets => i < j
       /\ chg => \E j \in DOMAIN queue' : New(j) /\ queue'[j].op = m
  <2>1. queue' = Append(queue, x) /\ x.op = IF chg THEN m ELSE "onoffSet"
    BY <1>1, <1>8
  <2> QED BY <1>8, <2>1, OneCommanded
<1>11. ~Pending({"onoffSet"})'
  <2>1. Moved(0, {"hslSet"})
    BY <1>1, <1>8, OneBehind
  <2>2. {"onoffSet"} \intersect {"hslSet"} = {}
    OBVIOUS
  <2>3. Pending({"onoffSet"})' => Pending({"onoffSet"})
    BY <2>1, <2>2, OldFirst
  <2> QED BY <1>6, <2>3 DEF Pending, Stores
<1>12. Commanded(chg, m, a)
  BY <1>1, <1>3, <1>6, <1>7, <1>8, <1>9, <1>10, <1>11 DEF Commanded
<1> QED BY <1>1, <1>12, CommandShows

LEMMA StandaloneSetsLightness ==
  ASSUME LightTypeOK, LightTypeOK', Shapes, AllFit, SShows, NEW b \in Levels, SetLightness(b)
  PROVE  SShows'
<1>1. CASE ~Standalone
  BY <1>1 DEF SShows, SetLightness, Standalone
<1>2. CASE Standalone
  <2> DEFINE chg == TRUE
             m == "lightSet"
             x == Item("lightSet", NoArgs)
  <2>1. /\ UNCHANGED <<edition, light, waiting, air, late>>
        /\ want'.cover = FALSE
        /\ doubts' = doubts \union {"web"} \union (IF Overwriting THEN {"overwritten"} ELSE {})
               \union (IF Standalone /\ (node.mode = "hs" \/ Pending({"hslSet"}) \/ b > LightMax)
                         THEN {"raw"} ELSE {})
        /\ node' = [node EXCEPT !.l = b] /\ queue' = Append(queue, x)
    BY <1>2 DEF SetLightness
  <2>2. SUFFICES ASSUME Sure' PROVE SShows'
    BY <2>1 DEF SShows
  <2>3. Sure /\ ~Overwriting /\ ~(node.mode = "hs" \/ Pending({"hslSet"}) \/ b > LightMax) /\ "web" \in doubts'
    BY <1>2, <2>1, <2>2 DEF Sure
  <2>4. late = Nothing /\ ~Pending(Stores)
    <3>1. late = Nothing /\ ~Pending({"onoffSet", "onoffGet", "levelSet", "lightGet", "hslGet"})
      BY <1>2, <2>3 DEF Overwriting
    <3> QED BY <3>1 DEF Pending, Stores
  <2>5. node'.l = b /\ node'.features = node.features /\ node'.mode = node.mode /\ b > 0
    BY <2>1, LightAssumption, ScalesAre DEF LightTypeOK, ANode
  <2>6. x \in AnItem /\ x.op = "lightSet" /\ chg \in BOOLEAN /\ chg /\ m \in ValueSets /\ m = "lightSet"
        /\ "lightSet" # "hslSet" /\ "lightSet" # "ctlSet"
    BY OpsAre DEF ValueSets
  <2> HIDE DEF chg, m, x
  <2>7. /\ Moved(0, {"onoffSet", m, "status"})
        /\ \A j \in DOMAIN queue' : New(j) /\ queue'[j].op \in ValueSets => chg /\ queue'[j].op = m
        /\ \A i, j \in DOMAIN queue' :
             /\ New(i) /\ New(j) /\ queue'[i].op = "onoffSet"
             => /\ queue'[j].op = "onoffSet" => i = j
                /\ queue'[j].op \in ValueSets => i < j
        /\ chg => \E j \in DOMAIN queue' : New(j) /\ queue'[j].op = m
    <3>1. queue' = Append(queue, x) /\ x.op = IF chg THEN m ELSE "onoffSet"
      BY <2>1, <2>6
    <3>2. x \in AnItem /\ chg \in BOOLEAN /\ m \in ValueSets
      BY <2>6
    <3> QED BY ONLY LightTypeOK, <3>1, <3>2, OneCommanded
  <2>8. node.mode # "hs" /\ ~Pending({"hslSet"})
    BY <2>3
  <2>9. Commanded(chg, m, b)
    BY <2>1, <2>3, <2>4, <2>5, <2>6, <2>7, <2>8 DEF Commanded
  <2> QED BY <1>2, <2>9, CommandShows
<1> QED BY <1>1, <1>2

\* A position that is asked for goes into the record, its message and the publication behind.
LEMMA StandaloneCovers ==
  ASSUME LightTypeOK, LightTypeOK', Shapes, AllFit, SShows, NEW p \in 0 .. Percent, CoverCommand(p)
  PROVE  SShows'
<1>1. /\ UNCHANGED <<edition, light, waiting, air, late, heard, offered, shown>>
      /\ want' = [on |-> TRUE, cover |-> TRUE, l |-> p]
      /\ doubts' = doubts \union (IF Overwriting THEN {"overwritten"} ELSE {})
  BY DEF CoverCommand
<1>2. SUFFICES ASSUME Standalone, Sure'
               PROVE  /\ SMode' /\ SOrder' /\ SGets' /\ SAir' /\ SLate' /\ SValue' /\ SLight'
                      /\ SBright' /\ SCover' /\ SOn' /\ SEnds' /\ STold'
  BY <1>1 DEF SShows, Standalone
<1>3. Sure /\ ~Overwriting
  BY <1>1, <1>2 DEF Sure
<1>4. /\ SMode /\ SOrder /\ SGets /\ SAir /\ SLate /\ SValue /\ SLight /\ SBright
      /\ SCover /\ SOn /\ SEnds /\ STold
  BY <1>2, <1>3 DEF SShows
<1>5. late = Nothing /\ ~Pending(Stores)
  <2>1. late = Nothing /\ ~Pending({"onoffSet", "onoffGet", "levelSet", "lightGet", "hslGet"})
    BY <1>2, <1>3 DEF Overwriting
  <2> QED BY <2>1 DEF Pending, Stores
<1> DEFINE x == Item("levelSet", NoArgs)
           z == Item("status", NoArgs)
           r == <<x, z>>
<1>6. /\ queue' = queue \o r
      /\ node'.level = PositionToLevel(p) /\ node'.mode = node.mode /\ node'.l = node.l /\ node'.on = node.on
      /\ node'.features = node.features
  <2>1. {"levelSet", "status"} \subseteq DOMAIN ModelOf \union Local
    BY ModelOfIs DEF Local
  <2>2. queue' = queue \o r
    BY <1>2, <2>1, ItemsAre DEF CoverCommand
  <2>3. node' = [node EXCEPT !.level = PositionToLevel(p)]
    BY <1>2 DEF CoverCommand
  <2> QED BY <2>2, <2>3 DEF LightTypeOK, ANode
<1>7. r \in Seq(AnItem) /\ DOMAIN r = 1 .. 2 /\ Len(r) = 2 /\ r[1].op = "levelSet" /\ r[2].op = "status"
  <2>1. x \in AnItem /\ z \in AnItem /\ x.op = "levelSet" /\ z.op = "status"
    <3>1. {"levelSet", "status"} \subseteq DOMAIN ModelOf \union Local
      BY ModelOfIs DEF Local
    <3> QED BY <3>1, ArgsAre, ItemsType, OpOfItem
  <2> HIDE DEF x, z
  <2>2. r \in Seq(AnItem) /\ DOMAIN r = 1 .. 2 /\ Len(r) = 2 /\ r[1] = x /\ r[2] = z
    BY <2>1
  <2> QED BY <2>1, <2>2
<1> HIDE DEF x, z, r
<1> DEFINE ops == {"levelSet", "status"}
           d == 0
<1>8. Moved(0, ops)
  <2>1. \A i \in DOMAIN r : r[i].op \in ops
    BY <1>7
  <2>2. queue' = queue \o r /\ r \in Seq(AnItem)
    BY <1>6, <1>7
  <2> HIDE DEF ops
  <2> QED BY ONLY LightTypeOK, <2>1, <2>2, MovedBehind
<1>9. /\ queue \in Seq(AnItem) /\ queue' \in Seq(AnItem) /\ Len(queue) \in Nat /\ Len(queue') = Len(queue) + 2
      /\ DOMAIN queue = 1 .. Len(queue) /\ DOMAIN queue' = 1 .. Len(queue')
      /\ queue'[Len(queue) + 1] = r[1] /\ queue'[Len(queue) + 2] = r[2]
  <2>0. queue \in Seq(AnItem) /\ queue' \in Seq(AnItem)
    BY DEF LightTypeOK
  <2> DEFINE q == queue'
  <2>1. q = queue \o r
    BY <1>6
  <2> HIDE DEF q
  <2>2. r \in Seq(AnItem) /\ queue \in Seq(AnItem)
    BY <1>7, <2>0
  <2>3. Len(q) = Len(queue) + Len(r) /\ \A i \in 1 .. Len(r) : q[Len(queue) + i] = r[i]
    BY ONLY <2>1, <2>2, Appended
  <2>4. Len(q) = Len(queue) + 2 /\ q[Len(queue) + 1] = r[1] /\ q[Len(queue) + 2] = r[2]
    BY <1>7, <2>3
  <2> QED BY <2>0, <2>4 DEF q
<1>10. SOrder'
  <2>1. SUFFICES ASSUME NEW i \in DOMAIN queue', NEW j \in DOMAIN queue', i < j,
                        queue'[i].op \in Stores, queue'[j].op \in Sets
                 PROVE  FALSE
    BY DEF SOrder
  <2>2. New(i)
    <3>1. \A k \in DOMAIN queue : k \in DOMAIN queue' /\ queue'[k].op = queue[k].op
      BY <1>8, OldFirst
    <3> QED BY <1>5, <2>1, <3>1 DEF New, Pending
  <2>3. j = Len(queue) + 2
    BY <1>9, <2>1, <2>2 DEF New
  <2> QED BY <1>7, <1>9, <2>1, <2>3 DEF Sets
<1>11. SLate' /\ SCover'
  BY <1>1, <1>5, <1>6 DEF SLate, SCover
<1>12. SAir'
  <2>1. SUFFICES ASSUME Answered, waiting PROVE SAir'
    BY <1>1 DEF SAir, Answered
  <2>2. /\ air.op = Head(queue).op /\ 1 \in DOMAIN queue /\ queue[1] = Head(queue)
        /\ air.got = light
    BY <1>4, <2>1 DEF Shapes, Answered, LightTypeOK, SAir
  <2>3. air.op # "levelSet" /\ air.op # "onoffSet"
    BY <1>5, <2>2 DEF Pending, Stores
  <2>4. Seen' = Seen
    BY <1>1 DEF Seen, View
  <2>5. Final(1, ValueSets)' => Final(1, ValueSets)
    <3>1. 1 \in DOMAIN queue'
      BY <1>9, <2>2
    <3> DEFINE k == 1
    <3>2. k \in DOMAIN queue'
      BY <3>1
    <3>3. k + 0 = 1
      OBVIOUS
    <3> HIDE DEF k
    <3>4. Final(k, ValueSets)' => Final(k + 0, ValueSets)
      BY <1>8, <3>2, FinalMoves
    <3> QED BY <3>3, <3>4 DEF k
  <2>6. air.op \in ValueSets /\ Final(1, ValueSets)' =>
          light.l > 0 /\ Near(node.l, Seen)
    BY <1>4, <2>1, <2>5 DEF SAir
  <2>7. air'.op \in ValueSets /\ Final(1, ValueSets)' =>
          light'.l > 0 /\ Near(node.l, Seen)'
    BY <1>1, <1>6, <2>4, <2>6 DEF Near
  <2>8. /\ air'.got = light' /\ air'.op # "levelSet" /\ air'.op # "onoffSet"
        /\ (air'.op = "hslSet" => light'.by = "hs") /\ (air'.op = "ctlSet" => light'.by = "color_temp")
    BY <1>1, <1>4, <2>1, <2>2, <2>3 DEF SAir
  <2> QED BY <2>7, <2>8 DEF SAir
<1>13. SGets'
  <2>1. "hslGet" \notin ops
    OBVIOUS
  <2> QED BY <1>4, <1>8, <2>1, GetsMove
<1>14. SMode' /\ SValue' /\ SLight' /\ SBright' /\ SOn'
  <2>1. d \in {0, 1} /\ Moved(d, ops) /\ ops \intersect Switches = {} /\ (waiting' => waiting /\ d = 0) /\ d # 1
    BY <1>1, <1>8 DEF Switches, ValueSets
  <2>2. ("web" \notin doubts' => "web" \notin doubts) /\ UNCHANGED <<light, late>>
        /\ (late' = Nothing \/ late'.op = "levelSet" => late = Nothing \/ late.op = "levelSet")
    BY <1>1
  <2> HIDE DEF d, ops
  <2> QED BY <1>4, <1>6, <2>1, <2>2, ValuesStay
<1>15. queue' # <<>> /\ queue'[Len(queue')].op = "status" /\ Len(queue') \in DOMAIN queue'
  BY <1>7, <1>9
<1> QED BY <1>10, <1>11, <1>12, <1>13, <1>14, <1>15 DEF SEnds, STold, Pending

(***************************************************************************)
(* What the front does when it is sent: the message is made of the record. *)
(***************************************************************************)
Done(op) ==
  /\ op \in ValueSets => light'.l = (IF op = "hslSet" THEN HslLightness(node.l, LightMax) ELSE node.l)
  /\ op \notin ValueSets => light'.was = light.was
  /\ op = "hslSet" => light'.by = "hs"
  /\ op = "ctlSet" => light'.by = "color_temp"
  /\ op \notin ColourSets => light'.by = light.by
  /\ op = "onoffSet" => light'.l = (IF ~node.on THEN 0 ELSE IF light.l = 0 THEN light.was ELSE light.l)
  /\ op \notin Switches => light'.l = light.l
  /\ op = "levelSet" => light'.level = node.level

LEMMA StandaloneSent ==
  ASSUME LightTypeOK, LightTypeOK', AllFit, Standalone, Sure, Sure', SReach, SValue, SendFront,
         NEW op, op = Head(queue).op
  PROVE  /\ UNCHANGED <<edition, queue, late, shown, want, doubts>> /\ ~waiting
         /\ queue # <<>> /\ 1 \in DOMAIN queue /\ queue[1].op = op /\ op \in DOMAIN ModelOf
         /\ node'.l = node.l /\ node'.on = node.on /\ node'.level = node.level /\ node'.features = node.features
         /\ node'.mode = (IF op = "hslSet" THEN "hs" ELSE node.mode)
         /\ Answered' => air'.op = op /\ air'.got = light' /\ Done(op)
         /\ light' = light \/ Done(op)
         /\ op \in ValueSets => node.l \in 1 .. LightMax
<1> DEFINE a == MadeOf(node, op)
           after == Effect(op, a)
<1>1. /\ queue # <<>> /\ op \notin Local /\ node' = SentMode(node, op) /\ ~waiting
      /\ UNCHANGED <<edition, queue, late, shown, want, doubts>>
      /\ op \in ValueSets => a.l = 0 \/ a.l >= LightMin
  <2>1. /\ queue # <<>> /\ op \notin Local /\ node' = SentMode(node, op) /\ ~waiting
        /\ UNCHANGED <<edition, queue, late, shown, want>>
        /\ doubts' = doubts \union (IF Raises(op, a) THEN {"raised"} ELSE {})
    BY DEF SendFront
  <2>2. ~Raises(op, a)
    BY <2>1 DEF Sure
  <2>3. a.l \in Numbers
    BY SaidType DEF LightTypeOK
  <2> HIDE DEF a
  <2> QED BY <2>1, <2>2, <2>3, LightAssumption, ScalesAre DEF Raises, ValueSets, Numbers
<1>2. \/ light' = after /\ air' = [op |-> op, got |-> after]
      \/ light' \in {light, after} /\ air' = Lost
  <2> DEFINE b == IF Standalone THEN MadeOf(node, op) ELSE Head(queue).args
             e == Effect(op, b)
  <2>1. \/ light' = e /\ air' = [op |-> op, got |-> e]
        \/ light' \in {light, e} /\ air' = Lost
    BY DEF SendFront
  <2>2. b = a
    OBVIOUS
  <2> HIDE DEF b, a
  <2> QED BY <2>1, <2>2
<1>3. /\ queue \in Seq(AnItem) /\ 1 \in DOMAIN queue /\ queue[1].op = op /\ op \in DOMAIN ModelOf
      /\ node \in ANode /\ light \in ALight
  <2>1. queue \in Seq(AnItem) /\ node \in ANode /\ light \in ALight
    BY DEF LightTypeOK
  <2>2. 1 \in DOMAIN queue /\ queue[1].op = op /\ Head(queue) \in AnItem
    BY <1>1, <2>1
  <2>3. op \in DOMAIN ModelOf
    BY <1>1, <2>2 DEF AnItem
  <2> QED BY <2>1, <2>2, <2>3
<1>4. /\ node'.l = node.l /\ node'.on = node.on /\ node'.level = node.level /\ node'.features = node.features
      /\ node'.mode = (IF op = "hslSet" THEN "hs" ELSE node.mode)
  BY <1>1, <1>3 DEF SentMode, ANode
<1>5. a.l \in Numbers
  BY <1>3, SaidType
<1>6. /\ op = "hslSet" => a.l = HslLightness(node.l, node.maxL)
      /\ op = "lightSet" \/ op = "ctlSet" => a.l = node.l
      /\ op = "onoffSet" => a.on = node.on
      /\ op = "levelSet" => a.level = node.level
  BY DEF MadeOf, ble_mesh_gen_onoff_set, ble_mesh_gen_level_set, ble_mesh_lightness_set,
     ble_mesh_light_hsl_set, ble_mesh_ctl_set, NoArgs
<1> HIDE DEF a
<1>7. /\ op \in ValueSets => after.l = Raised(LeastOf(a.l, LightMax))
      /\ op \notin ValueSets => after.was = light.was
      /\ op = "hslSet" => after.by = "hs"
      /\ op = "ctlSet" => after.by = "color_temp"
      /\ op \notin ColourSets => after.by = light.by
      /\ op = "onoffSet" => after.l = IF ~a.on THEN 0 ELSE IF light.l = 0 THEN light.was ELSE light.l
      /\ op \notin Switches => after.l = light.l
      /\ op = "levelSet" => after.level = a.level
  <2> HIDE DEF after
  <2>1. after = Effect(op, a)
    BY DEF after
  <2> QED BY <1>3, <1>5, <2>1, EffectShows
<1> HIDE DEF after
<1>8. ASSUME op \in ValueSets
      PROVE  /\ node.l \in 1 .. LightMax
             /\ after.l = (IF op = "hslSet" THEN HslLightness(node.l, LightMax) ELSE node.l)
  <2>1. Pending(ValueSets)
    BY <1>3, <1>8 DEF Pending
  <2>2. node.l > 0 /\ node.l <= LightMax /\ ("hsl" \in light.models => node.maxL = LightMax)
    BY <2>1 DEF SValue, SReach, Weak, Sure, ModeDoubts
  <2>3. node.l \in 1 .. LightMax
    BY <1>3, <2>2, ScalesAre DEF ANode, Numbers
  <2>4. op = "hslSet" => node.maxL = LightMax
    <3>1. ModelOf["hslSet"] = "hsl" /\ "hslSet" \notin Local
      BY DEF ModelOf, Local
    <3> QED BY <1>3, <2>2, <3>1 DEF AllFit, QueueFits, Has
  <2> DEFINE l == IF op = "hslSet" THEN HslLightness(node.l, LightMax) ELSE node.l
             x == node.l
  <2>5. a.l = l
    BY <1>6, <1>8, <2>4 DEF ValueSets
  <2>6. LeastOf(l, LightMax) = l
    <3>1. x \in 1 .. LightMax /\ l = IF op = "hslSet" THEN HslLightness(x, LightMax) ELSE x
      BY <2>3
    <3> HIDE DEF l, x
    <3> QED BY <1>8, <3>1, SentView
  <2> HIDE DEF l
  <2>7. after.l = l
    BY <1>1, <1>5, <1>7, <1>8, <2>5, <2>6, RaisedIs
  <2> QED BY <2>3, <2>7 DEF l
<1>9. light' = after => Done(op)
  BY <1>6, <1>7, <1>8 DEF Done
<1>10. Answered' => air'.op = op /\ air'.got = light' /\ light' = after
  BY <1>2 DEF Answered
<1> QED BY <1>1, <1>2, <1>3, <1>4, <1>8, <1>9, <1>10

LEMMA SentValue ==
  ASSUME LightTypeOK, LightTypeOK', AllFit, SMode, SValue,
         NEW op \in ValueSets, queue # <<>>, 1 \in DOMAIN queue, queue[1].op = op, UNCHANGED queue,
         Done(op), node.l \in 1 .. LightMax, node'.l = node.l, Final(1, ValueSets)
  PROVE  light'.l > 0 /\ Near(node'.l, Seen')
<1>1. /\ node.l > 0 /\ (op = "hslSet" => HslLightness(node.l, LightMax) > 0)
  <2>1. Pending(ValueSets) /\ (op = "hslSet" => Pending({"hslSet"}))
    BY DEF Pending
  <2> QED BY <2>1 DEF SValue
<1>2. node.l \in Nat /\ LightMax \in Nat
  BY ScalesAre
<1>3. CASE op = "hslSet"
  <2> DEFINE x == node.l
             l == HslLightness(x, LightMax)
  <2>1. light'.l = l /\ light'.by = "hs"
    BY <1>3 DEF Done, ValueSets
  <2>2. Seen' = Brightness(l, LightMax)
    <3> HIDE DEF l
    <3> QED BY <2>1 DEF Seen, View
  <2>3. Brightness(l, LightMax) \in x - 2 .. x
    <3>1. x \in 1 .. LightMax /\ l = IF op = "hslSet" THEN HslLightness(x, LightMax) ELSE x
      BY <1>3
    <3> HIDE DEF x, l
    <3> QED BY <1>3, <3>1, SentView
  <2>4. l > 0
    BY <1>1, <1>3
  <2> DEFINE s == Brightness(l, LightMax)
  <2>5. s \in x - 2 .. x /\ Seen' = s
    BY <2>2, <2>3
  <2> HIDE DEF s, l
  <2>6. Near(node'.l, Seen')
    BY <1>2, <2>5 DEF Near
  <2> QED BY <2>1, <2>4, <2>6
<1>4. CASE op # "hslSet"
  <2>1. light'.l = node.l
    BY <1>4 DEF Done
  <2>2. light'.by # "hs"
    <3>1. CASE op = "ctlSet"
      BY <3>1 DEF Done
    <3>2. CASE op # "ctlSet"
      <4>1. op = "lightSet" /\ op \notin ColourSets
        BY <1>4, <3>2 DEF ValueSets, ColourSets
      <4>2. node.mode # "hs" /\ light'.by = light.by
        <5>1. \A k \in DOMAIN queue : queue[k].op = "lightSet" /\ Final(k, ValueSets) => node.mode # "hs"
          BY DEF SMode
        <5>2. node.mode # "hs"
          BY <4>1, <5>1
        <5> QED BY <4>1, <5>2 DEF Done
      <4>3. ~Pending(ColourSets)
        <5>1. SUFFICES ASSUME NEW j \in DOMAIN queue, queue[j].op \in ColourSets PROVE FALSE
          BY DEF Pending
        <5>2. j # 1 /\ queue[j].op \in ValueSets
          BY <4>1, <5>1 DEF ColourSets, ValueSets
        <5>3. j > 1
          BY <5>2 DEF LightTypeOK
        <5> QED BY <5>2, <5>3 DEF Final
      <4> QED BY <4>2, <4>3 DEF SMode, Matches
    <3> QED BY <3>1, <3>2
  <2>3. Seen' = node.l
    BY <2>1, <2>2 DEF Seen, View
  <2>4. light'.l > 0 /\ Near(node'.l, Seen')
    BY <1>1, <1>2, <2>1, <2>3 DEF Near
  <2> QED BY <2>4
<1> QED BY <1>3, <1>4

LEMMA SentLight ==
  ASSUME LightTypeOK, LightTypeOK', LightFits, SLight, SBright, NEW op, queue # <<>>,
         1 \in DOMAIN queue, queue[1].op = op, UNCHANGED queue, light' = light \/ Done(op),
         node'.l = node.l, node'.on = node.on, node'.features = node.features
  PROVE  SLight'
<1>1. SUFFICES ASSUME HasLight(node), ~Pending(ValueSets)
               PROVE  ~Pending({"lightGet"}) =>
                        /\ light'.l > 0 => Near(node.l, Seen)'
                        /\ light'.l = 0 => node'.l = 0 \/ Near(node.l, View(light.by, light.was))'
  <2>1. HasLight(node)' => HasLight(node)
    BY DEF HasLight
  <2>2. Pending(ValueSets)' = Pending(ValueSets) /\ Pending({"lightGet"})' = Pending({"lightGet"})
    BY DEF Pending
  <2> QED BY <2>1, <2>2 DEF SLight
<1>2. op \notin ValueSets
  BY <1>1 DEF Pending
<1>3. ~Pending({"lightGet"}) =>
        /\ light.l > 0 => Near(node.l, Seen)
        /\ light.l = 0 => node.l = 0 \/ Near(node.l, View(light.by, light.was))
  BY <1>1 DEF SLight
<1>4. /\ light'.by = light.by /\ light'.was = light.was
      /\ \/ light'.l = light.l
         \/ op = "onoffSet" /\ light'.l = (IF ~node.on THEN 0 ELSE IF light.l = 0 THEN light.was ELSE light.l)
  <2>1. op \notin ColourSets
    BY <1>2 DEF ValueSets, ColourSets
  <2>2. op # "onoffSet" => op \notin Switches
    BY <1>2 DEF Switches
  <2> QED BY <1>2, <2>1, <2>2 DEF Done
<1>5. CASE light'.l = light.l
  <2>1. Seen' = Seen /\ View(light.by, light.was)' = View(light.by, light.was)
    BY <1>4, <1>5 DEF Seen, View
  <2>2. /\ ~Pending({"lightGet"}) =>
           /\ light'.l > 0 => Near(node.l, Seen)'
           /\ light'.l = 0 => node'.l = 0 \/ Near(node.l, View(light.by, light.was))'
    <3>1. /\ Near(node.l, Seen) => Near(node.l, Seen)'
          /\ Near(node.l, View(light.by, light.was)) => Near(node.l, View(light.by, light.was))'
      BY <2>1 DEF Near
    <3>2. SUFFICES ASSUME ~Pending({"lightGet"})
                   PROVE  /\ light'.l > 0 => Near(node.l, Seen)'
                          /\ light'.l = 0 => node'.l = 0 \/ Near(node.l, View(light.by, light.was))'
      OBVIOUS
    <3>3. ASSUME light'.l > 0 PROVE Near(node.l, Seen)'
      <4>1. light.l > 0
        BY <1>5, <3>3
      <4>2. Near(node.l, Seen)
        BY <1>3, <3>2, <4>1
      <4>3. node'.l \in Seen' .. Seen' + 2
        BY <2>1, <4>2 DEF Near
      <4> QED BY <4>3 DEF Near
    <3>4. light'.l = 0 => node'.l = 0 \/ Near(node.l, View(light.by, light.was))'
      BY <1>3, <1>5, <3>1, <3>2
    <3> QED BY <3>3, <3>4
  <2> QED BY <2>2
<1>6. CASE op = "onoffSet" /\ light'.l # light.l /\ light'.l = (IF ~node.on THEN 0 ELSE IF light.l = 0 THEN light.was ELSE light.l)
  <2>1. light.l \in {0, light.was} /\ light.was > 0 /\ LightMax \in Nat /\ node.l \in Nat
    BY ScalesAre DEF LightFits, LightTypeOK, ALight, ANode, Numbers
  <2>2. ~node.on \/ light.l = 0
    BY <1>6
  <2>3. Pending({"onoffSet"}) /\ Final(1, ValueSets)
    BY <1>1, <1>6 DEF Pending, Final
  <2>4. ASSUME ~Pending({"lightGet"})
        PROVE  /\ light'.l > 0 => Near(node.l, Seen)'
               /\ light'.l = 0 => node'.l = 0 \/ Near(node.l, View(light.by, light.was))'
    <3>1. CASE node.on
      <4>1. light.l = 0 /\ light'.l = light.was
        BY <1>6, <2>2, <3>1
      <4>2. node.l > 2
        BY <1>1, <1>6, <2>3, <3>1 DEF SBright
      <4>3. Near(node.l, View(light.by, light.was))
        BY <1>3, <2>1, <2>4, <4>1, <4>2
      <4>4. Seen' = View(light.by, light.was)
        BY <1>4, <4>1 DEF Seen, View
      <4> QED BY <2>1, <4>1, <4>3, <4>4 DEF Near
    <3>2. CASE ~node.on
      <4>1. light'.l = 0 /\ light.l = light.was /\ light.l > 0
        BY <1>6, <2>1, <3>2
      <4>2. Near(node.l, Seen) /\ Seen = View(light.by, light.was)
        BY <1>3, <2>4, <4>1 DEF Seen
      <4>3. View(light.by, light.was)' = View(light.by, light.was)
        BY <1>4 DEF View
      <4>4. Near(node.l, View(light.by, light.was))'
        BY <4>2, <4>3 DEF Near
      <4> QED BY <4>1, <4>4
    <3> QED BY <3>1, <3>2 DEF LightTypeOK, ANode
  <2> QED BY <1>4, <2>4
<1> QED BY <1>4, <1>5, <1>6

LEMMA StandaloneSends ==
  ASSUME LightTypeOK, LightTypeOK', Shapes, AllFit, SShows, SReach, SendFront
  PROVE  SShows'
<1>1. SUFFICES ASSUME Standalone, Sure, Sure'
               PROVE  /\ SMode' /\ SOrder' /\ SGets' /\ SAir' /\ SLate' /\ SValue' /\ SLight'
                      /\ SBright' /\ SCover' /\ SOn' /\ SEnds' /\ STold'
  BY DEF SShows, Standalone, Sure, SendFront
<1>2. /\ SMode /\ SOrder /\ SGets /\ SAir /\ SLate /\ SValue /\ SLight /\ SBright
      /\ SCover /\ SOn /\ SEnds /\ STold
  BY <1>1 DEF SShows
<1> DEFINE op == Head(queue).op
<1>3. op = Head(queue).op
  OBVIOUS
<1> HIDE DEF op
<1>4. /\ UNCHANGED <<edition, queue, late, shown, want, doubts>> /\ ~waiting
      /\ queue # <<>> /\ 1 \in DOMAIN queue /\ queue[1].op = op /\ op \in DOMAIN ModelOf
      /\ node'.l = node.l /\ node'.on = node.on /\ node'.level = node.level /\ node'.features = node.features
      /\ node'.mode = (IF op = "hslSet" THEN "hs" ELSE node.mode)
      /\ Answered' => air'.op = op /\ air'.got = light' /\ Done(op)
      /\ light' = light \/ Done(op)
      /\ op \in ValueSets => node.l \in 1 .. LightMax
  BY <1>1, <1>2, <1>3, StandaloneSent
<1>5. queue' = queue /\ \A S : Pending(S)' = Pending(S)
  BY <1>4 DEF Pending
<1>6. \A S : op \in S => Pending(S)
  BY <1>4 DEF Pending
<1>7. \A k, S : Final(k, S)' = Final(k, S)
  BY <1>5 DEF Final
<1>8. SMode'
  <2>1. ~Pending(ColourSets)' => Matches(node)'
    <3>1. SUFFICES ASSUME ~Pending(ColourSets) PROVE Matches(node)'
      BY <1>5
    <3>2. op \notin ColourSets /\ op # "hslSet"
      BY <1>6, <3>1 DEF ColourSets
    <3>3. node'.mode = node.mode /\ light'.by = light.by
      BY <1>4, <3>2 DEF Done
    <3> QED BY <1>2, <3>1, <3>3 DEF SMode, Matches
  <2>2. Pending({"ctlSet"})' /\ ~Pending({"hslSet"})' => node'.mode = "color_temp"
    <3>1. SUFFICES ASSUME Pending({"ctlSet"}), ~Pending({"hslSet"}) PROVE node'.mode = "color_temp"
      BY <1>5
    <3>2. op # "hslSet"
      BY <1>6, <3>1
    <3> QED BY <1>2, <1>4, <3>1, <3>2 DEF SMode
  <2>3. waiting' /\ Head(queue').op = "hslSet" => node'.mode = "hs"
    BY <1>3, <1>4
  <2>4. ASSUME NEW k \in DOMAIN queue', queue'[k].op = "lightSet", Final(k, ValueSets)'
        PROVE  node'.mode # "hs" /\ ~Pending({"hslSet"})'
    <3>1. k \in DOMAIN queue /\ queue[k].op = "lightSet" /\ Final(k, ValueSets)
      BY <1>5, <1>7, <2>4
    <3>2. node.mode # "hs" /\ ~Pending({"hslSet"})
      BY <1>2, <3>1 DEF SMode
    <3>3. op # "hslSet"
      BY <1>6, <3>2
    <3> QED BY <1>4, <1>5, <3>2, <3>3
  <2>5. \A i, j \in DOMAIN queue' : queue'[i].op = "hslSet" /\ queue'[j].op = "ctlSet" => j < i
    BY <1>2, <1>5 DEF SMode
  <2> QED BY <2>1, <2>2, <2>3, <2>4, <2>5 DEF SMode
<1>9. SOrder' /\ SGets'
  BY <1>2, <1>5 DEF SOrder, SGets
<1>10. SAir'
  <2>1. SUFFICES ASSUME Answered' PROVE SAir'
    BY DEF SAir
  <2>2. air'.op = op /\ air'.got = light' /\ Done(op)
    BY <1>4, <2>1
  <2>3. op \in ValueSets /\ Final(1, ValueSets)' =>
          light'.l > 0 /\ Near(node.l, Seen)'
    <3>1. SUFFICES ASSUME op \in ValueSets, Final(1, ValueSets)
                   PROVE  light'.l > 0 /\ Near(node.l, Seen)'
      BY <1>7
    <3>2. light'.l > 0 /\ Near(node'.l, Seen')
      BY <1>2, <1>4, <2>2, <3>1, SentValue DEF AllFit
    <3> QED BY <3>2 DEF Near
  <2>4. op = "onoffSet" => (node'.on <=> light'.l > 0)
    <3>1. SUFFICES ASSUME op = "onoffSet" PROVE node'.on <=> light'.l > 0
      OBVIOUS
    <3>2. light'.l = (IF ~node.on THEN 0 ELSE IF light.l = 0 THEN light.was ELSE light.l)
      BY <2>2, <3>1 DEF Done
    <3>3. light.was > 0 /\ light.l \in Nat /\ node.on \in BOOLEAN
      BY ScalesAre DEF LightTypeOK, ALight, ANode
    <3> QED BY <1>4, <3>2, <3>3
  <2>5. /\ op = "hslSet" => light'.by = "hs"
        /\ op = "ctlSet" => light'.by = "color_temp"
        /\ op = "levelSet" => light'.level = node'.level
    BY <1>4, <2>2 DEF Done
  <2> QED BY <2>2, <2>3, <2>4, <2>5 DEF SAir
<1>11. SLate'
  <2>1. SUFFICES ASSUME late # Nothing PROVE SLate'
    BY <1>4 DEF SLate
  <2>2. ~Pending({"onoffSet", "levelSet"})
    BY <1>2, <2>1 DEF SLate
  <2>3. ~Pending(ValueSets) => light'.l = light.l
    <3>1. SUFFICES ASSUME ~Pending(ValueSets) PROVE light'.l = light.l
      OBVIOUS
    <3>2. op \notin Switches
      BY <1>6, <2>2, <3>1 DEF Switches
    <3> QED BY <1>4, <3>2 DEF Done
  <2> QED BY <1>2, <1>4, <1>5, <2>1, <2>3 DEF SLate
<1>13. SValue'
  <2>1. SUFFICES ASSUME Pending(ValueSets)
                 PROVE  /\ node'.l > 0
                        /\ Pending({"hslSet"}) => HslLightness(node'.l, LightMax) > 0
    BY <1>5 DEF SValue
  <2>2. /\ node.l > 0 /\ (Pending({"hslSet"}) => HslLightness(node.l, LightMax) > 0)
    BY <1>2, <2>1 DEF SValue
  <2> QED BY <1>4, <2>2
<1>14. SLight'
  <2>1. LightFits
    BY DEF AllFit
  <2> QED BY <1>2, <1>4, <2>1, SentLight
<1>15. SBright' /\ SCover'
  <2>1. HasLight(node)' = HasLight(node)
    BY <1>4 DEF HasLight
  <2>2. SBright'
    BY <1>2, <1>4, <1>5, <1>7, <2>1 DEF SBright
  <2> QED BY <1>2, <1>4, <2>2 DEF SCover
<1>16. SOn'
  <2>1. SUFFICES ASSUME "web" \notin doubts PROVE SOn'
    BY <1>4 DEF SOn
  <2>2. ASSUME NEW k \in DOMAIN queue', queue'[k].op \in ValueSets, Final(k, Switches)'
        PROVE  node'.on
    <3>1. k \in DOMAIN queue /\ queue[k].op \in ValueSets /\ Final(k, Switches)
      BY <1>5, <1>7, <2>2
    <3> QED BY <1>2, <1>4, <2>1, <3>1 DEF SOn
  <2>3. ASSUME ~Pending(Switches \union {"onoffGet"})', late' = Nothing \/ late'.op = "levelSet", "onoff" \in light'.models
        PROVE  node'.on <=> light'.l > 0
    <3>1. ~Pending(Switches \union {"onoffGet"}) /\ (late = Nothing \/ late.op = "levelSet")
      BY <1>4, <1>5, <2>3
    <3>2. op \notin Switches
      BY <1>6, <3>1
    <3>3. light'.l = light.l
      BY <1>4, <3>2 DEF Done
    <3>4. "onoff" \in light.models
      <4>1. AllFit'
        BY SendFrontFits
      <4>2. node'.features = light'.models /\ node.features = light.models
        BY <1>1, <1>4, <4>1 DEF AllFit, RecordFits, Standalone
      <4> QED BY <1>4, <2>3, <4>2
    <3> QED BY <1>2, <1>4, <2>1, <3>1, <3>3, <3>4 DEF SOn
  <2> QED BY <2>2, <2>3 DEF SOn
<1>17. SEnds'
  BY <1>2, <1>4 DEF SEnds
<1>18. STold'
  <2>1. CASE op = "hslSet"
    <3>1. doubts = {} => Pending({"status"})
      BY <1>2, <1>4, StatusEnds DEF SEnds
    <3> QED BY <1>4, <1>5, <3>1 DEF STold
  <2>2. CASE op # "hslSet"
    <3>1. StatusOf(node)' = StatusOf(node)
      BY <1>4, <2>2, StatusStays
    <3>2. shown' = shown /\ doubts' = doubts
      BY <1>4
    <3> QED BY <1>2, <1>5, <3>1, <3>2 DEF STold
  <2> QED BY <2>1, <2>2
<1> QED BY <1>8, <1>9, <1>10, <1>11, <1>13, <1>14, <1>15, <1>16, <1>17, <1>18

\* What is left behind the front.
LEMMA BehindFront ==
  ASSUME LightTypeOK, LightTypeOK', queue # <<>>, queue' = Tail(queue), NEW op, op = Head(queue).op
  PROVE  /\ Moved(1, {}) /\ 1 \in DOMAIN queue /\ queue[1].op = op
         /\ \A j \in DOMAIN queue' : j + 1 \in DOMAIN queue /\ queue'[j].op = queue[j + 1].op /\ j + 1 > 1
         /\ \A S : Pending(S)' => Pending(S)
         /\ \A S : op \notin S /\ Pending(S) => Pending(S)'
         /\ \A S : op \in S => Pending(S)
         /\ \A S : ~Pending(S)' => Final(1, S)
         /\ \A S : \A k \in DOMAIN queue' : Final(k, S)' => Final(k + 1, S)
<1>1. queue \in Seq(AnItem) /\ 1 \in DOMAIN queue /\ queue[1].op = op /\ DOMAIN queue = 1 .. Len(queue) /\ Len(queue) \in Nat
  BY DEF LightTypeOK
<1>2. Moved(1, {})
  <2> DEFINE r == <<>>
             t == Tail(queue)
             none == {}
  <2>1. r \in Seq(AnItem) /\ t \in Seq(AnItem) /\ \A i \in DOMAIN r : r[i].op \in none
    BY <1>1
  <2>2. t \o r = t
    <3> HIDE DEF t
    <3> QED BY <2>1, ConcatEmptySeq
  <2>3. queue' = Tail(queue) \o r
    BY <2>2
  <2> HIDE DEF r, none
  <2>4. Moved(1, none)
    BY <2>1, <2>3, MovedOn
  <2> QED BY <2>4 DEF none
<1>3. \A j \in DOMAIN queue' : j + 1 \in DOMAIN queue /\ queue'[j].op = queue[j + 1].op /\ j + 1 > 1
  <2>1. \A j \in DOMAIN queue' : j \in Nat /\ j > 0
    BY DEF LightTypeOK
  <2> QED BY <1>2, <2>1 DEF Moved
<1>4. \A i \in DOMAIN queue : i > 1 => i - 1 \in DOMAIN queue' /\ queue'[i - 1].op = queue[i].op
  <2>1. SUFFICES ASSUME NEW i \in DOMAIN queue, i > 1
                 PROVE  i - 1 \in DOMAIN queue' /\ queue'[i - 1].op = queue[i].op
    OBVIOUS
  <2>2. i - 1 \in DOMAIN queue' /\ (i - 1) + 1 = i
    BY <1>1, <1>2, <2>1 DEF Moved
  <2> QED BY <1>3, <2>2
<1>5. \A S : Pending(S)' => Pending(S)
  BY <1>3 DEF Pending
<1>6. ASSUME NEW S, op \notin S, Pending(S)
      PROVE  Pending(S)'
  <2>1. PICK i \in DOMAIN queue : queue[i].op \in S
    BY <1>6 DEF Pending
  <2>2. i > 1
    BY <1>1, <1>6, <2>1
  <2> QED BY <1>4, <2>1, <2>2 DEF Pending
<1>7. \A S : op \in S => Pending(S)
  BY <1>1 DEF Pending
<1>8. \A S : ~Pending(S)' => Final(1, S)
  BY <1>4 DEF Pending, Final
<1>9. ASSUME NEW S, NEW k \in DOMAIN queue', Final(k, S)'
      PROVE  Final(k + 1, S)
  <2>1. SUFFICES ASSUME NEW j \in DOMAIN queue, j > k + 1 PROVE queue[j].op \notin S
    BY DEF Final
  <2>2. k \in Nat /\ k > 0 /\ j \in Nat
    BY <1>1 DEF LightTypeOK
  <2>3. j - 1 \in DOMAIN queue' /\ queue'[j - 1].op = queue[j].op /\ j - 1 > k
    BY <1>4, <2>1, <2>2
  <2> QED BY <1>9, <2>3 DEF Final
<1> QED BY <1>1, <1>2, <1>3, <1>5, <1>6, <1>7, <1>8, <1>9

\* What the front's answer does to the record.
LEMMA StandaloneStored ==
  ASSUME LightTypeOK, LightTypeOK', Shapes, Standalone, SAir, Reply, NEW op, op = Head(queue).op
  PROVE  /\ waiting /\ ~waiting' /\ queue # <<>> /\ queue' = Tail(queue) /\ air.op = op /\ op \in DOMAIN ModelOf
         /\ UNCHANGED <<edition, light, want, doubts, shown>> /\ late = Nothing
         /\ Answered /\ ~Answered' /\ air.got = light
         /\ IF op \in {"onoffSet", "onoffGet", "levelSet"} THEN late' = air /\ late' # Nothing ELSE late' = Nothing
         /\ node'.on = node.on /\ node'.level = node.level /\ node'.features = node.features /\ node'.mode = node.mode
         /\ op = "lightGet" => node'.l = ToBrightness(node, light.l)
         /\ op \notin {"lightGet", "hslGet"} => node'.l = node.l
<1>1. /\ waiting /\ air \notin {Nothing, Lost} /\ late = Nothing /\ waiting' = FALSE /\ air' = Nothing
      /\ queue' = Tail(queue) /\ UNCHANGED <<edition, light, want, doubts, shown>>
      /\ IF ModelOf[air.op] \in {"onoff", "level"}
           THEN late' = air /\ UNCHANGED node
           ELSE node' = Stored(node, air.op, air.got) /\ UNCHANGED late
  BY DEF Reply, Standalone, Companion
<1>2. /\ queue # <<>> /\ air.op = op /\ air \in AnAnswer /\ node \in ANode /\ op \in DOMAIN ModelOf
      /\ Answered /\ ~Answered' /\ air.got = light
  BY <1>1 DEF Shapes, LightTypeOK, Answered, SAir, AnAnswer
<1>3. op \in {"onoffSet", "onoffGet", "levelSet"} <=> ModelOf[op] \in {"onoff", "level"}
  <2>1. op \in {"onoffSet", "onoffGet", "levelSet", "lightSet", "lightGet", "lightRange",
              "hslSet", "hslGet", "hslRange", "ctlSet", "tempGet", "tempRange"}
    BY <1>2, ModelOfIs
  <2> QED BY <2>1 DEF ModelOf
<1>4. CASE op \in {"onoffSet", "onoffGet", "levelSet"}
  BY <1>1, <1>2, <1>3, <1>4
<1>5. CASE op \notin {"onoffSet", "onoffGet", "levelSet"}
  <2>1. node' = Stored(node, op, light) /\ late' = Nothing
    BY <1>1, <1>2, <1>3, <1>5
  <2>2. /\ node'.on = node.on /\ node'.level = node.level /\ node'.features = node.features /\ node'.mode = node.mode
        /\ op = "lightGet" => node'.l = ToBrightness(node, light.l)
        /\ op \notin {"lightGet", "hslGet"} => node'.l = node.l
    <3> DEFINE b == Brightness(light.l, node.maxL)
               c == ToBrightness(node, light.l)
    <3>1. node' = CASE op = "hslGet"     -> [node EXCEPT !.l = b]
                    [] op = "lightGet"   -> [node EXCEPT !.l = c]
                    [] op = "lightRange" -> [node EXCEPT !.maxL = LightMax]
                    [] OTHER -> node
      BY <2>1 DEF Stored
    <3> HIDE DEF b, c
    <3>2. CASE op = "hslGet"
      BY <1>2, <3>1, <3>2 DEF ANode
    <3>3. CASE op = "lightGet"
      <4>1. node' = [node EXCEPT !.l = c]
        BY <3>1, <3>3
      <4> QED BY <1>2, <3>3, <4>1 DEF ANode, c
    <3>4. CASE op = "lightRange"
      BY <1>2, <3>1, <3>4 DEF ANode
    <3>5. CASE op \notin {"hslGet", "lightGet", "lightRange"}
      BY <3>1, <3>5
    <3> QED BY <3>2, <3>3, <3>4, <3>5
  <2> QED BY <1>1, <1>2, <1>5, <2>1, <2>2
<1> QED BY <1>4, <1>5

\* A Get answers as the record should be.
LEMMA GotIs ==
  ASSUME LightTypeOK, AllFit, Standalone, Weak, SReach, Matches(node)
  PROVE  ToBrightness(node, light.l) = Seen
<1>1. node.mode = "hs" => "hsl" \in light.models
  BY ModesGo DEF AllFit, RecordFits
<1>2. node.mode = "hs" => node.maxL = LightMax
  BY <1>1 DEF SReach
<1> QED BY <1>2 DEF ToBrightness, Seen, View, Matches

\* An answer that is stored comes when nothing is to be sent behind it.
LEMMA NoSetsBehind ==
  ASSUME LightTypeOK, LightTypeOK', SOrder, queue # <<>>, queue' = Tail(queue), NEW op, op = Head(queue).op
  PROVE  /\ op \in Stores => ~Pending({"onoffSet", "levelSet"})'
         /\ op \in Stores \ {"onoffSet"} => ~Pending(Sets)'
<1>1. /\ 1 \in DOMAIN queue /\ queue[1].op = op
      /\ \A j \in DOMAIN queue' : j + 1 \in DOMAIN queue /\ queue'[j].op = queue[j + 1].op /\ j + 1 > 1
  BY BehindFront
<1>2. ASSUME op \in Stores, NEW j \in DOMAIN queue', queue'[j].op \in Sets
      PROVE  op = "onoffSet" /\ queue'[j].op \in ValueSets
  <2>1. j + 1 \in DOMAIN queue /\ queue'[j].op = queue[j + 1].op /\ j + 1 > 1
    BY <1>1, <1>2
  <2> DEFINE i == j + 1
             o == 1
  <2>2. i \in DOMAIN queue /\ o \in DOMAIN queue /\ o < i /\ queue[o].op \in Stores /\ queue[i].op \in Sets
    BY <1>1, <1>2, <2>1
  <2> HIDE DEF i, o
  <2>3. queue[o].op = "onoffSet" /\ queue[i].op \in ValueSets
    BY <2>2 DEF SOrder
  <2> QED BY <1>1, <2>1, <2>3 DEF i, o
<1>3. {"onoffSet", "levelSet"} \subseteq Sets /\ {"onoffSet", "levelSet"} \intersect ValueSets = {}
  BY DEF Sets, ValueSets
<1> QED BY <1>2, <1>3 DEF Pending

LEMMA ReplyModes ==
  ASSUME LightTypeOK, LightTypeOK', queue # <<>>, queue' = Tail(queue), NEW op, op = Head(queue).op,
         UNCHANGED light, node'.mode = node.mode, waiting, ~waiting', SMode,
         op = "hslSet" => light.by = "hs", op = "ctlSet" => light.by = "color_temp"
  PROVE  SMode'
<1>1. /\ 1 \in DOMAIN queue /\ queue[1].op = op
      /\ \A j \in DOMAIN queue' : j + 1 \in DOMAIN queue /\ queue'[j].op = queue[j + 1].op /\ j + 1 > 1
      /\ \A S : Pending(S)' => Pending(S)
      /\ \A S : op \notin S /\ Pending(S) => Pending(S)'
      /\ \A S : op \in S => Pending(S)
      /\ \A S : \A k \in DOMAIN queue' : Final(k, S)' => Final(k + 1, S)
  BY BehindFront
<1>2. ~Pending(ColourSets)' => Matches(node)'
  <2>1. SUFFICES ASSUME ~Pending(ColourSets)' PROVE Matches(node)
    BY DEF Matches
  <2>2. CASE ~Pending(ColourSets)
    BY <2>2 DEF SMode
  <2>3. CASE op = "hslSet"
    BY <2>3 DEF SMode, Matches
  <2>4. CASE op = "ctlSet"
    <3>1. ~Pending({"hslSet"})
      <4>1. op \notin {"hslSet"}
        BY <2>4
      <4>2. Pending({"hslSet"})' => Pending(ColourSets)'
        BY DEF Pending, ColourSets
      <4> QED BY <1>1, <2>1, <4>1, <4>2
    <3>2. node.mode = "color_temp"
      BY <1>1, <2>4, <3>1 DEF SMode
    <3> QED BY <2>4, <3>2 DEF Matches
  <2> QED BY <1>1, <2>1, <2>2, <2>3, <2>4 DEF ColourSets
<1>3. Pending({"ctlSet"})' /\ ~Pending({"hslSet"})' => node'.mode = "color_temp"
  <2>1. SUFFICES ASSUME Pending({"ctlSet"})', ~Pending({"hslSet"})' PROVE node.mode = "color_temp"
    OBVIOUS
  <2>2. Pending({"ctlSet"})
    BY <1>1, <2>1
  <2>3. op # "hslSet"
    <3>1. SUFFICES ASSUME op = "hslSet" PROVE FALSE
      OBVIOUS
    <3>2. PICK j \in DOMAIN queue' : queue'[j].op = "ctlSet"
      BY <2>1 DEF Pending
    <3>3. j + 1 \in DOMAIN queue /\ queue[j + 1].op = "ctlSet" /\ j + 1 > 1
      BY <1>1, <3>2
    <3> DEFINE k == j + 1
    <3>4. k \in DOMAIN queue /\ queue[k].op = "ctlSet" /\ k > 1 /\ k \in Nat
      BY <3>3 DEF LightTypeOK
    <3> HIDE DEF k
    <3>5. k < 1
      BY <1>1, <3>1, <3>4 DEF SMode
    <3> QED BY <3>4, <3>5
  <2>4. ~Pending({"hslSet"})
    BY <1>1, <2>1, <2>3
  <2> QED BY <2>2, <2>4 DEF SMode
<1>4. ASSUME NEW i \in DOMAIN queue', NEW j \in DOMAIN queue', queue'[i].op = "hslSet", queue'[j].op = "ctlSet"
      PROVE  j < i
  <2> DEFINE x == i + 1
             y == j + 1
  <2>1. x \in DOMAIN queue /\ y \in DOMAIN queue /\ queue[x].op = "hslSet" /\ queue[y].op = "ctlSet"
    BY <1>1, <1>4
  <2>2. i \in Nat /\ j \in Nat
    BY DEF LightTypeOK
  <2>3. y < x => j < i
    BY <2>2
  <2> HIDE DEF x, y
  <2>4. y < x
    BY <2>1 DEF SMode
  <2> QED BY <2>3, <2>4
<1>5. ASSUME NEW k \in DOMAIN queue', queue'[k].op = "lightSet", Final(k, ValueSets)'
      PROVE  node'.mode # "hs" /\ ~Pending({"hslSet"})'
  <2> DEFINE x == k + 1
  <2>1. x \in DOMAIN queue /\ queue[x].op = "lightSet" /\ Final(x, ValueSets)
    BY <1>1, <1>5
  <2> HIDE DEF x
  <2>2. node.mode # "hs" /\ ~Pending({"hslSet"})
    BY <2>1 DEF SMode
  <2> QED BY <1>1, <2>2
<1> QED BY <1>2, <1>3, <1>4, <1>5 DEF SMode

LEMMA ReplyAnswers ==
  ASSUME LightTypeOK, LightTypeOK', queue # <<>>, queue' = Tail(queue), NEW op, op = Head(queue).op,
         UNCHANGED <<light, want>>, air.op = op, air.got = light, ~Answered', Answered,
         IF op \in {"onoffSet", "onoffGet", "levelSet"} THEN late' = air ELSE late' = Nothing,
         node'.level = node.level, node'.on = node.on,
         SOrder, SGets, SAir, SCover
  PROVE  SOrder' /\ SGets' /\ SAir' /\ SLate' /\ SCover'
<1>1. /\ 1 \in DOMAIN queue /\ queue[1].op = op /\ Moved(1, {})
      /\ \A j \in DOMAIN queue' : j + 1 \in DOMAIN queue /\ queue'[j].op = queue[j + 1].op /\ j + 1 > 1
  BY BehindFront
<1>2. SOrder'
  <2>1. SUFFICES ASSUME NEW i \in DOMAIN queue', NEW j \in DOMAIN queue', i < j,
                        queue'[i].op \in Stores, queue'[j].op \in Sets
                 PROVE  queue'[i].op = "onoffSet" /\ queue'[j].op \in ValueSets
    BY DEF SOrder
  <2> DEFINE x == i + 1
             y == j + 1
  <2>2. /\ x \in DOMAIN queue /\ y \in DOMAIN queue /\ queue[x].op = queue'[i].op /\ queue[y].op = queue'[j].op
    BY <1>1
  <2>3. x < y
    BY <2>1 DEF LightTypeOK
  <2> HIDE DEF x, y
  <2> QED BY <2>1, <2>2, <2>3 DEF SOrder
<1>3. SGets'
  <2> DEFINE d == 1
             none == {}
  <2>1. d \in {0, 1} /\ Moved(d, none) /\ "hslGet" \notin none
    BY <1>1
  <2> HIDE DEF d, none
  <2> QED BY <2>1, GetsMove
<1>4. SAir' /\ SCover'
  BY DEF SAir, SCover
<1>5. SLate'
  <2>1. SUFFICES ASSUME late' # Nothing PROVE SLate'
    BY DEF SLate
  <2>2. late' = air /\ late'.op = op /\ late'.got = light /\ op \in {"onoffSet", "onoffGet", "levelSet"}
    BY <2>1
  <2>3. /\ op \in Stores => ~Pending({"onoffSet", "levelSet"})'
        /\ op \in Stores \ {"onoffSet"} => ~Pending(Sets)'
    BY NoSetsBehind
  <2>4. /\ op = "levelSet" => light.level = node.level
        /\ op = "onoffSet" => (node.on <=> light.l > 0)
    BY DEF SAir
  <2>5. ~Pending({"onoffSet", "levelSet"})' /\ (op \in {"onoffGet", "levelSet"} => ~Pending(Sets)')
    BY <2>2, <2>3 DEF Stores
  <2>6. late'.op = "levelSet" => late'.got.level = node'.level
    BY <2>2, <2>4
  <2>7. late'.op = "onoffSet" => (node'.on <=> late'.got.l > 0)
    BY <2>2, <2>4
  <2>8. late'.got.l > 0 <=> light'.l > 0
    BY <2>2
  <2> QED BY <2>2, <2>5, <2>6, <2>7, <2>8 DEF SLate
<1> QED BY <1>2, <1>3, <1>4, <1>5

LEMMA ReplyValues ==
  ASSUME LightTypeOK, LightTypeOK', AllFit, Standalone, Sure, SReach,
         queue # <<>>, queue' = Tail(queue), NEW op, op = Head(queue).op,
         UNCHANGED <<light>>, air.op = op, Answered,
         node'.features = node.features,
         op = "lightGet" => node'.l = ToBrightness(node, light.l),
         op \notin {"lightGet", "hslGet"} => node'.l = node.l,
         SMode, SOrder, SGets, SAir, SValue, SLight
  PROVE  SValue' /\ SLight'
<1>1. /\ 1 \in DOMAIN queue /\ queue[1].op = op
      /\ \A j \in DOMAIN queue' : j + 1 \in DOMAIN queue /\ queue'[j].op = queue[j + 1].op /\ j + 1 > 1
      /\ \A S : Pending(S)' => Pending(S)
      /\ \A S : op \notin S /\ Pending(S) => Pending(S)'
      /\ \A S : op \in S => Pending(S)
      /\ \A S : ~Pending(S)' => Final(1, S)
  BY BehindFront
<1>2. op \in {"lightGet", "hslGet"} => ~Pending(ValueSets)'
  <2>1. op \in {"lightGet", "hslGet"} => op \in Stores \ {"onoffSet"}
    BY DEF Stores
  <2>2. Pending(ValueSets)' => Pending(Sets)'
    BY DEF Pending, ValueSets, Sets
  <2> QED BY <2>1, <2>2, NoSetsBehind
<1>3. SValue'
  <2>1. SUFFICES ASSUME Pending(ValueSets)'
                 PROVE  /\ node'.l > 0
                        /\ Pending({"hslSet"})' => HslLightness(node'.l, LightMax) > 0
    BY DEF SValue
  <2>2. node'.l = node.l /\ Pending(ValueSets)
    BY <1>1, <1>2, <2>1
  <2>3. /\ node.l > 0
        /\ Pending({"hslSet"}) => HslLightness(node.l, LightMax) > 0
    BY <2>2 DEF SValue
  <2> QED BY <1>1, <2>2, <2>3
<1>4. SLight'
  <2>1. SUFFICES ASSUME HasLight(node), ~Pending(ValueSets)'
                 PROVE  ~Pending({"lightGet"})' =>
                          /\ light'.l > 0 => Near(node.l, Seen)'
                          /\ light'.l = 0 => node'.l = 0 \/ Near(node.l, View(light.by, light.was))'
    BY DEF SLight, HasLight
  <2>2. Seen' = Seen /\ View(light.by, light.was)' = View(light.by, light.was)
    BY DEF Seen, View
  <2>3. ASSUME node'.l = node.l
        PROVE  /\ Near(node.l, Seen) => Near(node.l, Seen)'
               /\ Near(node.l, View(light.by, light.was)) => Near(node.l, View(light.by, light.was))'
    BY <2>2, <2>3 DEF Near
  <2>4. light.l \in Nat /\ LightMax \in Nat /\ light.l \in 0 .. LightMax
    BY ScalesAre DEF LightTypeOK, ALight
  <2>5. CASE op \in ValueSets
    <3>1. Final(1, ValueSets) /\ Pending(ValueSets) /\ node'.l = node.l
      BY <1>1, <1>2, <2>1, <2>5 DEF ValueSets
    <3>2. light.l > 0 /\ Near(node.l, Seen)
      BY <2>5, <3>1 DEF SAir
    <3> QED BY <2>2, <2>3, <2>4, <3>1, <3>2
  <2>6. CASE op \notin ValueSets
    <3>1. ~Pending(ValueSets)
      BY <1>1, <2>1, <2>6
    <3>2. ~Pending({"lightGet"}) =>
            /\ light.l > 0 => Near(node.l, Seen)
            /\ light.l = 0 => node.l = 0 \/ Near(node.l, View(light.by, light.was))
      BY <2>1, <3>1 DEF SLight
    <3>3. ASSUME ~Pending({"lightGet"})'
          PROVE  /\ light'.l > 0 => Near(node.l, Seen)'
                 /\ light'.l = 0 => node'.l = 0 \/ Near(node.l, View(light.by, light.was))'
      <4>1. CASE op = "lightGet"
        <5>1. Matches(node)
          <6>1. ~Pending(ColourSets)
            BY <3>1 DEF Pending, ColourSets, ValueSets
          <6> QED BY <6>1 DEF SMode
        <5>2. node'.l = Seen
          <6>1. Weak
            BY DEF Weak, Sure
          <6> QED BY <4>1, <5>1, <6>1, GotIs
        <5>3. Seen \in Nat /\ (light.l = 0 => Seen = 0)
          <6>1. Seen \in 0 .. LightMax /\ (Seen > 0 <=> light.l > 0)
            BY <2>4, ViewIs DEF Seen
          <6> QED BY <2>4, <6>1
        <5>4. Near(node.l, Seen)'
          BY <2>2, <5>2, <5>3 DEF Near
        <5> QED BY <5>2, <5>3, <5>4
      <4>2. CASE op # "lightGet"
        <5>1. ~Pending({"lightGet"})
          BY <1>1, <3>3, <4>2
        <5>2. op # "hslGet"
          BY <1>1, <5>1 DEF SGets, Pending
        <5>3. node'.l = node.l
          BY <4>2, <5>2
        <5>4. light'.l > 0 => Near(node.l, Seen)'
          BY <2>3, <3>2, <5>1, <5>3
        <5>5. light'.l = 0 => node'.l = 0 \/ Near(node.l, View(light.by, light.was))'
          BY <2>3, <3>2, <5>1, <5>3
        <5> QED BY <5>4, <5>5
      <4> QED BY <4>1, <4>2
    <3> QED BY <3>3
  <2> QED BY <2>5, <2>6
<1> QED BY <1>3, <1>4

LEMMA ReplySwitch ==
  ASSUME LightTypeOK, LightTypeOK', queue # <<>>, queue' = Tail(queue), NEW op, op = Head(queue).op,
         UNCHANGED <<light, doubts, shown, edition>>, air.op = op, Answered, op \in DOMAIN ModelOf,
         IF op \in {"onoffSet", "onoffGet", "levelSet"} THEN late' = air /\ late' # Nothing ELSE late' = Nothing,
         late = Nothing,
         node'.features = node.features, node'.on = node.on,
         op \notin {"lightGet", "hslGet"} => node'.l = node.l,
         SOrder, SAir, SBright, SOn, SEnds
  PROVE  SBright' /\ SOn' /\ SEnds' /\ STold'
<1>1. /\ 1 \in DOMAIN queue /\ queue[1].op = op /\ Moved(1, {})
      /\ \A j \in DOMAIN queue' : j + 1 \in DOMAIN queue /\ queue'[j].op = queue[j + 1].op /\ j + 1 > 1
      /\ \A S : Pending(S)' => Pending(S)
      /\ \A S : op \notin S /\ Pending(S) => Pending(S)'
      /\ \A S : op \in S => Pending(S)
      /\ \A S : ~Pending(S)' => Final(1, S)
      /\ \A S : \A k \in DOMAIN queue' : Final(k, S)' => Final(k + 1, S)
  BY BehindFront
<1>2. HasLight(node)' = HasLight(node)
  BY DEF HasLight
<1>3. SBright'
  <2>1. SUFFICES ASSUME HasLight(node), node.on, NEW i \in DOMAIN queue', queue'[i].op = "onoffSet", Final(i, ValueSets)'
                 PROVE  node'.l > 2
    BY <1>2 DEF SBright
  <2> DEFINE x == i + 1
  <2>2. x \in DOMAIN queue /\ queue[x].op = "onoffSet" /\ Final(x, ValueSets)
    BY <1>1, <2>1
  <2> HIDE DEF x
  <2>3. node.l > 2
    BY <2>1, <2>2 DEF SBright
  <2>4. op \notin {"lightGet", "hslGet"}
    <3>1. Pending({"onoffSet", "levelSet"})'
      BY <2>1 DEF Pending
    <3> QED BY <3>1, NoSetsBehind DEF Stores
  <2> QED BY <2>3, <2>4
<1>5. SOn'
  <2>1. SUFFICES ASSUME "web" \notin doubts PROVE SOn'
    BY DEF SOn
  <2>2. ASSUME NEW k \in DOMAIN queue', queue'[k].op \in ValueSets, Final(k, Switches)'
        PROVE  node'.on
    <3> DEFINE x == k + 1
    <3>1. x \in DOMAIN queue /\ queue[x].op \in ValueSets /\ Final(x, Switches)
      BY <1>1, <2>2
    <3> HIDE DEF x
    <3> QED BY <2>1, <3>1 DEF SOn
  <2>3. ASSUME ~Pending(Switches \union {"onoffGet"})', late' = Nothing \/ late'.op = "levelSet", "onoff" \in light.models
        PROVE  node.on <=> light.l > 0
    <3>1. op \notin {"onoffSet", "onoffGet"}
      BY <2>3
    <3>2. CASE op \in ValueSets
      <4>1. Final(1, Switches \union {"onoffGet"})
        BY <1>1, <2>3
      <4>2. Final(1, Switches) /\ Final(1, ValueSets)
        BY <4>1 DEF Final, Switches
      <4>3. light.l > 0
        BY <3>2, <4>2 DEF SAir
      <4>4. node.on
        BY <1>1, <2>1, <3>2, <4>2 DEF SOn
      <4> QED BY <4>3, <4>4
    <3>3. CASE op \notin ValueSets
      <4>1. op \notin Switches \union {"onoffGet"}
        BY <3>1, <3>3 DEF Switches
      <4>2. ~Pending(Switches \union {"onoffGet"})
        BY <1>1, <2>3, <4>1
      <4> QED BY <2>1, <2>3, <4>2 DEF SOn
    <3> QED BY <3>2, <3>3
  <2> QED BY <2>2, <2>3 DEF SOn
<1>6. SEnds'
  <2>1. SUFFICES ASSUME "web" \notin doubts, queue' # <<>>
                 PROVE  queue'[Len(queue')].op = "status"
    BY DEF SEnds
  <2> DEFINE d == 1
  <2>2. d \in {0, 1} /\ Moved(d, {})
    BY <1>1
  <2> HIDE DEF d
  <2>3. queue'[Len(queue')].op = queue[Len(queue)].op
    BY <2>1, <2>2, EndsMove
  <2> QED BY <2>1, <2>3 DEF SEnds
<1>7. STold'
  <2>1. SUFFICES ASSUME doubts = {} PROVE Pending({"status"})'
    BY DEF STold
  <2>2. Pending({"status"})
    BY <2>1, StatusEnds DEF SEnds
  <2>3. op \notin {"status"}
    BY ModelOfIs
  <2> QED BY <1>1, <2>2, <2>3
<1> QED BY <1>3, <1>5, <1>6, <1>7

LEMMA StandaloneReplies ==
  ASSUME LightTypeOK, LightTypeOK', Shapes, AllFit, SShows, SReach, Reply
  PROVE  SShows'
<1>1. SUFFICES ASSUME Standalone, Sure
               PROVE  /\ SMode' /\ SOrder' /\ SGets' /\ SAir' /\ SLate' /\ SValue' /\ SLight'
                      /\ SBright' /\ SCover' /\ SOn' /\ SEnds' /\ STold'
  BY DEF SShows, Standalone, Sure, Reply
<1>2. /\ SMode /\ SOrder /\ SGets /\ SAir /\ SLate /\ SValue /\ SLight /\ SBright
      /\ SCover /\ SOn /\ SEnds /\ STold
  BY <1>1 DEF SShows
<1> DEFINE op == Head(queue).op
<1>3. op = Head(queue).op
  OBVIOUS
<1> HIDE DEF op
<1>4. /\ waiting /\ ~waiting' /\ queue # <<>> /\ queue' = Tail(queue) /\ air.op = op /\ op \in DOMAIN ModelOf
      /\ UNCHANGED <<edition, light, want, doubts, shown>> /\ late = Nothing
      /\ Answered /\ ~Answered' /\ air.got = light
      /\ IF op \in {"onoffSet", "onoffGet", "levelSet"} THEN late' = air /\ late' # Nothing ELSE late' = Nothing
      /\ node'.on = node.on /\ node'.level = node.level /\ node'.features = node.features /\ node'.mode = node.mode
      /\ op = "lightGet" => node'.l = ToBrightness(node, light.l)
      /\ op \notin {"lightGet", "hslGet"} => node'.l = node.l
  BY <1>1, <1>2, <1>3, StandaloneStored
<1>5. SMode'
  <2>1. (op = "hslSet" => light.by = "hs") /\ (op = "ctlSet" => light.by = "color_temp")
    BY <1>2, <1>4 DEF SAir
  <2> QED BY <1>2, <1>3, <1>4, <2>1, ReplyModes
<1>6. SOrder' /\ SGets' /\ SAir' /\ SLate' /\ SCover'
  <2>1. IF op \in {"onoffSet", "onoffGet", "levelSet"} THEN late' = air ELSE late' = Nothing
    BY <1>4
  <2> QED BY <1>2, <1>3, <1>4, <2>1, ReplyAnswers
<1>7. SValue' /\ SLight'
  BY <1>1, <1>2, <1>3, <1>4, ReplyValues
<1>8. SBright' /\ SOn' /\ SEnds' /\ STold'
  BY <1>2, <1>3, <1>4, ReplySwitch
<1> QED BY <1>5, <1>6, <1>7, <1>8

LEMMA StandaloneStoresLate ==
  ASSUME LightTypeOK, LightTypeOK', Shapes, AllFit, SShows, StoreLate
  PROVE  SShows'
<1>1. /\ late # Nothing /\ node' = StoredLate(node, late.op, late.got) /\ late' = Nothing
      /\ doubts' = doubts \union (IF node' # node /\ ~Pending({"status"}) THEN {"belated"} ELSE {})
      /\ UNCHANGED <<edition, light, queue, waiting, air, shown, want>>
  BY DEF StoreLate
<1>2. SUFFICES ASSUME Standalone, Sure
               PROVE  /\ SMode' /\ SOrder' /\ SGets' /\ SAir' /\ SLate' /\ SValue' /\ SLight'
                      /\ SBright' /\ SCover' /\ SOn' /\ SEnds' /\ STold'
  BY <1>1 DEF SShows, Standalone, Sure
<1>3. /\ SMode /\ SOrder /\ SGets /\ SAir /\ SLate /\ SValue /\ SLight /\ SBright
      /\ SCover /\ SOn /\ SEnds /\ STold
  BY <1>2 DEF SShows
<1>4. late \in AnAnswer /\ late.op \in {"onoffSet", "onoffGet", "levelSet"} /\ node \in ANode
  <2>1. late \in AnAnswer /\ late.op \in DOMAIN ModelOf /\ node \in ANode
    BY <1>1 DEF LightTypeOK, AnAnswer
  <2>2. ModelOf[late.op] \in {"onoff", "level"}
    BY <1>1 DEF AllFit, AnswersFit
  <2>3. late.op \in {"onoffSet", "onoffGet", "levelSet", "lightSet", "lightGet", "lightRange",
              "hslSet", "hslGet", "hslRange", "ctlSet", "tempGet", "tempRange"}
    BY <2>1, ModelOfIs
  <2> QED BY <2>1, <2>2, <2>3 DEF ModelOf
<1>5. /\ node'.l = node.l /\ node'.mode = node.mode /\ node'.features = node.features
      /\ late.op = "levelSet" => node'.on = node.on /\ node'.level = late.got.level
      /\ late.op # "levelSet" => node'.on = (late.got.l > 0) /\ node'.level = node.level
  <2> DEFINE b == late.got.l > 0
  <2>1. node' = IF ModelOf[late.op] = "onoff" THEN [node EXCEPT !.on = b] ELSE [node EXCEPT !.level = late.got.level]
    BY <1>1 DEF StoredLate
  <2> HIDE DEF b
  <2>2. CASE late.op = "levelSet"
    <3>1. node' = [node EXCEPT !.level = late.got.level]
      BY <2>1, <2>2 DEF ModelOf
    <3> QED BY <1>4, <2>2, <3>1 DEF ANode
  <2>3. CASE late.op # "levelSet"
    <3>1. node' = [node EXCEPT !.on = b]
      BY <1>4, <2>1, <2>3 DEF ModelOf
    <3>2. node'.on = b /\ node'.level = node.level /\ node'.l = node.l /\ node'.mode = node.mode /\ node'.features = node.features
      BY <1>4, <3>1 DEF ANode
    <3> QED BY <2>3, <3>2 DEF b
  <2> QED BY <2>2, <2>3
<1>6. /\ ~Pending({"onoffSet", "levelSet"})
      /\ late.op \in {"onoffGet", "levelSet"} => ~Pending(Sets)
      /\ late.op = "levelSet" => late.got.level = node.level
      /\ late.op = "onoffSet" => (node.on <=> late.got.l > 0)
      /\ late.op # "levelSet" /\ ~Pending(ValueSets) => (late.got.l > 0 <=> light.l > 0)
  BY <1>1, <1>3 DEF SLate
<1>7. node'.level = node.level
  BY <1>5, <1>6
<1>8. /\ queue' = queue /\ \A S : Pending(S)' = Pending(S)
      /\ \A k, S : Final(k, S)' = Final(k, S)
  BY <1>1 DEF Pending, Final
<1>9. HasLight(node)' = HasLight(node) /\ Matches(node)' = Matches(node) /\ Seen' = Seen
      /\ (Near(node.l, Seen)' <=> Near(node.l, Seen))
      /\ (Near(node.l, View(light.by, light.was))' <=> Near(node.l, View(light.by, light.was)))
  BY <1>1, <1>5 DEF HasLight, Matches, Seen, View, Near
<1>10. SMode' /\ SOrder' /\ SGets' /\ SEnds'
  <2>1. SMode'
    BY <1>1, <1>3, <1>5, <1>8, <1>9 DEF SMode
  <2>2. SOrder' /\ SGets'
    BY <1>3, <1>8 DEF SOrder, SGets
  <2>3. SEnds'
    BY <1>1, <1>3, <1>8 DEF SEnds
  <2> QED BY <2>1, <2>2, <2>3
<1>11. SValue'
  BY <1>1, <1>3, <1>5, <1>8, <1>9 DEF SValue
<1>12. SLight'
  <2>1. HasLight(node) /\ ~Pending(ValueSets) =>
           /\ ~Pending({"lightGet"}) =>
                /\ light.l > 0 => Near(node.l, Seen)
                /\ light.l = 0 => node.l = 0 \/ Near(node.l, View(light.by, light.was))
    BY <1>3 DEF SLight
  <2>2. HasLight(node)' /\ ~Pending(ValueSets)' =>
           /\ ~Pending({"lightGet"})' =>
                /\ light'.l > 0 => Near(node.l, Seen)'
                /\ light'.l = 0 => node'.l = 0 \/ Near(node.l, View(light.by, light.was))'
    BY <1>1, <1>5, <1>8, <1>9, <2>1
  <2> QED BY <2>2 DEF SLight
<1>13. SAir'
  <2>1. SUFFICES ASSUME Answered PROVE SAir'
    BY <1>1 DEF SAir, Answered
  <2>2. air.op # "onoffSet" /\ air.op # "levelSet"
    <3>1. queue # <<>> /\ air.op = Head(queue).op
      BY <2>1 DEF Shapes, Answered
    <3>2. 1 \in DOMAIN queue /\ queue[1].op = air.op
      BY <3>1 DEF LightTypeOK
    <3> QED BY <1>6, <3>2 DEF Pending
  <2>3. /\ air.got = light
        /\ air.op = "hslSet" => light.by = "hs"
        /\ air.op = "ctlSet" => light.by = "color_temp"
        /\ air.op \in ValueSets /\ Final(1, ValueSets) =>
             /\ light.l > 0 /\ Near(node.l, Seen)
    BY <1>3, <2>1 DEF SAir
  <2>4. /\ air'.got = light' /\ air'.op # "onoffSet" /\ air'.op # "levelSet"
        /\ air'.op = "hslSet" => light'.by = "hs"
        /\ air'.op = "ctlSet" => light'.by = "color_temp"
        /\ air'.op \in ValueSets /\ Final(1, ValueSets)' =>
             /\ light'.l > 0 /\ Near(node.l, Seen)'
    BY <1>1, <1>8, <1>9, <2>2, <2>3
  <2> QED BY <2>4 DEF SAir
<1>14. SLate' /\ SCover'
  BY <1>1, <1>3, <1>7 DEF SLate, SCover
<1>15. SBright'
  <2>1. \A i \in DOMAIN queue' : queue'[i].op # "onoffSet"
    BY <1>6, <1>8 DEF Pending
  <2>2. ~Pending({"onoffSet"})'
    BY <2>1 DEF Pending
  <2>3. SBright'
    BY <2>1 DEF SBright
  <2> QED BY <2>3
<1>16. SOn'
  <2>1. SUFFICES ASSUME "web" \notin doubts PROVE SOn'
    BY <1>1 DEF SOn
  <2>2. ASSUME NEW k \in DOMAIN queue', queue'[k].op \in ValueSets, Final(k, Switches)'
        PROVE  node'.on
    <3>1. k \in DOMAIN queue /\ queue[k].op \in ValueSets /\ Final(k, Switches)
      BY <1>8, <2>2
    <3>2. node.on
      BY <1>3, <2>1, <3>1 DEF SOn
    <3>3. Pending(Sets)
      BY <3>1 DEF Pending, Sets, ValueSets
    <3>4. late.op = "onoffSet"
      BY <1>4, <1>6, <3>3
    <3> QED BY <1>5, <1>6, <3>2, <3>4
  <2>3. ASSUME ~Pending(Switches \union {"onoffGet"})', "onoff" \in light'.models
        PROVE  node'.on <=> light'.l > 0
    <3>1. ~Pending(Switches \union {"onoffGet"}) /\ "onoff" \in light.models /\ light' = light
      BY <1>1, <1>8, <2>3
    <3>2. ~Pending(ValueSets)
      BY <3>1 DEF Pending, Switches
    <3>3. CASE late.op = "levelSet"
      <4>1. node.on <=> light.l > 0
        BY <1>3, <2>1, <3>1, <3>3 DEF SOn
      <4> QED BY <1>5, <3>1, <3>3, <4>1
    <3>4. CASE late.op # "levelSet"
      <4>1. late.got.l > 0 <=> light.l > 0
        BY <1>6, <3>2, <3>4
      <4> QED BY <1>5, <3>1, <3>4, <4>1
    <3> QED BY <3>3, <3>4
  <2> QED BY <2>2, <2>3 DEF SOn
<1>17. STold'
  <2>1. SUFFICES ASSUME doubts' = {}, shown # Nothing PROVE shown = StatusOf(node)' \/ Pending({"status"})
    BY <1>1, <1>8 DEF STold
  <2>2. doubts = {} /\ (node' = node \/ Pending({"status"}))
    BY <1>1, <2>1
  <2>3. shown = StatusOf(node) \/ Pending({"status"})
    BY <1>3, <2>1, <2>2 DEF STold
  <2>4. node' = node => StatusOf(node)' = StatusOf(node)
    BY <1>1, StatusStays
  <2> QED BY <2>2, <2>3, <2>4
<1> QED BY <1>10, <1>11, <1>12, <1>13, <1>14, <1>15, <1>16, <1>17

\* A Set past the queue leaves its doubt.
LEMMA StandaloneDoubts ==
  ASSUME Unacknowledged
  PROVE  SShows'
<1>1. "overtaken" \in doubts' \/ "lost" \in doubts'
  BY DEF Unacknowledged
<1> QED BY <1>1 DEF SShows, Sure

LEMMA InitSShows ==
  ASSUME LightInit, LightTypeOK, AllFit
  PROVE  SShows
<1>1. /\ light.models \in Lights /\ LightFits
      /\ "hsl" \in light.models => "scale" \in doubts
      /\ doubts \subseteq {"guess", "scale"}
      /\ Standalone =>
           /\ queue = Items(RefreshOps(light.models) \o <<"announce", "status">>)
           /\ shown = Nothing
  <2>1. /\ light.models \in Lights /\ LightFits
        /\ doubts = (IF BothColours(light.models) THEN {"guess"} ELSE {}) \union
                       (IF "hsl" \in light.models THEN {"scale"} ELSE {})
        /\ queue = IF Standalone
                      THEN Items(RefreshOps(light.models) \o <<"announce", "status">>) ELSE <<>>
        /\ Standalone => node = NewNode(edition, light.models) /\ offered = {} /\ shown = Nothing
    BY FirstRecord
  <2> QED BY <2>1
<1>2. ~waiting /\ air = Nothing /\ late = Nothing /\ want = Nothing
  BY DEF LightInit
<1>3. SUFFICES ASSUME Standalone, Sure
               PROVE  /\ SMode /\ SOrder /\ SGets /\ SAir /\ SLate /\ SValue /\ SLight
                      /\ SBright /\ SCover /\ SOn /\ SEnds /\ STold
  BY DEF SShows
<1>4. "hsl" \notin light.models
  BY <1>1, <1>3 DEF Sure
<1>5. /\ node.features = light.models /\ ModeFits(node.features, node.mode)
      /\ ModeFits(light.models, light.by)
  BY <1>3 DEF AllFit, RecordFits, LightFits
<1>6. Matches(node)
  <2>1. node.mode # "hs" /\ light.by # "hs"
    BY <1>4, <1>5, ModesGo
  <2> QED BY <2>1 DEF Matches
<1> DEFINE e == <<"announce", "status">>
           ops == RefreshOps(light.models) \o e
<1>7. /\ ops \in Seq(Asks) /\ ops # <<>> /\ ops[Len(ops)] = "status" /\ Followed(ops)
      /\ "onoff" \in light.models => Among("onoffGet", ops)
      /\ light.models \intersect LightModels # {} => Among("lightGet", ops)
  <2>1. light.models \in Lights /\ e \in {<<>>, <<"announce", "status">>}
    BY <1>1
  <2>2. ops = RefreshOps(light.models) \o e
    OBVIOUS
  <2> HIDE DEF ops
  <2> QED BY ONLY <2>1, <2>2, RefreshAsks
<1>8. queue = Items(ops)
  BY <1>1, <1>3
<1> HIDE DEF ops
<1>9. DOMAIN queue = DOMAIN ops /\ (\A i \in DOMAIN queue : queue[i].op = ops[i])
  BY <1>8, OpOfItem DEF Items
<1>10. \A i \in DOMAIN queue : queue[i].op \in Asks
  BY <1>7, <1>9
<1>11. /\ \A i \in DOMAIN queue : queue[i].op \notin Sets
       /\ {"onoffSet"} \union ValueSets \subseteq Sets /\ ColourSets \subseteq Sets
  <2>1. Asks \intersect Sets = {}
    BY DEF Asks, Local, Sets
  <2> QED BY <1>10, <2>1 DEF Sets, ValueSets, ColourSets
<1>12. SMode /\ SOrder /\ SAir /\ SLate
  <2>1. ~Pending({"ctlSet"}) /\ "hslSet" \in Sets /\ "lightSet" \in Sets
    BY <1>11 DEF Pending, Sets
  <2> QED BY <1>2, <1>6, <1>11, <2>1 DEF SMode, SOrder, SAir, SLate, Answered
<1>13. SValue /\ SBright /\ SCover /\ STold
  <2>1. ~Pending(ValueSets)
    BY <1>11 DEF Pending
  <2> QED BY <1>1, <1>2, <1>3, <1>11, <2>1 DEF SValue, SBright, SCover, STold
<1>14. SGets
  BY <1>7, <1>9 DEF SGets, Followed
<1>15. SLight
  <2>1. HasLight(node) => Pending({"lightGet"})
    BY <1>5, <1>7, <1>9 DEF HasLight, Pending, Among
  <2> QED BY <1>2, <2>1 DEF SLight
<1>16. SOn
  <2>1. "onoff" \in light.models => Pending(Switches \union {"onoffGet"})
    BY <1>7, <1>9 DEF Pending, Among
  <2> QED BY <1>11, <2>1 DEF SOn
<1>17. SEnds
  <2>1. Len(queue) = Len(ops) /\ Len(ops) \in DOMAIN ops
    <3>1. queue \in Seq(AnItem) /\ ops \in Seq(Asks) /\ DOMAIN queue = DOMAIN ops
      BY <1>7, <1>9 DEF LightTypeOK
    <3>2. Len(ops) \in DOMAIN ops
      BY <1>7
    <3>3. Len(queue) = Len(ops)
      BY ONLY <3>1
    <3> QED BY <3>2, <3>3
  <2> QED BY <1>7, <1>9, <2>1 DEF SEnds
<1> QED BY <1>12, <1>13, <1>14, <1>15, <1>16, <1>17

\* A light keeps its models and a bridge is of one edition.
LEMMA ModelsStay ==
  ASSUME LightTypeOK, [LightNext]_lightvars
  PROVE  light'.models = light.models /\ edition' = edition
<1>1. CASE SendFront
  <2> DEFINE i == Head(queue)
             a == IF Standalone THEN MadeOf(node, i.op) ELSE i.args
             after == Effect(i.op, a)
  <2>1. queue # <<>> /\ light' \in {light, after} /\ edition' = edition
    BY <1>1 DEF SendFront
  <2>2. i \in AnItem /\ node \in ANode /\ light \in ALight
    BY <2>1 DEF LightTypeOK
  <2>3. a.l \in Numbers
    BY <2>2, SaidType DEF AnItem
  <2> HIDE DEF a
  <2>4. after = Effect(i.op, a)
    OBVIOUS
  <2> HIDE DEF after, i
  <2>5. after.models = light.models
    BY <2>2, <2>3, <2>4, EffectShows
  <2> QED BY <2>1, <2>5
<1>2. CASE Unacknowledged
  BY <1>2 DEF Unacknowledged, LightTypeOK, ALight
<1>3. CASE ~SendFront /\ ~Unacknowledged
  BY <1>3 DEF LightNext, LightCommand, Given, set_onoff_handler, set_hsl_handler, ByPage, CoverCommand,
     SetLightness, ble_mesh_ctl_temperature_set, console_ctl_temperature_set,
     console_get, ByHand, Refresh, Answer, Overhear, Publish, Reply, StoreLate, Timeout, lightvars
<1> QED BY <1>1, <1>2, <1>3

LEMMA WantStays ==
  ASSUME LightTypeOK, AllFit, SWant, [LightNext]_lightvars
  PROVE  SWant'
<1>1. light'.models = light.models /\ edition' = edition
  BY ModelsStay
<1>2. ASSUME want' = want
      PROVE  SWant'
  BY <1>1, <1>2 DEF SWant, Standalone
<1>3. SUFFICES ASSUME Standalone, IsCover(light.models)
               PROVE  SWant'
  BY <1>1 DEF SWant, Standalone
<1>4. node.features = light.models
  BY <1>3 DEF AllFit, RecordFits
<1>5. "lightness" \notin node.features /\ "hsl" \notin node.features
  BY <1>3, <1>4 DEF IsCover, LightModels
<1>6. ASSUME NEW c \in Commands, LightCommand(c) \/ set_onoff_handler(c) \/ set_hsl_handler(c)
      PROVE  SWant'
  BY <1>3, <1>4, <1>5, <1>6 DEF LightCommand, set_onoff_handler, set_hsl_handler
<1>7. ASSUME NEW p \in 0 .. Percent, CoverCommand(p)
      PROVE  SWant'
  <2>1. want' = [on |-> TRUE, cover |-> TRUE, l |-> p]
    BY <1>7 DEF CoverCommand
  <2> QED BY <2>1 DEF SWant
<1>8. ASSUME NEW b \in Levels, SetLightness(b)
      PROVE  SWant'
  BY <1>5, <1>8 DEF SetLightness
<1>9. CASE \/ ble_mesh_ctl_temperature_set \/ console_ctl_temperature_set \/ console_get \/ ByHand
           \/ Refresh \/ Answer \/ Overhear \/ SendFront \/ Publish \/ Reply \/ StoreLate \/ Timeout
           \/ UNCHANGED lightvars
  BY <1>2, <1>9 DEF ble_mesh_ctl_temperature_set, console_ctl_temperature_set, Unacknowledged,
     console_get, ByHand, Refresh, Answer, Overhear, SendFront, Publish, Reply, StoreLate, Timeout, lightvars
<1> QED BY <1>6, <1>7, <1>8, <1>9 DEF LightNext

\* What is stored of a status.
LEMMA StoredReach ==
  ASSUME LightTypeOK, AllFit, Standalone, NEW op \in DOMAIN ModelOf, ModelOf[op] \in light.models,
         NEW got \in ALight, "hsl" \in light.models => node.maxL = LightMax, node.l <= LightMax,
         NEW n, n = Stored(node, op, got)
  PROVE  ("hsl" \in light.models => n.maxL = LightMax) /\ n.l <= LightMax
<1> DEFINE b == Brightness(got.l, node.maxL)
           c == ToBrightness(node, got.l)
<1>1. n = CASE op = "hslGet"     -> [node EXCEPT !.l = b]
            [] op = "lightGet"   -> [node EXCEPT !.l = c]
            [] op = "lightRange" -> [node EXCEPT !.maxL = LightMax]
            [] OTHER -> node
  BY DEF Stored
<1>2. node \in ANode /\ got.l \in 0 .. LightMax /\ LightMax \in Nat
  BY ScalesAre DEF LightTypeOK, ALight, Numbers
<1>3. node.features = light.models /\ ModeFits(node.features, node.mode)
  BY DEF AllFit, RecordFits
<1>4. "hsl" \in light.models => b \in 0 .. LightMax
  <2>1. Brightness(got.l, LightMax) \in 0 .. LightMax
    <3> DEFINE v == View("hs", got.l)
    <3>1. v = Brightness(got.l, LightMax)
      BY DEF View
    <3>2. v \in 0 .. LightMax
      BY <1>2, ViewIs
    <3> QED BY <3>1, <3>2
  <2> QED BY <2>1
<1>5. c \in 0 .. LightMax
  <2>1. node.mode = "hs" => "hsl" \in light.models
    BY <1>3, ModesGo
  <2>2. c = IF node.mode = "hs" THEN b ELSE got.l
    BY DEF ToBrightness
  <2> HIDE DEF b, c
  <2> QED BY <1>2, <1>4, <2>1, <2>2
<1>6. op = "hslGet" => "hsl" \in light.models
  BY DEF ModelOf
<1> HIDE DEF b, c
<1>7. CASE op = "hslGet"
  <2>1. n = [node EXCEPT !.l = b]
    BY <1>1, <1>7
  <2>2. n.l = b /\ n.maxL = node.maxL
    BY <1>2, <2>1 DEF ANode
  <2> QED BY <1>2, <1>4, <1>6, <1>7, <2>2
<1>8. CASE op = "lightGet"
  <2>1. n = [node EXCEPT !.l = c]
    BY <1>1, <1>8
  <2>2. n.l = c /\ n.maxL = node.maxL
    BY <1>2, <2>1 DEF ANode
  <2> QED BY <1>2, <1>5, <2>2
<1>9. CASE op = "lightRange"
  <2>1. n = [node EXCEPT !.maxL = LightMax]
    BY <1>1, <1>9
  <2> QED BY <1>2, <2>1 DEF ANode
<1>10. CASE op \notin {"hslGet", "lightGet", "lightRange"}
  BY <1>1, <1>10
<1> QED BY <1>7, <1>8, <1>9, <1>10

LEMMA ReachKept ==
  ASSUME SReach, light'.models = light.models, edition' = edition, node'.maxL = node.maxL,
         node'.l = node.l, doubts \subseteq doubts' \union {"web", "belated"} \union ModeDoubts
  PROVE  SReach'
BY DEF SReach, Standalone, Weak

LEMMA CommandReach ==
  ASSUME LightTypeOK, AllFit, Standalone, SReach, NEW c \in Commands, light'.models = light.models,
         edition' = edition, Left(c) \union NewDoubts(c) \subseteq doubts',
         c.b # Absent => Changes(c) /\ HasBrightness(c),
         node'.maxL = node.maxL, node'.l = IF Changes(c) THEN AskedLightness(c) ELSE node.l
  PROVE  SReach'
<1>1. AskedLightness(c) = IF HasBrightness(c) THEN Clamped(node, c.b) ELSE node.l
  BY DEF AskedLightness, Companion, Standalone
<1>2. CASE c.b = Absent
  <2>1. node'.l = node.l
    BY <1>1, <1>2 DEF HasBrightness
  <2>2. doubts \subseteq doubts' \union {"web", "belated"} \union ModeDoubts
    BY <1>2 DEF Left
  <2> QED BY <2>1, <2>2, ReachKept
<1>3. CASE c.b # Absent
  <2>1. SUFFICES ASSUME Weak'
                 PROVE  ("hsl" \in light'.models => node'.maxL = LightMax) /\ node'.l <= LightMax
    BY DEF SReach
  <2>2. node.maxL = LightMax
    <3>1. "range" \notin NewDoubts(c)
      BY <2>1 DEF Weak, ModeDoubts
    <3> QED BY <1>3, <3>1 DEF NewDoubts
  <2>3. node'.l = Clamped(node, c.b)
    BY <1>1, <1>3
  <2>4. Clamped(node, c.b) <= node.maxL
    BY <1>3, AskedType
  <2> QED BY <2>2, <2>3, <2>4
<1> QED BY <1>2, <1>3

LEMMA InitReach ==
  ASSUME LightInit, LightTypeOK
  PROVE  SReach /\ SWant /\ CoverAsked
<1>1. want = Nothing
  BY DEF LightInit
<1>2. /\ "hsl" \in light.models => "scale" \in doubts
      /\ Standalone => node = NewNode(edition, light.models)
  <2>1. /\ doubts = (IF BothColours(light.models) THEN {"guess"} ELSE {}) \union
                       (IF "hsl" \in light.models THEN {"scale"} ELSE {})
        /\ Standalone => node = NewNode(edition, light.models) /\ offered = {} /\ shown = Nothing
    BY FirstRecord
  <2> QED BY <2>1
<1>3. Standalone => node.l = 0
  BY <1>2 DEF NewNode
<1>4. SReach
  <2>1. LightMax \in Nat
    BY ScalesAre DEF Numbers
  <2> QED BY <1>2, <1>3, <2>1 DEF SReach, Weak, ModeDoubts
<1> QED BY <1>1, <1>4 DEF SWant, CoverAsked

\* The record's brightness and range through what is not a command.
LEMMA ReachAside ==
  ASSUME LightTypeOK, AllFit, Shapes, SReach, Standalone, light'.models = light.models, edition' = edition,
         \/ ble_mesh_ctl_temperature_set \/ console_ctl_temperature_set \/ console_get \/ ByHand
         \/ Refresh \/ Answer \/ SendFront \/ Publish \/ StoreLate \/ Timeout \/ UNCHANGED lightvars
  PROVE  SReach'
<1>1. SUFFICES ASSUME node'.maxL = node.maxL, node'.l = node.l, doubts \subseteq doubts'
               PROVE  SReach'
  <2>1. node \in ANode
    BY DEF LightTypeOK
  <2>2. CASE SendFront
    <3>1. node' = SentMode(node, Head(queue).op) /\ doubts \subseteq doubts'
      BY <2>2 DEF SendFront
    <3> QED BY <1>1, <2>1, <3>1 DEF SentMode, ANode
  <2>3. CASE StoreLate
    <3>1. node' = StoredLate(node, late.op, late.got) /\ doubts \subseteq doubts'
      BY <2>3 DEF StoreLate
    <3> QED BY <1>1, <2>1, <3>1 DEF StoredLate, ANode
  <2>4. CASE Timeout
    <3>1. node' = node /\ doubts \subseteq doubts'
      BY <2>4 DEF Timeout
    <3> QED BY <1>1, <3>1
  <2>5. CASE ble_mesh_ctl_temperature_set \/ console_ctl_temperature_set
    <3>1. doubts \subseteq doubts' /\ (node' = node \/ node' = [node EXCEPT !.mode = "color_temp"])
      BY <2>5 DEF ble_mesh_ctl_temperature_set, console_ctl_temperature_set, Unacknowledged
    <3> QED BY <1>1, <2>1, <3>1 DEF ANode
  <2>6. CASE console_get \/ ByHand \/ Refresh \/ Answer \/ Publish \/ UNCHANGED lightvars
    <3>1. doubts' = doubts /\ node' = node
      BY <2>6 DEF console_get, ByHand, Refresh, Answer, Publish, lightvars
    <3> QED BY <1>1, <3>1
  <2> QED BY <2>2, <2>3, <2>4, <2>5, <2>6
<1> QED BY <1>1, ReachKept

\* Through a status.
LEMMA ReachHeard ==
  ASSUME LightTypeOK, AllFit, Shapes, SReach, Standalone, light'.models = light.models, edition' = edition,
         Overhear \/ Reply
  PROVE  SReach'
<1>1. CASE Overhear
  <2>1. heard # Nothing /\ node' = Stored(node, heard.op, heard.got) /\ doubts \subseteq doubts'
    BY <1>1 DEF Overhear
  <2>2. heard \in AnAnswer /\ ModelOf[heard.op] \in light.models
    BY <2>1 DEF LightTypeOK, AllFit, AnswersFit
  <2>3. heard.op \in DOMAIN ModelOf /\ heard.got \in ALight
    BY <2>2 DEF AnAnswer
  <2> DEFINE n == node'
  <2>4. n = Stored(node, heard.op, heard.got)
    BY <2>1
  <2> HIDE DEF n
  <2>5. ("hsl" \in light.models => node.maxL = LightMax) /\ node.l <= LightMax
        => ("hsl" \in light.models => n.maxL = LightMax) /\ n.l <= LightMax
    BY <2>2, <2>3, <2>4, StoredReach
  <2> QED BY <2>1, <2>5 DEF SReach, Weak, Standalone, n
<1>2. CASE Reply
  <2>1. /\ air \notin {Nothing, Lost} /\ doubts' = doubts
        /\ node' = node \/ node' = Stored(node, air.op, air.got)
    BY <1>2 DEF Reply, Standalone, Companion
  <2>2. air \in AnAnswer /\ air.op = Head(queue).op /\ queue # <<>>
    BY <2>1 DEF LightTypeOK, Shapes
  <2>3. air.op \in DOMAIN ModelOf /\ air.got \in ALight
    BY <2>2 DEF AnAnswer
  <2>4. ModelOf[air.op] \in light.models
    <3>1. 1 \in DOMAIN queue /\ queue[1].op = air.op
      BY <2>2 DEF LightTypeOK
    <3>2. air.op \notin Local
      BY <2>3, ModelOfIs DEF Local
    <3> QED BY <3>1, <3>2 DEF AllFit, QueueFits, Has
  <2> DEFINE n == node'
  <2>5. n = node \/ n = Stored(node, air.op, air.got)
    BY <2>1
  <2> HIDE DEF n
  <2>6. ("hsl" \in light.models => node.maxL = LightMax) /\ node.l <= LightMax
        => ("hsl" \in light.models => n.maxL = LightMax) /\ n.l <= LightMax
    BY <2>3, <2>4, <2>5, StoredReach
  <2> QED BY <2>1, <2>6 DEF SReach, Weak, Standalone, n
<1> QED BY <1>1, <1>2

LEMMA ReachStays ==
  ASSUME LightTypeOK, AllFit, Shapes, SReach, [LightNext]_lightvars
  PROVE  SReach'
<1>1. light'.models = light.models /\ edition' = edition
  BY ModelsStay
<1>2. SUFFICES ASSUME Standalone PROVE SReach'
  BY <1>1 DEF SReach, Standalone
<1>3. node \in ANode /\ node.features = light.models /\ light.models \in Lights
  BY <1>2 DEF LightTypeOK, AllFit, RecordFits, LightFits
<1>4. ASSUME NEW c \in Commands, LightCommand(c)
      PROVE  SReach'
  <2>1. /\ Left(c) \union NewDoubts(c) \subseteq doubts' /\ StandaloneCommand(c)
        /\ c.on \/ c.b = Absent
        /\ c.b # Absent => node.features \intersect LightModels # {}
    BY <1>2, <1>4 DEF LightCommand, Given
  <2>2. c.b # Absent => Changes(c) /\ HasBrightness(c)
    <3>1. c.b # Absent => "lightness" \in node.features
      BY <1>3, <2>1, LightHas
    <3> QED BY <1>2, <2>1, <3>1 DEF HasBrightness, Changes
  <2>3. node'.maxL = node.maxL /\ node'.l = IF Changes(c) THEN AskedLightness(c) ELSE node.l
    <3> DEFINE chg == Changes(c)
               a == AskedLightness(c)
               m == IF chg /\ ModeOf(node, c) = "color_temp" THEN ModeOf(node, c) ELSE node.mode
    <3>1. node' = [node EXCEPT !.on = c.on, !.l = IF chg THEN a ELSE node.l, !.mode = m]
      BY <1>3, <2>1 DEF StandaloneCommand, ANode
    <3> HIDE DEF chg, a, m
    <3>2. node'.maxL = node.maxL /\ node'.l = IF chg THEN a ELSE node.l
      BY <1>3, <3>1 DEF ANode
    <3> QED BY <3>2 DEF chg, a
  <2> QED BY <1>1, <1>2, <2>1, <2>2, <2>3, CommandReach
<1>5. ASSUME NEW c \in Commands, set_onoff_handler(c)
      PROVE  SReach'
  <2>1. /\ Left(c) \union NewDoubts(c) \subseteq doubts' /\ c.b = Absent /\ c.colour = "none"
        /\ node' = [node EXCEPT !.on = c.on]
    BY <1>5 DEF set_onoff_handler, ByPage
  <2>2. ~Changes(c)
    BY <2>1 DEF Changes, HasBrightness
  <2>3. node'.maxL = node.maxL /\ node'.l = node.l
    BY <1>3, <2>1 DEF ANode
  <2> QED BY <1>1, <1>2, <2>1, <2>2, <2>3, CommandReach
<1>6. ASSUME NEW c \in Commands, set_hsl_handler(c)
      PROVE  SReach'
  <2> DEFINE a == Clamped(node, c.b)
  <2>1. /\ Left(c) \union NewDoubts(c) \subseteq doubts' /\ "hsl" \in node.features /\ c.on
        /\ c.b # Absent /\ c.colour = "hs" /\ node' = [node EXCEPT !.l = a]
    BY <1>6 DEF set_hsl_handler, ByPage
  <2>2. HasBrightness(c) /\ Changes(c) /\ AskedLightness(c) = a
    <3>1. HasBrightness(c)
      BY <1>2, <2>1 DEF HasBrightness
    <3> QED BY <1>2, <2>1, <3>1 DEF Changes, AskedLightness, Companion, Standalone
  <2> HIDE DEF a
  <2>3. node'.maxL = node.maxL /\ node'.l = a
    BY <1>3, <2>1 DEF ANode
  <2> QED BY <1>1, <1>2, <2>1, <2>2, <2>3, CommandReach
<1>7. ASSUME NEW p \in 0 .. Percent, CoverCommand(p)
      PROVE  SReach'
  <2> DEFINE v == PositionToLevel(p)
  <2>1. node' = [node EXCEPT !.level = v] /\ doubts \subseteq doubts'
    BY <1>2, <1>7 DEF CoverCommand
  <2> HIDE DEF v
  <2>2. node'.maxL = node.maxL /\ node'.l = node.l
    BY <1>3, <2>1 DEF ANode
  <2> QED BY <1>1, <2>1, <2>2, ReachKept
<1>8. ASSUME NEW b \in Levels, SetLightness(b)
      PROVE  SReach'
  <2>1. node' = [node EXCEPT !.l = b] /\ doubts \subseteq doubts' /\ (b > LightMax => "raw" \in doubts')
    BY <1>2, <1>8 DEF SetLightness
  <2>2. node'.maxL = node.maxL /\ node'.l = b
    BY <1>3, <2>1 DEF ANode
  <2>3. b \in Nat /\ LightMax \in Nat
    BY LightAssumption, ScalesAre DEF Numbers
  <2> QED BY <1>1, <2>1, <2>2, <2>3 DEF SReach, Weak, ModeDoubts, Standalone
<1> QED BY <1>1, <1>2, <1>4, <1>5, <1>6, <1>7, <1>8, ReachAside, ReachHeard DEF LightNext

LEMMA StandaloneShows ==
  ASSUME LightTypeOK, LightTypeOK', Shapes, AllFit, SShows, SReach, [LightNext]_lightvars
  PROVE  SShows'
<1>1. ASSUME NEW c \in Commands, LightCommand(c) \/ set_onoff_handler(c) \/ set_hsl_handler(c)
      PROVE  SShows'
  BY <1>1, StandaloneCommands, StandaloneSwitches, StandaloneColours
<1>2. ASSUME NEW p \in 0 .. Percent, CoverCommand(p)
      PROVE  SShows'
  BY <1>2, StandaloneCovers
<1>3. ASSUME NEW b \in Levels, SetLightness(b)
      PROVE  SShows'
  BY <1>3, StandaloneSetsLightness
<1>4. CASE ble_mesh_ctl_temperature_set \/ console_ctl_temperature_set
  BY <1>4, StandaloneDoubts DEF ble_mesh_ctl_temperature_set, console_ctl_temperature_set
<1>5. CASE console_get \/ ByHand \/ Answer \/ UNCHANGED lightvars
  BY <1>5, StandaloneAside
<1>6. CASE Refresh
  BY <1>6, StandaloneRefreshes
<1>7. CASE Overhear
  BY <1>7, StandaloneOverhears
<1>8. CASE SendFront
  BY <1>8, StandaloneSends
<1>9. CASE Publish
  BY <1>9, StandalonePublishes
<1>10. CASE Reply
  BY <1>10, StandaloneReplies
<1>11. CASE StoreLate
  BY <1>11, StandaloneStoresLate
<1>12. CASE Timeout
  BY <1>12, StandaloneWaits
<1> QED BY <1>1, <1>2, <1>3, <1>4, <1>5, <1>6, <1>7, <1>8, <1>9, <1>10, <1>11, <1>12 DEF LightNext

LEMMA StandaloneTruth ==
  ASSUME LightTypeOK, AllFit, SShows, SWant, CoverAsked, Standalone
  PROVE  ShownIsTrue
<1>1. SUFFICES ASSUME Quiet, doubts = {}
               PROVE  ShownIsTrue
  BY DEF ShownIsTrue
<1>2. /\ SLight /\ SCover /\ SOn /\ STold /\ queue = <<>> /\ DOMAIN queue = {} /\ late = Nothing
  BY <1>1 DEF SShows, Sure, Quiet
<1>3. \A S : ~Pending(S)
  BY <1>2 DEF Pending
<1>4. /\ node \in ANode /\ node.l \in Nat /\ node.features = light.models /\ light.models \in Lights
      /\ light.l \in 0 .. LightMax /\ LightMax \in Nat
  BY ScalesAre DEF LightTypeOK, ANode, ALight, Numbers, AllFit, RecordFits, LightFits
<1>5. HasLight(node) /\ light.l > 0 => Near(node.l, Seen)
  BY <1>2, <1>3 DEF SLight
<1>6. ShownIsTrue
  <2>1. SUFFICES ASSUME shown # Nothing
                 PROVE  IF shown.mode = "cover"
                          THEN want # Nothing => shown.l \in {want.l - 1, want.l}
                          ELSE /\ shown.on <=> light.l > 0
                               /\ shown.on /\ shown.mode # "onoff" => shown.l - Seen \in -2 .. 2
    BY DEF ShownIsTrue, Seen, View
  <2>2. shown = StatusOf(node)
    BY <1>1, <1>2, <1>3, <2>1 DEF STold
  <2>3. /\ shown.mode = "cover" <=> IsCover(node.features)
        /\ IsCover(node.features) => shown.l = LevelToPosition(node.level)
        /\ ~IsCover(node.features) =>
             /\ shown.on = node.on
             /\ shown.mode # "onoff" => HasLight(node) /\ shown.l = node.l
    BY <1>4, <2>2, StatusIs
  <2>4. ASSUME IsCover(node.features), want # Nothing
        PROVE  shown.l \in {want.l - 1, want.l}
    <3>1. want.cover
      BY <1>4, <2>4 DEF SWant
    <3>2. node.level = PositionToLevel(want.l) /\ want.l \in 0 .. Percent
      BY <1>2, <2>4, <3>1 DEF SCover, CoverAsked
    <3> QED BY <2>3, <2>4, <3>2, CoverTrip
  <2>5. ASSUME ~IsCover(node.features)
        PROVE  /\ shown.on <=> light.l > 0
               /\ shown.on /\ shown.mode # "onoff" => shown.l - Seen \in -2 .. 2
    <3>1. "onoff" \in light.models
      BY <1>4, <2>5, LightHas
    <3>2. shown.on <=> light.l > 0
      BY <1>1, <1>2, <1>3, <2>3, <2>5, <3>1 DEF SOn
    <3>3. Seen \in Nat
      BY <1>4, ViewIs DEF Seen
    <3>4. ASSUME shown.on, shown.mode # "onoff"
          PROVE  shown.l - Seen \in -2 .. 2
      <4>1. shown.l = node.l /\ Near(node.l, Seen)
        BY <1>5, <2>3, <2>5, <3>2, <3>4
      <4> QED BY <1>4, <3>3, <4>1 DEF Near
    <3> QED BY <3>2, <3>4
  <2> QED BY <2>3, <2>4, <2>5
<1> QED BY <1>6

\* What Home Assistant is told, against the light: models and shapes of everything, the
\* record's way to the light and back in the Companion (CShows) and the Standalone (SShows)
\* edition, and what is asked for.
Showing == AllFit /\ CShows /\ SShows /\ SReach /\ SWant /\ CoverAsked

THEOREM ShowInvariant == LightSpec => []Showing
<1>1. LightInit => LightTypeOK /\ Showing
  <2>1. SUFFICES ASSUME LightInit PROVE LightTypeOK /\ Showing
    OBVIOUS
  <2>2. LightTypeOK
    BY <2>1, InitTypeCorrect
  <2>3. AllFit
    BY <2>1, <2>2, InitFits
  <2> QED BY <2>1, <2>2, <2>3, InitShows, InitSShows, InitReach DEF Showing
<1>2. LightTypeOK /\ LightTypeOK' /\ Shapes /\ Showing /\ [LightNext]_lightvars => Showing'
  <2>1. SUFFICES ASSUME LightTypeOK, LightTypeOK', Shapes, Showing, [LightNext]_lightvars
                 PROVE  Showing'
    OBVIOUS
  <2>2. AllFit /\ CShows /\ SShows /\ SReach /\ SWant /\ CoverAsked
    BY <2>1 DEF Showing
  <2>3. AllFit'
    BY <2>1, <2>2, StepFits
  <2>4. CShows'
    BY <2>1, <2>2, <2>3, CompanionShows
  <2>5. SShows'
    BY <2>1, <2>2, StandaloneShows
  <2>6. SReach' /\ SWant' /\ CoverAsked'
    BY <2>1, <2>2, ReachStays, WantStays, CoverAskedStays
  <2> QED BY <2>3, <2>4, <2>5, <2>6 DEF Showing
<1> QED BY <1>1, <1>2, LightInvariant, PTL DEF LightSpec

LEMMA Truth ==
  ASSUME LightTypeOK, OnItsWay, Showing
  PROVE  ShownIsTrue
<1>1. Standalone \/ Companion
  BY DEF LightTypeOK, Standalone, Companion
<1> QED BY <1>1, StandaloneTruth, CompanionTruth DEF Showing

\* When nothing is on its way and nothing happened that could come between, Home Assistant is
\* shown the light as it is, to two units of brightness and one of position.
THEOREM ShownAsItIs == LightSpec => []ShownIsTrue
<1>1. LightTypeOK /\ Shapes /\ OnItsWay /\ Showing => ShownIsTrue
  BY Truth
<1> QED BY <1>1, LightInvariant, ShowInvariant, PTL

=============================================================================
