---------------------------- MODULE LightControl ----------------------------
(***************************************************************************)
(* What a light's brightness, colour mode and cover position go through    *)
(* between Home Assistant, the bridge's record of the light and the light  *)
(* itself, in both editions.  The Standalone edition ("standalone") queues *)
(* what to do and reads its record when it sends (ble_mesh_commands.cpp);  *)
(* the Companion edition ("companion") queues the values themselves and    *)
(* changes its record by what it hears (upsert_external_node_...).         *)
(*                                                                         *)
(* The queue is one at a time, with retries: NodeMessageQueue and          *)
(* ExternalNodeQueue model how.  Hue, saturation and temperature go with   *)
(* the lightness of their message and are left out.                        *)
(***************************************************************************)
EXTENDS LightScales, Sequences, FiniteSets

CONSTANTS
  Lights,        \* the sets of models a light may have
  LightMax,      \* what it answers to a Lightness Range Get, and the least it can shine at:
  LightMin,      \* the bridge stores both and limits what it asks for by the first alone
  Levels,        \* brightness somebody may ask for
  Lit,           \* lightness it may have when the bridge first meets it
  Retries,       \* retries_left of a message
  MaxCommands,   \* bound: commands given
  MaxProbes,     \* bound: refreshes asked for and statuses overheard
  MaxLosses      \* bound: messages or answers lost

Models == {"onoff", "level", "lightness", "hsl", "ctl"}
LightModels == {"lightness", "hsl", "ctl"}
Modes == {"brightness", "hs", "color_temp"}
Absent == -1

ASSUME LightAssumption ==
  /\ Lights \subseteq SUBSET Models /\ LightMax \in 1 .. FullScale /\ LightMin \in 1 .. LightMax
  /\ Levels \subseteq 1 .. FullScale /\ Lit \subseteq {0} \union (LightMin .. LightMax)
  /\ Retries \in Nat \ {0} /\ {MaxCommands, MaxProbes, MaxLosses} \subseteq Nat

\* Both colour models extend Light Lightness, and that Generic OnOff.
ASSUME LightsAssumption ==
  \A f \in Lights : f # {} /\ (f \intersect LightModels # {} => {"onoff", "lightness"} \subseteq f)

VARIABLES
  edition,
  light,     \* the light: its models, lightness, the lightness it had when last lit,
             \* the colour model it was last set by, its level
  node,      \* bm2mqtt_node_info or external_mesh_node_t
  queue,     \* messages to the light and, Standalone, publications between them
  waiting,   \* the front was sent
  air,       \* the answer on its way to it
  late,      \* Standalone: a status that is stored once the queue has moved on
  heard,     \* Companion: a status in answer to a group Get, on its way
  offered,   \* colour modes Home Assistant was told of
  shown,     \* state Home Assistant was last told
  want,      \* history: what was last asked for
  doubts,    \* history: what happened since that the properties name
  spent      \* bounds

lightvars == <<edition, light, node, queue, waiting, air, late, heard, offered, shown,
          want, doubts, spent>>

Standalone == edition = "standalone"
Companion == edition = "companion"

Nothing == [op |-> "nothing"]
Lost == [op |-> "lost"]
NoArgs == [on |-> FALSE, l |-> 0, level |-> 0]
Local == {"status", "announce"}
Item(op, a) == [op |-> op, args |-> a, left |-> IF op \in Local THEN 0 ELSE Retries]
Items(ops) == [i \in DOMAIN ops |-> Item(ops[i], NoArgs)]

ModelOf == [onoffSet |-> "onoff", onoffGet |-> "onoff", levelSet |-> "level",
            lightSet |-> "lightness", lightGet |-> "lightness", lightRange |-> "lightness",
            hslSet |-> "hsl", hslGet |-> "hsl", hslRange |-> "hsl",
            ctlSet |-> "ctl", tempGet |-> "ctl", tempRange |-> "ctl"]
Sets == {"onoffSet", "levelSet", "lightSet", "hslSet", "ctlSet"}
SetFor == [brightness |-> "lightSet", hs |-> "hslSet", color_temp |-> "ctlSet"]
Pending(ops) == \E i \in DOMAIN queue : queue[i].op \in ops

IsCover(f) == "level" \in f /\ f \intersect LightModels = {}
BothColours(f) == {"hsl", "ctl"} \subseteq f
If(c, s) == IF c THEN s ELSE <<>>

(***************************************************************************)
(* The bridge's record                                                     *)
(***************************************************************************)

\* ble_mesh_on_composition_received: the last model it looks for wins.
CompositionMode(f) ==
  IF "ctl" \in f THEN "color_temp" ELSE IF "hsl" \in f THEN "hs" ELSE "brightness"

\* Mutant: the Lightness status is taken as it comes.
AsItComes(n, lightness) == lightness

\* lightness_actual_to_brightness
ToBrightness(n, lightness) ==
  IF n.mode = "hs" THEN Brightness(lightness, n.maxL) ELSE lightness

\* ble_mesh_light_client_cb for a provisioned node.  Answers to Sets store nothing.
Stored(n, op, got) ==
  CASE op = "hslGet"     -> [n EXCEPT !.l = Brightness(got.l, n.maxL)]
    [] op = "lightGet"   -> [n EXCEPT !.l = ToBrightness(n, got.l)]
    [] op = "lightRange" -> [n EXCEPT !.maxL = LightMax]
    [] OTHER -> n

\* ble_mesh_generic_client_cb for a provisioned node: what it stores, late.
StoredLate(n, op, got) ==
  IF ModelOf[op] = "onoff" THEN [n EXCEPT !.on = got.l > 0] ELSE [n EXCEPT !.level = got.level]

\* set_external_node_brightness_locked
Brightened(n, b) == [n EXCEPT !.l = b, !.on = b > 0, !.last = IF b > 0 THEN b ELSE @]

\* update_external_color_mode_locked
Moded(n, mode, fromSet) ==
  IF fromSet \/ ~BothColours(n.features) THEN [n EXCEPT !.mode = mode] ELSE n

WithModel(n, m) ==
  [n EXCEPT !.known = TRUE,
            !.features = (@ \union {m}) \ (IF m \in LightModels THEN {"level"} ELSE {})]

UpsertOnOff(n, got) ==
  LET n1 == WithModel(n, "onoff")
  IN [n1 EXCEPT !.on = got.l > 0,
                !.l = IF got.l > 0 /\ @ = 0 /\ n.last > 0 THEN n.last ELSE @]

\* Lightness, HSL and CTL extend Generic Level: their level is not a cover's.
UpsertLevel(n, got) ==
  IF n.features \intersect LightModels # {} THEN [n EXCEPT !.known = TRUE]
  ELSE [WithModel(n, "level") EXCEPT !.level = got.level]

UpsertLightness(n, got) == LET n1 == WithModel(n, "lightness")
                           IN Brightened(n1, ToBrightness(n1, got.l))
UpsertHsl(n, got, fromSet) == LET n1 == Moded(WithModel(n, "hsl"), "hs", fromSet)
                              IN Brightened(n1, ToBrightness(n1, got.l))
UpsertCtl(n, got, fromSet) == LET n1 == Moded(WithModel(n, "ctl"), "color_temp", fromSet)
                              IN Brightened(n1, ToBrightness(n1, got.l))
UpsertLightnessRange(n) == IF n.known THEN [n EXCEPT !.maxL = LightMax] ELSE n

\* Which of them a status goes to, for a node the bridge has not provisioned.
UpsertByModel(n, got, fromSet) ==
  [onoff |-> UpsertOnOff(n, got), level |-> UpsertLevel(n, got),
   lightness |-> UpsertLightness(n, got), hsl |-> UpsertHsl(n, got, fromSet),
   ctl |-> UpsertCtl(n, got, fromSet)]
Upserted(n, op, got, fromSet) ==
  IF op \in {"hslRange", "tempRange"} THEN n
  ELSE IF op = "lightRange" THEN UpsertLightnessRange(n)
  ELSE UpsertByModel(n, got, fromSet)[ModelOf[op]]

\* make_status_message and make_external_status_message
StatusOf(n) ==
  IF IsCover(n.features)
    THEN [on |-> LevelToPosition(n.level) > 0, mode |-> "cover", l |-> LevelToPosition(n.level)]
  ELSE IF n.features \intersect LightModels = {} \/
          (Companion /\ n.mode = "brightness" /\ "lightness" \notin n.features)
    THEN [on |-> n.on, mode |-> "onoff", l |-> 0]
  ELSE [on |-> n.on, mode |-> n.mode, l |-> n.l]

\* The colour modes of make_node_discovery_message and make_external_discovery_message.
SupportedModes(f) ==
  LET colours == (IF "ctl" \in f THEN {"color_temp"} ELSE {}) \union
                 (IF "hsl" \in f THEN {"hs"} ELSE {})
  IN IF IsCover(f) THEN {"cover"}
     ELSE IF colours # {} THEN colours
     ELSE IF "lightness" \in f THEN {"brightness"} ELSE {"onoff"}

(***************************************************************************)
(* Messages.  A Standalone message is made of the record when it is sent,  *)
(* by the lambdas of ble_mesh_commands.cpp; a Companion one of what was    *)
(* asked for when it was.                                                  *)
(***************************************************************************)
ble_mesh_gen_onoff_set(n) == [NoArgs EXCEPT !.on = n.on]
ble_mesh_gen_level_set(n) == [NoArgs EXCEPT !.level = n.level]
ble_mesh_lightness_set(n) == [NoArgs EXCEPT !.l = n.l]
ble_mesh_light_hsl_set(n) == [NoArgs EXCEPT !.l = HslLightness(n.l, n.maxL)]
ble_mesh_ctl_set(n) == [NoArgs EXCEPT !.l = n.l]

MadeOf(n, op) ==
  CASE op = "onoffSet" -> ble_mesh_gen_onoff_set(n)
    [] op = "levelSet" -> ble_mesh_gen_level_set(n)
    [] op = "lightSet" -> ble_mesh_lightness_set(n)
    [] op = "hslSet"   -> ble_mesh_light_hsl_set(n)
    [] op = "ctlSet"   -> ble_mesh_ctl_set(n)
    [] OTHER -> NoArgs

external_command(on) == Item("onoffSet", [NoArgs EXCEPT !.on = on])
external_level_command(level) == Item("levelSet", [NoArgs EXCEPT !.level = level])
external_lightness_command(l) == Item("lightSet", [NoArgs EXCEPT !.l = l])
external_hsl_command(n, l) == Item("hslSet", [NoArgs EXCEPT !.l = HslLightness(l, n.maxL)])
external_ctl_command(l) == Item("ctlSet", [NoArgs EXCEPT !.l = l])

ExternalSet(n, mode, l) ==
  CASE mode = "color_temp" -> external_ctl_command(l)
    [] mode = "hs"         -> external_hsl_command(n, l)
    [] mode = "brightness" -> external_lightness_command(l)

\* ble_mesh_refresh_node: the Gets, then the publication.
RefreshOps(f) ==
  If("onoff" \in f, <<"onoffGet">>) \o
  If("hsl" \in f, <<"hslGet", "hslRange">>) \o
  If("lightness" \in f, <<"lightGet", "lightRange">>) \o
  If("ctl" \in f, <<"tempRange", "tempGet">>) \o <<"status">>

-----------------------------------------------------------------------------
NewNode(e, f) ==
  [known |-> e = "standalone", features |-> IF e = "standalone" THEN f ELSE {},
   mode |-> IF e = "standalone" THEN CompositionMode(f) ELSE "brightness",
   on |-> FALSE, l |-> 0, last |-> 0, maxL |-> FullScale, level |-> 0]

\* What the Companion knows once a discovery and the range Gets behind it were answered.
Discovered(n, got) ==
  LET Hear(k, m, op) == IF m \in got.models THEN Upserted(k, op, got, FALSE) ELSE k
      n1 == Hear(Hear(n, "onoff", "onoffGet"), "level", "levelSet")
      n2 == Hear(Hear(Hear(n1, "lightness", "lightGet"), "hsl", "hslGet"), "ctl", "tempGet")
  IN Hear(n2, "lightness", "lightRange")

\* A light somebody may have used before, just bound (Standalone), and never heard or just
\* discovered (Companion).
LightInit ==
  /\ edition \in {"standalone", "companion"}
  /\ \E f \in Lights, l \in Lit :
       \E by \in (IF BothColours(f) THEN {"hs", "color_temp"} ELSE {CompositionMode(f)}) :
         /\ light = [models |-> f, l |-> l, was |-> IF l > 0 THEN l ELSE LightMax,
                     by |-> by, level |-> LevelMin]
         /\ \/ node = NewNode(edition, f) /\ offered = {} /\ shown = Nothing
            \/ /\ Companion /\ node = Discovered(NewNode(edition, f), light)
               /\ offered = SupportedModes(node.features) /\ shown = StatusOf(node)
         /\ doubts = (IF BothColours(f) THEN {"guess"} ELSE {}) \union
                       (IF "hsl" \in f THEN {"scale"} ELSE {})
         /\ queue = IF Standalone
                      THEN Items(RefreshOps(f) \o <<"announce", "status">>) ELSE <<>>
  /\ waiting = FALSE /\ air = Nothing /\ late = Nothing /\ heard = Nothing
  /\ want = Nothing
  /\ spent = [commands |-> 0, probes |-> 0, losses |-> 0]

Spend(what, max) == spent[what] < max /\ spent' = [spent EXCEPT ![what] = @ + 1]
Quiet == queue = <<>> /\ ~waiting /\ late = Nothing /\ heard = Nothing

ModeDoubts == {"guess", "overtaken"}
\* Doubts a new command leaves: a colour settles the mode, a brightness the lightness.
Left(c) ==
  IF ~Quiet THEN doubts
  ELSE doubts \ ((IF c.colour # "none" THEN ModeDoubts ELSE {}) \union
                 (IF c.b # Absent
                    THEN {"stale", "overwritten", "unseen", "unlit", "dark", "range", "scale",
                          "learning", "raw", "raised"} ELSE {}) \union
                 (IF c.b # Absent /\ c.colour # "none" THEN {"lost"} ELSE {}) \union
                 {"web", "belated"})
\* A status still to be stored over what a command puts into the Standalone record.
Overwriting ==
  /\ Standalone
  /\ late # Nothing \/ Pending({"onoffSet", "onoffGet", "levelSet", "lightGet", "hslGet"})

(***************************************************************************)
(* Commands.  c.on: the state asked for; c.b: a brightness, or Absent;     *)
(* c.colour: the colour mode of the colour or temperature asked for.       *)
(***************************************************************************)
Clamped(n, b) == LeastOf(n.maxL, b)
ModeOf(n, c) == IF c.colour = "none" THEN n.mode ELSE c.colour
HasBrightness(c) ==
  /\ c.b # Absent
  /\ node.features \intersect (IF Standalone THEN {"lightness", "hsl"} ELSE LightModels) # {}
Changes(c) == c.on /\ (HasBrightness(c) \/ c.colour # "none")

\* Mutant: the colour goes out with whatever brightness is remembered.
AskedLightnessAsIs(c) == IF HasBrightness(c) THEN Clamped(node, c.b) ELSE node.l

\* external_node_apply_ha_command: a colour picked on an off light must not switch it off.
AskedLightness(c) ==
  LET l == IF HasBrightness(c) THEN Clamped(node, c.b) ELSE node.l
  IN IF Companion /\ l = 0 /\ ModeOf(node, c) # "brightness" /\ c.b = Absent
       THEN (IF node.last > 0 THEN node.last ELSE node.maxL) ELSE l

Rendered(mode, l) == IF mode = "hs" THEN HslLightness(l, node.maxL) ELSE l

Wanted(c) ==
  [on |-> c.on, cover |-> FALSE,
   l |-> IF HasBrightness(c) /\ c.on THEN Rendered(ModeOf(node, c), Clamped(node, c.b)) ELSE Absent]

\* The brightness there is to keep when only a colour is asked for.
Kept ==
  IF Standalone \/ node.l > 0 THEN node.l ELSE IF node.last > 0 THEN node.last ELSE node.maxL

\* The models that decide what Home Assistant is shown.
ModelsShown == light.models \intersect (IF IsCover(light.models) THEN {"level"} ELSE LightModels)

NewDoubts(c) ==
  (IF node.maxL # LightMax /\ Changes(c) THEN {"range"} ELSE {}) \union
  (IF Overwriting THEN {"overwritten"} ELSE {}) \union
  (IF Standalone /\ Changes(c) /\ ModeOf(node, c) = "color_temp" /\ Pending({"hslSet"})
     THEN {"overtaken"} ELSE {}) \union
  (IF c.on /\ c.b = Absent /\ (IF Standalone THEN node.l < 3 ELSE node.last = 0) /\
       light.models \intersect LightModels # {} THEN {"unseen"} ELSE {}) \union
  (IF Changes(c) /\ ~HasBrightness(c) /\ Rendered(ModeOf(node, c), Kept) = 0
     THEN {"unlit"} ELSE {}) \union
  (IF Wanted(c).l = 0 THEN {"dark"} ELSE {}) \union
  (IF Companion /\ ~ ModelsShown \subseteq node.features THEN {"learning"} ELSE {})

Given(c) ==
  /\ Spend("commands", MaxCommands)
  /\ want' = Wanted(c)
  /\ doubts' = Left(c) \union NewDoubts(c)
  /\ UNCHANGED <<edition, light, waiting, air, late, heard, offered, shown>>

\* mqtt_parse_event_data for a provisioned light.
StandaloneCommand(c) ==
  LET mode == ModeOf(node, c)
  IN /\ node' = [node EXCEPT !.on = c.on, !.l = IF Changes(c) THEN AskedLightness(c) ELSE @,
                             !.mode = IF Changes(c) /\ mode = "color_temp" THEN mode ELSE @]
     /\ queue' = queue \o Items(<<"onoffSet">> \o If(Changes(c), <<SetFor[mode]>>) \o <<"status">>)

\* external_node_apply_ha_command.  A slider of the page sends no state.
CompanionCommand(c) ==
  /\ \E state \in IF Changes(c) THEN {<<>>, <<external_command(c.on)>>}
                                ELSE {<<external_command(c.on)>>} :
       queue' = queue \o state \o
                If(Changes(c), <<ExternalSet(node, ModeOf(node, c), AskedLightness(c))>>)
  /\ UNCHANGED node

LightCommand(c) ==
  /\ offered # {} /\ ~IsCover(node.features)
  /\ c.colour = "none" \/ c.colour \in offered
  /\ c.on \/ (c.b = Absent /\ c.colour = "none")
  /\ c.b # Absent => node.features \intersect LightModels # {}
  /\ Given(c)
  /\ IF Standalone THEN StandaloneCommand(c) ELSE CompanionCommand(c)

\* A position, or OPEN and CLOSE, which are the ends of the range.
CoverCommand(p) ==
  /\ offered = {"cover"} /\ Spend("commands", MaxCommands)
  /\ want' = [on |-> TRUE, cover |-> TRUE, l |-> p]
  /\ doubts' = doubts \union (IF Overwriting THEN {"overwritten"} ELSE {})
  /\ IF Standalone
       THEN /\ node' = [node EXCEPT !.level = PositionToLevel(p)]
            /\ queue' = queue \o Items(<<"levelSet", "status">>)
       ELSE queue' = Append(queue, external_level_command(PositionToLevel(p))) /\ UNCHANGED node
  /\ UNCHANGED <<edition, light, waiting, air, late, heard, offered, shown>>

(***************************************************************************)
(* The web page and the console.  The page shows controls for the models a *)
(* node has.  Nothing is published for the Standalone ones.                *)
(***************************************************************************)
ByPage(c) ==
  /\ Spend("commands", MaxCommands)
  /\ want' = Wanted(c) /\ doubts' = Left(c) \union NewDoubts(c) \union {"web"}
  /\ UNCHANGED <<edition, light, waiting, air, late, heard, offered, shown>>

set_onoff_handler(c) ==
  /\ Standalone /\ ~IsCover(node.features) /\ c.b = Absent /\ c.colour = "none" /\ ByPage(c)
  /\ node' = [node EXCEPT !.on = c.on]
  /\ queue' = Append(queue, Item("onoffSet", NoArgs))

set_hsl_handler(c) ==
  /\ Standalone /\ "hsl" \in node.features /\ c.on /\ c.b # Absent /\ c.colour = "hs" /\ ByPage(c)
  /\ node' = [node EXCEPT !.l = Clamped(node, c.b)]
  /\ queue' = Append(queue, Item("hslSet", NoArgs))

\* set_lightness_handler and the console: not limited to the light's range, and a Lightness
\* Set in whatever mode.  The Companion's test command does the same past its record.
SetLightness(b) ==
  /\ "lightness" \in node.features /\ Spend("commands", MaxCommands)
  /\ want' = [on |-> TRUE, cover |-> FALSE, l |-> LeastOf(b, LightMax)]
  /\ doubts' = doubts \union {"web"} \union (IF Overwriting THEN {"overwritten"} ELSE {})
               \union (IF Standalone /\ (node.mode = "hs" \/ Pending({"hslSet"}) \/ b > LightMax)
                         THEN {"raw"} ELSE {})
  /\ IF Standalone THEN /\ node' = [node EXCEPT !.l = b]
                        /\ queue' = Append(queue, Item("lightSet", NoArgs))
     ELSE queue' = Append(queue, external_lightness_command(b)) /\ UNCHANGED node
  /\ UNCHANGED <<edition, light, waiting, air, late, heard, offered, shown>>

\* A CTL Temperature Set is sent at once, past the queue, and not acknowledged.
Unacknowledged ==
  /\ Standalone /\ "ctl" \in node.features /\ Spend("commands", MaxCommands)
  /\ \/ light' = [light EXCEPT !.by = "color_temp"] /\ doubts' = doubts \union {"web", "overtaken"}
     \/ light' = light /\ doubts' = doubts \union {"web", "lost"}
  /\ UNCHANGED <<edition, queue, waiting, air, late, heard, offered, shown, want>>

ble_mesh_ctl_temperature_set ==
  Unacknowledged /\ node' = [node EXCEPT !.mode = "color_temp"]

\* The console sends one without a word to the record.
console_ctl_temperature_set == Unacknowledged /\ UNCHANGED node

\* The console's Gets go past the queue too; their answers come whenever they do.
console_get ==
  /\ Standalone /\ heard = Nothing /\ Spend("probes", MaxProbes)
  /\ \E op \in {"hslRange", "lightRange", "tempGet", "tempRange"} :
       /\ ModelOf[op] \in light.models /\ ~Pending({op})
       /\ heard' = [op |-> op, got |-> light]
  /\ UNCHANGED <<edition, light, node, queue, waiting, air, late, offered, shown, want,
                 doubts>>

\* mqtt_send_status, send_discovery and delete_entity, from the console or the page.
ByHand ==
  /\ Standalone /\ Spend("probes", MaxProbes)
  /\ \/ shown' = StatusOf(node) /\ UNCHANGED offered
     \/ offered' \in {SupportedModes(node.features), {}} /\ UNCHANGED shown
  /\ UNCHANGED <<edition, light, node, queue, waiting, air, late, heard, want, doubts>>

Refresh ==
  /\ Standalone /\ Spend("probes", MaxProbes)
  /\ queue' = queue \o Items(RefreshOps(node.features))
  /\ UNCHANGED <<edition, light, node, waiting, air, late, heard, offered, shown, want,
                 doubts>>

(***************************************************************************)
(* The light.  Off is lightness 0 (Generic OnOff is bound to it), and any  *)
(* other lightness is brought into its range.                              *)
(***************************************************************************)
Raised(l) == IF l = 0 THEN 0 ELSE GreatestOf(l, LightMin)

Shine(l) == LET to == Raised(LeastOf(l, LightMax))
            IN [light EXCEPT !.l = to, !.was = IF l > 0 THEN to ELSE @]
Effect(op, a) ==
  CASE op = "onoffSet" -> [light EXCEPT !.l = IF ~a.on THEN 0 ELSE IF @ = 0 THEN light.was ELSE @]
    [] op = "lightSet" -> Shine(a.l)
    [] op = "hslSet" -> [Shine(a.l) EXCEPT !.by = "hs"]
    [] op = "ctlSet" -> [Shine(a.l) EXCEPT !.by = "color_temp"]
    [] op = "levelSet" -> [light EXCEPT !.level = a.level]
    [] OTHER -> light

(***************************************************************************)
(* The queue                                                               *)
(***************************************************************************)
\* A Standalone record keeps what was asked for, when the light shines at its least instead.
Raises(op, a) ==
  Standalone /\ op \in {"lightSet", "hslSet", "ctlSet"} /\ a.l # 0 /\ a.l < LightMin

SentMode(n, op) == IF Standalone /\ op = "hslSet" THEN [n EXCEPT !.mode = "hs"] ELSE n

SendFront ==
  /\ ~waiting /\ queue # <<>> /\ Head(queue).op \notin Local
  /\ LET i == Head(queue)
         args == IF Standalone THEN MadeOf(node, i.op) ELSE i.args
         after == Effect(i.op, args)
     IN /\ node' = SentMode(node, i.op)
        /\ doubts' = doubts \union (IF Raises(i.op, args) THEN {"raised"} ELSE {})
        /\ \/ light' = after /\ air' = [op |-> i.op, got |-> after] /\ UNCHANGED spent
           \/ /\ light' \in {light, after} /\ air' = Lost /\ Spend("losses", MaxLosses)
  /\ waiting' = TRUE
  /\ UNCHANGED <<edition, queue, late, heard, offered, shown, want>>

Publish ==
  /\ ~waiting /\ queue # <<>> /\ Head(queue).op \in Local
  /\ queue' = Tail(queue)
  /\ IF Head(queue).op = "status" THEN shown' = StatusOf(node) /\ UNCHANGED offered
                                  ELSE offered' = SupportedModes(node.features) /\ UNCHANGED shown
  /\ UNCHANGED <<edition, light, node, waiting, air, late, heard, want, doubts, spent>>

\* What a status the Companion takes note of leads to: ranges are asked for, and Home
\* Assistant is told of the node and its state.
RangeOf == [lightness |-> "lightRange", hsl |-> "hslRange", ctl |-> "tempRange"]
Told(n, q, m) ==
  /\ node' = n
  /\ queue' = IF m \in LightModels /\ m \notin node.features
                THEN Append(q, Item(RangeOf[m], NoArgs)) ELSE q
  /\ offered' = SupportedModes(n.features)
  /\ shown' = StatusOf(n)

Reply ==
  /\ waiting /\ air \notin {Nothing, Lost} /\ late = Nothing
  /\ waiting' = FALSE /\ air' = Nothing
  /\ IF Companion
       THEN /\ Told(Upserted(node, air.op, air.got, air.op \in Sets), Tail(queue), ModelOf[air.op])
            /\ UNCHANGED late
       ELSE /\ queue' = Tail(queue)
            /\ IF ModelOf[air.op] \in {"onoff", "level"}
                 THEN late' = air /\ UNCHANGED node
                 ELSE node' = Stored(node, air.op, air.got) /\ UNCHANGED late
            /\ UNCHANGED <<offered, shown>>
  /\ UNCHANGED <<edition, light, heard, want, doubts, spent>>

\* The Standalone generic callback moves the queue on before it stores what it got.
StoreLate ==
  /\ late # Nothing /\ (queue = <<>> \/ waiting)
  /\ node' = StoredLate(node, late.op, late.got)
  /\ late' = Nothing
  /\ doubts' = doubts \union (IF node' # node /\ ~Pending({"status"}) THEN {"belated"} ELSE {})
  /\ UNCHANGED <<edition, light, queue, waiting, air, heard, offered, shown, want, spent>>

\* A timed out OnOff Set has an empty status stored, by the Standalone edition.
Timeout ==
  /\ waiting /\ air = Lost /\ late = Nothing
  /\ waiting' = FALSE /\ air' = Nothing
  /\ LET i == Head(queue)
     IN /\ queue' = IF i.left > 1 THEN <<[i EXCEPT !.left = @ - 1]>> \o Tail(queue) ELSE Tail(queue)
        /\ doubts' = IF i.left > 1 /\ (Companion \/ i.op # "onoffSet") THEN doubts
                     ELSE doubts \union {"lost"}
        /\ late' = IF Standalone /\ i.op = "onoffSet"
                     THEN [op |-> i.op, got |-> [light EXCEPT !.l = 0]] ELSE Nothing
  /\ UNCHANGED <<edition, light, node, heard, offered, shown, want, spent>>

(***************************************************************************)
(* ble_mesh_discover_external_nodes asks a group, and every model answers  *)
(* for itself, in any order, or is not heard.                              *)
(***************************************************************************)
StatusFrom == [onoff |-> "onoffGet", level |-> "levelSet", lightness |-> "lightGet",
               hsl |-> "hslGet", ctl |-> "tempGet"]

Answer ==
  /\ Companion /\ heard = Nothing /\ Spend("probes", MaxProbes)
  /\ \E m \in light.models : heard' = [op |-> StatusFrom[m], got |-> light]
  /\ UNCHANGED <<edition, light, node, queue, waiting, air, late, offered, shown, want,
                 doubts>>

Overhear ==
  /\ heard # Nothing /\ heard' = Nothing
  /\ IF Standalone
       THEN node' = Stored(node, heard.op, heard.got) /\ UNCHANGED <<queue, offered, shown>>
     ELSE Told(Upserted(node, heard.op, heard.got, FALSE), queue, ModelOf[heard.op])
  /\ doubts' = IF heard.got = light /\ ~waiting THEN doubts ELSE doubts \union {"stale"}
  /\ UNCHANGED <<edition, light, waiting, air, late, want, spent>>

Commands == [on : BOOLEAN, b : Levels \union {Absent}, colour : {"none", "hs", "color_temp"}]

LightNext ==
  \/ \E c \in Commands : LightCommand(c) \/ set_onoff_handler(c) \/ set_hsl_handler(c)
  \/ \E p \in 0 .. Percent : CoverCommand(p)
  \/ \E b \in Levels : SetLightness(b)
  \/ ble_mesh_ctl_temperature_set \/ console_ctl_temperature_set \/ console_get \/ ByHand
  \/ Refresh \/ Answer \/ Overhear
  \/ SendFront \/ Publish \/ Reply \/ StoreLate \/ Timeout

LightSpec == LightInit /\ [][LightNext]_lightvars

(***************************************************************************)
(* Properties                                                              *)
(***************************************************************************)
\* Numbers stay in their C types and the rest in its shape.
Numbers == 0 .. FullScale
LevelNumbers == LevelMin .. LevelMax
ALight == [models : SUBSET Models, l : 0 .. LightMax, was : 1 .. LightMax, by : Modes,
           level : LevelNumbers]
ANode == [known : BOOLEAN, features : SUBSET Models, mode : Modes, on : BOOLEAN, l : Numbers,
          last : Numbers, maxL : Numbers, level : LevelNumbers]
AnItem == [op : DOMAIN ModelOf \union Local, left : 0 .. Retries,
           args : [on : BOOLEAN, l : Numbers, level : LevelNumbers]]
AnAnswer == [op : DOMAIN ModelOf, got : ALight]

LightTypeOK ==
  /\ edition \in {"standalone", "companion"} /\ waiting \in BOOLEAN
  /\ light \in ALight /\ node \in ANode /\ queue \in Seq(AnItem)
  /\ air \in AnAnswer \union {Nothing, Lost} /\ {late, heard} \subseteq AnAnswer \union {Nothing}
  /\ offered \subseteq Modes \union {"cover", "onoff"}
  /\ want = Nothing \/ want \in [on : BOOLEAN, cover : BOOLEAN, l : Numbers \union {Absent}]

\* When everything has settled the light is as it was last asked to be: off, at the
\* brightness asked for (at its least, if that is more), or at least lit - unless a message
\* was lost, the light's range was not known yet, a Standalone record was overwritten while
\* the command was queued, or the brightness to keep was too low for a colour.
Trusted == doubts \intersect {"lost", "range", "overwritten", "unlit"} = {}
Arrived ==
  IF want.cover THEN light.level = PositionToLevel(want.l)
  ELSE IF want.l # Absent THEN light.l = Raised(want.l)
  ELSE want.on <=> light.l > 0

CommandArrives == Quiet /\ want # Nothing /\ Trusted => Arrived

\* What Home Assistant is shown is how the light is, to the two units a conversion may
\* lose - unless one of the doubts above, the web page changed something (it publishes
\* nothing), a status came late, or the Standalone edition asked for less than the light's
\* least.
ShownIsTrue ==
  /\ Quiet /\ shown # Nothing /\ doubts = {}
  /\ light.by = "hs" => "hsl" \in node.features
  => IF shown.mode = "cover"
       THEN want # Nothing => shown.l \in {want.l - 1, want.l}
       ELSE /\ shown.on <=> light.l > 0
            /\ shown.on /\ shown.mode # "onoff" =>
                 shown.l - (IF light.by = "hs" THEN Brightness(light.l, LightMax) ELSE light.l)
                   \in -2 .. 2

=============================================================================
