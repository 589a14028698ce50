------------------------- MODULE MeshIdentityProofs -------------------------
(***************************************************************************)
(* Theorems about MeshIdentity: whatever is cut off, lost or overtaken,    *)
(* once the tasks are at rest the key the bridge sends with, the groups it *)
(* hears and the identity it keeps agree with the stack's, where nothing   *)
(* the bridge could not note came between.                                 *)
(***************************************************************************)
EXTENDS MeshIdentity, SequenceTheorems, TLAPS

Modes == {"existing", "standalone"}
Addresses == Groups \cup {NoGroup}
Lists == [1 .. MaxGroups -> Addresses]
Configs == [mode : {Missing} \cup Modes, list : Lists, count : {Missing} \cup 0 .. MaxGroups,
            legacy : Addresses, addr : {0} \cup {id.addr : id \in Identities},
            net : {0} \cup {id.net : id \in Identities}, app : Keys \cup {Unused}]

(***************************************************************************)
(* What is loaded, and what a save leaves in flash.                        *)
(***************************************************************************)
LEMMA ModeKind == Mode(sku) \in Modes
  BY DEF Mode, Modes

LEMMA Loads ==
  ASSUME cfg \in Configs
  PROVE  /\ Load \in Configs /\ Load.count \in 0 .. MaxGroups /\ Load.count # Missing
         /\ Load.mode = IF cfg.mode = Missing THEN Mode(sku) ELSE cfg.mode
         /\ Load.legacy = cfg.legacy /\ Load.addr = cfg.addr /\ Load.net = cfg.net
         /\ Load.app = cfg.app
         /\ cfg.count # Missing => Load.count = cfg.count /\ Load.list = cfg.list
         /\ cfg.count = Missing =>
              /\ Load.count = IF cfg.legacy # NoGroup THEN 1 ELSE 0
              /\ Load.list = [NoList EXCEPT ![1] = cfg.legacy]
<1> DEFINE mode == IF cfg.mode = Missing THEN Mode(sku) ELSE cfg.mode
           count == IF cfg.count # Missing THEN cfg.count ELSE IF cfg.legacy # NoGroup THEN 1 ELSE 0
           list == IF cfg.count # Missing THEN cfg.list ELSE [NoList EXCEPT ![1] = cfg.legacy]
<1>1. Load = [mode |-> mode, list |-> list, count |-> count, legacy |-> cfg.legacy,
              addr |-> cfg.addr, net |-> cfg.net, app |-> cfg.app]
  <2>1. Load = [[[cfg EXCEPT !.mode = mode] EXCEPT !.count = count] EXCEPT !.list = list]
    BY DEF Load, LoadLosing, Configs
  <2>2. cfg = [mode |-> cfg.mode, list |-> cfg.list, count |-> cfg.count, legacy |-> cfg.legacy,
               addr |-> cfg.addr, net |-> cfg.net, app |-> cfg.app]
    BY DEF Configs
  <2> HIDE DEF mode, count, list
  <2>3. QED BY <2>1, <2>2
<1>2. mode \in {Missing} \cup Modes
  BY ModeKind DEF Configs
<1>3. MaxGroups \in Nat \ {0} /\ Missing \notin 0 .. MaxGroups
  BY MeshAssumption DEF MeshAssumption
<1>4. count \in 0 .. MaxGroups /\ count # Missing
  BY <1>3 DEF Configs
<1>5. list \in Lists
  BY <1>3 DEF Configs, Lists, NoList, Addresses
<1> HIDE DEF mode, count, list
<1>6. Load \in Configs
  BY <1>1, <1>2, <1>4, <1>5 DEF Configs
<1>7. QED
  BY <1>1, <1>4, <1>6 DEF mode, count, list

\* A load that misses keys: their defaults, and the saved list or one of at most one group.
Alike(c) == c.list = Load.list /\ c.count = Load.count

Short(c) == /\ c.count \in {0, 1} /\ (c.count = 0 => c.list[1] = NoGroup)
            /\ \A i \in 2 .. MaxGroups : c.list[i] = NoGroup

LEMMA Loadings ==
  ASSUME cfg \in Configs, NEW c \in Loaded
  PROVE  /\ c \in Configs /\ c.count \in 0 .. MaxGroups /\ c.count # Missing
         /\ c.legacy = cfg.legacy /\ c.addr \in {cfg.addr, 0} /\ c.app \in {cfg.app, Unused}
         /\ Alike(c) \/ Short(c)
         /\ Misread(c) = IF Alike(c) THEN {} ELSE Addresses
<1>1. PICK lost \in Losses : c = LoadLosing(lost)
  BY DEF Loaded
<1> DEFINE mode == IF cfg.mode = Missing \/ "mode" \in lost THEN Mode(sku) ELSE cfg.mode
           single == IF "legacy" \in lost THEN NoGroup ELSE cfg.legacy
           none == cfg.count = Missing \/ "count" \in lost
           count == IF none THEN IF single # NoGroup THEN 1 ELSE 0
                    ELSE IF "list" \in lost THEN 0 ELSE cfg.count
           list == IF none THEN [NoList EXCEPT ![1] = single]
                   ELSE IF "list" \in lost THEN NoList ELSE cfg.list
           addr == IF "addr" \in lost THEN 0 ELSE cfg.addr
           net == IF "net" \in lost THEN 0 ELSE cfg.net
           app == IF "app" \in lost THEN Unused ELSE cfg.app
<1>2. c = [cfg EXCEPT !.mode = mode, !.count = count, !.list = list, !.addr = addr, !.net = net,
                      !.app = app]
  BY <1>1 DEF LoadLosing, Configs
<1>3. MaxGroups \in Nat \ {0} /\ Missing \notin 0 .. MaxGroups
  BY MeshAssumption DEF MeshAssumption
<1>4. mode \in {Missing} \cup Modes
  BY ModeKind DEF Configs
<1>5. count \in 0 .. MaxGroups /\ count # Missing
  BY <1>3 DEF Configs
<1>6. list \in Lists
  BY <1>3 DEF Configs, Lists, NoList, Addresses
<1>7. \/ list = Load.list /\ count = Load.count
      \/ /\ count \in {0, 1} /\ (count = 0 => list[1] = NoGroup)
         /\ \A i \in 2 .. MaxGroups : list[i] = NoGroup
  <2>1. CASE none
    BY <1>3, <2>1 DEF NoList
  <2>2. CASE ~none /\ "list" \in lost
    BY <1>3, <2>2 DEF NoList
  <2>3. CASE ~none /\ "list" \notin lost
    BY <2>3, Loads
  <2>4. QED BY <2>1, <2>2, <2>3
<1>8. /\ addr \in {cfg.addr, 0} /\ net \in {cfg.net, 0} /\ app \in {cfg.app, Unused}
  OBVIOUS
<1> HIDE DEF mode, count, list, addr, net, app
<1>9. /\ c \in Configs /\ c.count = count /\ c.list = list /\ c.legacy = cfg.legacy
      /\ c.addr = addr /\ c.app = app
  BY <1>2, <1>4, <1>5, <1>6, <1>8 DEF Configs
<1>10. QED
  BY <1>5, <1>7, <1>8, <1>9 DEF Alike, Short, Misread, Addresses

LEMMA Saves ==
  ASSUME cfg \in Configs, NEW new \in Configs,
         NEW order \in {SaveOrder, <<"addr", "net">>, <<"app">>}, SaveSome(new, order)
  PROVE  /\ cfg' \in Configs /\ cfg'.legacy = cfg.legacy
         /\ cfg'.mode \in {cfg.mode, new.mode} /\ cfg'.addr \in {cfg.addr, new.addr}
         /\ cfg'.net \in {cfg.net, new.net} /\ cfg'.app \in {cfg.app, new.app}
         /\ \/ cfg'.count = cfg.count /\ cfg'.list \in {cfg.list, new.list}
            \/ cfg'.count = new.count /\ cfg'.list = new.list
<1>1. PICK n \in 0 .. Len(order) : cfg' = Write(new, order, n)
  BY DEF SaveSome
<1>2. cfg' \in Configs /\ cfg'.legacy = cfg.legacy
  <2>1. CASE order = SaveOrder
    BY <1>1, <2>1 DEF Configs, Write, SaveOrder
  <2>2. CASE order = <<"addr", "net">>
    BY <1>1, <2>2 DEF Configs, Write
  <2>3. CASE order = <<"app">>
    BY <1>1, <2>3 DEF Configs, Write
  <2>4. QED BY <2>1, <2>2, <2>3
<1>3. /\ cfg'.mode \in {cfg.mode, new.mode} /\ cfg'.addr \in {cfg.addr, new.addr}
      /\ cfg'.net \in {cfg.net, new.net} /\ cfg'.app \in {cfg.app, new.app}
  BY <1>1 DEF Configs, Write, SaveOrder
<1>4. \/ cfg'.count = cfg.count /\ cfg'.list \in {cfg.list, new.list}
      \/ cfg'.count = new.count /\ cfg'.list = new.list
  BY <1>1 DEF Configs, Write, SaveOrder
<1>5. QED BY <1>2, <1>3, <1>4

LEMMA SavesAll ==
  ASSUME cfg \in Configs, NEW new \in Configs, SaveAll(new, SaveOrder)
  PROVE  /\ cfg' \in Configs /\ SaveSome(new, SaveOrder)
         /\ cfg'.legacy = cfg.legacy /\ cfg'.mode = new.mode /\ cfg'.addr = new.addr
         /\ cfg'.net = new.net /\ cfg'.app = new.app
         /\ cfg'.count = new.count /\ cfg'.list = new.list
<1>1. cfg' = Write(new, SaveOrder, 6) /\ Len(SaveOrder) = 6
  BY DEF SaveAll, SaveOrder
<1>2. SaveSome(new, SaveOrder)
  BY <1>1 DEF SaveSome
<1>3. QED
  BY <1>1, <1>2 DEF Configs, Write, SaveOrder

\* The saves that leave alone what they are not about.
LEMMA SavesIdentity ==
  ASSUME cfg \in Configs, NEW a \in {0} \cup {id.addr : id \in Identities},
         NEW n \in {0} \cup {id.net : id \in Identities},
         SaveSome([cfg EXCEPT !.addr = a, !.net = n], <<"addr", "net">>)
  PROVE  /\ cfg' \in Configs /\ cfg'.mode = cfg.mode /\ cfg'.app = cfg.app
         /\ cfg'.legacy = cfg.legacy /\ cfg'.count = cfg.count /\ cfg'.list = cfg.list
<1> DEFINE new == [cfg EXCEPT !.addr = a, !.net = n]
<1>1. new \in Configs
  BY DEF Configs
<1>2. /\ new.mode = cfg.mode /\ new.app = cfg.app /\ new.count = cfg.count
      /\ new.list = cfg.list
  BY DEF Configs
<1> HIDE DEF new
<1>3. SaveSome(new, <<"addr", "net">>)
  BY DEF new
<1>4. QED BY <1>1, <1>2, <1>3, Saves

LEMMA SavesKey ==
  ASSUME cfg \in Configs, NEW k \in Keys \cup {Unused}, UseKey(k)
  PROVE  /\ cfg' \in Configs /\ cfg'.mode = cfg.mode /\ cfg'.addr = cfg.addr
         /\ cfg'.legacy = cfg.legacy /\ cfg'.count = cfg.count /\ cfg'.list = cfg.list
         /\ cfg'.app \in {cfg.app, k} /\ (~keyCut' => cfg'.app = k)
<1> DEFINE new == [cfg EXCEPT !.app = k]
<1>1. /\ new \in Configs
      /\ new.mode = cfg.mode /\ new.addr = cfg.addr /\ new.count = cfg.count
      /\ new.list = cfg.list /\ new.legacy = cfg.legacy /\ new.app = k
  BY DEF Configs
<1> HIDE DEF new
<1>2. cfg' = new \/ (SaveSome(new, <<"app">>) /\ keyCut')
  BY DEF UseKey, new
<1>3. CASE cfg' = new
  BY <1>1, <1>3
<1>4. CASE SaveSome(new, <<"app">>) /\ keyCut'
  BY <1>1, <1>4, Saves
<1>5. QED BY <1>2, <1>3, <1>4

LEMMA NoIdentityKind ==
  ASSUME NEW c \in Configs
  PROVE  /\ NoIdentity(c) \in Configs /\ NoIdentity(c).mode = c.mode
         /\ NoIdentity(c).addr = 0 /\ NoIdentity(c).app = Unused
         /\ NoIdentity(c).count = c.count /\ NoIdentity(c).list = c.list
  BY DEF NoIdentity, Configs

LEMMA ModeSet ==
  ASSUME NEW c \in Configs
  PROVE  LET d == [c EXCEPT !.mode = Mode(sku)]
         IN /\ d \in Configs /\ d.mode = Mode(sku) /\ d.addr = c.addr /\ d.app = c.app
            /\ d.count = c.count /\ d.list = c.list
  BY ModeKind DEF Configs

(***************************************************************************)
(* The list of groups.                                                     *)
(***************************************************************************)
Listing == InList(Load)

\* What will be loaded.
LEMMA Relists ==
  ASSUME cfg' \in Configs
  PROVE  /\ Load'.count = IF cfg'.count # Missing THEN cfg'.count ELSE IF cfg'.legacy # NoGroup THEN 1 ELSE 0
         /\ Load'.list = IF cfg'.count # Missing THEN cfg'.list ELSE [NoList EXCEPT ![1] = cfg'.legacy]
  BY DEF Load, LoadLosing, Configs

\* A save of what was loaded, with another identity or mode, keeps the list, wherever it
\* stops: the count is what says which of the two lists holds.
LEMMA SameList ==
  ASSUME cfg \in Configs, cfg' \in Configs, cfg'.legacy = cfg.legacy,
         \/ cfg'.count = cfg.count /\ cfg'.list \in {cfg.list, Load.list}
         \/ cfg'.count = Load.count /\ cfg'.list = Load.list
  PROVE  Load'.count = Load.count /\ Load'.list = Load.list /\ Listing' = Listing
<1>1. Load'.count = Load.count /\ Load'.list = Load.list
  <2>1. CASE cfg.count = Missing
    BY <2>1, Relists, Loads
  <2>2. CASE cfg.count # Missing
    BY <2>2, Relists, Loads
  <2>3. QED BY <2>1, <2>2
<1>2. QED BY <1>1 DEF Listing, InList

\* No group is listed twice.
Distinct(c) == \A i, j \in 1 .. c.count : c.list[i] = c.list[j] /\ c.list[i] # NoGroup => i = j

LEMMA WithKind ==
  ASSUME NEW c \in Configs, c.count \in 0 .. MaxGroups, c.count < MaxGroups, NEW g \in Groups
  PROVE  /\ With(c, g) \in Configs /\ With(c, g).mode = c.mode
         /\ With(c, g).addr = c.addr /\ With(c, g).app = c.app
         /\ With(c, g).count = c.count + 1
         /\ With(c, g).list = [c.list EXCEPT ![c.count + 1] = g]
<1>1. MaxGroups \in Nat \ {0} /\ c.count + 1 \in 0 .. MaxGroups
  BY MeshAssumption DEF MeshAssumption
<1>2. [c.list EXCEPT ![c.count + 1] = g] \in Lists
  BY <1>1 DEF Configs, Lists, Addresses
<1>3. QED
  BY <1>1, <1>2 DEF With, Configs

LEMMA WithoutKind ==
  ASSUME NEW c \in Configs, c.count \in 0 .. MaxGroups, NEW g \in InList(c)
  PROVE  /\ Without(c, g) \in Configs /\ Without(c, g).mode = c.mode
         /\ Without(c, g).addr = c.addr /\ Without(c, g).app = c.app
         /\ Without(c, g).count = c.count - 1
         /\ \E at \in 1 .. c.count :
              /\ c.list[at] = g
              /\ Without(c, g).list =
                   [i \in 1 .. MaxGroups |->
                      IF i \in at .. c.count THEN IF i < c.count THEN c.list[i + 1] ELSE NoGroup
                      ELSE c.list[i]]
<1> DEFINE at == CHOOSE i \in 1 .. c.count : c.list[i] = g
           list == [i \in 1 .. MaxGroups |->
                      IF i \in at .. c.count THEN IF i < c.count THEN c.list[i + 1] ELSE NoGroup
                      ELSE c.list[i]]
<1>1. at \in 1 .. c.count /\ c.list[at] = g
  BY DEF InList
<1>2. Without(c, g) = [c EXCEPT !.count = c.count - 1, !.list = list]
  BY DEF Without, Configs
<1> HIDE DEF at
<1>3. MaxGroups \in Nat \ {0} /\ c.count - 1 \in 0 .. MaxGroups
  BY <1>1, MeshAssumption DEF MeshAssumption
<1>4. list \in Lists
  BY <1>1, <1>3 DEF Configs, Lists, Addresses
<1>5. list = list
  OBVIOUS
<1> HIDE DEF list
<1>6. /\ Without(c, g) \in Configs /\ Without(c, g).mode = c.mode
      /\ Without(c, g).addr = c.addr /\ Without(c, g).app = c.app
      /\ Without(c, g).count = c.count - 1 /\ Without(c, g).list = list
  BY <1>2, <1>3, <1>4 DEF Configs
<1>7. QED
  BY <1>1, <1>6 DEF list

\* What the two changes make of a list.
LEMMA WithList ==
  ASSUME NEW c \in Configs, c.count \in 0 .. MaxGroups, c.count < MaxGroups, NEW g \in Groups,
         g \notin InList(c), Distinct(c)
  PROVE  InList(With(c, g)) = InList(c) \cup {g} /\ Distinct(With(c, g))
<1> DEFINE d == With(c, g)
<1>1. d.count = c.count + 1 /\ d.list = [c.list EXCEPT ![c.count + 1] = g]
  BY WithKind
<1>2. c.count \in Nat /\ c.count + 1 \in 1 .. MaxGroups /\ MaxGroups \in Nat
  BY MeshAssumption DEF MeshAssumption
<1> HIDE DEF d
<1>3. \A i \in 1 .. d.count : d.list[i] = IF i \in 1 .. c.count THEN c.list[i] ELSE g
  BY <1>1, <1>2 DEF Configs, Lists
<1>4. InList(d) = InList(c) \cup {g}
  <2>1. ASSUME NEW x \in InList(d) PROVE x \in InList(c) \cup {g}
    BY <1>3, <2>1 DEF InList
  <2>2. ASSUME NEW x \in InList(c) PROVE x \in InList(d)
    <3>1. PICK i \in 1 .. c.count : x = c.list[i]
      BY <2>2 DEF InList
    <3>2. i \in 1 .. d.count /\ d.list[i] = x
      BY <1>1, <1>2, <1>3, <3>1
    <3>3. QED BY <3>2 DEF InList
  <2>3. c.count + 1 \in 1 .. d.count /\ d.list[c.count + 1] = g
    BY <1>1, <1>2, <1>3
  <2>4. g \in InList(d)
    BY <2>3 DEF InList
  <2>5. QED BY <2>1, <2>2, <2>4
<1>5. Distinct(d)
  <2> SUFFICES ASSUME NEW i \in 1 .. d.count, NEW j \in 1 .. d.count,
                      d.list[i] = d.list[j], d.list[i] # NoGroup
               PROVE  i = j
    BY DEF Distinct
  <2>1. \A k \in 1 .. c.count : c.list[k] # g
    BY DEF InList
  <2>2. CASE i \in 1 .. c.count /\ j \in 1 .. c.count
    BY <1>3, <2>2 DEF Distinct
  <2>3. CASE i \notin 1 .. c.count /\ j \notin 1 .. c.count
    BY <1>1, <1>2, <2>3
  <2>4. CASE ~(i \in 1 .. c.count <=> j \in 1 .. c.count)
    BY <1>3, <2>1, <2>4
  <2>5. QED BY <2>2, <2>3, <2>4
<1>6. QED BY <1>4, <1>5 DEF d

\* The list without g, and the same list with its old length.
LEMMA WithoutList ==
  ASSUME NEW c \in Configs, c.count \in 0 .. MaxGroups, NEW g \in Groups \cap InList(c), Distinct(c),
         NEW n \in {c.count - 1, c.count}, NEW d, d.count = n, d.list = Without(c, g).list
  PROVE  /\ InList(d) = (InList(c) \ {g}) \cup (IF n = c.count THEN {NoGroup} ELSE {})
         /\ Distinct(d)
<1>1. PICK at \in 1 .. c.count :
        /\ c.list[at] = g
        /\ d.list = [i \in 1 .. MaxGroups |->
                       IF i \in at .. c.count THEN IF i < c.count THEN c.list[i + 1] ELSE NoGroup
                       ELSE c.list[i]]
  BY WithoutKind
<1>2. c.count \in Nat /\ MaxGroups \in Nat /\ NoGroup \notin Groups
  BY MeshAssumption DEF MeshAssumption
\* Where each entry comes from.
<1> DEFINE from(i) == IF i < at THEN i ELSE i + 1
<1>3. \A i \in 1 .. c.count - 1 : /\ d.list[i] = c.list[from(i)]
                                  /\ from(i) \in 1 .. c.count /\ from(i) # at
  BY <1>1, <1>2
<1>4. d.list[c.count] = NoGroup
  BY <1>1, <1>2
<1>5. \A k \in 1 .. c.count : c.list[k] = g => k = at
  BY <1>1, <1>2 DEF Distinct
<1>6. \A i \in 1 .. n : i \in 1 .. c.count - 1 \/ (i = c.count /\ n = c.count)
  BY <1>2
<1>7. InList(d) = (InList(c) \ {g}) \cup (IF n = c.count THEN {NoGroup} ELSE {})
  <2>1. ASSUME NEW x \in InList(d)
        PROVE  x \in (InList(c) \ {g}) \cup (IF n = c.count THEN {NoGroup} ELSE {})
    <3>1. PICK i \in 1 .. n : x = d.list[i]
      BY <2>1 DEF InList
    <3>2. CASE i \in 1 .. c.count - 1
      BY <1>3, <1>5, <3>1, <3>2 DEF InList
    <3>3. CASE i = c.count /\ n = c.count
      BY <1>4, <3>1, <3>3
    <3>4. QED BY <1>6, <3>2, <3>3
  <2>2. ASSUME NEW x \in InList(c), x # g PROVE x \in InList(d)
    <3>1. PICK k \in 1 .. c.count : x = c.list[k]
      BY <2>2 DEF InList
    <3>2. k # at
      BY <1>1, <2>2, <3>1
    <3>3. PICK i \in 1 .. c.count - 1 : from(i) = k
      <4>1. CASE k < at BY <1>2, <3>2, <4>1
      <4>2. CASE k > at
        <5>1. k - 1 \in 1 .. c.count - 1 /\ from(k - 1) = k
          BY <1>2, <4>2
        <5>2. QED BY <5>1
      <4>3. QED BY <1>2, <3>2, <4>1, <4>2
    <3>4. i \in 1 .. n
      BY <1>2, <3>3
    <3>5. QED BY <1>3, <3>1, <3>3, <3>4 DEF InList
  <2>3. n = c.count => NoGroup \in InList(d)
    <3>1. n = c.count => n \in 1 .. n
      BY <1>2
    <3>2. QED BY <1>4, <3>1 DEF InList
  <2>4. QED BY <2>1, <2>2, <2>3
<1>8. Distinct(d)
  <2> SUFFICES ASSUME NEW i \in 1 .. n, NEW j \in 1 .. n,
                      d.list[i] = d.list[j], d.list[i] # NoGroup
               PROVE  i = j
    BY DEF Distinct
  <2>1. i \in 1 .. c.count - 1 /\ j \in 1 .. c.count - 1
    BY <1>4, <1>6
  <2>2. from(i) = from(j)
    BY <1>3, <2>1 DEF Distinct
  <2>3. QED BY <1>2, <2>1, <2>2
<1>9. QED BY <1>7, <1>8

\* A list that is loaded as the saved one.
LEMMA AlikeList ==
  ASSUME cfg \in Configs, NEW c \in Configs, Alike(c)
  PROVE  /\ c.count \in 0 .. MaxGroups /\ InList(c) = Listing
         /\ Distinct(Load) => Distinct(c)
  BY Loads DEF Alike, InList, Listing, Distinct

\* Saving them, wholly or not.
LEMMA SavesWith ==
  ASSUME cfg \in Configs, NEW c \in Configs, Alike(c), NEW g \in Groups, g \notin InList(c),
         c.count < MaxGroups,
         Distinct(Load), SaveSome(With(c, g), SaveOrder)
  PROVE  Listing' \in {Listing, Listing \cup {g}} /\ Distinct(Load')
<1> DEFINE new == With(c, g)
<1>1. /\ new \in Configs /\ new.count = Load.count + 1
      /\ new.list = [Load.list EXCEPT ![Load.count + 1] = g]
      /\ InList(new) = Listing \cup {g} /\ Distinct(new)
  BY AlikeList, WithKind, WithList DEF Alike
<1> HIDE DEF new
<1>2. SaveSome(new, SaveOrder)
  BY DEF new
<1>3. /\ cfg' \in Configs /\ cfg'.legacy = cfg.legacy
      /\ \/ cfg'.count = cfg.count /\ cfg'.list \in {cfg.list, new.list}
         \/ cfg'.count = new.count /\ cfg'.list = new.list
  BY <1>1, <1>2, Saves
<1>4. CASE cfg'.count = new.count /\ cfg'.list = new.list
  <2>1. new.count # Missing
    BY <1>1, Loads, MeshAssumption DEF Alike, MeshAssumption
  <2>2. Load'.count = new.count /\ Load'.list = new.list
    BY <1>3, <1>4, <2>1, Relists
  <2>3. QED BY <1>1, <2>2 DEF Listing, InList, Distinct
<1>5. CASE cfg'.count = cfg.count /\ cfg'.list = cfg.list
  BY <1>3, <1>5, SameList, Loads DEF Distinct
<1>6. CASE cfg'.count = cfg.count /\ cfg'.list = new.list
  <2>1. CASE cfg.count = Missing
    <3>1. Load'.count = Load.count /\ Load'.list = Load.list
      BY <1>3, <1>6, <2>1, Relists, Loads
    <3>2. QED BY <3>1 DEF Listing, InList, Distinct
  <2>2. CASE cfg.count # Missing
    <3>1. Load'.count = Load.count /\ Load'.list = new.list
      BY <1>3, <1>6, <2>2, Relists, Loads
    <3>2. \A i \in 1 .. Load.count : new.list[i] = Load.list[i]
      <4>1. Load.count \in Nat /\ MaxGroups \in Nat /\ Load.list \in Lists
        BY Loads, MeshAssumption DEF MeshAssumption, Configs
      <4>2. QED BY <1>1, <4>1 DEF Lists
    <3>3. QED BY <3>1, <3>2 DEF Listing, InList, Distinct
  <2>3. QED BY <2>1, <2>2
<1>7. QED BY <1>3, <1>4, <1>5, <1>6

LEMMA SavesWithout ==
  ASSUME cfg \in Configs, NEW c \in Configs, Alike(c), NEW g \in Groups \cap InList(c), Distinct(Load),
         SaveSome(Without(c, g), SaveOrder)
  PROVE  /\ Listing' \in {Listing, Listing \ {g}, (Listing \ {g}) \cup {NoGroup}}
         /\ Distinct(Load')
<1> DEFINE new == Without(c, g)
<1>1. /\ c.count = Load.count /\ InList(c) = Listing /\ Distinct(c)
      /\ Load.count \in 0 .. MaxGroups
  BY Loads, AlikeList DEF Alike
<1>2. new \in Configs /\ new.count = Load.count - 1 /\ Load.count \in Nat \ {0}
  BY <1>1, WithoutKind DEF InList
<1>3. \A d : d.count = Load.count - 1 /\ d.list = new.list =>
              InList(d) = Listing \ {g} /\ Distinct(d)
  <2>1. Load.count - 1 # Load.count
    BY <1>2
  <2>2. QED BY <1>1, <2>1, WithoutList DEF Listing
<1>4. \A d : d.count = Load.count /\ d.list = new.list =>
              InList(d) = (Listing \ {g}) \cup {NoGroup} /\ Distinct(d)
  BY <1>1, WithoutList DEF Listing
<1> HIDE DEF new
<1>5. SaveSome(new, SaveOrder)
  BY DEF new
<1>6. /\ cfg' \in Configs /\ cfg'.legacy = cfg.legacy
      /\ \/ cfg'.count = cfg.count /\ cfg'.list \in {cfg.list, new.list}
         \/ cfg'.count = new.count /\ cfg'.list = new.list
  BY <1>2, <1>5, Saves
<1>7. CASE cfg'.count = new.count /\ cfg'.list = new.list
  <2>1. new.count # Missing
    BY <1>1, <1>2, MeshAssumption DEF MeshAssumption
  <2>2. Load'.count = Load.count - 1 /\ Load'.list = new.list
    BY <1>2, <1>6, <1>7, <2>1, Relists
  <2>3. QED BY <1>3, <2>2 DEF Listing
<1>8. CASE cfg'.count = cfg.count /\ cfg'.list = cfg.list
  BY <1>6, <1>8, SameList, Loads DEF Distinct
<1>9. CASE cfg'.count = cfg.count /\ cfg'.list = new.list
  <2>1. CASE cfg.count = Missing
    <3>1. Load'.count = Load.count /\ Load'.list = Load.list
      BY <1>6, <1>9, <2>1, Relists, Loads
    <3>2. QED BY <3>1 DEF Listing, InList, Distinct
  <2>2. CASE cfg.count # Missing
    <3>1. Load'.count = Load.count /\ Load'.list = new.list
      BY <1>6, <1>9, <2>2, Relists, Loads
    <3>2. QED BY <1>4, <3>1 DEF Listing
  <2>3. QED BY <2>1, <2>2
<1>10. QED BY <1>6, <1>7, <1>8, <1>9


LEMMA SavesAllWith ==
  ASSUME cfg \in Configs, NEW c \in Configs, Alike(c), NEW g \in Groups, g \notin InList(c),
         c.count < MaxGroups,
         Distinct(Load), SaveAll(With(c, g), SaveOrder)
  PROVE  Listing' = Listing \cup {g} /\ Distinct(Load')
<1> DEFINE new == With(c, g)
<1>1. /\ c.count \in 0 .. MaxGroups /\ c.count = Load.count
      /\ InList(c) = Listing /\ Distinct(c) /\ Load.count \in 0 .. MaxGroups
  BY Loads, AlikeList DEF Alike
<1>2. new \in Configs /\ new.count = Load.count + 1 /\ InList(new) = Listing \cup {g} /\ Distinct(new)
  BY <1>1, WithKind, WithList
<1>3. Load.count + 1 \in 0 .. MaxGroups /\ Load.count + 1 # Missing
  BY <1>1, MeshAssumption DEF MeshAssumption
<1> HIDE DEF new
<1>4. cfg' \in Configs /\ cfg'.count = new.count /\ cfg'.list = new.list
  <2>1. SaveAll(new, SaveOrder)
    BY DEF new
  <2>2. QED BY <1>2, <2>1, SavesAll
<1>5. Load'.count = new.count /\ Load'.list = new.list
  BY <1>2, <1>3, <1>4, Relists
<1>6. QED BY <1>2, <1>5 DEF Listing, InList, Distinct

LEMMA SavesAllWithout ==
  ASSUME cfg \in Configs, NEW c \in Configs, Alike(c), NEW g \in Groups \cap InList(c), Distinct(Load),
         SaveAll(Without(c, g), SaveOrder)
  PROVE  Listing' = Listing \ {g} /\ Distinct(Load')
<1> DEFINE new == Without(c, g)
<1>1. /\ c.count = Load.count /\ InList(c) = Listing /\ Distinct(c)
      /\ Load.count \in 0 .. MaxGroups
  BY Loads, AlikeList DEF Alike
<1>2. new \in Configs /\ new.count = Load.count - 1 /\ Load.count \in Nat \ {0}
  BY <1>1, WithoutKind DEF InList
<1>3. InList(new) = Listing \ {g} /\ Distinct(new)
  <2>1. Load.count - 1 # Load.count
    BY <1>2
  <2>2. QED BY <1>1, <1>2, <2>1, WithoutList DEF Listing
<1>4. Load.count - 1 # Missing
  BY <1>1, <1>2, MeshAssumption DEF MeshAssumption
<1> HIDE DEF new
<1>5. cfg' \in Configs /\ cfg'.count = new.count /\ cfg'.list = new.list
  <2>1. SaveAll(new, SaveOrder)
    BY DEF new
  <2>2. QED BY <1>1, <1>2, <2>1, SavesAll
<1>6. Load'.count = new.count /\ Load'.list = new.list
  BY <1>2, <1>4, <1>5, Relists
<1>7. QED BY <1>3, <1>6 DEF Listing, InList, Distinct

\* A list of one group at most, or of two, can be saved in any part.
Scattered(list) == \A i, j \in 1 .. MaxGroups : list[i] = list[j] /\ list[i] # NoGroup => i = j

LEMMA ShortLists ==
  ASSUME NEW c \in Configs, c.count \in 0 .. MaxGroups, Short(c)
  PROVE  /\ Scattered(c.list)
         /\ \A g \in Groups \ InList(c) : c.count < MaxGroups => Scattered(With(c, g).list)
         /\ \A g \in Groups \cap InList(c) : Scattered(Without(c, g).list)
<1>1. MaxGroups \in Nat \ {0} /\ NoGroup \notin Groups
  BY MeshAssumption DEF MeshAssumption
<1>2. Scattered(c.list)
  BY <1>1 DEF Short, Scattered
<1>3. ASSUME NEW g \in Groups \ InList(c), c.count < MaxGroups PROVE Scattered(With(c, g).list)
  <2>1. With(c, g).list = [c.list EXCEPT ![c.count + 1] = g] /\ c.list \in Lists
    BY <1>3, WithKind DEF Configs
  <2>2. CASE c.count = 0
    BY <1>1, <2>1, <2>2 DEF Short, Scattered, Lists
  <2>3. CASE c.count = 1
    <3>1. c.list[1] # g
      BY <1>1, <1>3, <2>3 DEF InList
    <3>2. QED BY <1>1, <2>1, <2>3, <3>1 DEF Short, Scattered, Lists
  <2>4. QED BY <2>2, <2>3 DEF Short
<1>4. ASSUME NEW g \in Groups \cap InList(c) PROVE Scattered(Without(c, g).list)
  <2>1. PICK at \in 1 .. c.count :
          Without(c, g).list =
            [i \in 1 .. MaxGroups |->
               IF i \in at .. c.count THEN IF i < c.count THEN c.list[i + 1] ELSE NoGroup ELSE c.list[i]]
    BY <1>4, WithoutKind
  <2>2. c.count = 1 /\ at = 1
    BY <1>1, <2>1 DEF Short
  <2>3. \A i \in 1 .. MaxGroups : Without(c, g).list[i] = NoGroup
    BY <1>1, <2>1, <2>2 DEF Short
  <2>4. QED BY <2>3 DEF Scattered
<1>5. QED BY <1>2, <1>3, <1>4

LEMMA SavesShort ==
  ASSUME cfg \in Configs, Distinct(Load), NEW new \in Configs, new.count # Missing,
         Scattered(new.list), SaveSome(new, SaveOrder)
  PROVE  cfg' \in Configs /\ Distinct(Load')
<1>1. /\ cfg' \in Configs /\ cfg'.legacy = cfg.legacy
      /\ \/ cfg'.count = cfg.count /\ cfg'.list \in {cfg.list, new.list}
         \/ cfg'.count = new.count /\ cfg'.list = new.list
  BY Saves
<1>2. CASE cfg'.count # Missing /\ cfg'.list = new.list
  <2>1. Load'.count = cfg'.count /\ Load'.list = new.list
    BY <1>1, <1>2, Relists
  <2>2. \A i \in 1 .. Load'.count : i \in 1 .. MaxGroups
    BY <1>1, <1>2, <2>1, MeshAssumption DEF Configs, MeshAssumption
  <2>3. QED BY <1>1, <2>1, <2>2 DEF Distinct, Scattered
<1>3. CASE cfg'.count = cfg.count /\ (cfg'.list = cfg.list \/ cfg'.count = Missing)
  <2>1. Load'.count = Load.count /\ Load'.list = Load.list
    BY <1>1, <1>3, Relists, Loads
  <2>2. QED BY <1>1, <2>1 DEF Distinct
<1>4. QED BY <1>1, <1>2, <1>3

\* Nothing that is saved says other groups, or every group is in doubt.
ListSaved ==
  /\ cfg' \in Configs /\ cfg'.legacy = cfg.legacy
  /\ \/ cfg'.count = cfg.count /\ cfg'.list \in {cfg.list, Load.list}
     \/ cfg'.count = Load.count /\ cfg'.list = Load.list

ListDoubted == Addresses \subseteq apart' /\ (Distinct(Load) => Distinct(Load'))

\* What was loaded is saved with another identity or mode.
LEMMA WritesBack ==
  ASSUME cfg \in Configs, NEW c \in Loaded, NEW new \in Configs, new.count = c.count,
         new.list = c.list, SaveSome(new, SaveOrder), apart' = apart \cup Misread(c)
  PROVE  cfg' \in Configs /\ cfg'.legacy = cfg.legacy /\ (ListSaved \/ ListDoubted)
<1>1. /\ c \in Configs /\ c.count \in 0 .. MaxGroups /\ c.count # Missing
      /\ Alike(c) \/ (Short(c) /\ Misread(c) = Addresses)
  BY Loadings
<1>2. /\ cfg' \in Configs /\ cfg'.legacy = cfg.legacy
      /\ \/ cfg'.count = cfg.count /\ cfg'.list \in {cfg.list, new.list}
         \/ cfg'.count = new.count /\ cfg'.list = new.list
  BY Saves
<1>3. CASE Alike(c)
  BY <1>2, <1>3 DEF ListSaved, Alike
<1>4. CASE Short(c) /\ Misread(c) = Addresses
  <2>1. Scattered(new.list)
    BY <1>1, <1>4, ShortLists
  <2>2. Distinct(Load) => Distinct(Load')
    BY <1>1, <2>1, SavesShort
  <2>3. QED BY <1>2, <1>4, <2>2 DEF ListDoubted
<1>5. QED BY <1>1, <1>3, <1>4

LEMMA InListKind ==
  ASSUME NEW c \in Configs, c.count \in 0 .. MaxGroups
  PROVE  InList(c) \subseteq Addresses
<1>1. c.list \in Lists /\ MaxGroups \in Nat
  BY MeshAssumption DEF Configs, MeshAssumption
<1>2. QED BY <1>1 DEF Lists, InList

LEMMA LoadedKind ==
  ASSUME cfg \in Configs, NEW c \in Loaded
  PROVE  InList(c) \subseteq Addresses /\ Misread(c) \subseteq Addresses
  BY Loadings, InListKind

\* What was loaded is saved without the identity.
LEMMA Forgets ==
  ASSUME cfg \in Configs, apart \subseteq Addresses, NEW c \in Loaded, apart' = apart \cup Misread(c),
         SaveAll(NoIdentity(c), SaveOrder) \/ SaveSome(NoIdentity(c), SaveOrder)
  PROVE  /\ cfg' \in Configs /\ cfg'.legacy = cfg.legacy /\ (ListSaved \/ ListDoubted)
         /\ apart' \subseteq Addresses /\ \A g \in apart : g \in apart'
         /\ SaveAll(NoIdentity(c), SaveOrder) => cfg'.addr = 0 /\ cfg'.app = Unused
<1>1. PICK new \in Configs : /\ new = NoIdentity(c) /\ new.count = c.count /\ new.list = c.list
                             /\ new.addr = 0 /\ new.app = Unused
  BY Loadings, NoIdentityKind
<1>2. SaveSome(new, SaveOrder)
  BY <1>1, SavesAll
<1>3. SaveAll(NoIdentity(c), SaveOrder) => cfg'.addr = 0 /\ cfg'.app = Unused
  BY <1>1, SavesAll
<1>4. cfg' \in Configs /\ cfg'.legacy = cfg.legacy /\ (ListSaved \/ ListDoubted)
  BY <1>1, <1>2, WritesBack
<1>5. apart' \subseteq Addresses /\ \A g \in apart : g \in apart'
  BY LoadedKind
<1>6. QED BY <1>3, <1>4, <1>5

(***************************************************************************)
(* What the state is made of, and which task can be where.                 *)
(***************************************************************************)
Own == [addr |-> OwnAddr, net |-> 0]
Cores == [role : {"none", "node", "provisioner"}, id : {NoId, Own} \cup Identities,
          keys : SUBSET (Keys \cup {0}), bound : SUBSET (Keys \cup {0}),
          subs : SUBSET Groups, adv : BOOLEAN]
Events ==
  [op : {"complete"}, id : Identities] \cup [op : {"add", "bind", "delete"}, key : Keys]
  \cup [op : {"reset"}]
Handlings ==
  {Idle, [pc |-> "forget"]}
  \cup [pc : {"identify", "subscribe"}, id : Identities, groups : SUBSET Addresses]
Requests ==
  {Idle} \cup [pc : {"subscribe", "unsubscribe"}, g : Groups] \cup [pc : {"erase", "clear", "restart"}]

IsNode == mesh = "up" /\ sku = "node"
Clean == cfg.addr = 0 /\ cfg.app = Unused

Kinds ==
  /\ sku \in Roles /\ where \in {"boot", "fallback", "again", "portal", "up"}
  /\ mesh \in {"off", "up", "down"}
  /\ cfg \in Configs /\ core \in Cores
  /\ core.bound \subseteq core.keys
  /\ core.role # "provisioner" => core.id # Own \/ Own \in Identities
  /\ core.role # "provisioner" => core.keys \subseteq Keys
  /\ core.id = NoId => core.keys = {} /\ core.subs = {}
  /\ events \in Seq(Events) /\ btc \in Handlings /\ http \in Requests
  /\ pending \subseteq Addresses /\ apart \subseteq Addresses

\* A node's stack holds a node's state.  Only a node has events.  What runs keeps its state
\* until the restart.
Places ==
  /\ where \in {"boot", "fallback", "again"} => mesh = "off" /\ http = Idle
  /\ mesh = "up" => where = "up"
  /\ IsNode => core.role = "node"
  /\ ~IsNode => events = <<>> /\ btc = Idle
  /\ erased => mesh = "up"
  /\ http.pc = "clear" => erased \/ (mesh # "up" /\ core.id = NoId)
  /\ http.pc = "erase" => mesh = "up" \/ Clean

MeshInv == Kinds /\ Places

LEMMA NoOne == /\ NoId \notin Identities /\ NoId # Own /\ NoGroup \notin Groups
               /\ NoId.addr = 0 /\ \A id \in Identities : id.addr # 0
  BY MeshAssumption DEF MeshAssumption, NoId, Own, OwnAddr

LEMMA QueueTail ==
  ASSUME NEW s \in Seq(Events), s # <<>>
  PROVE  /\ Tail(s) \in Seq(Events) /\ Len(s) \in Nat \ {0} /\ Len(Tail(s)) = Len(s) - 1
         /\ Head(s) = s[1] /\ Head(s) \in Events
         /\ \A i \in 1 .. Len(Tail(s)) : Tail(s)[i] = s[i + 1]
  OBVIOUS

LEMMA QueueAppend ==
  ASSUME NEW s \in Seq(Events), NEW e \in Events
  PROVE  /\ Append(s, e) \in Seq(Events) /\ Len(s) \in Nat /\ Len(Append(s, e)) = Len(s) + 1
         /\ Append(s, e)[Len(s) + 1] = e /\ \A i \in 1 .. Len(s) : Append(s, e)[i] = s[i]
  OBVIOUS

LEMMA FreshKind == /\ Fresh \in Cores /\ Fresh.role = "none" /\ Fresh.id = NoId /\ Fresh.keys = {}
                   /\ Fresh.bound = {} /\ Fresh.subs = {} /\ ~Fresh.adv
  BY DEF Fresh, Cores

LEMMA LeftKind ==
  ASSUME core \in Cores
  PROVE  /\ Left \in Cores /\ Left.role = core.role /\ Left.id = NoId /\ Left.keys = {}
         /\ Left.bound = {} /\ Left.subs = {} /\ ~Left.adv
  BY DEF Left, Fresh, Cores

\* Subscriptions change only the groups, and only where the element is found.
Grown(c, groups, element, d) ==
  /\ d \in Cores /\ d.role = c.role /\ d.id = c.id /\ d.keys = c.keys /\ d.bound = c.bound
  /\ d.adv = c.adv
  /\ \A g \in c.subs : g \in d.subs
  /\ \A g \in d.subs : g \in c.subs \/ (g \in groups /\ g # NoGroup)
  /\ c.id = NoId \/ element # c.id.addr => d = c

LEMMA SubscribedKind ==
  ASSUME NEW c \in Cores, NEW groups \in SUBSET Addresses, NEW element,
         NEW d \in Subscribed(c, groups, element)
  PROVE  Grown(c, groups, element, d)
<1>1. CASE c.id = NoId \/ element # c.id.addr
  BY <1>1 DEF Subscribed, Grown
<1>2. CASE ~(c.id = NoId \/ element # c.id.addr)
  <2>1. PICK s \in SUBSET (c.subs \cup (groups \ {NoGroup})) : c.subs \subseteq s /\ d = [c EXCEPT !.subs = s]
    BY <1>2 DEF Subscribed
  <2>2. s \subseteq Groups
    BY <2>1 DEF Cores, Addresses
  <2>3. QED BY <1>2, <2>1, <2>2 DEF Cores, Grown
<1>3. QED BY <1>1, <1>2

LEMMA CoreSubscribed ==
  ASSUME core \in Cores, NEW groups \in SUBSET Addresses, NEW element,
         core' \in Subscribed(core, groups, element)
  PROVE  /\ core' \in Cores /\ core'.role = core.role /\ core'.id = core.id
         /\ core'.keys = core.keys /\ core'.bound = core.bound /\ core'.adv = core.adv
         /\ \A g \in core.subs : g \in core'.subs
         /\ \A g \in core'.subs : g \in core.subs \/ (g \in groups /\ g # NoGroup)
         /\ core.id = NoId \/ element # core.id.addr => core' = core
<1>1. Grown(core, groups, element, core')
  BY SubscribedKind
<1>2. QED BY <1>1 DEF Grown

LEMMA UnsubscribedKind ==
  ASSUME NEW c \in Cores, NEW g, NEW element, NEW d, d = Unsubscribed(c, g, element)
  PROVE  /\ d \in Cores /\ d.role = c.role /\ d.id = c.id /\ d.keys = c.keys /\ d.bound = c.bound
         /\ d.adv = c.adv /\ d.subs \in {c.subs, c.subs \ {g}}
         /\ c.id # NoId /\ element = c.id.addr => d.subs = c.subs \ {g}
  BY DEF Unsubscribed, Cores

meshvars == <<boot, cfg, core, erased, events, tasks, pending, apart>>

LEMMA MeshStutter == ASSUME MeshInv, UNCHANGED meshvars PROVE MeshInv'
  BY DEF MeshInv, Kinds, Places, meshvars, boot, tasks, IsNode, Clean, Mode

LEMMA ListingKind == ASSUME cfg \in Configs PROVE Listing \subseteq Addresses
  BY Loads, InListKind DEF Listing

LEMMA MeshInit == Init => MeshInv
<1> SUFFICES ASSUME Init PROVE MeshInv
  OBVIOUS
<1>1. PICK g \in Addresses, s \in {<<>>} \cup Full : cfg = Configured(g, s)
  BY DEF Init, Addresses
<1>2. cfg \in Configs /\ Clean /\ cfg.mode \in {Missing, Mode(sku)}
  <2>1. MaxGroups \in Nat \ {0}
    BY MeshAssumption DEF MeshAssumption
  <2>2. CASE s = <<>>
    BY <1>1, <2>1, <2>2 DEF Configured, Configs, Lists, Addresses, NoList, Clean
  <2>3. CASE s \in Full
    <3>1. s \in Lists /\ Len(s) = MaxGroups /\ s # <<>>
      BY <2>1, <2>3 DEF Full, Lists, Addresses
    <3>2. QED BY <1>1, <2>1, <3>1, ModeKind DEF Configured, Configs, Clean
  <2>4. QED BY <2>2, <2>3
<1>3. Kinds
  <2>1. btc \in Handlings /\ http \in Requests /\ events \in Seq(Events)
    BY DEF Init, Handlings, Requests
  <2>2. QED BY <1>2, <2>1, FreshKind, NoOne DEF Init, Kinds
<1>4. Places
  BY <1>2 DEF Init, Places, Idle, IsNode
<1>5. QED BY <1>3, <1>4 DEF MeshInv

LEMMA EventKinds ==
  /\ \A id \in Identities : [op |-> "complete", id |-> id] \in Events
  /\ \A k \in Keys : \A o \in {"add", "bind", "delete"} : [op |-> o, key |-> k] \in Events
  /\ [op |-> "reset"] \in Events
  BY DEF Events

LEMMA EnableNodeIs ==
  ASSUME MeshInv, EnableNode
  PROVE  /\ sku = "node" /\ where' = "up" /\ mesh = "off" /\ http = Idle
         /\ events = <<>> /\ btc = Idle /\ ~erased
         /\ UNCHANGED <<sku, cfg, erased, btc, http, pending, keyCut, netCut, idCut>>
         /\ local' \in {cfg.addr, 0} /\ appIdx' \in {cfg.app, Unused}
         /\ apart' \subseteq Addresses /\ \A g \in apart : g \in apart'
         /\ OtherRole => mesh' = "down" /\ UNCHANGED <<core, events>>
         /\ ~OtherRole =>
              /\ mesh' = "up" /\ core' \in Cores /\ core'.role = "node" /\ core'.id = core.id
              /\ core'.keys = core.keys /\ core'.bound = core.bound /\ core.role # "provisioner"
              /\ core.id = NoId => core'.subs = core.subs
              /\ \A g \in core'.subs : g \in core.subs \/ g \in Listing \/ g \in apart'
              /\ events' = IF core.id = NoId THEN <<>> ELSE <<[op |-> "complete", id |-> core.id]>>
              /\ events' \in Seq(Events)
<1>1. /\ cfg \in Configs /\ core \in Cores /\ where \in {"boot", "again"} /\ sku = "node"
      /\ where' = "up" /\ apart \subseteq Addresses
      /\ UNCHANGED <<sku, cfg, erased, btc, http, pending, keyCut, netCut, idCut>>
  BY DEF EnableNode, MeshInv, Kinds, tasks, bounds
<1>2. mesh = "off" /\ http = Idle /\ events = <<>> /\ btc = Idle /\ ~erased
  BY <1>1 DEF MeshInv, Places, IsNode
<1>3. PICK c \in Loaded, d \in Loaded :
        /\ local' = c.addr /\ appIdx' = c.app
        /\ IF OtherRole THEN mesh' = "down" /\ UNCHANGED <<core, events, apart>>
           ELSE /\ mesh' = "up"
                /\ core' \in Subscribed([core EXCEPT !.role = "node", !.adv = core.id = NoId],
                                        InList(d), c.addr)
                /\ apart' = apart \cup (InList(d) \ Listing)
                /\ events' = IF core.id = NoId THEN <<>> ELSE <<[op |-> "complete", id |-> core.id]>>
  BY DEF EnableNode, Listing
<1>4. /\ local' \in {cfg.addr, 0} /\ appIdx' \in {cfg.app, Unused}
      /\ InList(d) \in SUBSET Addresses
  BY <1>1, <1>3, Loadings, LoadedKind
<1>5. CASE OtherRole
  BY <1>1, <1>2, <1>3, <1>4, <1>5
<1>6. CASE ~OtherRole
  <2>1. PICK e \in Cores : /\ e = [core EXCEPT !.role = "node", !.adv = core.id = NoId]
                           /\ e.role = "node" /\ e.id = core.id /\ e.keys = core.keys
                           /\ e.bound = core.bound /\ e.subs = core.subs
    <3>1. [core EXCEPT !.role = "node", !.adv = core.id = NoId] \in Cores
      BY <1>1 DEF Cores
    <3>2. QED BY <1>1, <3>1 DEF Cores
  <2>2. PICK groups \in SUBSET Addresses : groups = InList(d)
    BY <1>4
  <2>3. PICK element : element = c.addr
    OBVIOUS
  <2>4. /\ mesh' = "up" /\ core' \in Subscribed(e, groups, element)
        /\ apart' = apart \cup (groups \ Listing)
        /\ events' = IF core.id = NoId THEN <<>> ELSE <<[op |-> "complete", id |-> core.id]>>
        /\ core.role # "provisioner"
    BY <1>1, <1>3, <1>6, <2>1, <2>2, <2>3 DEF OtherRole
  <2>5. Grown(e, groups, element, core')
    BY <2>4, SubscribedKind
  <2>6. /\ core' \in Cores /\ core'.role = e.role /\ core'.id = e.id /\ core'.keys = e.keys
        /\ core'.bound = e.bound /\ (e.id = NoId => core' = e)
        /\ \A g \in core'.subs : g \in e.subs \/ g \in groups
    BY <2>5 DEF Grown
  <2>7. core.id \in {NoId} \cup Identities
    BY <1>1, <2>4 DEF MeshInv, Kinds, Cores
  <2>8. events' \in Seq(Events)
    <3>1. CASE core.id = NoId
      BY <2>4, <3>1
    <3>2. CASE core.id # NoId
      BY <2>4, <2>7, <3>2, EventKinds
    <3>3. QED BY <3>1, <3>2
  <2>9. apart' \subseteq Addresses /\ (\A g \in apart : g \in apart')
        /\ \A g \in groups : g \in Listing \/ g \in apart'
    BY <1>1, <2>4
  <2>10. QED BY <1>1, <1>2, <1>4, <1>6, <2>1, <2>4, <2>6, <2>8, <2>9
<1>7. QED BY <1>5, <1>6

\* The identity is dropped with a mode this firmware cannot run.
LEMMA FallbackIs ==
  ASSUME MeshInv, Fallback
  PROVE  /\ where = "fallback" /\ where' = "again" /\ core' \in {core, Fresh}
         /\ UNCHANGED <<sku, mesh, erased, events, btc, http, pending, keyCut, netCut>>
         /\ cfg' \in Configs /\ (ListSaved \/ ListDoubted)
         /\ ~idCut' => ~idCut /\ Clean'
         /\ apart' \subseteq Addresses /\ \A g \in apart : g \in apart'
<1>1. /\ where = "fallback" /\ where' = "again" /\ core' \in {core, Fresh}
      /\ UNCHANGED <<sku, mesh, erased, events, btc, http, pending, keyCut, netCut>>
      /\ cfg \in Configs /\ apart \subseteq Addresses
  BY DEF Fallback, ram, tasks, bounds, MeshInv, Kinds
<1>2. PICK c \in Loaded :
        LET new == [NoIdentity(c) EXCEPT !.mode = Mode(sku)]
        IN /\ SaveSome(new, SaveOrder)
           /\ idCut' = (idCut \/ \E f \in {"addr", "net", "app"} : cfg'[f] # new[f])
           /\ apart' = apart \cup Misread(c)
  BY DEF Fallback
<1> DEFINE new == [NoIdentity(c) EXCEPT !.mode = Mode(sku)]
<1>3. c \in Configs
  BY <1>1, Loadings
<1>4. /\ new \in Configs /\ new.addr = 0 /\ new.app = Unused
      /\ new.count = c.count /\ new.list = c.list
  BY <1>3, NoIdentityKind, ModeSet
<1>5. /\ SaveSome(new, SaveOrder) /\ apart' = apart \cup Misread(c)
      /\ idCut' = (idCut \/ \E f \in {"addr", "net", "app"} : cfg'[f] # new[f])
  BY <1>2
<1> HIDE DEF new
<1>6. ~idCut' => ~idCut /\ Clean'
  BY <1>4, <1>5 DEF Clean
<1>7. cfg' \in Configs /\ (ListSaved \/ ListDoubted)
  BY <1>1, <1>4, <1>5, WritesBack
<1>8. Misread(c) \subseteq Addresses
  BY <1>1, LoadedKind
<1>9. QED BY <1>1, <1>5, <1>6, <1>7, <1>8

LEMMA MeshBoot == ASSUME MeshInv, BootToPortal \/ BootStep PROVE MeshInv'
<1> USE DEF MeshInv
<1>1. cfg \in Configs /\ core \in Cores
  BY DEF Kinds
<1>2. CASE BootToPortal \/ BootToMesh
  BY <1>2 DEF BootToPortal, BootToMesh, Kinds, Places, ram, tasks, bounds, hist, IsNode, Clean,
              Idle
<1>3. CASE Fallback
  <2>1. Kinds'
    BY <1>3, FallbackIs, FreshKind, NoOne DEF Kinds
  <2>2. Places'
    BY <1>3, FallbackIs, FreshKind DEF Places, IsNode, Idle
  <2>3. QED BY <2>1, <2>2
<1>4. CASE EnableNode
  <2>1. /\ sku = "node" /\ where' = "up" /\ mesh = "off" /\ http = Idle
        /\ UNCHANGED <<sku, cfg, erased, btc, http, pending>>
        /\ apart' \subseteq Addresses
    BY <1>4, EnableNodeIs
  <2>2. CASE OtherRole
    BY <1>4, <2>1, <2>2, EnableNodeIs DEF Kinds, Places, IsNode, Idle
  <2>3. CASE ~OtherRole
    <3>1. /\ mesh' = "up" /\ core' \in Cores /\ core'.role = "node" /\ core'.id = core.id
          /\ core'.keys = core.keys /\ core'.bound = core.bound /\ core.role # "provisioner"
          /\ core.id = NoId => core'.subs = core.subs
          /\ events' \in Seq(Events)
      BY <1>4, <2>3, EnableNodeIs
    <3>2. Kinds'
      BY <2>1, <3>1 DEF Kinds
    <3>3. Places'
      BY <2>1, <3>1 DEF Places, IsNode, Idle
    <3>4. QED BY <3>2, <3>3
  <2>4. QED BY <2>2, <2>3
<1>5. CASE EnableProvisioner
  <2>1. /\ where \in {"boot", "again"} /\ sku = "provisioner" /\ where' = "up"
        /\ UNCHANGED <<sku, cfg, erased, events, btc, http, pending, apart>>
    BY <1>5 DEF EnableProvisioner, tasks, bounds, hist
  <2>2. mesh = "off" /\ http = Idle
    BY <1>1, <2>1 DEF Places
  <2>3. CASE OtherRole
    BY <1>5, <2>1, <2>2, <2>3 DEF EnableProvisioner, Kinds, Places, IsNode, Idle
  <2>4. CASE ~OtherRole
    <3>1. /\ mesh' = "up"
          /\ core' = [core EXCEPT !.role = "provisioner", !.keys = @ \cup {0}, !.id = Own]
      BY <1>5, <2>4 DEF EnableProvisioner, Own
    <3>2. /\ core' \in Cores /\ core'.role = "provisioner" /\ core'.id = Own
          /\ core'.bound = core.bound /\ core'.keys = core.keys \cup {0}
      BY <1>1, <3>1 DEF Cores
    <3>3. Kinds'
      BY <2>1, <3>1, <3>2, NoOne DEF Kinds
    <3>4. Places'
      BY <2>1, <2>2, <3>1 DEF Places, IsNode, Idle
    <3>5. QED BY <3>3, <3>4
  <2>5. QED BY <2>3, <2>4
<1>6. CASE EnableNothing
  BY <1>6 DEF EnableNothing, Kinds, Places, tasks, bounds, hist, IsNode, Clean, Idle
<1>7. QED BY <1>2, <1>3, <1>4, <1>5, <1>6 DEF BootStep

LEMMA MeshReboot ==
  ASSUME MeshInv, NEW role \in Roles, Reboot(role)
  PROVE  MeshInv'
<1>1. /\ sku' = role /\ where' = "boot" /\ mesh' = "off" /\ events' = <<>> /\ btc' = Idle
      /\ http' = Idle /\ pending' = {} /\ erased' = FALSE /\ cfg' = cfg
      /\ core' = IF erased THEN Fresh ELSE [core EXCEPT !.adv = FALSE]
      /\ apart' = apart \cup IF http.pc = "unsubscribe" THEN {http.g} ELSE {}
  BY DEF Reboot
<1>2. /\ core' \in Cores
      /\ core' = Fresh \/ (/\ core'.role = core.role /\ core'.id = core.id /\ core'.keys = core.keys
                           /\ core'.bound = core.bound /\ core'.subs = core.subs)
  BY <1>1, FreshKind DEF MeshInv, Kinds, Cores
<1>3. http.pc = "unsubscribe" => http.g \in Groups
  BY DEF MeshInv, Kinds, Requests, Idle
<1>4. btc' \in Handlings /\ http' \in Requests /\ events' \in Seq(Events)
  BY <1>1 DEF Handlings, Requests
<1>5. Kinds'
  BY <1>1, <1>2, <1>3, <1>4, FreshKind, NoOne DEF MeshInv, Kinds, Addresses
<1>6. Places'
  BY <1>1 DEF Places, IsNode, Idle
<1>7. QED BY <1>5, <1>6 DEF MeshInv

\* What a provisioner may do: the stack runs as a node.
LEMMA Changes ==
  ASSUME MeshInv, NEW e \in Events, Change(e)
  PROVE  /\ IsNode /\ ~erased /\ events' = Append(events, e) /\ events' \in Seq(Events)
         /\ UNCHANGED <<sku, where, mesh, cfg, erased, local, netIdx, appIdx, btc, http, pending,
                        apart, keyCut, netCut, idCut>>
  BY QueueAppend DEF MeshInv, Kinds, Change, IsNode, boot, ram, tasks, hist

\* ... and the bridge is not told.
LEMMA Untold ==
  ASSUME MeshInv, DeleteNetKey \/ ChangeSubscription
  PROVE  /\ IsNode /\ ~erased /\ core.id # NoId /\ core'.id = core.id
         /\ core' \in Cores /\ core'.role = core.role /\ core'.adv = core.adv
         /\ core'.bound \subseteq core'.keys /\ core'.keys \subseteq core.keys
         /\ UNCHANGED <<sku, where, mesh, cfg, erased, local, netIdx, appIdx, events, btc, http,
                        pending, keyCut, idCut>>
         /\ apart' \subseteq Addresses /\ \A g \in apart : g \in apart'
         /\ \/ netCut' = TRUE /\ core'.subs = core.subs
            \/ /\ UNCHANGED netCut /\ core'.keys = core.keys
               /\ \E g \in Groups : /\ g \in apart'
                                    /\ \A x \in Groups : x # g => (x \in core.subs <=> x \in core'.subs)
<1>1. core \in Cores /\ core.bound \subseteq core.keys /\ apart \subseteq Addresses
  BY DEF MeshInv, Kinds
<1>2. /\ IsNode /\ ~erased /\ core.id # NoId
      /\ UNCHANGED <<sku, where, mesh, cfg, erased, local, netIdx, appIdx, events, btc, http,
                     pending, keyCut, idCut>>
  BY DEF DeleteNetKey, ChangeSubscription, ChangeUntold, IsNode, boot, ram, tasks
<1>3. CASE DeleteNetKey
  <2>1. PICK gone \in SUBSET core.keys :
          /\ core' = [core EXCEPT !.keys = @ \ gone, !.bound = @ \ gone]
          /\ netCut' = TRUE /\ UNCHANGED apart
    BY <1>3 DEF DeleteNetKey
  <2>2. /\ core' \in Cores /\ core'.role = core.role /\ core'.adv = core.adv /\ core'.id = core.id
        /\ core'.bound = core.bound \ gone /\ core'.keys = core.keys \ gone
        /\ core'.subs = core.subs
    BY <1>1, <2>1 DEF Cores
  <2>3. QED BY <1>1, <1>2, <2>1, <2>2
<1>4. CASE ChangeSubscription
  <2>1. PICK g \in Groups :
          /\ core' \in {[core EXCEPT !.subs = @ \ {g}]} \cup Subscribed(core, {g}, core.id.addr)
          /\ apart' = apart \cup {g} /\ UNCHANGED netCut
    BY <1>4 DEF ChangeSubscription
  <2>2. apart' \subseteq Addresses /\ g \in apart' /\ \A x \in apart : x \in apart'
    BY <1>1, <2>1 DEF Addresses
  <2>3. CASE core' = [core EXCEPT !.subs = @ \ {g}]
    <3>1. /\ core' \in Cores /\ core'.role = core.role /\ core'.adv = core.adv
          /\ core'.id = core.id /\ core'.bound = core.bound /\ core'.keys = core.keys
          /\ core'.subs = core.subs \ {g}
      BY <1>1, <2>3 DEF Cores
    <3>2. QED BY <1>1, <1>2, <2>1, <2>2, <3>1
  <2>4. CASE core' \in Subscribed(core, {g}, core.id.addr)
    <3>1. PICK groups, element : groups = {g} /\ groups \subseteq Addresses /\ element = core.id.addr
      BY DEF Addresses
    <3>2. Grown(core, groups, element, core')
      BY <1>1, <2>4, <3>1, SubscribedKind
    <3>3. QED BY <1>1, <1>2, <2>1, <2>2, <3>1, <3>2 DEF Grown
  <2>5. QED BY <2>1, <2>3, <2>4
<1>5. QED BY <1>3, <1>4

LEMMA MeshProvisioner == ASSUME MeshInv, Provisioner PROVE MeshInv'
<1>1. core \in Cores
  BY DEF MeshInv, Kinds
<1>2. ASSUME NEW e \in Events, Change(e), core' \in Cores, core'.role = core.role,
             core'.bound \subseteq core'.keys, core'.keys \subseteq Keys,
             core'.id = Own => core.id = Own \/ core'.id \in Identities,
             core'.id = NoId => core'.keys = {} /\ core'.subs = {}
      PROVE  MeshInv'
  <2>1. /\ IsNode /\ ~erased /\ events' \in Seq(Events)
        /\ UNCHANGED <<sku, where, mesh, cfg, erased, btc, http, pending, apart>>
    BY <1>2, Changes
  <2>2. Kinds'
    BY <1>2, <2>1 DEF MeshInv, Kinds
  <2>3. Places'
    BY <1>2, <2>1 DEF MeshInv, Places, IsNode, Clean, Mode
  <2>4. QED BY <2>2, <2>3 DEF MeshInv
<1>3. IsNode /\ core.role = "node" /\ core.keys \subseteq Keys /\ core.bound \subseteq core.keys
  BY Untold DEF Provisioner, Join, AddKey, BindKey, DeleteKey, ResetByProvisioner, Change, MeshInv,
                Places, Kinds, IsNode
<1>4. CASE Join
  <2>1. PICK id \in Identities : /\ core.id = NoId
                                 /\ core' = [core EXCEPT !.id = id, !.adv = FALSE]
                                 /\ Change([op |-> "complete", id |-> id])
    BY <1>4 DEF Join
  <2>2. core' \in Cores /\ core'.role = core.role /\ core'.bound = core.bound /\ core'.keys = core.keys
        /\ core'.id = id
    BY <1>1, <2>1 DEF Cores
  <2>3. QED BY <1>2, <1>3, <2>1, <2>2, EventKinds, NoOne
<1>5. CASE AddKey
  <2>1. PICK k \in Keys : /\ core.id # NoId /\ core' = [core EXCEPT !.keys = @ \cup {k}]
                          /\ Change([op |-> "add", key |-> k])
    BY <1>5 DEF AddKey
  <2>2. core' \in Cores /\ core'.role = core.role /\ core'.bound = core.bound
        /\ core'.keys = core.keys \cup {k} /\ core'.id = core.id
    BY <1>1, <2>1 DEF Cores
  <2>3. QED BY <1>2, <1>3, <2>1, <2>2, EventKinds
<1>6. CASE BindKey
  <2>1. PICK k \in core.keys : /\ core' = [core EXCEPT !.bound = @ \cup {k}]
                               /\ Change([op |-> "bind", key |-> k])
    BY <1>6 DEF BindKey
  <2>2. core' \in Cores /\ core'.role = core.role /\ core'.bound = core.bound \cup {k}
        /\ core'.keys = core.keys /\ core'.id = core.id /\ core'.subs = core.subs
    BY <1>1, <2>1 DEF Cores
  <2>3. core.id # NoId
    BY <2>1 DEF MeshInv, Kinds
  <2>4. QED BY <1>2, <1>3, <2>1, <2>2, <2>3, EventKinds
<1>7. CASE DeleteKey
  <2>1. PICK k \in core.keys : /\ core' = [core EXCEPT !.keys = @ \ {k}, !.bound = @ \ {k}]
                               /\ Change([op |-> "delete", key |-> k])
    BY <1>7 DEF DeleteKey
  <2>2. core' \in Cores /\ core'.role = core.role /\ core'.bound = core.bound \ {k}
        /\ core'.keys = core.keys \ {k} /\ core'.id = core.id /\ core'.subs = core.subs
    BY <1>1, <2>1 DEF Cores
  <2>3. core.id # NoId
    BY <2>1 DEF MeshInv, Kinds
  <2>4. QED BY <1>2, <1>3, <2>1, <2>2, <2>3, EventKinds
<1>8. CASE ResetByProvisioner
  BY <1>1, <1>2, <1>8, LeftKind, EventKinds, NoOne DEF ResetByProvisioner
<1>9. CASE DeleteNetKey \/ ChangeSubscription
  <2>1. Kinds'
    BY <1>3, <1>9, Untold DEF MeshInv, Kinds
  <2>2. Places'
    BY <1>9, Untold DEF MeshInv, Places, IsNode, Clean
  <2>3. QED BY <2>1, <2>2 DEF MeshInv
<1>10. QED BY <1>4, <1>5, <1>6, <1>7, <1>8, <1>9 DEF Provisioner

\* A handler runs where the stack runs as a node.
LEMMA Handles ==
  ASSUME MeshInv, NEW op, Handle(op)
  PROVE  /\ IsNode /\ btc = Idle /\ events # <<>> /\ events' = Tail(events)
         /\ events \in Seq(Events) /\ events' \in Seq(Events)
         /\ Head(events) \in Events /\ Head(events).op = op
         /\ op = "complete" => Head(events).id \in Identities
         /\ op \in {"add", "bind", "delete"} => Head(events).key \in Keys
<1>1. /\ btc = Idle /\ events # <<>> /\ events' = Tail(events) /\ Head(events).op = op
      /\ events \in Seq(Events)
  BY DEF Handle, MeshInv, Kinds
<1>2. IsNode
  BY <1>1 DEF MeshInv, Places
<1>3. events' \in Seq(Events) /\ Head(events) \in Events
  BY <1>1, QueueTail
<1>4. /\ op = "complete" => Head(events).id \in Identities
      /\ op \in {"add", "bind", "delete"} => Head(events).key \in Keys
  BY <1>1, <1>3 DEF Events
<1>5. QED BY <1>1, <1>2, <1>3, <1>4

\* In the middle of one.
LEMMA Middle ==
  ASSUME MeshInv
  PROVE  /\ btc.pc # "idle" => IsNode
         /\ btc.pc \in {"identify", "subscribe"} =>
              btc.id \in Identities /\ btc.groups \in SUBSET Addresses
         /\ btc.pc = "forget" => btc = [pc |-> "forget"]
<1>1. btc.pc # "idle" => IsNode
  BY DEF MeshInv, Places, Idle
<1>2. /\ btc.pc \in {"identify", "subscribe"} =>
           btc.id \in Identities /\ btc.groups \in SUBSET Addresses
      /\ btc.pc = "forget" => btc = [pc |-> "forget"]
  BY DEF MeshInv, Kinds, Handlings, Idle
<1>3. QED BY <1>1, <1>2

\* The identity is dropped from flash.
LEMMA ResetIs ==
  ASSUME MeshInv, Reset
  PROVE  /\ Handle("reset") /\ btc' = [pc |-> "forget"]
         /\ UNCHANGED <<sku, where, mesh, core, erased, local, netIdx, appIdx, http, pending, netCut>>
         /\ cfg' \in Configs /\ cfg'.legacy = cfg.legacy /\ (ListSaved \/ ListDoubted)
         /\ ~idCut' => Clean'
         /\ apart' \subseteq Addresses /\ \A g \in apart : g \in apart'
<1>1. PICK c \in Loaded :
        /\ apart' = apart \cup Misread(c)
        /\ \/ SaveAll(NoIdentity(c), SaveOrder)
           \/ SaveSome(NoIdentity(c), SaveOrder) /\ idCut' = TRUE
  BY DEF Reset
<1>2. cfg \in Configs /\ apart \subseteq Addresses
  BY DEF MeshInv, Kinds
<1>3. /\ cfg' \in Configs /\ cfg'.legacy = cfg.legacy /\ (ListSaved \/ ListDoubted)
      /\ apart' \subseteq Addresses /\ \A g \in apart : g \in apart'
      /\ ~idCut' => Clean'
  BY <1>1, <1>2, Forgets DEF Clean
<1>4. /\ Handle("reset") /\ btc' = [pc |-> "forget"]
      /\ UNCHANGED <<sku, where, mesh, core, erased, local, netIdx, appIdx, http, pending, netCut>>
  BY DEF Reset, boot, ram
<1>5. QED BY <1>3, <1>4

LEMMA MeshBtc == ASSUME MeshInv, Btc PROVE MeshInv'
<1>1. cfg \in Configs /\ core \in Cores /\ Listing \in SUBSET Addresses /\ apart \subseteq Addresses
  BY ListingKind DEF MeshInv, Kinds
\* Most leave the stack's state.
<1>2. ASSUME IsNode, cfg' \in Configs, apart' \subseteq Addresses,
             events' \in Seq(Events), btc' \in Handlings,
             UNCHANGED <<sku, where, mesh, core, erased, http, pending>>
      PROVE  MeshInv'
  <2>1. Kinds'
    BY <1>2 DEF MeshInv, Kinds
  <2>2. Places'
    BY <1>2 DEF MeshInv, Places, IsNode
  <2>3. QED BY <2>1, <2>2 DEF MeshInv
<1>3. CASE Complete
  <2>1. /\ Handle("complete")
        /\ \E c \in Loaded : btc' = [pc |-> "identify", id |-> Head(events).id, groups |-> InList(c)]
        /\ UNCHANGED <<sku, where, mesh, cfg, core, erased, http, pending, apart>>
    BY <1>3 DEF Complete, boot
  <2>2. IsNode /\ Head(events).id \in Identities /\ events' \in Seq(Events)
    BY <2>1, Handles
  <2>3. btc' \in Handlings
    BY <1>1, <2>1, <2>2, LoadedKind DEF Handlings
  <2>4. QED BY <1>1, <1>2, <2>1, <2>2, <2>3
<1>4. CASE Identify
  <2>1. /\ btc.pc = "identify" /\ btc' = [btc EXCEPT !.pc = "subscribe"]
        /\ SaveSome([cfg EXCEPT !.addr = btc.id.addr, !.net = btc.id.net], <<"addr", "net">>)
        /\ UNCHANGED <<sku, where, mesh, core, erased, events, http, pending, apart>>
    BY <1>4 DEF Identify, boot
  <2>2. IsNode /\ btc.id \in Identities
    BY <2>1, Middle
  <2>3. cfg' \in Configs
    <3>1. PICK id \in Identities : btc.id = id
      BY <2>2
    <3>2. id.addr \in {0} \cup {i.addr : i \in Identities} /\ id.net \in {0} \cup {i.net : i \in Identities}
      OBVIOUS
    <3>3. SaveSome([cfg EXCEPT !.addr = id.addr, !.net = id.net], <<"addr", "net">>)
      BY <2>1, <3>1
    <3>4. QED BY <1>1, <3>2, <3>3, SavesIdentity
  <2>4. btc' \in Handlings
    BY <2>1 DEF MeshInv, Kinds, Handlings, Idle
  <2>5. events \in Seq(Events)
    BY DEF MeshInv, Kinds
  <2>6. QED BY <1>1, <1>2, <2>1, <2>2, <2>3, <2>4, <2>5
<1>5. CASE SubscribeAll
  <2>1. /\ btc.pc = "subscribe" /\ btc' = Idle
        /\ core' \in Subscribed(core, btc.groups, btc.id.addr)
        /\ apart' = apart \cup (btc.groups \ Listing) \cup (Listing \ (btc.groups \cup core.subs))
                      \cup (btc.groups \ ({NoGroup} \cup core'.subs))
        /\ UNCHANGED <<sku, where, mesh, cfg, erased, events, http, pending>>
    BY <1>5 DEF SubscribeAll, boot, Listing
  <2>2. PICK groups \in SUBSET Addresses : groups = btc.groups
    BY <2>1, Middle
  <2>3. /\ core' \in Cores /\ core'.role = core.role /\ core'.id = core.id
        /\ core'.keys = core.keys /\ core'.bound = core.bound
        /\ core.id = NoId => core' = core
    <3>1. PICK element : element = btc.id.addr
      OBVIOUS
    <3>2. core' \in Subscribed(core, groups, element)
      BY <2>1, <2>2, <3>1
    <3>3. QED BY <1>1, <3>2, CoreSubscribed
  <2>4. apart' \subseteq Addresses /\ btc' \in Handlings
    BY <1>1, <2>1, <2>2 DEF MeshInv, Kinds, Handlings
  <2>5. Kinds'
    BY <2>1, <2>3, <2>4 DEF MeshInv, Kinds
  <2>6. Places'
    BY <2>1, <2>3 DEF MeshInv, Places, IsNode, Clean
  <2>7. QED BY <2>5, <2>6 DEF MeshInv
<1>6. ASSUME NEW op \in {"add", "bind", "delete"}, Handle(op),
             \E k \in Keys \cup {Unused} : UseKey(k) \/ KeepKey,
             UNCHANGED <<sku, where, mesh, core, erased, btc, http, pending, apart>>
      PROVE  MeshInv'
  <2>1. IsNode /\ events' \in Seq(Events) /\ btc' \in Handlings
    BY <1>6, Handles DEF Handlings
  <2>2. cfg' \in Configs
    BY <1>1, <1>6, SavesKey DEF KeepKey
  <2>3. QED BY <1>1, <1>2, <1>6, <2>1, <2>2
<1>7. CASE KeyAdded
  BY <1>6, <1>7, Handles DEF KeyAdded, boot
<1>8. CASE KeyBound
  BY <1>6, <1>8, Handles DEF KeyBound, boot
<1>9. CASE KeyDeleted
  BY <1>6, <1>9, Handles DEF KeyDeleted, boot
<1>10. CASE Reset
  <2>1. IsNode /\ events' \in Seq(Events) /\ btc' \in Handlings
    BY <1>10, ResetIs, Handles DEF Handlings
  <2>2. QED BY <1>2, <1>10, <2>1, ResetIs
<1>11. CASE Forget
  <2>1. /\ btc.pc = "forget" /\ btc' = Idle /\ core' = [core EXCEPT !.adv = core.id = NoId]
        /\ UNCHANGED <<sku, where, mesh, cfg, erased, events, http, pending, apart>>
    BY <1>11 DEF Forget, boot, hist
  <2>2. /\ core' \in Cores /\ core'.role = core.role /\ core'.id = core.id
        /\ core'.keys = core.keys /\ core'.bound = core.bound /\ core'.subs = core.subs
    BY <1>1, <2>1 DEF Cores
  <2>3. btc' \in Handlings
    BY <2>1 DEF Handlings
  <2>4. Kinds'
    BY <2>1, <2>2, <2>3 DEF MeshInv, Kinds
  <2>5. Places'
    BY <2>1, <2>2 DEF MeshInv, Places, IsNode, Clean
  <2>6. QED BY <2>4, <2>5 DEF MeshInv
<1>12. QED BY <1>3, <1>4, <1>5, <1>7, <1>8, <1>9, <1>10, <1>11 DEF Btc

\* The web handlers: none is under way when one is asked for.
LEMMA RequestIs ==
  ASSUME MeshInv, NEW page, Request(page)
  PROVE  where \in page /\ http = Idle /\ http.pc = "idle"
  BY DEF Request, MeshInv, Places, Idle

LEMMA RequestKinds ==
  /\ \A g \in Groups : \A pc \in {"subscribe", "unsubscribe"} : [pc |-> pc, g |-> g] \in Requests
  /\ \A pc \in {"erase", "clear", "restart"} : [pc |-> pc] \in Requests
  /\ Idle \in Requests
  BY DEF Requests

\* A group added or removed.
LEMMA AddGroupIs ==
  ASSUME MeshInv, NEW g \in Groups, AddGroup(g)
  PROVE  /\ Request({"up"})
         /\ UNCHANGED <<sku, where, mesh, core, erased, local, netIdx, appIdx, events, btc, pending,
                        netCut, idCut>>
         /\ keyCut' = (keyCut \/ KeyOverwritten)
         /\ cfg' \in Configs /\ (Clean => Clean') /\ http' \in {http, [pc |-> "subscribe", g |-> g]}
         /\ apart' \subseteq Addresses /\ \A x \in apart : x \in apart'
         /\ Distinct(Load) =>
              \/ http' = [pc |-> "subscribe", g |-> g] /\ UNCHANGED <<cfg, apart>>
              \/ /\ http' = [pc |-> "subscribe", g |-> g] /\ UNCHANGED apart
                 /\ Listing' = Listing \cup {g} /\ Distinct(Load')
              \/ /\ apart' = apart \cup {g} /\ UNCHANGED http
                 /\ Listing' \in {Listing, Listing \cup {g}} /\ Distinct(Load')
              \/ ListDoubted
<1>1. cfg \in Configs /\ apart \subseteq Addresses
  BY DEF MeshInv, Kinds
<1>2. /\ Request({"up"})
      /\ UNCHANGED <<sku, where, mesh, core, erased, local, netIdx, appIdx, events, btc, pending,
                     netCut, idCut>>
      /\ keyCut' = (keyCut \/ KeyOverwritten)
  BY DEF AddGroup, boot, ram
<1>3. PICK c \in Loaded :
        \/ http' = [pc |-> "subscribe", g |-> g] /\ UNCHANGED <<cfg, apart>>
        \/ /\ g \notin InList(c) /\ c.count < MaxGroups
           /\ SaveAll(With(c, g), SaveOrder)
           /\ http' = [pc |-> "subscribe", g |-> g] /\ apart' = apart \cup Misread(c)
        \/ /\ g \notin InList(c) /\ c.count < MaxGroups
           /\ SaveSome(With(c, g), SaveOrder)
           /\ apart' = apart \cup {g} \cup Misread(c) /\ UNCHANGED http
  BY DEF AddGroup
<1>4. /\ c \in Configs /\ c.count \in 0 .. MaxGroups /\ c.addr \in {cfg.addr, 0}
      /\ c.app \in {cfg.app, Unused} /\ Misread(c) \subseteq Addresses
      /\ (Alike(c) /\ Misread(c) = {}) \/ (Short(c) /\ Misread(c) = Addresses)
  BY <1>1, Loadings, LoadedKind
<1>5. CASE UNCHANGED <<cfg, apart>> /\ http' = [pc |-> "subscribe", g |-> g]
  BY <1>1, <1>2, <1>5 DEF Clean
<1>6. CASE /\ g \notin InList(c) /\ c.count < MaxGroups
           /\ \/ /\ SaveAll(With(c, g), SaveOrder)
                 /\ http' = [pc |-> "subscribe", g |-> g] /\ apart' = apart \cup Misread(c)
              \/ /\ SaveSome(With(c, g), SaveOrder)
                 /\ apart' = apart \cup {g} \cup Misread(c) /\ UNCHANGED http
  <2>1. PICK new \in Configs : /\ new = With(c, g) /\ new.addr = c.addr /\ new.app = c.app
                               /\ new.count # Missing
    <3>1. c.count + 1 # Missing
      BY <1>4, <1>6, MeshAssumption DEF MeshAssumption
    <3>2. QED BY <1>4, <1>6, <3>1, WithKind
  <2>2. SaveSome(new, SaveOrder)
    BY <1>1, <1>6, <2>1, SavesAll
  <2>3. cfg' \in Configs /\ (Clean => Clean')
    BY <1>1, <1>4, <2>1, <2>2, Saves DEF Clean
  <2>4. apart' \subseteq Addresses /\ \A x \in apart : x \in apart'
    BY <1>1, <1>4, <1>6 DEF Addresses
  <2>5. ASSUME Distinct(Load), Alike(c), Misread(c) = {}
        PROVE  \/ /\ http' = [pc |-> "subscribe", g |-> g] /\ UNCHANGED apart
                  /\ Listing' = Listing \cup {g} /\ Distinct(Load')
               \/ /\ apart' = apart \cup {g} /\ UNCHANGED http
                  /\ Listing' \in {Listing, Listing \cup {g}} /\ Distinct(Load')
    <3>1. CASE SaveAll(With(c, g), SaveOrder) /\ http' = [pc |-> "subscribe", g |-> g]
               /\ apart' = apart \cup Misread(c)
      BY <1>1, <1>4, <1>6, <2>5, <3>1, SavesAllWith
    <3>2. CASE SaveSome(With(c, g), SaveOrder) /\ apart' = apart \cup {g} \cup Misread(c)
               /\ UNCHANGED http
      BY <1>1, <1>4, <1>6, <2>5, <3>2, SavesWith
    <3>3. QED BY <1>6, <3>1, <3>2
  <2>6. ASSUME Short(c), Misread(c) = Addresses, Distinct(Load)
        PROVE  ListDoubted
    <3>1. Scattered(new.list)
      BY <1>4, <1>6, <2>1, <2>6, ShortLists
    <3>2. QED BY <1>1, <1>6, <2>1, <2>2, <2>6, <3>1, SavesShort DEF ListDoubted
  <2>7. http' \in {http, [pc |-> "subscribe", g |-> g]}
    BY <1>6
  <2>8. QED BY <1>2, <1>4, <2>3, <2>4, <2>5, <2>6, <2>7
<1>7. QED BY <1>3, <1>5, <1>6

LEMMA RemoveGroupIs ==
  ASSUME MeshInv, NEW g \in Groups, RemoveGroup(g)
  PROVE  /\ Request({"up"})
         /\ UNCHANGED <<sku, where, mesh, core, erased, local, netIdx, appIdx, events, btc, pending,
                        netCut, idCut>>
         /\ keyCut' = (keyCut \/ KeyOverwritten)
         /\ cfg' \in Configs /\ (Clean => Clean') /\ http' \in {http, [pc |-> "unsubscribe", g |-> g]}
         /\ apart' \subseteq Addresses /\ \A x \in apart : x \in apart'
         /\ Distinct(Load) =>
              \/ http' = [pc |-> "unsubscribe", g |-> g] /\ UNCHANGED <<cfg, apart>>
              \/ /\ http' = [pc |-> "unsubscribe", g |-> g] /\ UNCHANGED apart
                 /\ Listing' = Listing \ {g} /\ Distinct(Load')
              \/ /\ apart' = apart \cup {g, NoGroup} /\ UNCHANGED http
                 /\ Listing' \in {Listing, Listing \ {g}, (Listing \ {g}) \cup {NoGroup}}
                 /\ Distinct(Load')
              \/ ListDoubted
<1>1. cfg \in Configs /\ apart \subseteq Addresses
  BY DEF MeshInv, Kinds
<1>2. /\ Request({"up"})
      /\ UNCHANGED <<sku, where, mesh, core, erased, local, netIdx, appIdx, events, btc, pending,
                     netCut, idCut>>
      /\ keyCut' = (keyCut \/ KeyOverwritten)
  BY DEF RemoveGroup, boot, ram
<1>3. PICK c \in Loaded :
        \/ http' = [pc |-> "unsubscribe", g |-> g] /\ UNCHANGED <<cfg, apart>>
        \/ /\ g \in InList(c) /\ SaveAll(Without(c, g), SaveOrder)
           /\ http' = [pc |-> "unsubscribe", g |-> g] /\ apart' = apart \cup Misread(c)
        \/ /\ g \in InList(c) /\ SaveSome(Without(c, g), SaveOrder)
           /\ apart' = apart \cup {g, NoGroup} \cup Misread(c) /\ UNCHANGED http
  BY DEF RemoveGroup
<1>4. /\ c \in Configs /\ c.count \in 0 .. MaxGroups /\ c.addr \in {cfg.addr, 0}
      /\ c.app \in {cfg.app, Unused} /\ Misread(c) \subseteq Addresses
      /\ (Alike(c) /\ Misread(c) = {}) \/ (Short(c) /\ Misread(c) = Addresses)
  BY <1>1, Loadings, LoadedKind
<1>5. CASE UNCHANGED <<cfg, apart>> /\ http' = [pc |-> "unsubscribe", g |-> g]
  BY <1>1, <1>2, <1>5 DEF Clean
<1>6. CASE /\ g \in InList(c)
           /\ \/ /\ SaveAll(Without(c, g), SaveOrder)
                 /\ http' = [pc |-> "unsubscribe", g |-> g] /\ apart' = apart \cup Misread(c)
              \/ /\ SaveSome(Without(c, g), SaveOrder)
                 /\ apart' = apart \cup {g, NoGroup} \cup Misread(c) /\ UNCHANGED http
  <2>1. PICK new \in Configs : /\ new = Without(c, g) /\ new.addr = c.addr /\ new.app = c.app
                               /\ new.count # Missing
    <3>1. c.count - 1 # Missing
      <4>1. c.count # 0
        BY <1>4, <1>6 DEF InList
      <4>2. QED BY <1>4, <4>1, MeshAssumption DEF MeshAssumption
    <3>2. QED BY <1>4, <1>6, <3>1, WithoutKind
  <2>2. SaveSome(new, SaveOrder)
    BY <1>1, <1>6, <2>1, SavesAll
  <2>3. cfg' \in Configs /\ (Clean => Clean')
    BY <1>1, <1>4, <2>1, <2>2, Saves DEF Clean
  <2>4. apart' \subseteq Addresses /\ \A x \in apart : x \in apart'
    BY <1>1, <1>4, <1>6 DEF Addresses
  <2>5. ASSUME Distinct(Load), Alike(c), Misread(c) = {}
        PROVE  \/ /\ http' = [pc |-> "unsubscribe", g |-> g] /\ UNCHANGED apart
                  /\ Listing' = Listing \ {g} /\ Distinct(Load')
               \/ /\ apart' = apart \cup {g, NoGroup} /\ UNCHANGED http
                  /\ Listing' \in {Listing, Listing \ {g}, (Listing \ {g}) \cup {NoGroup}}
                  /\ Distinct(Load')
    <3>1. CASE SaveAll(Without(c, g), SaveOrder) /\ http' = [pc |-> "unsubscribe", g |-> g]
               /\ apart' = apart \cup Misread(c)
      BY <1>1, <1>4, <1>6, <2>5, <3>1, SavesAllWithout
    <3>2. CASE SaveSome(Without(c, g), SaveOrder) /\ apart' = apart \cup {g, NoGroup} \cup Misread(c)
               /\ UNCHANGED http
      BY <1>1, <1>4, <1>6, <2>5, <3>2, SavesWithout
    <3>3. QED BY <1>6, <3>1, <3>2
  <2>6. ASSUME Short(c), Misread(c) = Addresses, Distinct(Load)
        PROVE  ListDoubted
    <3>1. Scattered(new.list)
      BY <1>4, <1>6, <2>1, <2>6, ShortLists
    <3>2. QED BY <1>1, <1>6, <2>1, <2>2, <2>6, <3>1, SavesShort DEF ListDoubted
  <2>7. http' \in {http, [pc |-> "unsubscribe", g |-> g]}
    BY <1>6
  <2>8. QED BY <1>2, <1>4, <2>3, <2>4, <2>5, <2>6, <2>7
<1>7. QED BY <1>3, <1>5, <1>6

\* The mode saved, which a running stack has already; the identity goes with another mode.
LEMMA ChooseModeIs ==
  ASSUME MeshInv, ChooseMode
  PROVE  /\ Request({"portal", "up"})
         /\ UNCHANGED <<sku, where, mesh, core, erased, local, netIdx, appIdx, events, btc, pending,
                        netCut>>
         /\ keyCut' = (keyCut \/ KeyOverwritten)
         /\ cfg' \in Configs /\ cfg'.legacy = cfg.legacy /\ (ListSaved \/ ListDoubted)
         /\ apart' \subseteq Addresses /\ \A g \in apart : g \in apart'
         /\ (Clean => Clean') /\ (~idCut' => ~idCut)
         /\ http' \in {http, Idle} \/ (http' = [pc |-> "erase"] /\ Clean')
<1>1. cfg \in Configs /\ apart \subseteq Addresses
  BY DEF MeshInv, Kinds
<1>2. PICK c \in Loaded :
        LET changed == c.mode # Mode(sku)
            new == [IF changed THEN NoIdentity(c) ELSE c EXCEPT !.mode = Mode(sku)]
        IN /\ apart' = apart \cup Misread(c)
           /\ \/ /\ SaveAll(new, SaveOrder) /\ UNCHANGED idCut
                 /\ http' = IF changed THEN [pc |-> "erase"] ELSE Idle
              \/ /\ SaveSome(new, SaveOrder) /\ UNCHANGED http
                 /\ idCut' = (idCut \/ changed)
  BY DEF ChooseMode
<1> DEFINE changed == c.mode # Mode(sku)
           base == IF changed THEN NoIdentity(c) ELSE c
           new == [base EXCEPT !.mode = Mode(sku)]
<1>3. c \in Configs /\ c.addr \in {cfg.addr, 0} /\ c.app \in {cfg.app, Unused}
  BY <1>1, Loadings
<1>4. /\ base \in Configs /\ base.count = c.count /\ base.list = c.list
      /\ base.addr \in {cfg.addr, 0} /\ base.app \in {cfg.app, Unused}
      /\ changed => base.addr = 0 /\ base.app = Unused
  BY <1>3, NoIdentityKind
<1>5. /\ apart' = apart \cup Misread(c)
      /\ \/ /\ SaveAll(new, SaveOrder) /\ UNCHANGED idCut
            /\ http' = IF changed THEN [pc |-> "erase"] ELSE Idle
         \/ /\ SaveSome(new, SaveOrder) /\ UNCHANGED http
            /\ idCut' = (idCut \/ changed)
  BY <1>2
<1> HIDE DEF base
<1>6. /\ new \in Configs /\ new.addr = base.addr /\ new.app = base.app
      /\ new.count = c.count /\ new.list = c.list
  BY <1>4, ModeSet
<1> HIDE DEF new, changed
<1>7. SaveSome(new, SaveOrder)
  BY <1>1, <1>5, <1>6, SavesAll
<1>8. /\ cfg' \in Configs /\ cfg'.legacy = cfg.legacy /\ (ListSaved \/ ListDoubted)
      /\ cfg'.addr \in {cfg.addr, new.addr} /\ cfg'.app \in {cfg.app, new.app}
  BY <1>1, <1>5, <1>6, <1>7, WritesBack, Saves
<1>9. Clean => Clean'
  BY <1>4, <1>6, <1>8 DEF Clean
<1>10. /\ ~idCut' => ~idCut
       /\ http' \in {http, Idle} \/ (http' = [pc |-> "erase"] /\ Clean')
  <2>1. SaveAll(new, SaveOrder) /\ changed => Clean'
    BY <1>1, <1>4, <1>6, SavesAll DEF Clean
  <2>2. ~idCut' => ~idCut
    BY <1>5
  <2>3. \/ http' = [pc |-> "erase"] /\ SaveAll(new, SaveOrder) /\ changed
        \/ http' = Idle \/ http' = http
    BY <1>5, Zenon
  <2>4. QED BY <2>1, <2>2, <2>3
<1>11. apart' \subseteq Addresses /\ \A g \in apart : g \in apart'
  BY <1>1, <1>5, LoadedKind
<1>12. /\ Request({"portal", "up"})
       /\ UNCHANGED <<sku, where, mesh, core, erased, local, netIdx, appIdx, events, btc, pending,
                      netCut>>
       /\ keyCut' = (keyCut \/ KeyOverwritten)
  BY DEF ChooseMode, boot, ram
<1>13. QED BY <1>8, <1>9, <1>10, <1>11, <1>12

LEMMA WifiSetIs ==
  ASSUME MeshInv, WifiSet
  PROVE  /\ Request({"portal", "up"}) /\ http' = [pc |-> "restart"]
         /\ UNCHANGED <<sku, where, mesh, core, erased, local, netIdx, appIdx, events, btc, pending,
                        keyCut, netCut, idCut>>
         /\ cfg' \in Configs /\ cfg'.legacy = cfg.legacy /\ (ListSaved \/ ListDoubted)
         /\ apart' \subseteq Addresses /\ \A g \in apart : g \in apart'
         /\ Clean => Clean'
<1>1. cfg \in Configs /\ apart \subseteq Addresses
  BY DEF MeshInv, Kinds
<1>2. /\ Request({"portal", "up"}) /\ http' = [pc |-> "restart"]
      /\ UNCHANGED <<sku, where, mesh, core, erased, local, netIdx, appIdx, events, btc, pending,
                     keyCut, netCut, idCut>>
      /\ \/ UNCHANGED <<cfg, apart>>
         \/ \E c \in Loaded : /\ SaveSome([c EXCEPT !.mode = Mode(sku)], SaveOrder)
                              /\ apart' = apart \cup Misread(c)
  BY DEF WifiSet, boot, ram
<1>3. CASE UNCHANGED <<cfg, apart>>
  BY <1>1, <1>2, <1>3 DEF ListSaved, Clean
<1>4. ASSUME NEW c \in Loaded, SaveSome([c EXCEPT !.mode = Mode(sku)], SaveOrder),
             apart' = apart \cup Misread(c)
      PROVE  /\ cfg' \in Configs /\ cfg'.legacy = cfg.legacy /\ (ListSaved \/ ListDoubted)
             /\ apart' \subseteq Addresses /\ \A g \in apart : g \in apart'
             /\ Clean => Clean'
  <2>1. c \in Configs /\ c.addr \in {cfg.addr, 0} /\ c.app \in {cfg.app, Unused}
    BY <1>1, Loadings
  <2>2. PICK new \in Configs : /\ new = [c EXCEPT !.mode = Mode(sku)]
                               /\ new.addr = c.addr /\ new.app = c.app
                               /\ new.count = c.count /\ new.list = c.list
    BY <2>1, ModeSet
  <2>3. /\ cfg' \in Configs /\ cfg'.legacy = cfg.legacy /\ (ListSaved \/ ListDoubted)
        /\ cfg'.addr \in {cfg.addr, new.addr} /\ cfg'.app \in {cfg.app, new.app}
    BY <1>1, <1>4, <2>2, WritesBack, Saves
  <2>4. Clean => Clean'
    BY <2>1, <2>2, <2>3 DEF Clean
  <2>5. QED BY <1>1, <1>4, <2>3, <2>4, LoadedKind
<1>5. QED BY <1>2, <1>3, <1>4

\* The end of a reset of the role.
LEMMA ClearIs ==
  ASSUME MeshInv, ClearIdentity
  PROVE  /\ http.pc = "clear" /\ http' = [pc |-> "restart"]
         /\ UNCHANGED <<sku, where, mesh, core, erased, local, netIdx, appIdx, events, btc, pending,
                        keyCut, netCut>>
         /\ cfg' \in Configs /\ cfg'.legacy = cfg.legacy /\ (ListSaved \/ ListDoubted)
         /\ apart' \subseteq Addresses /\ \A g \in apart : g \in apart'
         /\ ~idCut' => ~idCut /\ Clean'
<1>1. cfg \in Configs /\ apart \subseteq Addresses
  BY DEF MeshInv, Kinds
<1>2. PICK c \in Loaded :
        /\ apart' = apart \cup Misread(c)
        /\ \/ SaveAll(NoIdentity(c), SaveOrder) /\ UNCHANGED idCut
           \/ SaveSome(NoIdentity(c), SaveOrder) /\ idCut' = TRUE
  BY DEF ClearIdentity
<1>3. /\ cfg' \in Configs /\ cfg'.legacy = cfg.legacy /\ (ListSaved \/ ListDoubted)
      /\ apart' \subseteq Addresses /\ \A g \in apart : g \in apart'
      /\ SaveAll(NoIdentity(c), SaveOrder) => Clean'
  BY <1>1, <1>2, Forgets DEF Clean
<1>4. /\ http.pc = "clear" /\ http' = [pc |-> "restart"]
      /\ UNCHANGED <<sku, where, mesh, core, erased, local, netIdx, appIdx, events, btc, pending,
                     keyCut, netCut>>
  BY DEF ClearIdentity, boot, ram
<1>5. QED BY <1>2, <1>3, <1>4

LEMMA EraseIs ==
  ASSUME core \in Cores, EraseStack
  PROVE  /\ mesh = "up" => core' = core /\ erased' = TRUE
         /\ mesh # "up" => core' = Fresh /\ erased' = erased
  BY FreshKind DEF EraseStack

LEMMA MeshHttp == ASSUME MeshInv, AddedGroup \/ RemovedGroup \/ ModeChosen \/ ClearIdentity PROVE MeshInv'
<1>1. cfg \in Configs /\ core \in Cores /\ http \in Requests
  BY DEF MeshInv, Kinds
<1>2. ASSUME UNCHANGED <<sku, where, mesh, cfg, erased, events, btc, pending>>,
             http.pc \in {"subscribe", "unsubscribe"},
             core' \in Cores, core'.role = core.role, core'.id = core.id, core'.keys = core.keys,
             core'.bound = core.bound, core.id = NoId => core'.subs = {},
             http' = Idle, apart' \subseteq Addresses
      PROVE  MeshInv'
  <2>1. Kinds'
    BY <1>2, RequestKinds DEF MeshInv, Kinds
  <2>2. Places'
    BY <1>2 DEF MeshInv, Places, IsNode, Clean, Idle
  <2>3. QED BY <2>1, <2>2 DEF MeshInv
<1>3. http.pc \in {"subscribe", "unsubscribe"} => http.g \in Groups
  BY <1>1 DEF Requests, Idle
<1>4. apart \subseteq Addresses /\ (core.id = NoId => core.subs = {})
  BY DEF MeshInv, Kinds
<1>5. CASE AddedGroup
  <2>1. /\ http.pc = "subscribe" /\ http' = Idle /\ core' \in Subscribed(core, {http.g}, local)
        /\ apart' \in {apart, apart \ {http.g}, apart \cup {http.g}}
        /\ UNCHANGED <<sku, where, mesh, cfg, erased, events, btc, pending>>
    BY <1>5 DEF AddedGroup, boot
  <2>2. PICK groups \in SUBSET Addresses : groups = {http.g}
    BY <1>3, <2>1 DEF Addresses
  <2>3. /\ core' \in Cores /\ core'.role = core.role /\ core'.id = core.id
        /\ core'.keys = core.keys /\ core'.bound = core.bound /\ (core.id = NoId => core' = core)
    BY <1>1, <2>1, <2>2, CoreSubscribed
  <2>4. apart' \subseteq Addresses
    BY <1>3, <1>4, <2>1 DEF Addresses
  <2>5. QED BY <1>2, <1>3, <1>4, <2>1, <2>3, <2>4
<1>6. CASE RemovedGroup
  <2>1. /\ http.pc = "unsubscribe" /\ http' = Idle /\ core' = Unsubscribed(core, http.g, local)
        /\ apart' \in {apart \ {http.g}, apart \cup {http.g}}
        /\ UNCHANGED <<sku, where, mesh, cfg, erased, events, btc, pending>>
    BY <1>6 DEF RemovedGroup, boot
  <2>2. /\ core' \in Cores /\ core'.role = core.role /\ core'.id = core.id
        /\ core'.keys = core.keys /\ core'.bound = core.bound /\ core'.subs \in {core.subs, core.subs \ {http.g}}
    BY <1>1, <2>1, UnsubscribedKind
  <2>3. apart' \subseteq Addresses
    BY <1>3, <1>4, <2>1 DEF Addresses
  <2>4. QED BY <1>2, <1>3, <1>4, <2>1, <2>2, <2>3
<1>7. CASE ModeChosen
  <2>1. /\ http.pc = "erase" /\ http' = Idle
        /\ EraseStack \/ UNCHANGED <<core, erased>>
        /\ UNCHANGED <<sku, where, mesh, cfg, events, btc, pending, apart>>
    BY <1>7 DEF ModeChosen, boot
  <2>2. mesh # "up" => events = <<>> /\ btc = Idle
    BY DEF MeshInv, Places, IsNode
  <2>3. /\ core' = core \/ (core' = Fresh /\ mesh # "up")
        /\ erased' = erased \/ (erased' = TRUE /\ mesh = "up")
    BY <1>1, <2>1, EraseIs
  <2>4. Kinds'
    BY <2>1, <2>3, FreshKind, NoOne, RequestKinds DEF MeshInv, Kinds
  <2>5. Places'
    BY <2>1, <2>3 DEF MeshInv, Places, IsNode, Idle
  <2>6. QED BY <2>4, <2>5 DEF MeshInv
<1>8. CASE ClearIdentity
  <2>1. Kinds'
    BY <1>8, ClearIs, RequestKinds DEF MeshInv, Kinds
  <2>2. /\ http'.pc = "restart" /\ http.pc = "clear"
        /\ UNCHANGED <<sku, where, mesh, core, erased, events, btc>>
    BY <1>8, ClearIs
  <2>3. Places'
    BY <2>2 DEF MeshInv, Places, IsNode, Idle
  <2>4. QED BY <2>1, <2>3 DEF MeshInv
<1>9. QED BY <1>5, <1>6, <1>7, <1>8

LEMMA MeshRequested == ASSUME MeshInv, Requested PROVE MeshInv'
<1>1. cfg \in Configs /\ core \in Cores
  BY DEF MeshInv, Kinds
\* A handler that saves, and goes on or not.
<1>2. ASSUME NEW page, Request(page), UNCHANGED <<sku, where, mesh, core, erased, events, btc, pending>>,
             page \subseteq {"portal", "up"},
             cfg' \in Configs, apart' \subseteq Addresses,
             http' \in Requests, http'.pc \in {"idle", "subscribe", "unsubscribe", "restart"}
      PROVE  MeshInv'
  <2>1. where \in {"portal", "up"}
    BY <1>2, RequestIs
  <2>2. Kinds'
    BY <1>2 DEF MeshInv, Kinds
  <2>3. Places'
    BY <1>2, <2>1 DEF MeshInv, Places, IsNode
  <2>4. QED BY <2>2, <2>3 DEF MeshInv
<1>3. ASSUME NEW g \in Groups, AddGroup(g) PROVE MeshInv'
  <2>1. apart' \subseteq Addresses
    BY <1>3, AddGroupIs
  <2>2. /\ Request({"up"}) /\ http' \in {http, [pc |-> "subscribe", g |-> g]}
        /\ UNCHANGED <<sku, where, mesh, core, erased, events, btc, pending>> /\ cfg' \in Configs
    BY <1>3, AddGroupIs
  <2>3. http = Idle
    BY <2>2, RequestIs
  <2>4. http' \in Requests /\ http'.pc \in {"idle", "subscribe"}
    <3>1. CASE http' = Idle
      BY <3>1, RequestKinds DEF Idle
    <3>2. CASE http' = [pc |-> "subscribe", g |-> g]
      BY <3>2, RequestKinds
    <3>3. QED BY <2>2, <2>3, <3>1, <3>2
  <2>5. QED BY <1>2, <2>1, <2>2, <2>4
<1>4. ASSUME NEW g \in Groups, RemoveGroup(g) PROVE MeshInv'
  <2>1. apart' \subseteq Addresses
    BY <1>4, RemoveGroupIs
  <2>2. /\ Request({"up"}) /\ http' \in {http, [pc |-> "unsubscribe", g |-> g]}
        /\ UNCHANGED <<sku, where, mesh, core, erased, events, btc, pending>> /\ cfg' \in Configs
    BY <1>4, RemoveGroupIs
  <2>3. http = Idle
    BY <2>2, RequestIs
  <2>4. http' \in Requests /\ http'.pc \in {"idle", "unsubscribe"}
    <3>1. CASE http' = Idle
      BY <3>1, RequestKinds DEF Idle
    <3>2. CASE http' = [pc |-> "unsubscribe", g |-> g]
      BY <3>2, RequestKinds
    <3>3. QED BY <2>2, <2>3, <3>1, <3>2
  <2>5. QED BY <1>2, <2>1, <2>2, <2>4
<1>5. CASE Leave
  <2>1. /\ Request({"up"})
        /\ UNCHANGED <<sku, where, mesh, cfg, erased, btc, http, pending, apart>>
        /\ \/ IsNode /\ core' = Left /\ events' = Append(events, [op |-> "reset"])
           \/ UNCHANGED <<core, events>>
    BY <1>5 DEF Leave, boot, tasks, hist, IsNode
  <2>2. CASE UNCHANGED <<core, events>>
    BY <2>1, <2>2, MeshStutter DEF meshvars, boot, tasks
  <2>3. CASE IsNode /\ core' = Left /\ events' = Append(events, [op |-> "reset"])
    <3>1. events' \in Seq(Events)
      BY <2>3, EventKinds, QueueAppend DEF MeshInv, Kinds
    <3>2. core' \in Cores /\ core'.role = core.role /\ core'.id = NoId /\ core'.keys = {}
          /\ core'.bound = {} /\ core'.subs = {}
      BY <1>1, <2>3, LeftKind
    <3>3. Kinds'
      BY <2>1, <3>1, <3>2, NoOne DEF MeshInv, Kinds
    <3>4. http.pc = "idle"
      BY <2>1, RequestIs
    <3>5. Places'
      BY <2>1, <2>3, <3>2, <3>4 DEF MeshInv, Places, IsNode, Clean
    <3>6. QED BY <3>3, <3>5 DEF MeshInv
  <2>4. QED BY <2>1, <2>2, <2>3
<1>6. CASE ChooseMode
  <2>1. CASE http' \in {http, Idle}
    <3>1. http' \in Requests /\ http'.pc = "idle"
      BY <1>6, <2>1, ChooseModeIs, RequestIs, RequestKinds DEF Idle
    <3>2. QED BY <1>2, <1>6, <3>1, ChooseModeIs
  <2>2. CASE http' = [pc |-> "erase"] /\ Clean'
    <3>1. Kinds'
      BY <1>6, <2>2, ChooseModeIs, RequestKinds DEF MeshInv, Kinds
    <3>2. where \in {"portal", "up"} /\ UNCHANGED <<sku, where, mesh, core, erased, events, btc>>
      BY <1>6, ChooseModeIs, RequestIs
    <3>3. Places'
      BY <2>2, <3>2 DEF MeshInv, Places, IsNode
    <3>4. QED BY <3>1, <3>3 DEF MeshInv
  <2>3. QED BY <1>6, <2>1, <2>2, ChooseModeIs
<1>7. CASE WifiSet
  <2>1. http' \in Requests /\ http'.pc = "restart"
    BY <1>7, WifiSetIs, RequestKinds
  <2>2. QED BY <1>2, <1>7, <2>1, WifiSetIs
<1>8. CASE ResetRole
  <2>1. /\ Request({"up"}) /\ EraseStack /\ http' = [pc |-> "clear"]
        /\ UNCHANGED <<sku, where, mesh, cfg, events, btc, pending, apart>>
    BY <1>8 DEF ResetRole, boot, hist
  <2>2. where = "up"
    BY <2>1, RequestIs
  <2>3. CASE mesh = "up"
    <3>1. UNCHANGED core /\ erased' = TRUE
      BY <1>1, <2>1, <2>3, EraseIs
    <3>2. Kinds'
      BY <2>1, <3>1, RequestKinds DEF MeshInv, Kinds
    <3>3. Places'
      BY <2>1, <2>2, <2>3, <3>1 DEF MeshInv, Places, IsNode
    <3>4. QED BY <3>2, <3>3 DEF MeshInv
  <2>4. CASE mesh # "up"
    <3>1. core' = Fresh /\ UNCHANGED erased
      BY <1>1, <2>1, <2>4, EraseIs
    <3>2. Kinds'
      BY <2>1, <3>1, RequestKinds, FreshKind, NoOne DEF MeshInv, Kinds
    <3>3. Places'
      BY <2>1, <2>2, <2>4, <3>1, FreshKind DEF MeshInv, Places, IsNode
    <3>4. QED BY <3>2, <3>3 DEF MeshInv
  <2>5. QED BY <2>3, <2>4
<1>9. CASE Discover
  <2>1. /\ UNCHANGED <<sku, where, mesh, cfg, core, erased, events, btc, apart>>
        /\ pending' \subseteq Addresses /\ Request({"up"}) /\ UNCHANGED http
    BY <1>1, <1>9, LoadedKind DEF Discover, Enqueue, boot, tasks, hist, MeshInv, Kinds
  <2>2. Kinds'
    BY <2>1 DEF MeshInv, Kinds
  <2>3. Places'
    BY <2>1 DEF MeshInv, Places, IsNode, Clean
  <2>4. QED BY <2>2, <2>3 DEF MeshInv
<1>10. QED BY <1>3, <1>4, <1>5, <1>6, <1>7, <1>8, <1>9 DEF Requested

LEMMA MeshProbes ==
  ASSUME MeshInv, TimerFires \/ \E g \in Addresses : Probe(g)
  PROVE  MeshInv' /\ UNCHANGED <<boot, cfg, core, erased, ram, events, tasks, hist>>
<1>1. UNCHANGED <<boot, cfg, core, erased, ram, events, tasks, hist>>
  BY DEF TimerFires, Enqueue, Probe
<1>2. pending' \subseteq Addresses
  BY LoadedKind DEF TimerFires, Enqueue, Probe, MeshInv, Kinds
<1>3. Kinds'
  BY <1>1, <1>2 DEF MeshInv, Kinds, boot, tasks, hist
<1>4. Places'
  BY <1>1 DEF MeshInv, Places, IsNode, Clean, boot, tasks
<1>5. QED BY <1>1, <1>3, <1>4 DEF MeshInv

LEMMA Reboots ==
  ASSUME MeshInv, PowerFails \/ Restart
  PROVE  \E role \in Roles : Reboot(role)
  BY DEF PowerFails, Restart, MeshInv, Kinds

LEMMA MeshNext == ASSUME MeshInv, [Next]_vars PROVE MeshInv'
<1>1. CASE BootToPortal \/ BootStep
  BY <1>1, MeshBoot
<1>2. CASE PowerFails \/ Restart
  BY <1>2, Reboots, MeshReboot
<1>3. CASE Provisioner
  BY <1>3, MeshProvisioner
<1>4. CASE Btc
  BY <1>4, MeshBtc
<1>5. CASE AddedGroup \/ RemovedGroup \/ ModeChosen \/ ClearIdentity
  BY <1>5, MeshHttp
<1>6. CASE Requested
  BY <1>6, MeshRequested
<1>7. CASE TimerFires \/ \E g \in Addresses : Probe(g)
  BY <1>7, MeshProbes
<1>8. CASE UNCHANGED vars
  BY <1>8, MeshStutter DEF vars, meshvars, hist
<1>9. QED BY <1>1, <1>2, <1>3, <1>4, <1>5, <1>6, <1>7, <1>8 DEF Next, HttpStep, Addresses

\* The type invariant.
THEOREM MeshTypeCorrect == Spec => []TypeOK
<1>1. MeshInv => TypeOK
  BY DEF MeshInv, Kinds, TypeOK, Configs, Modes, Lists, Addresses, Cores
<1>2. QED BY <1>1, MeshInit, MeshNext, PTL DEF Spec

(***************************************************************************)
(* The order of the stack's events.                                        *)
(***************************************************************************)
Resetting == events # <<>> /\ events[Len(events)].op = "reset"
Identifying == btc.pc \in {"identify", "subscribe"}

\* A reset is the last the stack reports until the bridge may be found again.  The identity
\* joined with is reported first, and handled before anything else.
Order ==
  /\ \A i \in 1 .. Len(events) :
       /\ events[i].op = "reset" => i = Len(events) /\ core.id = NoId /\ ~core.adv
       /\ events[i].op = "complete" => i = 1 /\ btc = Idle /\ core.id \in {NoId, events[i].id}
  /\ btc.pc = "forget" => core.id = NoId /\ ~core.adv /\ events = <<>>
  /\ core.id = NoId /\ (events # <<>> \/ Identifying) => Resetting
  /\ Identifying => core.id \in {NoId, btc.id}

LEMMA OrderStutter ==
  ASSUME Order, UNCHANGED <<events, btc>>, core'.id = core.id, core'.adv = core.adv
  PROVE  Order'
  BY DEF Order, Resetting, Identifying

LEMMA OrderEmpty == ASSUME events' = <<>>, btc' = Idle PROVE Order'
  BY DEF Order, Resetting, Identifying, Idle

LEMMA OrderInit == Init => Order
  BY DEF Init, Order, Resetting, Identifying, Idle

\* What is appended, and what is left when the head is handled.
LEMMA Appended ==
  ASSUME events \in Seq(Events), NEW e \in Events, events' = Append(events, e)
  PROVE  /\ Len(events) \in Nat /\ Len(events') = Len(events) + 1 /\ events' # <<>>
         /\ events'[Len(events) + 1] = e
         /\ \A i \in 1 .. Len(events) : events'[i] = events[i]
         /\ \A i \in 1 .. Len(events') : i \in 1 .. Len(events) \/ i = Len(events) + 1
<1>1. /\ Len(events) \in Nat /\ Len(events') = Len(events) + 1 /\ events'[Len(events) + 1] = e
      /\ \A i \in 1 .. Len(events) : events'[i] = events[i]
  BY QueueAppend
<1>2. events' # <<>>
  BY <1>1
<1>3. QED BY <1>1, <1>2

LEMMA TailLeft ==
  ASSUME MeshInv, NEW op, Handle(op)
  PROVE  /\ Len(events) \in Nat \ {0} /\ Len(events') = Len(events) - 1 /\ events[1].op = op
         /\ Head(events) = events[1]
         /\ \A i \in 1 .. Len(events') : i + 1 \in 2 .. Len(events) /\ events'[i] = events[i + 1]
         /\ events' = <<>> <=> Len(events) = 1
<1>1. events \in Seq(Events) /\ events # <<>> /\ events' = Tail(events) /\ Head(events).op = op
  BY Handles
<1>2. /\ Tail(events) \in Seq(Events) /\ Len(events) \in Nat \ {0}
      /\ Len(Tail(events)) = Len(events) - 1 /\ Head(events) = events[1]
      /\ \A i \in 1 .. Len(Tail(events)) : Tail(events)[i] = events[i + 1]
  BY <1>1, QueueTail
<1>3. events' = <<>> <=> Len(events) = 1
  <2>1. Tail(events) \in Seq(Events) /\ Len(Tail(events)) = 0 => Tail(events) = <<>>
    BY EmptySeq
  <2>2. Tail(events) = <<>> => Len(Tail(events)) = 0
    OBVIOUS
  <2>3. QED BY <1>1, <1>2, <2>1, <2>2
<1>4. QED BY <1>1, <1>2, <1>3

\* A reset that is pending stays pending until it is handled.
LEMMA StillResetting ==
  ASSUME MeshInv, NEW op, Handle(op), op # "reset", Resetting
  PROVE  Resetting'
<1>1. Len(events) # 1
  BY TailLeft DEF Resetting
<1>2. Len(events') \in 1 .. Len(events') /\ Len(events') + 1 = Len(events) /\ events' # <<>>
  BY <1>1, TailLeft
<1>3. QED BY <1>2, TailLeft DEF Resetting

LEMMA OrderHandled ==
  ASSUME MeshInv, Order, NEW op, Handle(op), op # "reset", UNCHANGED core,
         \/ btc' = Idle /\ op # "complete"
         \/ op = "complete" /\ btc'.pc = "identify" /\ btc'.id = Head(events).id
  PROVE  Order'
<1>1. ASSUME NEW i \in 1 .. Len(events')
      PROVE  /\ events'[i].op = "reset" => i = Len(events') /\ core.id = NoId /\ ~core.adv
             /\ events'[i].op # "complete"
  <2>1. i + 1 \in 1 .. Len(events) /\ i + 1 # 1 /\ events'[i] = events[i + 1]
        /\ Len(events') = Len(events) - 1 /\ Len(events) \in Nat
    BY TailLeft
  <2>2. QED BY <2>1 DEF Order
<1>2. core.id = NoId => Resetting'
  BY StillResetting, Handles DEF Order
<1>3. Identifying' => core.id \in {NoId, btc'.id}
  BY TailLeft DEF Order, Identifying, Idle
<1>4. btc'.pc # "forget"
  BY DEF Idle
<1>5. QED BY <1>1, <1>2, <1>3, <1>4 DEF Order

LEMMA OrderBtc == ASSUME MeshInv, Order, Btc PROVE Order'
<1>1. CASE Complete
  BY <1>1, OrderHandled DEF Complete
<1>2. CASE Identify
  BY <1>2, Middle DEF Identify, Order, Resetting, Identifying, MeshInv, Kinds, Handlings, Idle
<1>3. CASE SubscribeAll
  <2>1. /\ btc.pc = "subscribe" /\ btc' = Idle /\ UNCHANGED events
        /\ core' \in Subscribed(core, btc.groups, btc.id.addr)
    BY <1>3 DEF SubscribeAll
  <2>2. PICK groups \in SUBSET Addresses : groups = btc.groups
    BY <2>1, Middle
  <2>3. core'.id = core.id /\ core'.adv = core.adv
    <3>1. PICK element : element = btc.id.addr
      OBVIOUS
    <3>2. core \in Cores /\ core' \in Subscribed(core, groups, element)
      BY <2>1, <2>2, <3>1 DEF MeshInv, Kinds
    <3>3. QED BY <3>2, CoreSubscribed
  <2>4. QED BY <2>1, <2>3 DEF Order, Resetting, Identifying, Idle
<1>4. CASE KeyAdded
  BY <1>4, OrderHandled, Handles DEF KeyAdded
<1>5. CASE KeyBound
  BY <1>5, OrderHandled, Handles DEF KeyBound
<1>6. CASE KeyDeleted
  BY <1>6, OrderHandled, Handles DEF KeyDeleted
<1>7. CASE Reset
  <2>1. Handle("reset") /\ btc' = [pc |-> "forget"] /\ UNCHANGED core
    BY <1>7 DEF Reset
  <2>2. events' = <<>> /\ core.id = NoId /\ ~core.adv
    BY <2>1, TailLeft DEF Order
  <2>3. QED BY <2>1, <2>2 DEF Order, Resetting, Identifying
<1>8. CASE Forget
  BY <1>8, OrderEmpty DEF Forget, Order
<1>9. QED BY <1>1, <1>2, <1>3, <1>4, <1>5, <1>6, <1>7, <1>8 DEF Btc

LEMMA OrderAppended ==
  ASSUME MeshInv, Order, NEW e \in Events, e.op # "complete", core.id # NoId, core'.id = core.id,
         core'.adv = core.adv, e.op # "reset", events' = Append(events, e), UNCHANGED btc
  PROVE  Order'
<1>1. events \in Seq(Events)
  BY DEF MeshInv, Kinds
<1>2. \A i \in 1 .. Len(events') :
         /\ events'[i].op # "reset"
         /\ events'[i].op = "complete" => i = 1 /\ btc = Idle /\ core.id \in {NoId, events'[i].id}
  BY <1>1, Appended DEF Order
<1>3. QED BY <1>2 DEF Order, Identifying

LEMMA OrderLeft ==
  ASSUME MeshInv, Order, core.id # NoId, core' = Left, events' = Append(events, [op |-> "reset"]),
         UNCHANGED btc
  PROVE  Order'
<1>1. /\ events \in Seq(Events) /\ core'.id = NoId /\ ~core'.adv
      /\ [op |-> "reset"] \in Events
  BY LeftKind, EventKinds DEF MeshInv, Kinds
<1>2. \A i \in 1 .. Len(events') :
         /\ events'[i].op = "reset" => i = Len(events')
         /\ events'[i].op = "complete" => i = 1 /\ btc = Idle
  BY <1>1, Appended DEF Order
<1>3. Resetting'
  BY <1>1, Appended DEF Resetting
<1>4. QED BY <1>1, <1>2, <1>3 DEF Order, Identifying

LEMMA OrderProvisioner == ASSUME MeshInv, Order, Provisioner PROVE Order'
<1>1. core \in Cores /\ events \in Seq(Events) /\ btc \in Handlings
  BY DEF MeshInv, Kinds
<1>2. CASE Join
  <2>1. PICK id \in Identities : /\ core.id = NoId /\ core.adv
                                 /\ core' = [core EXCEPT !.id = id, !.adv = FALSE]
                                 /\ Change([op |-> "complete", id |-> id])
    BY <1>2 DEF Join
  <2>2. core'.id = id
    BY <1>1, <2>1 DEF Cores
  <2>3. events' = Append(events, [op |-> "complete", id |-> id]) /\ UNCHANGED btc
    BY <2>1 DEF Change, tasks
  <2>4. ~Resetting
    <3>1. Len(events) \in Nat /\ (events # <<>> => Len(events) \in 1 .. Len(events))
      BY <1>1
    <3>2. QED BY <2>1, <3>1 DEF Order, Resetting
  <2>5. events = <<>> /\ ~Identifying /\ btc.pc # "forget"
    BY <2>1, <2>4 DEF Order
  <2>6. btc = Idle
    BY <1>1, <2>5 DEF Handlings, Identifying
  <2>7. events' = <<[op |-> "complete", id |-> id]>> /\ btc' = Idle
    BY <2>3, <2>5, <2>6
  <2>8. QED BY <2>2, <2>7, NoOne DEF Order, Resetting, Identifying, Idle
<1>3. CASE AddKey
  <2>1. PICK k \in Keys : /\ core.id # NoId /\ core' = [core EXCEPT !.keys = @ \cup {k}]
                          /\ events' = Append(events, [op |-> "add", key |-> k]) /\ UNCHANGED btc
    BY <1>3 DEF AddKey, Change, tasks
  <2>2. core'.id = core.id /\ core'.adv = core.adv
    BY <1>1, <2>1 DEF Cores
  <2>3. QED BY <2>1, <2>2, OrderAppended, EventKinds
<1>4. CASE BindKey
  <2>1. PICK k \in core.keys : /\ core' = [core EXCEPT !.bound = @ \cup {k}]
                               /\ Change([op |-> "bind", key |-> k])
    BY <1>4 DEF BindKey
  <2>2. core'.id = core.id /\ core'.adv = core.adv
    BY <1>1, <2>1 DEF Cores
  <2>3. core.id # NoId /\ k \in Keys
    BY <2>1 DEF MeshInv, Kinds, Places, Change, IsNode
  <2>4. events' = Append(events, [op |-> "bind", key |-> k]) /\ UNCHANGED btc
    BY <2>1 DEF Change, tasks
  <2>5. QED BY <2>2, <2>3, <2>4, OrderAppended, EventKinds
<1>5. CASE DeleteKey
  <2>1. PICK k \in core.keys : /\ core' = [core EXCEPT !.keys = @ \ {k}, !.bound = @ \ {k}]
                               /\ Change([op |-> "delete", key |-> k])
    BY <1>5 DEF DeleteKey
  <2>2. core'.id = core.id /\ core'.adv = core.adv
    BY <1>1, <2>1 DEF Cores
  <2>3. core.id # NoId /\ k \in Keys
    BY <2>1 DEF MeshInv, Kinds, Places, Change, IsNode
  <2>4. events' = Append(events, [op |-> "delete", key |-> k]) /\ UNCHANGED btc
    BY <2>1 DEF Change, tasks
  <2>5. QED BY <2>2, <2>3, <2>4, OrderAppended, EventKinds
<1>6. CASE ResetByProvisioner
  <2>1. core.id # NoId /\ core' = Left /\ events' = Append(events, [op |-> "reset"]) /\ UNCHANGED btc
    BY <1>6 DEF ResetByProvisioner, Change, tasks
  <2>2. QED BY <2>1, OrderLeft
<1>7. CASE DeleteNetKey \/ ChangeSubscription
  BY <1>7, Untold, OrderStutter
<1>8. QED BY <1>2, <1>3, <1>4, <1>5, <1>6, <1>7 DEF Provisioner

\* The web handlers leave the stack where it is, or make it leave the mesh, or erase it when
\* it does not run.
LEMMA HttpKeeps ==
  ASSUME MeshInv, AddedGroup \/ RemovedGroup \/ ModeChosen \/ ClearIdentity \/ Requested
  PROVE  /\ UNCHANGED btc
         /\ \/ UNCHANGED events /\ core'.id = core.id /\ core'.adv = core.adv /\ core'.keys = core.keys
            \/ core.id # NoId /\ core' = Left /\ events' = Append(events, [op |-> "reset"]) /\ Leave
            \/ ~IsNode /\ UNCHANGED events
<1>1. core \in Cores /\ http \in Requests
  BY DEF MeshInv, Kinds
<1>2. CASE AddedGroup
  <2>1. /\ http.pc = "subscribe" /\ core' \in Subscribed(core, {http.g}, local)
        /\ UNCHANGED <<events, btc>>
    BY <1>2 DEF AddedGroup
  <2>2. PICK groups \in SUBSET Addresses : groups = {http.g}
    BY <1>1, <2>1 DEF Addresses, Requests, Idle
  <2>3. core'.id = core.id /\ core'.adv = core.adv /\ core'.keys = core.keys
    BY <1>1, <2>1, <2>2, CoreSubscribed
  <2>4. QED BY <2>1, <2>3
<1>3. CASE RemovedGroup
  <2>1. core' = Unsubscribed(core, http.g, local) /\ UNCHANGED <<events, btc>>
    BY <1>3 DEF RemovedGroup
  <2>2. QED BY <1>1, <2>1, UnsubscribedKind
<1>4. CASE ModeChosen
  <2>1. (EraseStack \/ UNCHANGED core) /\ UNCHANGED <<events, btc>>
    BY <1>4 DEF ModeChosen
  <2>2. QED BY <1>1, <2>1, EraseIs DEF IsNode
<1>5. CASE ClearIdentity
  BY <1>5, ClearIs
<1>6. ASSUME NEW g \in Groups, AddGroup(g) \/ RemoveGroup(g)
      PROVE  UNCHANGED <<core, events, btc>>
  BY <1>6, AddGroupIs, RemoveGroupIs
<1>7. CASE Leave
  BY <1>7 DEF Leave, tasks
<1>8. CASE ChooseMode \/ WifiSet
  BY <1>8, ChooseModeIs, WifiSetIs
<1>9. CASE ResetRole
  <2>1. EraseStack /\ UNCHANGED <<events, btc>>
    BY <1>9 DEF ResetRole
  <2>2. QED BY <1>1, <2>1, EraseIs DEF IsNode
<1>10. CASE Discover
  BY <1>10 DEF Discover, Enqueue, tasks
<1>11. QED BY <1>2, <1>3, <1>4, <1>5, <1>6, <1>7, <1>8, <1>9, <1>10 DEF Requested

LEMMA OrderNext == ASSUME MeshInv, Order, [Next]_vars PROVE Order'
<1>1. CASE BootToPortal \/ BootToMesh \/ Fallback \/ EnableNode \/ EnableProvisioner \/ EnableNothing
  <2>1. where \in {"boot", "fallback", "again"}
    BY <1>1 DEF BootToPortal, BootToMesh, Fallback, EnableNode, EnableProvisioner, EnableNothing
  <2>2. events = <<>> /\ btc = Idle
    BY <2>1 DEF MeshInv, Places, IsNode
  <2>3. btc' = Idle
    BY <1>1, <2>2 DEF BootToPortal, BootToMesh, Fallback, EnableNode, EnableProvisioner,
                      EnableNothing, tasks
  <2>4. CASE EnableNode /\ ~OtherRole /\ core.id # NoId
    <3>1. events' = <<[op |-> "complete", id |-> core.id]>>
      BY <2>4 DEF EnableNode
    <3>2. core'.id = core.id
      BY <2>4, EnableNodeIs
    <3>3. PICK id : id = core.id
      OBVIOUS
    <3>4. events' = <<[op |-> "complete", id |-> id]>> /\ core'.id = id /\ id # NoId
      BY <2>4, <3>1, <3>2, <3>3
    <3>5. QED BY <2>3, <3>4 DEF Order, Resetting, Identifying, Idle
  <2>5. CASE ~(EnableNode /\ ~OtherRole /\ core.id # NoId)
    <3>1. events' = <<>>
      BY <1>1, <2>2, <2>5 DEF BootToPortal, BootToMesh, Fallback, EnableNode, EnableProvisioner,
                              EnableNothing
    <3>2. QED BY <2>3, <3>1, OrderEmpty
  <2>6. QED BY <2>4, <2>5
<1>2. CASE PowerFails \/ Restart
  BY <1>2, Reboots, OrderEmpty DEF Reboot
<1>3. CASE Provisioner
  BY <1>3, OrderProvisioner
<1>4. CASE Btc
  BY <1>4, OrderBtc
<1>5. CASE AddedGroup \/ RemovedGroup \/ ModeChosen \/ ClearIdentity \/ Requested
  <2>1. CASE ~IsNode /\ UNCHANGED <<events, btc>>
    BY <2>1, OrderEmpty DEF MeshInv, Places
  <2>2. QED BY <1>5, <2>1, HttpKeeps, OrderStutter, OrderLeft
<1>6. CASE TimerFires \/ \E g \in Addresses : Probe(g)
  BY <1>6, MeshProbes, OrderStutter DEF tasks
<1>7. CASE UNCHANGED vars
  BY <1>7, OrderStutter DEF vars, tasks
<1>8. QED BY <1>1, <1>2, <1>3, <1>4, <1>5, <1>6, <1>7 DEF Next, HttpStep, BootStep, Addresses

(***************************************************************************)
(* What is left of a mesh the bridge has left.                             *)
(***************************************************************************)
\* The identity is gone from flash, or the event, or the web handler, that drops it is still
\* to come; the same for memory, where the handler drops it last.
LeftInv ==
  /\ (core.id = NoId \/ erased) /\ ~idCut => Clean \/ Resetting \/ http.pc = "clear"
  /\ IsNode /\ core.id = NoId /\ ~idCut =>
       (local = 0 /\ appIdx = Unused) \/ Resetting \/ btc.pc = "forget"

leftvars == <<boot, cfg, core, erased, local, appIdx, events, btc, http, idCut>>

LEMMA LeftStutter == ASSUME LeftInv, UNCHANGED leftvars PROVE LeftInv'
  BY DEF LeftInv, leftvars, boot, Clean, Resetting, IsNode

LEMMA LeftInit == Init => LeftInv
<1> SUFFICES ASSUME Init PROVE LeftInv
  OBVIOUS
<1>1. PICK g \in Addresses, s \in {<<>>} \cup Full : cfg = Configured(g, s)
  BY DEF Init, Addresses
<1>2. Clean
  BY <1>1 DEF Configured, Clean
<1>3. QED BY <1>2 DEF Init, LeftInv, IsNode

LEMMA LeftBoot == ASSUME MeshInv, Order, LeftInv, BootToPortal \/ BootStep PROVE LeftInv'
<1>1. CASE BootToPortal \/ BootToMesh
  BY <1>1 DEF BootToPortal, BootToMesh, LeftInv, Clean, Resetting, IsNode, ram, tasks, hist
<1>2. CASE Fallback
  <2>1. mesh = "off" /\ UNCHANGED mesh /\ (~idCut' => Clean')
    BY <1>2, FallbackIs DEF MeshInv, Places
  <2>2. QED BY <2>1 DEF LeftInv, IsNode
<1>3. CASE EnableNode
  <2>1. /\ http = Idle /\ events = <<>> /\ ~erased /\ core'.id = core.id
        /\ UNCHANGED <<cfg, erased, http, idCut>> 
        /\ local' \in {cfg.addr, 0} /\ appIdx' \in {cfg.app, Unused}
    BY <1>3, EnableNodeIs
  <2>2. core.id = NoId /\ ~idCut => Clean
    BY <2>1 DEF LeftInv, Resetting, Idle
  <2>3. QED BY <2>1, <2>2 DEF LeftInv, Clean
<1>4. CASE EnableProvisioner \/ EnableNothing
  <2>1. /\ UNCHANGED <<cfg, erased, http, events, idCut>> /\ ~IsNode'
    BY <1>4 DEF EnableProvisioner, EnableNothing, IsNode, tasks, hist
  <2>2. core' = core \/ core' = [core EXCEPT !.role = "provisioner", !.keys = @ \cup {0}, !.id = Own]
    BY <1>4 DEF EnableProvisioner, EnableNothing, Own
  <2>3. core'.id = core.id \/ core'.id # NoId
    BY <2>2, NoOne DEF MeshInv, Kinds, Cores
  <2>4. ~erased \/ core'.id = core.id
    BY <1>4 DEF EnableProvisioner, EnableNothing, MeshInv, Places
  <2>5. QED BY <2>1, <2>3, <2>4 DEF LeftInv, Clean, Resetting
<1>5. QED BY <1>1, <1>2, <1>3, <1>4 DEF BootStep

\* A restart loses the event and the handler, and is noted.
LEMMA LeftReboot ==
  ASSUME MeshInv, LeftInv, NEW role \in Roles, Reboot(role)
  PROVE  LeftInv'
<1>1. /\ mesh' = "off" /\ cfg' = cfg
      /\ core' = IF erased THEN Fresh ELSE [core EXCEPT !.adv = FALSE]
      /\ erased' = FALSE
      /\ idCut' = (idCut \/ http.pc = "clear" \/ "reset" \in {events[i].op : i \in DOMAIN events})
  BY DEF Reboot
<1>2. Resetting => idCut'
  <2>1. events \in Seq(Events)
    BY DEF MeshInv, Kinds
  <2>2. events # <<>> => Len(events) \in DOMAIN events
    BY <2>1
  <2>3. QED BY <1>1, <2>2 DEF Resetting
<1>3. core'.id = NoId => erased \/ core.id = NoId
  BY <1>1 DEF MeshInv, Kinds, Cores
<1>4. QED BY <1>1, <1>2, <1>3 DEF LeftInv, Clean, IsNode

LEMMA LeftProvisioner == ASSUME MeshInv, LeftInv, Provisioner PROVE LeftInv'
<1>1. core \in Cores /\ events \in Seq(Events)
  BY DEF MeshInv, Kinds
<1>2. ~erased /\ UNCHANGED erased
  BY DEF Provisioner, Join, AddKey, BindKey, DeleteKey, ResetByProvisioner, Change,
         DeleteNetKey, ChangeSubscription, ChangeUntold
<1>3. CASE ResetByProvisioner
  <2>1. core' = Left /\ events' = Append(events, [op |-> "reset"])
    BY <1>3 DEF ResetByProvisioner, Change
  <2>2. Resetting'
    BY <1>1, <2>1, EventKinds, Appended DEF Resetting
  <2>3. QED BY <2>2 DEF LeftInv
<1>4. CASE Join
  <2>1. PICK id \in Identities : core' = [core EXCEPT !.id = id, !.adv = FALSE]
    BY <1>4 DEF Join
  <2>2. core'.id # NoId
    BY <1>1, <2>1, NoOne DEF Cores
  <2>3. QED BY <1>2, <2>2 DEF LeftInv
<1>5. CASE AddKey \/ BindKey \/ DeleteKey
  <2>1. core.id # NoId
    BY <1>5 DEF AddKey, BindKey, DeleteKey, MeshInv, Kinds
  <2>2. core'.id = core.id
    BY <1>1, <1>5 DEF AddKey, BindKey, DeleteKey, Cores
  <2>3. QED BY <1>2, <2>1, <2>2 DEF LeftInv
<1>6. CASE DeleteNetKey \/ ChangeSubscription
  BY <1>2, <1>6, Untold DEF LeftInv
<1>7. QED BY <1>3, <1>4, <1>5, <1>6 DEF Provisioner

LEMMA LeftBtc == ASSUME MeshInv, Order, LeftInv, Btc PROVE LeftInv'
\* While an event other than the reset is handled, a reset that is pending stays pending.
<1>1. ASSUME NEW op, Handle(op), op # "reset", UNCHANGED <<core, erased, http>>,
             (UNCHANGED <<cfg, idCut>>) \/ (~idCut' => ~idCut /\ ~erased)
      PROVE  LeftInv'
  <2>1. events # <<>>
    BY <1>1, Handles
  <2>2. (core.id = NoId => Resetting) /\ (Resetting => Resetting')
    BY <1>1, <2>1, StillResetting DEF Order
  <2>3. QED BY <1>1, <2>2 DEF LeftInv, Clean
<1>2. CASE Complete
  BY <1>1, <1>2 DEF Complete
<1>3. CASE KeyAdded
  BY <1>1, <1>3 DEF KeyAdded, UseKey, KeepKey
<1>4. CASE KeyBound
  BY <1>1, <1>4 DEF KeyBound, UseKey, KeepKey
<1>5. CASE KeyDeleted
  BY <1>1, <1>5 DEF KeyDeleted, UseKey, KeepKey
<1>6. CASE Identify
  <2>1. /\ btc.pc = "identify" /\ idCut' = (idCut \/ erased)
        /\ UNCHANGED <<core, erased, events>>
    BY <1>6 DEF Identify
  <2>2. core.id = NoId => Resetting'
    BY <2>1 DEF Order, Identifying, Resetting
  <2>3. QED BY <2>1, <2>2 DEF LeftInv
<1>7. CASE SubscribeAll
  <2>1. /\ btc.pc = "subscribe" /\ UNCHANGED <<cfg, erased, events, http, idCut>>
        /\ core' \in Subscribed(core, btc.groups, btc.id.addr)
    BY <1>7 DEF SubscribeAll
  <2>2. core'.id = core.id
    <3>1. core \in Cores /\ btc.groups \in SUBSET Addresses
      BY <2>1, Middle DEF MeshInv, Kinds
    <3>2. Grown(core, btc.groups, btc.id.addr, core')
      BY <2>1, <3>1, SubscribedKind
    <3>3. QED BY <3>2 DEF Grown
  <2>3. core.id = NoId => Resetting'
    BY <2>1 DEF Order, Identifying, Resetting
  <2>4. QED BY <2>1, <2>2, <2>3 DEF LeftInv, Clean, Resetting
<1>8. CASE Reset
  BY <1>8, ResetIs DEF LeftInv
<1>9. CASE Forget
  <2>1. /\ core' = [core EXCEPT !.adv = core.id = NoId] /\ local' = 0 /\ appIdx' = Unused
        /\ UNCHANGED <<cfg, erased, events, http, idCut>>
    BY <1>9 DEF Forget, hist
  <2>2. core'.id = core.id
    BY <2>1 DEF MeshInv, Kinds, Cores
  <2>3. QED BY <2>1, <2>2 DEF LeftInv, Clean, Resetting
<1>10. QED BY <1>2, <1>3, <1>4, <1>5, <1>6, <1>7, <1>8, <1>9 DEF Btc

LEMMA LeftHttp ==
  ASSUME MeshInv, LeftInv, AddedGroup \/ RemovedGroup \/ ModeChosen \/ ClearIdentity
  PROVE  LeftInv'
<1>1. UNCHANGED <<events, btc>>
  BY DEF AddedGroup, RemovedGroup, ModeChosen, ClearIdentity
<1>2. CASE AddedGroup \/ RemovedGroup
  <2>1. /\ UNCHANGED <<cfg, erased, local, appIdx, idCut, mesh, sku>>
        /\ http.pc # "clear" /\ http.pc # "erase" /\ http.pc # "restart"
    BY <1>2 DEF AddedGroup, RemovedGroup, ram, boot
  <2>2. core'.id = core.id
    <3>1. core \in Cores /\ http \in Requests
      BY DEF MeshInv, Kinds
    <3>2. CASE AddedGroup
      <4>1. /\ http.pc = "subscribe" /\ core' \in Subscribed(core, {http.g}, local)
        BY <3>2 DEF AddedGroup
      <4>2. {http.g} \in SUBSET Addresses
        BY <3>1, <4>1 DEF Addresses, Requests, Idle
      <4>3. Grown(core, {http.g}, local, core')
        BY <3>1, <4>1, <4>2, SubscribedKind
      <4>4. QED BY <4>3 DEF Grown
    <3>3. CASE RemovedGroup
      BY <3>1, <3>3, UnsubscribedKind DEF RemovedGroup
    <3>4. QED BY <1>2, <3>2, <3>3
  <2>3. QED BY <1>1, <2>1, <2>2 DEF LeftInv, Clean, Resetting, IsNode
<1>3. CASE ModeChosen
  <2>1. /\ http.pc = "erase" /\ UNCHANGED <<cfg, sku, mesh, local, appIdx>>
        /\ \/ EraseStack /\ idCut' = (idCut \/ cfg.addr # 0 \/ cfg.app # Unused)
           \/ UNCHANGED <<core, erased, idCut>>
    BY <1>3 DEF ModeChosen, boot, ram
  <2>2. CASE UNCHANGED <<core, erased, idCut>>
    BY <1>1, <2>1, <2>2 DEF LeftInv, Clean, IsNode, Resetting
  <2>3. CASE EraseStack /\ idCut' = (idCut \/ cfg.addr # 0 \/ cfg.app # Unused)
    <3>1. ~idCut' => Clean' /\ ~idCut
      BY <2>1, <2>3 DEF Clean
    <3>2. IsNode => UNCHANGED core
      BY <2>3, EraseIs DEF MeshInv, Kinds, IsNode
    <3>3. QED BY <1>1, <2>1, <3>1, <3>2 DEF LeftInv, IsNode, Resetting
  <2>4. QED BY <2>1, <2>2, <2>3
<1>4. CASE ClearIdentity
  <2>1. /\ UNCHANGED <<sku, mesh, core, erased, local, appIdx, events, btc>>
        /\ ~idCut' => ~idCut /\ Clean'
    BY <1>4, ClearIs
  <2>2. QED BY <2>1 DEF LeftInv, IsNode, Resetting
<1>5. QED BY <1>2, <1>3, <1>4

LEMMA LeftRequested == ASSUME MeshInv, LeftInv, Requested PROVE LeftInv'
<1>1. ASSUME NEW page, Request(page),
             UNCHANGED <<sku, mesh, core, erased, local, appIdx, events, btc>>,
             (~idCut' => ~idCut) /\ (Clean => Clean')
      PROVE  LeftInv'
  <2>1. http.pc # "clear"
    BY <1>1, RequestIs
  <2>2. QED BY <1>1, <2>1 DEF LeftInv, IsNode, Resetting, Clean
<1>2. ASSUME NEW g \in Groups, AddGroup(g) PROVE LeftInv'
  <2>1. /\ Request({"up"})
        /\ UNCHANGED <<sku, mesh, core, erased, local, appIdx, events, btc, idCut>>
        /\ Clean => Clean'
    BY <1>2, AddGroupIs
  <2>2. QED BY <1>1, <2>1
<1>3. ASSUME NEW g \in Groups, RemoveGroup(g) PROVE LeftInv'
  <2>1. /\ Request({"up"})
        /\ UNCHANGED <<sku, mesh, core, erased, local, appIdx, events, btc, idCut>>
        /\ Clean => Clean'
    BY <1>3, RemoveGroupIs
  <2>2. QED BY <1>1, <2>1
<1>4. CASE Leave
  <2>1. CASE UNCHANGED <<core, events>>
    BY <1>4, <2>1, LeftStutter DEF Leave, leftvars, ram, tasks, hist
  <2>2. CASE events' = Append(events, [op |-> "reset"])
    <3>1. Resetting'
      BY <2>2, EventKinds, Appended DEF Resetting, MeshInv, Kinds
    <3>2. QED BY <3>1 DEF LeftInv
  <2>3. QED BY <1>4, <2>1, <2>2 DEF Leave
<1>5. CASE ChooseMode
  BY <1>1, <1>5, ChooseModeIs
<1>6. CASE WifiSet
  BY <1>1, <1>6, WifiSetIs
<1>7. CASE ResetRole
  <2>1. /\ http' = [pc |-> "clear"] /\ EraseStack
        /\ UNCHANGED <<sku, mesh, local, appIdx, events, btc, idCut>>
    BY <1>7 DEF ResetRole, boot, ram, hist
  <2>2. IsNode => UNCHANGED core
    BY <2>1, EraseIs DEF MeshInv, Kinds, IsNode
  <2>3. QED BY <2>1, <2>2 DEF LeftInv, IsNode, Resetting
<1>8. CASE Discover
  BY <1>8, LeftStutter DEF Discover, Enqueue, leftvars, ram, tasks, hist
<1>9. QED BY <1>2, <1>3, <1>4, <1>5, <1>6, <1>7, <1>8 DEF Requested

LEMMA LeftNext == ASSUME MeshInv, Order, LeftInv, [Next]_vars PROVE LeftInv'
<1>1. CASE BootToPortal \/ BootStep
  BY <1>1, LeftBoot
<1>2. CASE PowerFails \/ Restart
  BY <1>2, Reboots, LeftReboot
<1>3. CASE Provisioner
  BY <1>3, LeftProvisioner
<1>4. CASE Btc
  BY <1>4, LeftBtc
<1>5. CASE AddedGroup \/ RemovedGroup \/ ModeChosen \/ ClearIdentity
  BY <1>5, LeftHttp
<1>6. CASE Requested
  BY <1>6, LeftRequested
<1>7. CASE TimerFires \/ \E g \in Addresses : Probe(g)
  BY <1>7, MeshProbes, LeftStutter DEF leftvars, ram, tasks, hist
<1>8. CASE UNCHANGED vars
  BY <1>8, LeftStutter DEF vars, leftvars, ram, tasks, hist
<1>9. QED BY <1>1, <1>2, <1>3, <1>4, <1>5, <1>6, <1>7, <1>8 DEF Next, HttpStep, Addresses

\* ESP_BLE_MESH_NODE_PROV_RESET_EVT, and the handlers that leave a mesh: wherever they are
\* interleaved or restarted, a bridge that left its mesh and is at rest keeps no identity,
\* neither in memory nor in flash, unless its saving was cut off.
THEOREM MeshLeftClean == Spec => []LeftClean
<1>1. MeshInv /\ Order /\ LeftInv => LeftClean
  BY DEF LeftInv, LeftClean, Settled, IsNode, Resetting, Clean, Idle
<1>2. Init => MeshInv /\ Order /\ LeftInv
  BY MeshInit, OrderInit, LeftInit
<1>3. MeshInv /\ Order /\ LeftInv /\ [Next]_vars => (MeshInv /\ Order /\ LeftInv)'
  BY MeshNext, OrderNext, LeftNext
<1>4. QED BY <1>1, <1>2, <1>3, PTL DEF Spec

(***************************************************************************)
(* The key in use.                                                         *)
(***************************************************************************)
\* Behind place i of the queue s a change `op' of key k waits.
Follows(s, i, op, k) == \E j \in 1 .. Len(s) : j > i /\ s[j] = [op |-> op, key |-> k]

NoComplete == \A i \in 1 .. Len(events) : events[i].op # "complete"

\* A key the stack no longer has is still to be deleted behind every event that could bring it
\* into use, and behind all when it is in use, unless a NetKey was deleted.  The saved key is the
\* one in use, or none is in use and the saved one, if the stack has it, was added anew.
KeyInv ==
  IsNode /\ core.id # NoId /\ ~netCut =>
    /\ \A i \in 1 .. Len(events) :
         events[i].op \in {"add", "bind"} /\ events[i].key \notin core.keys =>
           Follows(events, i, "delete", events[i].key)
    /\ NoComplete =>
         /\ appIdx \in core.keys \cup {Unused} \/ Follows(events, 0, "delete", appIdx)
         /\ ~keyCut /\ ~erased /\ http.pc # "restart" =>
              \/ cfg.app = appIdx
              \/ appIdx = Unused /\ (cfg.app \in core.keys => Follows(events, 0, "add", cfg.app))

LEMMA FollowsTail ==
  ASSUME MeshInv, NEW h, Handle(h), NEW op, NEW k
  PROVE  /\ \A i \in 1 .. Len(events) : Follows(events, i, op, k) => Follows(events', i - 1, op, k)
         /\ Follows(events, 0, op, k) /\ Head(events) # [op |-> op, key |-> k] =>
              Follows(events', 0, op, k)
<1>1. ASSUME NEW i \in Nat, NEW j \in 1 .. Len(events), j > i, j # 1, events[j] = [op |-> op, key |-> k]
      PROVE  Follows(events', i - 1, op, k) /\ (i = 0 => Follows(events', 0, op, k))
  <2>1. /\ Len(events') = Len(events) - 1 /\ Len(events) \in Nat
        /\ \A m \in 1 .. Len(events') : events'[m] = events[m + 1]
    BY TailLeft
  <2>2. j - 1 \in 1 .. Len(events') /\ (j - 1) + 1 = j /\ j - 1 > i - 1 /\ j - 1 > 0
    BY <1>1, <2>1
  <2>3. events'[j - 1] = [op |-> op, key |-> k]
    BY <1>1, <2>1, <2>2
  <2>4. QED BY <2>2, <2>3 DEF Follows
<1>2. events[1] = Head(events) /\ Len(events) \in Nat
  BY TailLeft
<1>3. ASSUME NEW i \in 1 .. Len(events), Follows(events, i, op, k) PROVE Follows(events', i - 1, op, k)
  <2>1. PICK j \in 1 .. Len(events) : j > i /\ events[j] = [op |-> op, key |-> k]
    BY <1>3 DEF Follows
  <2>2. j # 1 /\ i \in Nat
    BY <2>1
  <2>3. QED BY <1>1, <2>1, <2>2
<1>4. ASSUME Follows(events, 0, op, k), Head(events) # [op |-> op, key |-> k] PROVE Follows(events', 0, op, k)
  <2>1. PICK j \in 1 .. Len(events) : j > 0 /\ events[j] = [op |-> op, key |-> k]
    BY <1>4 DEF Follows
  <2>2. j # 1
    BY <1>2, <1>4, <2>1
  <2>3. QED BY <1>1, <2>1, <2>2
<1>5. QED BY <1>3, <1>4

LEMMA FollowsAppended ==
  ASSUME events \in Seq(Events), NEW e \in Events, events' = Append(events, e), NEW op, NEW k, NEW i \in Nat
  PROVE  /\ Follows(events, i, op, k) => Follows(events', i, op, k)
         /\ e = [op |-> op, key |-> k] /\ i <= Len(events) => Follows(events', i, op, k)
<1>1. ASSUME Follows(events, i, op, k) PROVE Follows(events', i, op, k)
  <2>1. PICK j \in 1 .. Len(events) : j > i /\ events[j] = [op |-> op, key |-> k]
    BY <1>1 DEF Follows
  <2>2. j \in 1 .. Len(events') /\ events'[j] = [op |-> op, key |-> k]
    BY <2>1, Appended
  <2>3. QED BY <2>1, <2>2 DEF Follows
<1>2. ASSUME e = [op |-> op, key |-> k], i <= Len(events) PROVE Follows(events', i, op, k)
  <2>1. Len(events) + 1 \in 1 .. Len(events') /\ Len(events) + 1 > i
    BY <1>2, Appended
  <2>2. events'[Len(events) + 1] = [op |-> op, key |-> k]
    BY <1>2, Appended
  <2>3. QED BY <2>1, <2>2 DEF Follows
<1>3. QED BY <1>1, <1>2

\* What leaves the invariant alone.
LEMMA KeyStutter ==
  ASSUME KeyInv, UNCHANGED <<mesh, sku, events, appIdx, netCut>>, core'.id = core.id,
         core'.keys = core.keys,
         \/ keyCut' \/ erased' \/ http'.pc = "restart"
         \/ ~keyCut /\ ~erased /\ http.pc # "restart" /\ cfg'.app = cfg.app
  PROVE  KeyInv'
  BY DEF KeyInv, IsNode, NoComplete

LEMMA KeyInit == Init => KeyInv
  BY DEF Init, KeyInv, IsNode

\* Before the identity was reported only the first part says something.
LEMMA KeyStarts ==
  ASSUME NEW id, events' = <<[op |-> "complete", id |-> id]>>
  PROVE  KeyInv'
<1>1. Len(events') = 1 /\ events'[1].op = "complete" /\ \A i \in 1 .. Len(events') : i = 1
  BY DEF Follows
<1>2. ~NoComplete'
  BY <1>1 DEF NoComplete
<1>3. QED BY <1>1, <1>2 DEF KeyInv

\* The queue is empty when a bridge joins.
LEMMA JoinIs ==
  ASSUME MeshInv, Order, Join
  PROVE  \E id \in Identities : events' = <<[op |-> "complete", id |-> id]>>
<1>1. PICK id \in Identities : /\ core.id = NoId /\ core.adv
                               /\ Change([op |-> "complete", id |-> id])
  BY DEF Join
<1>2. ~Resetting
  <2>1. events \in Seq(Events)
    BY DEF MeshInv, Kinds
  <2>2. events # <<>> => Len(events) \in 1 .. Len(events)
    BY <2>1
  <2>3. QED BY <1>1, <2>2 DEF Order, Resetting
<1>3. events = <<>>
  BY <1>1, <1>2 DEF Order
<1>4. events' = Append(events, [op |-> "complete", id |-> id])
  BY <1>1 DEF Change
<1>5. QED BY <1>3, <1>4

LEMMA KeyProvisioner == ASSUME MeshInv, Order, KeyInv, Provisioner PROVE KeyInv'
<1>1. core \in Cores /\ events \in Seq(Events)
  BY DEF MeshInv, Kinds
<1>2. CASE Join
  BY <1>2, JoinIs, KeyStarts
<1>3. CASE ResetByProvisioner
  BY <1>1, <1>3, LeftKind DEF ResetByProvisioner, KeyInv
<1>4. ASSUME NEW e \in Events, NEW k \in Keys, Change(e), core.id # NoId, core'.id = core.id,
             e.op # "complete",
             \/ e = [op |-> "add", key |-> k] /\ core'.keys = core.keys \cup {k}
             \/ e = [op |-> "bind", key |-> k] /\ k \in core.keys /\ core'.keys = core.keys
             \/ e = [op |-> "delete", key |-> k] /\ core'.keys = core.keys \ {k}
      PROVE  KeyInv'
  <2>1. /\ IsNode /\ events' = Append(events, e)
        /\ UNCHANGED <<mesh, sku, cfg, erased, appIdx, http, keyCut, netCut>>
    BY <1>4, Changes
  <2> SUFFICES ASSUME ~netCut PROVE KeyInv'
    BY <2>1 DEF KeyInv
  <2>2. /\ Len(events) \in Nat /\ Len(events') = Len(events) + 1 /\ events'[Len(events) + 1] = e
        /\ \A i \in 1 .. Len(events) : events'[i] = events[i]
        /\ \A i \in 1 .. Len(events') : i \in 1 .. Len(events) \/ i = Len(events) + 1
    BY <1>1, <2>1, Appended
  <2>3. \A op, x : \A i \in Nat : Follows(events, i, op, x) => Follows(events', i, op, x)
    BY <1>1, <2>1, FollowsAppended
  <2>4. ASSUME NEW i \in 1 .. Len(events'), events'[i].op \in {"add", "bind"},
               events'[i].key \notin core'.keys
        PROVE  Follows(events', i, "delete", events'[i].key)
    <3>1. CASE i = Len(events) + 1
      BY <1>4, <2>2, <2>4, <3>1
    <3>2. CASE i \in 1 .. Len(events)
      <4>1. events'[i] = events[i] /\ i \in Nat /\ i <= Len(events)
        BY <2>2, <3>2
      <4>2. CASE events[i].key \notin core.keys
        <5>1. Follows(events, i, "delete", events[i].key)
          BY <2>1, <2>4, <3>2, <4>1, <4>2, <1>4 DEF KeyInv
        <5>2. QED BY <2>3, <4>1, <5>1
      <4>3. CASE events[i].key \in core.keys
        <5>1. events[i].key = k /\ e = [op |-> "delete", key |-> k]
          BY <1>4, <2>4, <4>1, <4>3
        <5>2. QED BY <1>1, <2>1, <4>1, <5>1, FollowsAppended
      <4>4. QED BY <4>2, <4>3
    <3>3. QED BY <2>2, <3>1, <3>2
  <2>5. NoComplete' => NoComplete
    <3>1. \A i \in 1 .. Len(events) : i \in 1 .. Len(events') /\ events'[i] = events[i]
      BY <2>2
    <3>2. QED BY <3>1 DEF NoComplete
  <2>6. ASSUME NoComplete
        PROVE  appIdx \in core'.keys \cup {Unused} \/ Follows(events', 0, "delete", appIdx)
    <3>1. CASE Follows(events, 0, "delete", appIdx)
      BY <2>3, <3>1
    <3>2. CASE appIdx \in core.keys \cup {Unused}
      <4>1. CASE appIdx \in core'.keys \cup {Unused}
        BY <4>1
      <4>2. CASE appIdx \notin core'.keys \cup {Unused}
        <5>1. appIdx = k /\ e = [op |-> "delete", key |-> k] /\ 0 <= Len(events) /\ 0 \in Nat
          BY <1>4, <2>2, <3>2, <4>2
        <5>2. QED BY <1>1, <2>1, <5>1, FollowsAppended
      <4>3. QED BY <4>1, <4>2
    <3>3. QED BY <1>4, <2>1, <2>6, <3>1, <3>2 DEF KeyInv
  <2>7. ASSUME NoComplete, ~keyCut, ~erased, http.pc # "restart"
        PROVE  \/ cfg.app = appIdx
               \/ /\ appIdx = Unused
                  /\ cfg.app \in core'.keys => Follows(events', 0, "add", cfg.app)
    <3>1. CASE cfg.app = appIdx
      BY <3>1
    <3>2. CASE appIdx = Unused /\ (cfg.app \in core.keys => Follows(events, 0, "add", cfg.app))
      <4>1. CASE cfg.app \in core'.keys /\ cfg.app \notin core.keys
        <5>1. cfg.app = k /\ e = [op |-> "add", key |-> k] /\ 0 <= Len(events) /\ 0 \in Nat
          BY <1>4, <2>2, <4>1
        <5>2. QED BY <1>1, <2>1, <3>2, <5>1, FollowsAppended
      <4>2. CASE ~(cfg.app \in core'.keys /\ cfg.app \notin core.keys)
        BY <2>3, <3>2, <4>2
      <4>3. QED BY <4>1, <4>2
    <3>3. QED BY <1>4, <2>1, <2>7, <3>1, <3>2 DEF KeyInv
  <2>8. QED BY <2>1, <2>4, <2>5, <2>6, <2>7 DEF KeyInv
<1>5. IsNode /\ core.keys \subseteq Keys
  BY DEF Provisioner, Join, AddKey, BindKey, DeleteKey, ResetByProvisioner, Change, MeshInv,
         DeleteNetKey, ChangeSubscription, ChangeUntold, Places, Kinds, IsNode
<1>6. CASE AddKey
  <2>1. PICK k \in Keys : /\ core.id # NoId /\ core' = [core EXCEPT !.keys = @ \cup {k}]
                          /\ Change([op |-> "add", key |-> k])
    BY <1>6 DEF AddKey
  <2>2. core'.id = core.id /\ core'.keys = core.keys \cup {k}
    BY <1>1, <2>1 DEF Cores
  <2>3. QED BY <1>4, <2>1, <2>2, EventKinds
<1>7. CASE BindKey
  <2>1. PICK k \in core.keys : /\ core' = [core EXCEPT !.bound = @ \cup {k}]
                               /\ Change([op |-> "bind", key |-> k])
    BY <1>7 DEF BindKey
  <2>2. core'.id = core.id /\ core'.keys = core.keys /\ core.id # NoId /\ k \in Keys
    BY <1>1, <1>5, <2>1 DEF Cores, MeshInv, Kinds
  <2>3. QED BY <1>4, <2>1, <2>2, EventKinds
<1>8. CASE DeleteKey
  <2>1. PICK k \in core.keys : /\ core' = [core EXCEPT !.keys = @ \ {k}, !.bound = @ \ {k}]
                               /\ Change([op |-> "delete", key |-> k])
    BY <1>8 DEF DeleteKey
  <2>2. core'.id = core.id /\ core'.keys = core.keys \ {k} /\ core.id # NoId /\ k \in Keys
    BY <1>1, <1>5, <2>1 DEF Cores, MeshInv, Kinds
  <2>3. QED BY <1>4, <2>1, <2>2, EventKinds
<1>9. CASE DeleteNetKey \/ ChangeSubscription
  <2>1. CASE netCut' = TRUE
    BY <2>1 DEF KeyInv
  <2>2. CASE UNCHANGED netCut /\ core'.keys = core.keys
    <3>1. /\ UNCHANGED <<mesh, sku, cfg, erased, events, appIdx, http, keyCut, netCut>>
          /\ core'.id = core.id /\ core'.keys = core.keys
      BY <1>9, <2>2, Untold
    <3>2. QED BY <3>1 DEF KeyInv, IsNode, NoComplete
  <2>3. QED BY <1>9, <2>1, <2>2, Untold
<1>10. QED BY <1>2, <1>3, <1>6, <1>7, <1>8, <1>9 DEF Provisioner

\* What handling the head leaves of the first part.
LEMMA KeyedTail ==
  ASSUME MeshInv, KeyInv, NEW op, Handle(op), IsNode, core.id # NoId, ~netCut
  PROVE  /\ \A i \in 1 .. Len(events') :
              events'[i].op \in {"add", "bind"} /\ events'[i].key \notin core.keys =>
                Follows(events', i, "delete", events'[i].key)
         /\ op \in {"add", "bind"} /\ Head(events).key \notin core.keys =>
              Follows(events', 0, "delete", Head(events).key)
<1>1. /\ Len(events) \in Nat \ {0} /\ Head(events) = events[1] /\ events[1].op = op
      /\ \A i \in 1 .. Len(events') : i + 1 \in 1 .. Len(events) /\ events'[i] = events[i + 1]
  BY TailLeft
<1>2. \A i \in 1 .. Len(events) :
         events[i].op \in {"add", "bind"} /\ events[i].key \notin core.keys =>
           Follows(events', i - 1, "delete", events[i].key)
  BY FollowsTail DEF KeyInv
<1>3. ASSUME NEW i \in 1 .. Len(events'), events'[i].op \in {"add", "bind"}, events'[i].key \notin core.keys
      PROVE  Follows(events', i, "delete", events'[i].key)
  <2>1. i + 1 \in 1 .. Len(events) /\ events'[i] = events[i + 1] /\ (i + 1) - 1 = i
    BY <1>1
  <2>2. QED BY <1>2, <1>3, <2>1
<1>4. ASSUME op \in {"add", "bind"}, Head(events).key \notin core.keys
      PROVE  Follows(events', 0, "delete", Head(events).key)
  <2>1. 1 \in 1 .. Len(events) /\ 1 - 1 = 0
    BY <1>1
  <2>2. QED BY <1>1, <1>2, <1>4, <2>1
<1>5. QED BY <1>3, <1>4

\* A change of the stack's keys is handled: the key is taken into use, or none is, or the one
\* in use stays.
LEMMA KeyHandled ==
  ASSUME MeshInv, Order, KeyInv, NEW op \in {"add", "bind", "delete"}, Handle(op),
         UNCHANGED <<mesh, sku, core, erased, http, netCut>>,
         \/ op # "delete" /\ UseKey(Head(events).key)
         \/ op = "delete" /\ UseKey(Unused)
         \/ /\ KeepKey /\ (op = "delete" => appIdx # Head(events).key)
            /\ op = "add" => appIdx # Unused
  PROVE  KeyInv'
<1> SUFFICES ASSUME IsNode, core.id # NoId, ~netCut
             PROVE  /\ \A i \in 1 .. Len(events') :
                         events'[i].op \in {"add", "bind"} /\ events'[i].key \notin core'.keys =>
                           Follows(events', i, "delete", events'[i].key)
                    /\ appIdx' \in core'.keys \cup {Unused} \/ Follows(events', 0, "delete", appIdx')
                    /\ ~keyCut' /\ ~erased' /\ http'.pc # "restart" =>
                         \/ cfg'.app = appIdx'
                         \/ appIdx' = Unused /\ (cfg'.app \in core'.keys => Follows(events', 0, "add", cfg'.app))
  BY DEF KeyInv, IsNode
<1>1. Head(events).op = op /\ Head(events).key \in Keys /\ cfg \in Configs
  BY Handles DEF MeshInv, Kinds
<1>2. NoComplete
  BY <1>1, TailLeft DEF Order, NoComplete
<1>3. CASE \E k \in Keys \cup {Unused} : UseKey(k) /\ (k = Unused \/ (k = Head(events).key /\ op # "delete"))
  <2>1. PICK k \in Keys \cup {Unused} : UseKey(k) /\ (k = Unused \/ (k = Head(events).key /\ op # "delete"))
    BY <1>3
  <2>2. appIdx' = k /\ (~keyCut' => cfg'.app = k)
    BY <1>1, <2>1, SavesKey DEF UseKey
  <2>3. k \in core.keys \cup {Unused} \/ Follows(events', 0, "delete", k)
    BY <2>1, KeyedTail
  <2>4. QED BY <2>2, <2>3, KeyedTail
<1>4. CASE KeepKey /\ (op = "delete" => appIdx # Head(events).key) /\ (op = "add" => appIdx # Unused)
  <2>1. UNCHANGED <<appIdx, cfg, keyCut>>
    BY <1>4 DEF KeepKey
  <2>2. Follows(events, 0, "delete", appIdx) => Follows(events', 0, "delete", appIdx)
    <3>1. Head(events) # [op |-> "delete", key |-> appIdx]
      BY <1>1, <1>4
    <3>2. QED BY <3>1, FollowsTail
  <2>3. op # "add" => (Follows(events, 0, "add", cfg.app) => Follows(events', 0, "add", cfg.app))
    <3>1. op # "add" => Head(events) # [op |-> "add", key |-> cfg.app]
      BY <1>1
    <3>2. QED BY <3>1, FollowsTail
  <2>4. QED BY <1>2, <1>4, <2>1, <2>2, <2>3, KeyedTail DEF KeyInv
<1>5. QED BY <1>1, <1>3, <1>4

LEMMA KeyBtc == ASSUME MeshInv, Order, KeyInv, Btc PROVE KeyInv'
<1>1. core \in Cores /\ cfg \in Configs
  BY DEF MeshInv, Kinds
<1>2. CASE Complete
  <2>1. /\ Handle("complete") /\ UNCHANGED <<mesh, sku, cfg, core, erased, http, netCut>>
        /\ \E c \in Loaded : appIdx' = Valid(c.app) /\ keyCut' = (keyCut \/ c.app # cfg.app)
    BY <1>2 DEF Complete, boot
  <2>2. /\ appIdx' \in core.keys \cup {Unused}
        /\ ~keyCut' => cfg.app = appIdx' \/ (appIdx' = Unused /\ cfg.app \notin core.keys)
    BY <2>1 DEF Valid
  <2>3. QED BY <2>1, <2>2, KeyedTail DEF KeyInv, IsNode
<1>3. CASE Identify
  <2>1. /\ btc.pc = "identify" /\ UNCHANGED <<mesh, sku, core, erased, events, appIdx, http, keyCut, netCut>>
        /\ SaveSome([cfg EXCEPT !.addr = btc.id.addr, !.net = btc.id.net], <<"addr", "net">>)
    BY <1>3 DEF Identify, boot, ram
  <2>2. PICK id \in Identities : btc.id = id
    BY <2>1, Middle
  <2>3. id.addr \in {0} \cup {i.addr : i \in Identities} /\ id.net \in {0} \cup {i.net : i \in Identities}
    OBVIOUS
  <2>4. SaveSome([cfg EXCEPT !.addr = id.addr, !.net = id.net], <<"addr", "net">>)
    BY <2>1, <2>2
  <2>5. cfg'.app = cfg.app
    BY <1>1, <2>3, <2>4, SavesIdentity
  <2>6. QED BY <2>1, <2>5 DEF KeyInv, IsNode, NoComplete
<1>4. CASE SubscribeAll
  <2>1. /\ btc.pc = "subscribe" /\ UNCHANGED <<mesh, sku, cfg, erased, events, appIdx, keyCut, netCut>>
        /\ core' \in Subscribed(core, btc.groups, btc.id.addr)
    BY <1>4 DEF SubscribeAll, boot
  <2>2. btc.groups \in SUBSET Addresses
    BY <2>1, Middle
  <2>3. Grown(core, btc.groups, btc.id.addr, core')
    BY <1>1, <2>1, <2>2, SubscribedKind
  <2>4. core'.id = core.id /\ core'.keys = core.keys
    BY <2>3 DEF Grown
  <2>5. UNCHANGED http
    BY <1>4 DEF SubscribeAll
  <2>6. QED BY <2>1, <2>4, <2>5 DEF KeyInv, IsNode, NoComplete
<1>5. CASE KeyAdded
  BY <1>5, KeyHandled DEF KeyAdded, boot
<1>6. CASE KeyBound
  BY <1>6, KeyHandled DEF KeyBound, boot
<1>7. CASE KeyDeleted
  BY <1>7, KeyHandled DEF KeyDeleted, boot
<1>8. CASE Reset
  <2>1. Handle("reset") /\ UNCHANGED core
    BY <1>8 DEF Reset
  <2>2. core.id = NoId
    BY <2>1, TailLeft DEF Order
  <2>3. QED BY <2>1, <2>2 DEF KeyInv
<1>9. CASE Forget
  <2>1. core'.id = NoId
    BY <1>1, <1>9 DEF Forget, Order, Cores
  <2>2. QED BY <2>1 DEF KeyInv
<1>10. QED BY <1>2, <1>3, <1>4, <1>5, <1>6, <1>7, <1>8, <1>9 DEF Btc

\* The web handlers change the saved key, or the stack's keys, only where it is a node no more,
\* or when the saved one was not read.
LEMMA KeyHttp ==
  ASSUME MeshInv, KeyInv, AddedGroup \/ RemovedGroup \/ ModeChosen \/ ClearIdentity \/ Requested
  PROVE  KeyInv'
<1>1. UNCHANGED <<mesh, sku, appIdx, netCut>>
  <2>1. CASE AddedGroup \/ RemovedGroup \/ ModeChosen \/ ClearIdentity
    BY <2>1 DEF AddedGroup, RemovedGroup, ModeChosen, ClearIdentity, boot, ram
  <2>2. CASE Requested
    BY <2>2 DEF Requested, AddGroup, RemoveGroup, Leave, ChooseMode, WifiSet, ResetRole, Discover,
                Enqueue, boot, ram, hist
  <2>3. QED BY <2>1, <2>2
<1>2. IsNode => \/ keyCut' \/ erased' \/ http'.pc = "restart"
                \/ ~keyCut /\ ~erased /\ http.pc # "restart" /\ cfg'.app = cfg.app
  <2>1. CASE AddedGroup \/ RemovedGroup \/ ModeChosen
    BY <2>1 DEF AddedGroup, RemovedGroup, ModeChosen, EraseStack
  <2>2. CASE ClearIdentity
    BY <2>2, ClearIs DEF MeshInv, Places, IsNode
  <2>3. ASSUME NEW page, Request(page), UNCHANGED erased, keyCut' = (keyCut \/ KeyOverwritten), IsNode
        PROVE  \/ keyCut' \/ erased'
               \/ ~keyCut /\ ~erased /\ http.pc # "restart" /\ cfg'.app = cfg.app
    <3>1. http.pc # "restart"
      BY <2>3, RequestIs
    <3>2. QED BY <2>3, <3>1 DEF KeyOverwritten, IsNode
  <2>4. ASSUME NEW g \in Groups, AddGroup(g) \/ RemoveGroup(g)
        PROVE  UNCHANGED erased /\ keyCut' = (keyCut \/ KeyOverwritten) /\ Request({"up"})
    BY <2>4, AddGroupIs, RemoveGroupIs
  <2>5. CASE Leave \/ Discover
    BY <2>5, RequestIs DEF Leave, Discover, Enqueue, hist
  <2>6. CASE WifiSet
    BY <2>6, WifiSetIs
  <2>7. CASE ChooseMode
    BY <2>3, <2>7, ChooseModeIs
  <2>8. CASE ResetRole
    BY <2>8, EraseIs DEF ResetRole, IsNode, MeshInv, Kinds
  <2>9. QED BY <2>1, <2>2, <2>3, <2>4, <2>5, <2>6, <2>7, <2>8 DEF Requested
<1>3. CASE ~IsNode
  BY <1>1, <1>3 DEF KeyInv, IsNode
<1>4. CASE IsNode /\ UNCHANGED events /\ core'.id = core.id /\ core'.keys = core.keys
  BY <1>1, <1>2, <1>4, KeyStutter
<1>5. CASE core' = Left
  BY <1>5, LeftKind DEF KeyInv, MeshInv, Kinds
<1>6. QED BY <1>3, <1>4, <1>5, HttpKeeps

LEMMA KeyNext == ASSUME MeshInv, Order, KeyInv, [Next]_vars PROVE KeyInv'
<1>1. CASE BootToPortal \/ BootToMesh \/ Fallback \/ EnableProvisioner \/ EnableNothing
  BY <1>1 DEF BootToPortal, BootToMesh, Fallback, EnableProvisioner, EnableNothing, MeshInv, Places,
              KeyInv, IsNode
<1>2. CASE EnableNode
  <2>1. CASE OtherRole
    BY <1>2, <2>1, EnableNodeIs DEF KeyInv, IsNode
  <2>2. CASE ~OtherRole
    <3>1. core'.id = core.id /\ (core.id # NoId => events' = <<[op |-> "complete", id |-> core.id]>>)
      BY <1>2, <2>2, EnableNodeIs
    <3>2. PICK id : id = core.id
      OBVIOUS
    <3>3. CASE id = NoId
      BY <3>1, <3>2, <3>3 DEF KeyInv
    <3>4. CASE id # NoId
      BY <3>1, <3>2, <3>4, KeyStarts
    <3>5. QED BY <3>3, <3>4
  <2>3. QED BY <2>1, <2>2
<1>3. CASE PowerFails \/ Restart
  BY <1>3, Reboots DEF Reboot, KeyInv, IsNode
<1>4. CASE Provisioner
  BY <1>4, KeyProvisioner
<1>5. CASE Btc
  BY <1>5, KeyBtc
<1>6. CASE AddedGroup \/ RemovedGroup \/ ModeChosen \/ ClearIdentity \/ Requested
  BY <1>6, KeyHttp
<1>7. CASE (TimerFires \/ \E g \in Addresses : Probe(g)) \/ UNCHANGED vars
  <2>1. UNCHANGED <<mesh, sku, cfg, core, erased, events, appIdx, http, keyCut, netCut>>
    BY <1>7, MeshProbes DEF vars, boot, ram, tasks, hist
  <2>2. QED BY <2>1 DEF KeyInv, IsNode, NoComplete
<1>8. QED BY <1>1, <1>2, <1>3, <1>4, <1>5, <1>6, <1>7 DEF Next, HttpStep, BootStep, Addresses

\* ble_mesh_config_server_cb and the PROV_COMPLETE handler: at rest, a bridge in a mesh sends
\* with one of the stack's keys or with none, unless a NetKey was deleted since it started, and
\* the same after a restart, unless a change of key could not be saved or the saved one was not
\* read.
THEOREM MeshKeyInUse == Spec => []KeyInUse
<1>1. MeshInv /\ Order /\ KeyInv => KeyInUse
  <2> SUFFICES ASSUME MeshInv, KeyInv, Settled, Joined, ~netCut
               PROVE  appIdx \in core.keys \cup {Unused} /\ (keyCut \/ KeyToUse = appIdx)
    BY DEF KeyInUse
  <2>1. events = <<>> /\ IsNode /\ core.id # NoId /\ ~erased /\ http.pc # "restart"
    BY DEF Settled, Joined, IsNode, Idle
  <2>2. NoComplete /\ \A i, op, k : ~Follows(events, i, op, k)
    BY <2>1 DEF NoComplete, Follows
  <2>3. QED BY <2>1, <2>2 DEF KeyInv, KeyToUse, Valid
<1>2. Init => MeshInv /\ Order /\ KeyInv
  BY MeshInit, OrderInit, KeyInit
<1>3. MeshInv /\ Order /\ KeyInv /\ [Next]_vars => (MeshInv /\ Order /\ KeyInv)'
  BY MeshNext, OrderNext, KeyNext
<1>4. QED BY <1>1, <1>2, <1>3, PTL DEF Spec


(***************************************************************************)
(* The groups heard and the groups listed.                                 *)
(***************************************************************************)
\* A node of a mesh whose joining was handled.
Started == IsNode /\ core.id # NoId /\ NoComplete /\ ~Identifying

\* Every group of s is one of l, or its change was cut off, or h is about to end it.
Heard(s, l, a, h) == \A g \in s : g \in l \/ g \in a \/ (h.pc = "unsubscribe" /\ h.g = g)

\* Every group of l is one of s, or its change was cut off, or h is about to make it so.
Hears(l, s, a, h) == \A g \in l : g \in s \/ g \in a \/ (h.pc = "subscribe" /\ h.g = g)

\* The list comes first, the subscription follows it: until it does the web handler knows the
\* group.  The subscriptions of a list that was read are made at the address the stack gave.
ListInv ==
  /\ Distinct(Load)
  /\ NoGroup \in Listing => NoGroup \in apart
  /\ Heard(core.subs, Listing, apart, http)
  /\ Started => local = core.id.addr /\ Hears(Listing, core.subs, apart, http)

LEMMA ListKept ==
  ASSUME MeshInv, ListInv, ListSaved,
         NoGroup \in apart => NoGroup \in apart',
         Heard(core'.subs, Listing, apart', http'),
         Started' => local' = core'.id.addr /\ Hears(Listing, core'.subs, apart', http')
  PROVE  ListInv'
<1>1. cfg \in Configs
  BY DEF MeshInv, Kinds
<1>2. Load'.count = Load.count /\ Load'.list = Load.list /\ Listing' = Listing
  BY <1>1, SameList DEF ListSaved
<1>3. Distinct(Load')
  BY <1>2 DEF ListInv, Distinct
<1>4. QED BY <1>2, <1>3 DEF ListInv

\* Every group is in doubt.
LEMMA ListDoubts ==
  ASSUME MeshInv', ListInv, ListDoubted, Started' => local' = core'.id.addr
  PROVE  ListInv'
<1>1. cfg' \in Configs /\ core' \in Cores
  BY DEF MeshInv, Kinds
<1>2. Load'.list \in Lists /\ Load'.count \in 0 .. MaxGroups
  BY <1>1, Relists, MeshAssumption DEF Configs, Lists, Addresses, NoList, MeshAssumption
<1>3. Listing' \subseteq Addresses
  BY <1>2, MeshAssumption DEF Listing, InList, Lists, MeshAssumption
<1>4. core'.subs \subseteq Addresses
  BY <1>1 DEF Cores, Addresses
<1>5. NoGroup \in Addresses /\ Addresses \subseteq apart' /\ Distinct(Load')
  BY DEF ListInv, ListDoubted, Addresses
<1>6. Heard(core'.subs, Listing', apart', http') /\ Hears(Listing', core'.subs, apart', http')
  BY <1>3, <1>4, <1>5 DEF Heard, Hears
<1>7. QED BY <1>5, <1>6 DEF ListInv

\* Most steps: what is no more heard, or begun, was cut off.
LEMMA ListStays ==
  ASSUME MeshInv, ListInv, ListSaved,
         \A g \in apart : g \in apart',
         \A g \in core'.subs : g \in core.subs \/ g \in Listing \/ g \in apart',
         \/ UNCHANGED http
         \/ /\ http'.pc \notin {"subscribe", "unsubscribe"}
            /\ http.pc = "unsubscribe" => http.g \in apart',
         Started' => /\ Started /\ local' = local /\ core'.id = core.id
                     /\ \A g \in core.subs : g \in core'.subs \/ g \in apart'
                     /\ UNCHANGED http \/ http.pc # "subscribe"
  PROVE  ListInv'
<1>1. Heard(core'.subs, Listing, apart', http')
  BY DEF ListInv, Heard
<1>2. Started' => local' = core'.id.addr /\ Hears(Listing, core'.subs, apart', http')
  BY DEF ListInv, Hears
<1>3. QED BY <1>1, <1>2, ListKept DEF ListInv

\* The list is saved with them, as it was or with every group in doubt.
LEMMA ListRewritten ==
  ASSUME MeshInv, MeshInv', ListInv, ListSaved \/ ListDoubted,
         \A g \in apart : g \in apart',
         \A g \in core'.subs : g \in core.subs \/ g \in Listing \/ g \in apart',
         \/ UNCHANGED http
         \/ http'.pc \notin {"subscribe", "unsubscribe"} /\ http.pc \notin {"subscribe", "unsubscribe"},
         Started' => /\ Started /\ local' = local /\ core'.id = core.id
                     /\ \A g \in core.subs : g \in core'.subs \/ g \in apart'
  PROVE  ListInv'
<1>1. CASE ListSaved
  BY <1>1, ListStays
<1>2. CASE ListDoubted
  <2>1. Started' => local' = core'.id.addr
    BY DEF ListInv
  <2>2. QED BY <1>2, <2>1, ListDoubts
<1>3. QED BY <1>1, <1>2

LEMMA ListInit == Init => ListInv
<1> SUFFICES ASSUME Init PROVE ListInv
  OBVIOUS
<1>1. PICK g \in Addresses, s \in {<<>>} \cup Full : cfg = Configured(g, s) /\ (s = <<>> \/ s \in Full)
  BY DEF Init, Addresses
<1>2. cfg \in Configs /\ MaxGroups \in Nat \ {0} /\ NoGroup \notin Groups /\ Missing \notin 0 .. MaxGroups
  BY MeshInit, MeshAssumption DEF MeshInv, Kinds, MeshAssumption
<1>3. Distinct(Load) /\ NoGroup \notin Listing
  <2>1. CASE s = <<>>
    <3>1. cfg.count = Missing /\ cfg.legacy = g
      BY <1>1, <2>1 DEF Configured
    <3>2. Load.list[1] = g
      BY <1>2, <3>1, Loads DEF NoList
    <3>3. Load.count = IF g # NoGroup THEN 1 ELSE 0
      BY <1>2, <3>1, Loads
    <3>4. QED BY <3>2, <3>3 DEF Distinct, Listing, InList
  <2>2. CASE s \in Full
    <3>1. Len(s) = MaxGroups /\ s # <<>>
      BY <1>2, <2>2 DEF Full
    <3>2. cfg.count = MaxGroups /\ cfg.list = s
      BY <1>1, <3>1 DEF Configured
    <3>3. Load.count = MaxGroups /\ Load.list = s
      BY <1>2, <3>2, Loads
    <3>4. QED BY <1>2, <2>2, <3>3 DEF Full, Distinct, Listing, InList
  <2>3. QED BY <1>1, <2>1, <2>2
<1>4. QED BY <1>3, FreshKind DEF Init, ListInv, Heard, Started, IsNode, Idle

LEMMA ListBoot == ASSUME MeshInv, ListInv, BootToPortal \/ BootStep PROVE ListInv'
<1>1. cfg \in Configs /\ core \in Cores /\ MeshInv'
  BY MeshBoot DEF MeshInv, Kinds
<1>2. UNCHANGED http
  BY DEF BootToPortal, BootStep, BootToMesh, Fallback, EnableNode, EnableProvisioner, EnableNothing,
         tasks
<1>3. CASE BootToPortal \/ BootToMesh \/ EnableNothing
  <2>1. ~Started'
    BY <1>3 DEF BootToPortal, BootToMesh, EnableNothing, MeshInv, Places, Started, IsNode
  <2>2. UNCHANGED <<cfg, core, apart>>
    BY <1>3 DEF BootToPortal, BootToMesh, EnableNothing, hist
  <2>3. QED BY <1>1, <1>2, <2>1, <2>2, ListStays DEF ListSaved
<1>4. CASE Fallback
  <2>1. ~Started'
    BY <1>4 DEF Fallback, MeshInv, Places, Started, IsNode
  <2>2. \A g \in core'.subs : g \in core.subs
    BY <1>4, FallbackIs, FreshKind
  <2>3. QED BY <1>1, <1>2, <1>4, <2>1, <2>2, FallbackIs, ListRewritten
<1>5. CASE EnableNode
  <2>1. /\ ListSaved /\ \A g \in apart : g \in apart'
        /\ \A g \in core'.subs : g \in core.subs \/ g \in Listing \/ g \in apart'
    BY <1>1, <1>5, EnableNodeIs DEF ListSaved
  <2>2. ~Started'
    <3>1. CASE OtherRole
      BY <1>5, <3>1, EnableNodeIs DEF Started, IsNode
    <3>2. CASE ~OtherRole
      <4>1. core'.id = core.id /\ (core.id # NoId => events' = <<[op |-> "complete", id |-> core.id]>>)
        BY <1>5, <3>2, EnableNodeIs
      <4>2. PICK id : id = core.id
        OBVIOUS
      <4>3. CASE id = NoId
        BY <4>1, <4>2, <4>3 DEF Started
      <4>4. CASE id # NoId
        <5>1. events' = <<[op |-> "complete", id |-> id]>>
          BY <4>1, <4>2, <4>4
        <5>2. QED BY <5>1 DEF Started, NoComplete
      <4>5. QED BY <4>3, <4>4
    <3>3. QED BY <3>1, <3>2
  <2>3. QED BY <1>2, <2>1, <2>2, ListStays
<1>6. CASE EnableProvisioner
  <2>1. ~Started' /\ ListSaved /\ UNCHANGED apart
    BY <1>1, <1>6 DEF EnableProvisioner, Started, IsNode, ListSaved, hist
  <2>2. core'.subs = core.subs
    BY <1>1, <1>6 DEF EnableProvisioner, Cores
  <2>3. QED BY <1>2, <2>1, <2>2, ListStays
<1>7. QED BY <1>3, <1>4, <1>5, <1>6 DEF BootStep

\* A restart may cut off the end of a subscription.
LEMMA ListReboot ==
  ASSUME MeshInv, ListInv, NEW role \in Roles, Reboot(role)
  PROVE  ListInv'
<1>1. /\ mesh' = "off" /\ cfg' = cfg /\ http' = Idle
      /\ core' = IF erased THEN Fresh ELSE [core EXCEPT !.adv = FALSE]
      /\ apart' = apart \cup IF http.pc = "unsubscribe" THEN {http.g} ELSE {}
  BY DEF Reboot
<1>2. ListSaved /\ ~Started'
  BY <1>1 DEF ListSaved, MeshInv, Kinds, Started, IsNode
<1>3. \A g \in core'.subs : g \in core.subs
  BY <1>1, FreshKind DEF MeshInv, Kinds, Cores
<1>4. QED BY <1>1, <1>2, <1>3, ListStays DEF Idle

LEMMA ListProvisioner == ASSUME MeshInv, Order, ListInv, Provisioner PROVE ListInv'
<1>1. core \in Cores /\ events \in Seq(Events) /\ cfg \in Configs
  BY DEF MeshInv, Kinds
<1>2. Join \/ AddKey \/ BindKey \/ DeleteKey \/ ResetByProvisioner =>
        UNCHANGED <<mesh, sku, cfg, local, btc, http, apart>>
  BY DEF Join, AddKey, BindKey, DeleteKey, ResetByProvisioner, Change, boot, ram, tasks, hist
<1>3. ListSaved
  BY <1>1, <1>2, Untold DEF ListSaved, Provisioner
<1>4. CASE Join
  <2>1. PICK id \in Identities : events' = <<[op |-> "complete", id |-> id]>>
    BY <1>4, JoinIs
  <2>2. ~Started'
    BY <2>1 DEF Started, NoComplete
  <2>3. core'.subs = core.subs
    BY <1>1, <1>4 DEF Join, Cores
  <2>4. QED BY <1>2, <1>3, <1>4, <2>2, <2>3, ListStays
<1>5. CASE ResetByProvisioner
  <2>1. core'.subs = {} /\ ~Started'
    BY <1>1, <1>5, LeftKind DEF ResetByProvisioner, Started
  <2>2. QED BY <1>2, <1>3, <1>5, <2>1, ListStays
<1>6. ASSUME NEW e \in Events, events' = Append(events, e), core'.id = core.id, core'.subs = core.subs,
             AddKey \/ BindKey \/ DeleteKey
      PROVE  ListInv'
  <2>1. NoComplete' => NoComplete
    <3>1. \A i \in 1 .. Len(events) : i \in 1 .. Len(events') /\ events'[i] = events[i]
      BY <1>1, <1>6, Appended
    <3>2. QED BY <3>1 DEF NoComplete
  <2>2. Started' => Started
    BY <1>2, <1>6, <2>1 DEF Started, IsNode, Identifying
  <2>3. QED BY <1>2, <1>3, <1>6, <2>2, ListStays
<1>7. CASE AddKey
  <2>1. PICK k \in Keys : core' = [core EXCEPT !.keys = @ \cup {k}] /\ Change([op |-> "add", key |-> k])
    BY <1>7 DEF AddKey
  <2>2. core'.id = core.id /\ core'.subs = core.subs
    BY <1>1, <2>1 DEF Cores
  <2>3. QED BY <1>6, <1>7, <2>1, <2>2, EventKinds DEF Change
<1>8. CASE BindKey
  <2>1. PICK k \in core.keys : /\ core' = [core EXCEPT !.bound = @ \cup {k}]
                               /\ Change([op |-> "bind", key |-> k])
    BY <1>8 DEF BindKey
  <2>2. core'.id = core.id /\ core'.subs = core.subs /\ k \in Keys
    BY <1>1, <2>1 DEF Cores, MeshInv, Kinds, Places, Change, IsNode
  <2>3. QED BY <1>6, <1>8, <2>1, <2>2, EventKinds DEF Change
<1>9. CASE DeleteKey
  <2>1. PICK k \in core.keys : /\ core' = [core EXCEPT !.keys = @ \ {k}, !.bound = @ \ {k}]
                               /\ Change([op |-> "delete", key |-> k])
    BY <1>9 DEF DeleteKey
  <2>2. core'.id = core.id /\ core'.subs = core.subs /\ k \in Keys
    BY <1>1, <2>1 DEF Cores, MeshInv, Kinds, Places, Change, IsNode
  <2>3. QED BY <1>6, <1>9, <2>1, <2>2, EventKinds DEF Change
<1>10. CASE DeleteNetKey \/ ChangeSubscription
  <2>1. /\ UNCHANGED <<mesh, sku, local, events, btc, http>> /\ core'.id = core.id
        /\ core.subs \subseteq Groups /\ core'.subs \subseteq Groups
        /\ \A g \in apart : g \in apart'
    BY <1>1, <1>10, Untold DEF Cores
  <2>2. /\ \A g \in core.subs : g \in core'.subs \/ g \in apart'
        /\ \A g \in core'.subs : g \in core.subs \/ g \in apart'
    BY <1>10, <2>1, Untold
  <2>3. Started' => Started
    BY <2>1 DEF Started, IsNode, Identifying, NoComplete
  <2>4. QED BY <1>3, <2>1, <2>2, <2>3, ListStays
<1>11. QED BY <1>4, <1>5, <1>7, <1>8, <1>9, <1>10 DEF Provisioner

\* The groups read before are subscribed: what was listed, or dropped, since was overtaken.
LEMMA ListSubscribed == ASSUME MeshInv, Order, ListInv, SubscribeAll PROVE ListInv'
<1>1. /\ btc.pc = "subscribe" /\ local' = btc.id.addr
      /\ core' \in Subscribed(core, btc.groups, btc.id.addr)
      /\ apart' = apart \cup (btc.groups \ Listing) \cup (Listing \ (btc.groups \cup core.subs))
                    \cup (btc.groups \ ({NoGroup} \cup core'.subs))
      /\ UNCHANGED <<cfg, http>>
  BY DEF SubscribeAll, Listing
<1>2. core \in Cores /\ cfg \in Configs /\ btc.groups \in SUBSET Addresses
  BY <1>1, Middle DEF MeshInv, Kinds
<1>3. PICK groups : groups = btc.groups
  OBVIOUS
<1>4. Grown(core, groups, btc.id.addr, core')
  BY <1>1, <1>2, <1>3, SubscribedKind
<1>5. /\ core'.id = core.id /\ \A g \in core.subs : g \in core'.subs
      /\ \A g \in core'.subs : g \in core.subs \/ g \in groups
  BY <1>4 DEF Grown
<1>6. /\ \A g \in apart : g \in apart'
      /\ \A g \in groups : g \notin Listing => g \in apart'
      /\ \A g \in Listing : g \notin groups /\ g \notin core.subs => g \in apart'
      /\ \A g \in groups : g # NoGroup /\ g \notin core'.subs => g \in apart'
  BY <1>1, <1>3
<1>7. Heard(core'.subs, Listing, apart', http')
  BY <1>1, <1>5, <1>6 DEF ListInv, Heard
<1>8. Hears(Listing, core'.subs, apart', http')
  BY <1>5, <1>6 DEF ListInv, Hears
<1>9. Started' => local' = core'.id.addr
  BY <1>1, <1>5 DEF Started, Order, Identifying
<1>10. ListSaved
  BY <1>1, <1>2 DEF ListSaved
<1>11. QED BY <1>1, <1>6, <1>7, <1>8, <1>9, <1>10, ListKept DEF ListInv

LEMMA ListBtc == ASSUME MeshInv, Order, ListInv, Btc PROVE ListInv'
<1>1. core \in Cores /\ cfg \in Configs
  BY DEF MeshInv, Kinds
<1>2. ASSUME ListSaved, core'.subs = core.subs, UNCHANGED <<http, apart>>, ~Started'
      PROVE  ListInv'
  BY <1>2, ListStays
<1>3. CASE Complete
  <2>1. btc'.pc = "identify" /\ UNCHANGED <<cfg, core, http, apart>>
    BY <1>3 DEF Complete
  <2>2. QED BY <1>1, <1>2, <2>1 DEF ListSaved, Started, Identifying
<1>4. CASE Identify
  <2>1. /\ btc.pc = "identify" /\ btc' = [btc EXCEPT !.pc = "subscribe"]
        /\ SaveSome([cfg EXCEPT !.addr = btc.id.addr, !.net = btc.id.net], <<"addr", "net">>)
        /\ UNCHANGED <<core, http, apart>>
    BY <1>4 DEF Identify
  <2>2. PICK id \in Identities : btc.id = id
    BY <2>1, Middle
  <2>3. id.addr \in {0} \cup {i.addr : i \in Identities} /\ id.net \in {0} \cup {i.net : i \in Identities}
    OBVIOUS
  <2>4. SaveSome([cfg EXCEPT !.addr = id.addr, !.net = id.net], <<"addr", "net">>)
    BY <2>1, <2>2
  <2>5. ListSaved
    BY <1>1, <2>3, <2>4, SavesIdentity DEF ListSaved
  <2>6. btc'.pc = "subscribe"
    BY <2>1 DEF MeshInv, Kinds, Handlings, Idle
  <2>7. QED BY <1>2, <2>1, <2>5, <2>6 DEF Started, Identifying
<1>5. CASE SubscribeAll
  BY <1>5, ListSubscribed
<1>6. ASSUME NEW op \in {"add", "bind", "delete"}, Handle(op), UNCHANGED <<sku, mesh, core, local, http, apart>>,
             \E k \in Keys \cup {Unused} : UseKey(k) \/ KeepKey
      PROVE  ListInv'
  <2>1. ListSaved
    BY <1>1, <1>6, SavesKey DEF KeepKey, ListSaved
  <2>2. NoComplete /\ ~Identifying
    BY <1>6, Handles, TailLeft DEF Order, NoComplete, Identifying, Idle
  <2>3. Started' => Started
    BY <1>6, <2>2 DEF Started, IsNode
  <2>4. QED BY <1>6, <2>1, <2>3, ListStays
<1>7. CASE KeyAdded
  BY <1>6, <1>7, Handles DEF KeyAdded, boot
<1>8. CASE KeyBound
  BY <1>6, <1>8, Handles DEF KeyBound, boot
<1>9. CASE KeyDeleted
  BY <1>6, <1>9, Handles DEF KeyDeleted, boot
<1>10. CASE Reset
  <2>1. Handle("reset") /\ UNCHANGED <<core, http>>
    BY <1>10, ResetIs
  <2>2. core.id = NoId
    BY <2>1, TailLeft DEF Order
  <2>3. ~Started'
    BY <2>1, <2>2 DEF Started
  <2>4. QED BY <1>10, <2>1, <2>3, ResetIs, MeshBtc, ListRewritten
<1>11. CASE Forget
  <2>1. btc.pc = "forget" /\ core' = [core EXCEPT !.adv = core.id = NoId] /\ UNCHANGED <<cfg, http, apart>>
    BY <1>11 DEF Forget, hist
  <2>2. core'.id = NoId /\ core'.subs = core.subs
    BY <1>1, <2>1 DEF Order, Cores
  <2>3. QED BY <1>1, <1>2, <2>1, <2>2 DEF Started, ListSaved
<1>12. QED BY <1>3, <1>4, <1>5, <1>7, <1>8, <1>9, <1>10, <1>11 DEF Btc

\* The end of an addition or a removal.
LEMMA ListHttp ==
  ASSUME MeshInv, ListInv, AddedGroup \/ RemovedGroup \/ ModeChosen \/ ClearIdentity
  PROVE  ListInv'
<1>1. core \in Cores /\ cfg \in Configs /\ http \in Requests
  BY DEF MeshInv, Kinds
<1>2. http.pc \in {"subscribe", "unsubscribe"} => http.g \in Groups /\ http.g # NoGroup
  BY <1>1, NoOne DEF Requests, Idle
<1>3. UNCHANGED <<mesh, sku, events, btc, local>>
  BY DEF AddedGroup, RemovedGroup, ModeChosen, ClearIdentity, boot, ram
<1>4. CASE AddedGroup
  <2>1. PICK g : g = http.g /\ g \in Groups /\ g # NoGroup
    BY <1>2, <1>4 DEF AddedGroup
  <2>2. /\ http.pc = "subscribe" /\ http' = Idle /\ core' \in Subscribed(core, {g}, local)
        /\ apart' = IF g \in core'.subs /\ g \in Listing THEN apart \ {g}
                    ELSE IF g \in core'.subs \/ (core.id # NoId /\ local = core.id.addr)
                    THEN apart \cup {g} ELSE apart
        /\ UNCHANGED cfg
    BY <1>4, <2>1 DEF AddedGroup, Listing
  <2>3. Grown(core, {g}, local, core')
    <3>1. {g} \in SUBSET Addresses
      BY <2>1 DEF Addresses
    <3>2. QED BY <1>1, <2>2, <3>1, SubscribedKind
  <2>4. /\ core'.id = core.id /\ \A x \in core.subs : x \in core'.subs
        /\ \A x \in core'.subs : x \in core.subs \/ x = g
    BY <2>3 DEF Grown
  <2>5. /\ \A x \in apart : x \in apart' \/ (x = g /\ g \in core'.subs /\ g \in Listing)
        /\ g \in core'.subs => g \in Listing \/ g \in apart'
    BY <2>2
  <2>6. Heard(core'.subs, Listing, apart', http')
    BY <2>1, <2>2, <2>4, <2>5 DEF ListInv, Heard
  <2>7. Started' => Started
    BY <1>3, <2>4 DEF Started, IsNode, Identifying, NoComplete
  <2>8. ASSUME Started PROVE Hears(Listing, core'.subs, apart', http')
    <3>1. g \in core'.subs \/ g \in apart'
      BY <2>2, <2>8 DEF ListInv, Started
    <3>2. QED BY <2>1, <2>4, <2>5, <2>8, <3>1 DEF ListInv, Hears
  <2>9. ListSaved
    BY <1>1, <2>2 DEF ListSaved
  <2>10. Started' => local' = core'.id.addr
    BY <1>3, <2>4, <2>7 DEF ListInv
  <2>11. http'.pc = "idle"
    BY <2>2 DEF Idle
  <2>12. QED BY <2>1, <2>5, <2>6, <2>7, <2>8, <2>9, <2>10, <2>11, ListKept
<1>5. CASE RemovedGroup
  <2>1. PICK g : g = http.g /\ g \in Groups /\ g # NoGroup
    BY <1>2, <1>5 DEF RemovedGroup
  <2>2. /\ http.pc = "unsubscribe" /\ http' = Idle /\ core' = Unsubscribed(core, g, local)
        /\ apart' = IF g \in core'.subs \cup Listing THEN apart \cup {g} ELSE apart \ {g}
        /\ UNCHANGED cfg
    BY <1>5, <2>1 DEF RemovedGroup, Listing
  <2>3. core'.id = core.id /\ core'.subs \in {core.subs, core.subs \ {g}}
    BY <1>1, <2>2, UnsubscribedKind
  <2>4. /\ \A x \in core'.subs : x \in core.subs
        /\ \A x \in core.subs : x # g => x \in core'.subs
        /\ \A x \in apart : x # g => x \in apart'
        /\ g \in core'.subs \/ g \in Listing => g \in apart'
    BY <2>2, <2>3
  <2>5. Heard(core'.subs, Listing, apart', http')
    BY <2>1, <2>2, <2>4 DEF ListInv, Heard
  <2>6. Started' => Started
    BY <1>3, <2>3 DEF Started, IsNode, Identifying, NoComplete
  <2>7. Started => Hears(Listing, core'.subs, apart', http')
    BY <2>1, <2>2, <2>4 DEF ListInv, Hears
  <2>8. ListSaved
    BY <1>1, <2>2 DEF ListSaved
  <2>9. Started' => local' = core'.id.addr
    BY <1>3, <2>3, <2>6 DEF ListInv
  <2>10. http'.pc = "idle"
    BY <2>2 DEF Idle
  <2>11. QED BY <2>1, <2>4, <2>5, <2>6, <2>7, <2>8, <2>9, <2>10, ListKept
<1>6. CASE ModeChosen
  <2>1. /\ http.pc = "erase" /\ http' = Idle /\ UNCHANGED <<cfg, apart>>
        /\ EraseStack \/ UNCHANGED core
    BY <1>6 DEF ModeChosen
  <2>2. core' = core \/ (core' = Fresh /\ mesh # "up")
    BY <1>1, <2>1, EraseIs
  <2>3. Started' => Started /\ core' = core
    BY <1>3, <2>2 DEF Started, IsNode, Identifying, NoComplete
  <2>4. \A g \in core'.subs : g \in core.subs
    BY <2>2, FreshKind
  <2>5. http.pc \notin {"subscribe", "unsubscribe"} /\ http'.pc = "idle"
    BY <2>1 DEF Idle
  <2>6. QED BY <1>1, <1>3, <2>1, <2>3, <2>4, <2>5, ListStays DEF ListSaved
<1>7. CASE ClearIdentity
  <2>1. UNCHANGED core /\ http.pc = "clear" /\ http'.pc = "restart"
    BY <1>7, ClearIs
  <2>2. Started' => Started
    BY <1>3, <2>1 DEF Started, IsNode, Identifying, NoComplete
  <2>3. QED BY <1>3, <1>7, <2>1, <2>2, ClearIs, MeshHttp, ListRewritten
<1>8. QED BY <1>4, <1>5, <1>6, <1>7

\* A change of the list: it is wholly saved, and the handler goes on, or the group is noted.
LEMMA ListChanged ==
  ASSUME MeshInv, ListInv, NEW g \in Groups, Request({"up"}), Distinct(Load'),
         UNCHANGED <<sku, mesh, core, local, events, btc>>,
         \/ /\ http' \in {[pc |-> "subscribe", g |-> g], [pc |-> "unsubscribe", g |-> g]}
            /\ UNCHANGED apart /\ Listing' = Listing
         \/ /\ http' = [pc |-> "subscribe", g |-> g] /\ UNCHANGED apart
            /\ Listing' = Listing \cup {g}
         \/ /\ http' = [pc |-> "unsubscribe", g |-> g] /\ UNCHANGED apart
            /\ Listing' = Listing \ {g}
         \/ UNCHANGED http /\ apart' = apart \cup {g} /\ Listing' \in {Listing, Listing \cup {g}}
         \/ /\ UNCHANGED http /\ apart' = apart \cup {g, NoGroup}
            /\ Listing' \in {Listing, Listing \ {g}, (Listing \ {g}) \cup {NoGroup}}
  PROVE  ListInv'
<1>1. http.pc = "idle" /\ g # NoGroup
  BY RequestIs, NoOne
<1>2. Started' => Started
  BY DEF Started, IsNode, Identifying, NoComplete
<1>3. CASE /\ http' = [pc |-> "subscribe", g |-> g] /\ UNCHANGED apart
           /\ Listing' = Listing \cup {g}
  <2>1. http'.pc = "subscribe" /\ http'.g = g
    BY <1>3
  <2>2. Heard(core'.subs, Listing', apart', http') /\ (Started => Hears(Listing', core'.subs, apart', http'))
    BY <1>1, <1>3, <2>1 DEF ListInv, Heard, Hears
  <2>3. QED BY <1>1, <1>2, <1>3, <2>1, <2>2 DEF ListInv
<1>4. CASE /\ http' = [pc |-> "unsubscribe", g |-> g] /\ UNCHANGED apart
           /\ Listing' = Listing \ {g}
  <2>1. http'.pc = "unsubscribe" /\ http'.g = g
    BY <1>4
  <2>2. Heard(core'.subs, Listing', apart', http') /\ (Started => Hears(Listing', core'.subs, apart', http'))
    BY <1>1, <1>4, <2>1 DEF ListInv, Heard, Hears
  <2>3. QED BY <1>1, <1>2, <1>4, <2>1, <2>2 DEF ListInv
<1>5. CASE /\ UNCHANGED http /\ g \in apart' /\ (\A x \in apart : x \in apart')
           /\ \A x \in Listing' : x \in Listing \/ x = g \/ x = NoGroup
           /\ \A x \in Listing : x \in Listing' \/ x = g
           /\ NoGroup \in Listing' => NoGroup \in apart'
  <2>1. Heard(core'.subs, Listing', apart', http')
    BY <1>1, <1>5 DEF ListInv, Heard
  <2>2. Started => Hears(Listing', core'.subs, apart', http')
    BY <1>1, <1>5 DEF ListInv, Hears
  <2>3. QED BY <1>1, <1>2, <1>5, <2>1, <2>2 DEF ListInv
<1>6. NoGroup \in Listing => NoGroup \in apart
  BY DEF ListInv
<1>7. CASE UNCHANGED http /\ apart' = apart \cup {g} /\ Listing' \in {Listing, Listing \cup {g}}
  BY <1>1, <1>5, <1>6, <1>7
<1>8. CASE /\ UNCHANGED http /\ apart' = apart \cup {g, NoGroup}
           /\ Listing' \in {Listing, Listing \ {g}, (Listing \ {g}) \cup {NoGroup}}
  BY <1>5, <1>8
<1>9. CASE /\ http' \in {[pc |-> "subscribe", g |-> g], [pc |-> "unsubscribe", g |-> g]}
           /\ UNCHANGED apart /\ Listing' = Listing
  <2>1. Heard(core'.subs, Listing', apart', http') /\ (Started => Hears(Listing', core'.subs, apart', http'))
    BY <1>1, <1>9 DEF ListInv, Heard, Hears
  <2>2. QED BY <1>2, <1>9, <2>1 DEF ListInv
<1>10. QED BY <1>3, <1>4, <1>7, <1>8, <1>9

LEMMA ListRequested == ASSUME MeshInv, ListInv, Requested PROVE ListInv'
<1>1. /\ core \in Cores /\ cfg \in Configs /\ Distinct(Load) /\ MeshInv'
  BY MeshRequested DEF MeshInv, Kinds, ListInv
<1>2. ASSUME UNCHANGED cfg PROVE Listing' = Listing /\ Distinct(Load')
  BY <1>1, <1>2, SameList DEF Distinct
<1>3. ASSUME UNCHANGED <<sku, mesh, core, local, events, btc>>, ListDoubted PROVE ListInv'
  <2>1. Started' => Started
    BY <1>3 DEF Started, IsNode, Identifying, NoComplete
  <2>2. Started' => local' = core'.id.addr
    BY <1>3, <2>1 DEF ListInv
  <2>3. QED BY <1>1, <1>3, <2>2, ListDoubts
<1>4. ASSUME NEW g \in Groups, AddGroup(g) \/ RemoveGroup(g) PROVE ListInv'
  <2>1. Request({"up"}) /\ UNCHANGED <<sku, mesh, core, local, events, btc>>
    BY <1>4, AddGroupIs, RemoveGroupIs
  <2>2. CASE /\ http' \in {[pc |-> "subscribe", g |-> g], [pc |-> "unsubscribe", g |-> g]}
             /\ UNCHANGED <<cfg, apart>>
    BY <1>2, <2>1, <2>2, ListChanged
  <2>3. CASE ListDoubted
    BY <1>3, <2>1, <2>3
  <2>4. CASE AddGroup(g) /\ ~ListDoubted
    BY <1>1, <2>1, <2>2, <2>4, AddGroupIs, ListChanged
  <2>5. CASE RemoveGroup(g) /\ ~ListDoubted
    BY <1>1, <2>1, <2>2, <2>5, RemoveGroupIs, ListChanged
  <2>6. QED BY <1>4, <2>3, <2>4, <2>5
\* The others leave the list, or doubt it.
<1>5. ASSUME NEW page, Request(page), ListSaved \/ ListDoubted, \A g \in apart : g \in apart',
             UNCHANGED <<sku, mesh, core, local, events, btc>>,
             UNCHANGED http \/ http'.pc \notin {"subscribe", "unsubscribe"}
      PROVE  ListInv'
  <2>1. http.pc = "idle"
    BY <1>5, RequestIs
  <2>2. Started' => Started
    BY <1>5 DEF Started, IsNode, Identifying, NoComplete
  <2>3. QED BY <1>1, <1>5, <2>1, <2>2, ListRewritten
<1>6. CASE Leave
  <2>1. UNCHANGED <<sku, mesh, cfg, local, btc, http, apart>>
    BY <1>6 DEF Leave, boot, ram, tasks, hist
  <2>2. CASE UNCHANGED <<core, events>>
    BY <1>1, <1>5, <1>6, <2>1, <2>2 DEF Leave, ListSaved
  <2>3. CASE core' = Left
    <3>1. core'.subs = {} /\ ~Started'
      BY <1>1, <2>3, LeftKind DEF Started
    <3>2. QED BY <1>1, <2>1, <3>1, ListStays DEF ListSaved
  <2>4. QED BY <1>6, <2>2, <2>3 DEF Leave
<1>7. CASE ChooseMode
  <2>1. UNCHANGED http \/ http'.pc \notin {"subscribe", "unsubscribe"}
    BY <1>7, ChooseModeIs DEF Idle
  <2>2. QED BY <1>5, <1>7, <2>1, ChooseModeIs
<1>8. CASE WifiSet
  <2>1. http'.pc \notin {"subscribe", "unsubscribe"}
    BY <1>8, WifiSetIs
  <2>2. QED BY <1>5, <1>8, <2>1, WifiSetIs
<1>9. CASE ResetRole
  <2>1. /\ Request({"up"}) /\ EraseStack /\ http' = [pc |-> "clear"]
        /\ UNCHANGED <<sku, mesh, cfg, local, events, btc, apart>>
    BY <1>9 DEF ResetRole, boot, ram, hist
  <2>2. http.pc = "idle" /\ http'.pc = "clear"
    BY <2>1, RequestIs
  <2>3. CASE mesh = "up"
    BY <1>1, <1>5, <2>1, <2>2, <2>3, EraseIs DEF ListSaved
  <2>4. CASE mesh # "up"
    <3>1. core'.subs = {} /\ ~Started'
      BY <1>1, <2>1, <2>4, EraseIs, FreshKind DEF Started, IsNode
    <3>2. QED BY <1>1, <2>1, <2>2, <3>1, ListStays DEF ListSaved
  <2>5. QED BY <2>3, <2>4
<1>10. CASE Discover
  BY <1>1, <1>5, <1>10 DEF Discover, Enqueue, boot, ram, tasks, hist, ListSaved
<1>11. QED BY <1>4, <1>6, <1>7, <1>8, <1>9, <1>10 DEF Requested

LEMMA ListNext == ASSUME MeshInv, Order, ListInv, [Next]_vars PROVE ListInv'
<1>1. CASE BootToPortal \/ BootStep
  BY <1>1, ListBoot
<1>2. CASE PowerFails \/ Restart
  BY <1>2, Reboots, ListReboot
<1>3. CASE Provisioner
  BY <1>3, ListProvisioner
<1>4. CASE Btc
  BY <1>4, ListBtc
<1>5. CASE AddedGroup \/ RemovedGroup \/ ModeChosen \/ ClearIdentity
  BY <1>5, ListHttp
<1>6. CASE Requested
  BY <1>6, ListRequested
<1>7. CASE (TimerFires \/ \E g \in Addresses : Probe(g)) \/ UNCHANGED vars
  <2>1. UNCHANGED <<sku, mesh, cfg, core, local, events, btc, http, apart>>
    BY <1>7, MeshProbes DEF vars, boot, ram, tasks, hist
  <2>2. ListSaved /\ (Started' => Started)
    BY <2>1 DEF MeshInv, Kinds, ListSaved, Started, IsNode, Identifying, NoComplete
  <2>3. QED BY <2>1, <2>2, ListStays
<1>8. QED BY <1>1, <1>2, <1>3, <1>4, <1>5, <1>6, <1>7 DEF Next, HttpStep, Addresses

\* mesh_config.cpp, the group handlers and the PROV_COMPLETE handler: at rest, a bridge in a
\* mesh hears the groups its settings list and no other, whatever order the handlers, the
\* stack and the restarts came in, except the groups whose change was cut off or overtaken, those
\* a provisioner changed in the stack, and all after a list that was not read was saved.
THEOREM MeshSubscribedAsListed == Spec => []SubscribedAsListed
<1>1. MeshInv /\ ListInv => SubscribedAsListed
  <2> SUFFICES ASSUME MeshInv, ListInv, Settled, Joined, NEW g \in (Groups \cup {NoGroup}) \ apart
               PROVE  g \in core.subs <=> g \in InList(Load)
    BY DEF SubscribedAsListed
  <2>1. events = <<>> /\ btc = Idle /\ http = Idle /\ IsNode /\ core.id # NoId
    BY DEF Settled, Joined, IsNode
  <2>2. Started /\ http.pc = "idle"
    BY <2>1 DEF Started, NoComplete, Identifying, Idle
  <2>3. Heard(core.subs, Listing, apart, http) /\ Hears(Listing, core.subs, apart, http)
    BY <2>2 DEF ListInv
  <2>4. QED BY <2>2, <2>3 DEF Heard, Hears, Listing
<1>2. Init => MeshInv /\ Order /\ ListInv
  BY MeshInit, OrderInit, ListInit
<1>3. MeshInv /\ Order /\ ListInv /\ [Next]_vars => (MeshInv /\ Order /\ ListInv)'
  BY MeshNext, OrderNext, ListNext
<1>4. QED BY <1>1, <1>2, <1>3, PTL DEF Spec

=============================================================================
