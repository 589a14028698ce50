---- MODULE MCCommissioning ----
EXTENDS Commissioning
CONSTANTS Lamp, Plug

Nodes == {Lamp, Plug}
\* A colour light whose temperature server has an element of its own, and a switch.
TheirElements == (Lamp :> <<{"onoff", "ctl"}, {"level", "ctl_temp"}>>) @@ (Plug :> <<{"onoff"}>>)
TheirBearers == (Lamp :> {"adv", "gatt"}) @@ (Plug :> {"adv"})

Budget(sw, out, cold, nodes, req, loss) ==
  [switches |-> sw, outages |-> out, cold |-> cold, nodes |-> nodes, requests |-> req, losses |-> loss]
MCBudgets ==
  {Budget(2, 1, 1, 0, 0, 0), Budget(0, 2, 1, 0, 0, 0),   \* the bridge alone
   Budget(0, 0, 0, 2, 2, 1), Budget(1, 0, 0, 2, 0, 0),   \* the nodes
   Budget(0, 1, 0, 1, 0, 0)}                             \* both
====
