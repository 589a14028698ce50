--------------------------- MODULE MCLightControl ---------------------------
(* A small instance of LightControl, and two round trips on the real scale. *)
EXTENDS LightControl

AllLights == {{"onoff", "lightness", "hsl", "ctl"}, {"onoff", "lightness", "hsl"},
              {"onoff", "lightness", "ctl"}, {"onoff", "lightness"}, {"onoff"}, {"onoff", "level"}}

\* A colour sent and heard back costs a low even brightness two units, and the next colour two
\* more: ble_mesh_control.cpp:354 says that a round trip loses nothing.
ASSUME LossAddsUp ==
  LET RoundTrip(b) == Brightness(HslLightness(b, 65535), 65535)
  IN RoundTrip(100) = 98 /\ RoundTrip(98) = 96
=============================================================================
