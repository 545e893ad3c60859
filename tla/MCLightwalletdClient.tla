------------------------ MODULE MCLightwalletdClient ------------------------
(* Small instances of LightwalletdClient for TLC.                          *)
EXTENDS LightwalletdClient

SmallChannels == 1 .. 8
=============================================================================
