---------------------------- MODULE MCReturnPath ----------------------------
(***************************************************************************)
(* ReturnPath on a grid, four long, two wide and two high, with two peaks  *)
(* above the handoff, and no map or one obstacle or another in it.         *)
(***************************************************************************)
EXTENDS ReturnPath

Peaks == {<<2, 0, 2>>, <<2, 1, 2>>}
Grid == ((0..3) \X (0..1) \X (0..1)) \union Peaks
Ground == <<0, 0, 0>>
Maps == {{}, {<<1, 0, 0>>}, {<<2, 1, 1>>}}
=============================================================================
