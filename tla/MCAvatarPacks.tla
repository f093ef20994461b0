--------------------------- MODULE MCAvatarPacks ---------------------------
(* Constant values for checking AvatarPacks with TLC.                       *)
EXTENDS AvatarPacks

\* Two workers on one machine, with an engine each.
Different == [w \in Workers |-> IF w = "a" THEN 11 ELSE 12]
Mixed     == [w \in Workers |-> IF w = "a" THEN "musetalk" ELSE "liveportrait"]
=============================================================================
