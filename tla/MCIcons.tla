------------------------------- MODULE MCIcons -------------------------------
(* Instances of Icons for TLC. *)
EXTENDS Icons, TLC

CONSTANTS a1, a2

(* One asset with an icon, one with a toml entry and an overridden domain. *)
IconAndMeta == a1 :> "icon" @@ a2 :> "meta"

(* entryOverhead for every entry, and the body of an image. *)
MCSizeOf == [k \in Published |-> IF k = "icon" THEN 3 ELSE 1]
=============================================================================
