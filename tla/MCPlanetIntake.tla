--------------------------- MODULE MCPlanetIntake ----------------------------
(* Two planets, or one that is rebuilt.  The first reaches so far beyond its   *)
(* bounds that no attempt fits it, the second a little; the rebuilt one is     *)
(* large and within its bounds.                                                *)
EXTENDS PlanetIntake

MCId(e)     == IF e = 2 THEN 20 ELSE 10
MCRadius(e) == <<15, 25, 30>>[e]
MCBuilt(e)  == <<"maps", "null", "failed">>[e]
MCReach(e)  == <<60, 31, 30>>[e]
==============================================================================
