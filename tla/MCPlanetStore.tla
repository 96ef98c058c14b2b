---------------------------- MODULE MCPlanetStore ----------------------------
(* Three uploads, all under names that children typed, and one fault: the    *)
(* folder that clear_names is cut short in, and is run on again.             *)
EXTENDS PlanetStore, TLC

\* The uploads are alike, since none of them is in Plain.
IdSymmetry == Permutations(Id)
==============================================================================
