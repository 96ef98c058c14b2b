----------------------------- MODULE WallEntities -----------------------------
(* The planets of a wall as the page's objects: an entity for every time a     *)
(* planet is put on the wall, and the planet it shows.                          *)
EXTENDS Integers, Sequences, SequencesExt

CONSTANTS
    Entity,             \* each is textured, surfaced and shot at most once
    Id(_)               \* a planet that is rebuilt keeps its id

ASSUME EntityAssumption == IsFiniteSet(Entity) /\ Entity \subseteq Nat

\* What a Map keeps: an entry is set, an entry is deleted.
Put(f, x, y)  == [z \in DOMAIN f \cup {x} |-> IF z = x THEN y ELSE f[z]]
Without(f, x) == Restrict(f, DOMAIN f \ {x})
==============================================================================
