--------------------------- MODULE MCMetaLifecycle ---------------------------
(* Small instances of MetaLifecycle.                                        *)
EXTENDS MetaLifecycle, TLC

CONSTANTS v1, v2

(* The two contents of a chunk are interchangeable.                         *)
Symmetry == Permutations(Versions)

(* At first, chunks that share an object or a place in one differ.          *)
SmallInit ==
  /\ Init
  /\ \E v, w \in Versions :
       v # w /\ \A c \in UnitsOf(shape) : payload[c] = IF c \in {0, 3} THEN v ELSE w
SmallSpec == SmallInit /\ [][Next]_vars
=============================================================================
