---------------------------- MODULE MCEngineDocument ------------------------------
(* Two tiles in bounds and one outside, two identities, three operations.  *)
EXTENDS EngineDocument, TLC

CONSTANTS c1, c2, cOut, s1, s2, a1, a2, o1, o2, o3

\* Clearing, placing, moving, swapping and merging identities; then a repeated
\* identity on one tile and across tiles, a repeated and an outside coordinate.
McShapes ==
    {{<<c1, << >>>>}, {<<c2, <<s1>>>>}, {<<c1, <<s1>>>>},
     {<<c1, << >>>>, <<c2, <<s1>>>>},
     {<<c1, <<s1>>>>, <<c2, <<s2>>>>},
     {<<c2, <<s1, s2>>>>, <<c1, << >>>>},
     {<<c1, <<s1, s1>>>>}, {<<c1, <<s1>>>>, <<c2, <<s1>>>>},
     {<<c1, << >>>>, <<c1, <<s1>>>>}, {<<cOut, <<s1>>>>}}

\* One tile stored with both identities, the other absent; and an empty map.
McFirstTiles == {[c \in {c1} |-> <<s1, s2>>], [c \in {} |-> << >>]}

McSymmetry == Permutations({a1, a2}) \cup Permutations({o1, o2, o3})
===================================================================================
