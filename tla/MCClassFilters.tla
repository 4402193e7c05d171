--------------------------- MODULE MCClassFilters ---------------------------
(* Four classes: A is the root, B below it, C and D below B, so that a     *)
(* class has up to three marks above it.  The presets nest marks both ways, *)
(* mark a class that may not be loaded, allow and ignore the same class,   *)
(* and have a filter for loading.                                          *)
EXTENDS ClassFilters

CONSTANTS A, B, C, D

MCClass == {A, B, C, D}
MCChain == [c \in MCClass |-> CASE c = A -> <<A>>
                                [] c = B -> <<B, A>>
                                [] c = C -> <<C, B, A>>
                                [] c = D -> <<D, B, A>>]
MCNative == {A}

F(on, off) == [allowed |-> on, ignored |-> off]
P(f, g, use) == [filter |-> [k \in Kind |-> IF k = "actor" THEN f ELSE g],
                 useLoadActor |-> use, useLoadComponent |-> FALSE]

MCPreset == {P(F({A, C}, {B}), F({A}, {}), FALSE),
             P(F({A}, {B, D}), F({B}, {C}), TRUE),
             P(F({B, D}, {B, C}), F({}, {A}), FALSE)}
=============================================================================
