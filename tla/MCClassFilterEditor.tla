------------------------- MODULE MCClassFilterEditor -------------------------
(* Actors: a chain of three blueprints, and an internal class.         *)
EXTENDS ClassFilterEditor

CONSTANTS O, Actor, Hidden, B1, B2, B3

MCChain ==
    [c \in {O, Actor, Hidden, B1, B2, B3} |->
        CASE c = O -> <<O>>
          [] c = Actor -> <<Actor, O>>
          [] c = Hidden -> <<Hidden, Actor, O>>
          [] c = B1 -> <<B1, Actor, O>>
          [] c = B2 -> <<B2, B1, Actor, O>>
          [] c = B3 -> <<B3, B2, B1, Actor, O>>]
F(on, off) == [allowed |-> on, ignored |-> off, base |-> Actor]
MCStart == {F({B1}, {B2, B1})}
=============================================================================
