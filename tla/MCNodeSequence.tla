--------------------------- MODULE MCNodeSequence ----------------------------
(***************************************************************************)
(* The sequences TLC checks: a generator, a person's approval of its       *)
(* result, and a validator that may send the generator back.               *)
(***************************************************************************)
EXTENDS NodeSequence

CONSTANTS gen, ask, val

SeqNodes == {gen, ask, val}

MCOrder == <<gen, ask, val>>

\* The generator retries once.
GenRetries == [n \in SeqNodes |-> IF n = gen THEN 1 ELSE 0]

\* The validator may send back either of the others.
ValRejects == [n \in SeqNodes |-> IF n = val THEN {gen, ask} ELSE {}]
MCMax      == [n \in SeqNodes |-> 1]
=============================================================================
