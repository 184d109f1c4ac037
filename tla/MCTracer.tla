------------------------------ MODULE MCTracer ------------------------------
(* Instances of Tracer for TLC.                                            *)
EXTENDS Tracer, TLC

Ev(kind, state, parts) == [kind |-> kind, state |-> state, ctx |-> "", parts |-> parts]
Works == {Ev("status_update", "WORKING", <<>>)}

\* Every call is made to the same agent.
SameAgent == [c \in Calls |-> "a"]

\* Limits that make sense, and that do not.
AskedFor == {-1, 0, 1, 2}

\* Calls are interchangeable, as all are made to the same agent.
Symmetry == Permutations(Calls)
=============================================================================
