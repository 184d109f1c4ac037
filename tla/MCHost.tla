------------------------------- MODULE MCHost -------------------------------
(* Instances of Host for TLC.                                              *)
EXTENDS Host

Ev(kind, state, parts) == [kind |-> kind, state |-> state, ctx |-> "", parts |-> parts]
Works == {Ev("status_update", "WORKING", <<>>), Ev("message", "", <<"t1">>)}
=============================================================================
