---------------------------- MODULE MCMessageBus ----------------------------
(* Instances of MessageBus for TLC.                                        *)
EXTENDS MessageBus, TLC

Ev(kind, state, ctx, parts) == [kind |-> kind, state |-> state, ctx |-> ctx, parts |-> parts]
Status(s) == Ev("status_update", s, "", <<>>)
Says(parts) == Ev("message", "", "", parts)
Makes(parts) == Ev("artifact_update", "", "", parts)

\* One event of each sort: the branches of the replay loop.
AllSorts ==
  {Ev("task", "WORKING", "x", <<>>), Ev("task", "", "", <<>>),
   Status("WORKING"), Status("FAILED"), Status(""),
   Makes(<<"t1">>), Makes(<<"", "t2">>), Says(<<"t1", "t2">>), Says(<<"">>),
   Ev("unknown", "", "", <<>>), Ev("garbled", "", "", <<>>)}

\* Texts first of all: the precedence of messages over artifacts.
Spoke == {Makes(<<"t1">>), Makes(<<"", "t2">>), Makes(<<>>), Says(<<"t2", "t1">>),
          Says(<<"t2", "">>), Says(<<>>), Status("COMPLETED"),
          Ev("task", "WORKING", "x", <<>>)}
=============================================================================
