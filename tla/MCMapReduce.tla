----------------------------- MODULE MCMapReduce -----------------------------
(***************************************************************************)
(* Small instances of MapReduce.  A call may be one in which nearly        *)
(* everything is possible, or one in which the user's functions do one     *)
(* kind of thing and for which the call has to come to its end.            *)
(***************************************************************************)
EXTENDS MapReduce

AllButGenerator == Acts \ {"genpanic"}
AllButEarly == Acts \ {"redearly", "redcancel"}
Cancels == {"mapwrite", "mapcancel", "redwrite", "redcancel"}
EarlyWrite == {"mapwrite", "redwrite", "redearly", "redcancel"}
EarlyCancelled == {"mapwrite", "mapcancel", "redwrite", "redearly"}
WorkersPanic == {"mapwrite", "mappanic", "redpanic"}
GeneratorPanics == {"mapwrite", "genpanic", "redwrite"}
ContextEnds == {"mapwrite", "ctx"}

MCScenarios ==
    {AllButGenerator, AllButEarly, Cancels, EarlyWrite, EarlyCancelled, WorkersPanic, GeneratorPanics, ContextEnds}
HangScenario == {{"mapwrite", "mappanic", "redpanic", "redwrite", "redearly"}}
=============================================================================
