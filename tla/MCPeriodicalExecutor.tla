------------------------ MODULE MCPeriodicalExecutor ------------------------
(***************************************************************************)
(* A chunk container with one task that leaves room for others and two     *)
(* that fill it alone, so that two callers may be handing batches over at  *)
(* a time.                                                                 *)
(***************************************************************************)
EXTENDS PeriodicalExecutor, TLC

CONSTANTS t1, t2, t3

ChunkSizes == (t1 :> 1) @@ (t2 :> 2) @@ (t3 :> 2)
=============================================================================
