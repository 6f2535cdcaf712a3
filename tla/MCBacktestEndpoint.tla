------------------------- MODULE MCBacktestEndpoint -------------------------
(* Instances of BacktestEndpoint for TLC. *)
EXTENDS BacktestEndpoint

CONSTANTS a, b, c, d

MCJobs1 == {a}
MCJobs2 == {a, b}
MCJobs3 == {a, b, c}
MCJobs4 == {a, b, c, d}
MCNone  == {}
MCTwo   == {2}

Symmetry == Permutations(GpuJobs) \cup Permutations(Jobs \ GpuJobs)
=============================================================================
