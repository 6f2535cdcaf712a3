-------------------------- MODULE MCProcessManager --------------------------
(* Instances of ProcessManager for TLC. *)
EXTENDS ProcessManager

CONSTANTS a, b, c, d

MCJobs3 == {a, b, c}
MCGpu2  == {a, b}
MCGpu3  == {a, b, c}
MCJobs2 == {a, b}
MCNone  == {}
MCOne   == {1}
MCTwo   == {2}

Symmetry == Permutations(GpuJobs) \cup Permutations(Jobs \ GpuJobs)
=============================================================================
