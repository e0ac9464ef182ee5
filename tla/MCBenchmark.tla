---------------------------- MODULE MCBenchmark ----------------------------
(* Model checking of Benchmark: a long ring, two threads that are forgiven *)
(* an error each, and two that transfer synchronously.                     *)
EXTENDS Benchmark

Test(m, e, c, r) == [mode |-> m, endpoints |-> e, count |-> c, retry |-> r]

MCTests ==
    { Test("async", {"in"}, 3, 1), Test("async", {"in", "out"}, 1, 1),
      Test("sync", {"in", "out"}, 1, 1) }
=============================================================================
