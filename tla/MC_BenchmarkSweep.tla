------------------------- MODULE MC_BenchmarkSweep -------------------------
(* Model-checking instance of BenchmarkSweep: Lambdust (skipped by the    *)
(* native sweep), one available runtime, one whose binary is missing, and *)
(* two test cases of one test that differ only in their parameters.       *)
EXTENDS BenchmarkSweep

MC_Impls == <<"lambdust", "guile", "chez">>
MC_Available == {"lambdust", "guile"}
MC_Cases ==
    << [category |-> "arith", test_name |-> "fib", parameters |-> ("n" :> 10)],
       [category |-> "arith", test_name |-> "fib", parameters |-> ("n" :> 20)] >>
=============================================================================
