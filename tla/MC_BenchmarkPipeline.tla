------------------------ MODULE MC_BenchmarkPipeline ------------------------
(* Model-checking instance of BenchmarkPipeline: two runtimes benchmarked *)
(* natively on the two supported sizes of one test (a third value entry   *)
(* has an unsupported type), and a baseline with one entry per size for   *)
(* guile, and for chez a failed entry (no ops/second) and one exactly 5%  *)
(* above what 2 runs of 1+2 s give.                                        *)
(* MC_ConfigImpls, MC_ConfigCategories: the same, as a configuration    *)
(* file that --implementations and --categories narrow to them.          *)
(* MC_CollidingCategories: two tests whose keys collide.                  *)
(* MC_UnsupportedCategories: a test whose only value has an unsupported   *)
(* type.                                                                  *)
EXTENDS BenchmarkPipeline

MC_Impls == <<"lambdust", "guile", "chez">>
MC_Available == {"lambdust", "guile", "chez"}
Fib(n) == [category |-> "arith", test_name |-> "fib", parameters |-> ("n" :> n)]
Entry(ty, v) == [type |-> ty, value |-> v]
MC_Categories ==
    << [name |-> "arith",
        tests |-> << [name |-> "fib",
                      parameters |-> << [name |-> "n",
                                         values |-> << Entry("Integer", 10), Entry("List", 15),
                                                       Entry("Integer", 20) >>] >>] >>] >>
(* Two tests whose category and test name join to the same key "a_b_c".  *)
Single(c, t, ty) == [name |-> c, tests |-> << [name |-> t,
                       parameters |-> << [name |-> "n", values |-> << Entry(ty, 10) >>] >>] >>]
MC_CollidingCategories == << Single("a_b", "c", "Integer"), Single("a", "b_c", "Integer") >>
(* The configuration file of the main run: a fourth runtime and a second *)
(* category, both left out by --implementations and --categories.         *)
MC_ConfigImpls == MC_Impls \o <<"racket">>
MC_ConfigCategories == MC_Categories \o << Single("io", "read", "Integer") >>
MC_UnsupportedCategories == << Single("arith", "fib", "List") >>
MC_Baseline ==
    ("guile" :> << [case |-> Fib(10), ops_per_second |-> Ratio(1, 1)],
                   [case |-> Fib(20), ops_per_second |-> Ratio(1, 2)] >>)
 @@ ("chez" :> << [case |-> Fib(10), ops_per_second |-> Ratio(0, 1)],
                  [case |-> Fib(20), ops_per_second |-> Ratio(40, 57)] >>)
=============================================================================
