--------------------------- MODULE BenchmarkSweep ---------------------------
(***************************************************************************)
(* The sequential benchmark driver of run_comprehensive_benchmarks.py:     *)
(* BenchmarkRunner.run() checks the host, builds Lambdust, then sweeps     *)
(* implementation x test case, calling run_single_test once per case, and  *)
(* hands the collected per-implementation result lists to the analysis.    *)
(*                                                                         *)
(* One run_single_test call is one action: it writes the materialised      *)
(* source to a temporary file, runs the (ignored) warmups, runs up to      *)
(* Iterations timed invocations with a break on the first failure, builds  *)
(* the result record and unlinks the file in its finally clause.  Nothing  *)
(* else runs while it does, so no interleaving is lost by this grain.      *)
(* The outcome of every timed invocation is chosen by \E from a small set; *)
(* the ghost variable `measured' remembers the choice for the properties.  *)
(***************************************************************************)
EXTENDS Integers, Sequences, SequencesExt, TLC

CONSTANTS
    Impls,            \* configured implementation ids, in config order
    Lambdust,         \* the id the native sweep skips ('lambdust')
    Available,        \* ids whose binary check_system_requirements finds
    Cases,            \* test cases in sweep order: category x test x combo
    Durations,        \* possible elapsed times of one successful invocation
    ConfigIterations, \* values statistical_config.iterations may have
    Quick,            \* the --quick flag
    WriteMayFail      \* whether f.write of the temporary file may raise

ASSUME Lambdust \in Range(Impls) /\ Available \subseteq Range(Impls)
ASSUME ConfigIterations \subseteq Nat
ASSUME Quick \in BOOLEAN /\ WriteMayFail \in BOOLEAN

VARIABLES
    iterations,   \* the iteration count run_single_test reads
    phase,        \* where BenchmarkRunner.run() is
    implIdx,      \* index into Impls of the implementation being swept
    caseIdx,      \* index into Cases of the next test of that implementation
    implResults,  \* run_implementation_benchmarks' local `results' list
    native,       \* run_native_benchmarks' `results' dict: impl -> list
    nativeLost,   \* an exception escaped run_native_benchmarks
    tempFiles,    \* temporary test files left on disk
    measured      \* ghost: per executed test, the invocation outcomes chosen

vars == <<iterations, phase, implIdx, caseIdx, implResults, native, nativeLost,
          tempFiles, measured>>


(* What one execute_test_file call can return: exit 0 after some elapsed  *)
(* time, a nonzero exit, TimeoutExpired, or (binary missing) an OSError.  *)
NoError == "none"
FailureKinds == {"nonzero", "timeout", "spawn_error"}
Outcome == [kind : {"ok"}, elapsed : Durations] \cup [kind : FailureKinds]

(* execute_test_file on a host: an unavailable binary fails to spawn.     *)
OutcomesOf(impl) ==
    IF impl \in Available
    THEN [kind : {"ok"}, elapsed : Durations] \cup [kind : {"nonzero", "timeout"}]
    ELSE [kind : {"spawn_error"}]

Result == [implementation : Range(Impls), case : Range(Cases),
           success : BOOLEAN, timing_results : Seq(Durations),
           error : FailureKinds \cup {NoError}]

(* The timed loop of run_single_test: append the elapsed time of each     *)
(* successful invocation, break on the first failure; `error' is the      *)
(* stderr (here: the kind) of the last invocation run.                    *)
(* Seeded fault of the loop: the elapsed time taken as                   *)
(* start_time - end_time.                                                 *)
RECURSIVE measurement_runs_negated(_, _)
measurement_runs_negated(mo, timing_results) ==
    IF mo = <<>> THEN [timing_results |-> timing_results, error |-> NoError]
    ELSE IF Head(mo).kind = "ok"
         THEN measurement_runs_negated(Tail(mo), Append(timing_results, -Head(mo).elapsed))
         ELSE [timing_results |-> timing_results, error |-> Head(mo).kind]

RECURSIVE measurement_runs(_, _)
measurement_runs(mo, timing_results) ==
    IF mo = <<>> THEN [timing_results |-> timing_results, error |-> NoError]
    ELSE IF Head(mo).kind = "ok"
         THEN measurement_runs(Tail(mo), Append(timing_results, Head(mo).elapsed))
         ELSE [timing_results |-> timing_results, error |-> Head(mo).kind]

(* Seeded fault: the run counts as failed as soon as one iteration fails  *)
(* (the reading of spec 4.2 step 4), though timings were collected.       *)
single_test_result_anyfail(impl, case, mo) ==
    LET m == measurement_runs(mo, <<>>) IN
    [implementation |-> impl, case |-> case,
     success |-> m.error = NoError,
     timing_results |-> m.timing_results,
     error |-> m.error]

(* The record run_single_test returns for the outcomes mo.                *)
single_test_result(impl, case, mo) ==
    LET m == measurement_runs(mo, <<>>) IN
    [implementation |-> impl, case |-> case,
     success |-> m.timing_results # <<>>,
     timing_results |-> m.timing_results,
     error |-> IF m.timing_results # <<>> THEN NoError ELSE m.error]

(* load_configuration: --quick overrides the configured iteration count. *)
(* Warmup invocations are run and their outcome discarded, so the warmup  *)
(* count changes no state of the model.                                   *)
Init ==
    /\ \E ci \in ConfigIterations : iterations = IF Quick THEN 3 ELSE ci
    /\ phase = "check"
    /\ implIdx = 1
    /\ caseIdx = 1
    /\ implResults = <<>>
    /\ native = <<>>
    /\ nativeLost = FALSE
    /\ tempFiles = 0
    /\ measured = <<>>

(* check_system_requirements: docker --version must succeed and at least  *)
(* one implementation must be available, else run() exits.                *)
check_system_requirements ==
    /\ phase = "check"
    /\ \E dockerOk \in BOOLEAN :
         phase' = IF dockerOk /\ Available # {} THEN "build" ELSE "exit"
    /\ UNCHANGED <<iterations, implIdx, caseIdx, implResults, native, nativeLost,
                   tempFiles, measured>>

(* build_lambdust: cargo build --release; failure exits run().           *)
build_lambdust ==
    /\ phase = "build"
    /\ \E ok \in BOOLEAN : phase' = IF ok THEN "sweep" ELSE "exit"
    /\ UNCHANGED <<iterations, implIdx, caseIdx, implResults, native, nativeLost,
                   tempFiles, measured>>

(* run_native_benchmarks: `if impl['id'] == 'lambdust': continue'.        *)
skip_lambdust ==
    /\ phase = "sweep"
    /\ implIdx <= Len(Impls)
    /\ Impls[implIdx] = Lambdust
    /\ implIdx' = implIdx + 1
    /\ UNCHANGED <<iterations, phase, caseIdx, implResults, native, nativeLost,
                   tempFiles, measured>>

(* An exception escaping run_native_benchmarks is caught in run(), which  *)
(* then goes on without a 'native_results' entry.                         *)
AbortSweep ==
    /\ phase' = "analysis"
    /\ nativeLost' = TRUE
    /\ UNCHANGED <<iterations, implIdx, caseIdx, implResults, native, measured>>

(* run_single_test for the next case of the current implementation.       *)
run_single_test ==
    /\ phase = "sweep"
    /\ implIdx <= Len(Impls)
    /\ Impls[implIdx] # Lambdust
    /\ caseIdx <= Len(Cases)
    /\ LET impl == Impls[implIdx]
           case == Cases[caseIdx]
       IN \E written \in (IF WriteMayFail THEN BOOLEAN ELSE {TRUE}),
             mo \in [1..iterations -> OutcomesOf(impl)] :
            \* f.write raises before the try: the delete=False file stays
            \/ /\ ~written
               /\ tempFiles' = tempFiles + 1
               /\ AbortSweep
            \* no iteration ran: `error' is unbound, the finally unlinks
            \/ /\ written
               /\ iterations = 0
               /\ AbortSweep
               /\ UNCHANGED tempFiles
            \/ /\ written
               /\ iterations > 0
               /\ implResults' = Append(implResults, single_test_result(impl, case, mo))
               /\ measured' = Append(measured,
                                [implementation |-> impl, case |-> case, outcomes |-> mo])
               /\ caseIdx' = caseIdx + 1
               /\ UNCHANGED <<iterations, phase, implIdx, native, nativeLost, tempFiles>>

(* run_native_benchmarks: results[impl['id']] = impl_results.            *)
record_implementation ==
    /\ phase = "sweep"
    /\ implIdx <= Len(Impls)
    /\ Impls[implIdx] # Lambdust
    /\ caseIdx > Len(Cases)
    /\ native' = native @@ (Impls[implIdx] :> implResults)
    /\ implIdx' = implIdx + 1
    /\ caseIdx' = 1
    /\ implResults' = <<>>
    /\ UNCHANGED <<iterations, phase, nativeLost, tempFiles, measured>>

(* run(): all_results['native_results'] = native_results.                *)
end_sweep ==
    /\ phase = "sweep"
    /\ implIdx > Len(Impls)
    /\ phase' = "analysis"
    /\ UNCHANGED <<iterations, implIdx, caseIdx, implResults, native, nativeLost,
                   tempFiles, measured>>

(* run() has exited, or the sweep is over and the analysis takes over.    *)
Terminated ==
    /\ phase \in {"exit", "analysis"}
    /\ UNCHANGED vars

Next ==
    \/ check_system_requirements
    \/ build_lambdust
    \/ skip_lambdust
    \/ run_single_test
    \/ record_implementation
    \/ end_sweep
    \/ Terminated

(* The driver is one sequential thread that runs until it returns.        *)
Spec == Init /\ [][Next]_vars /\ WF_vars(Next)

-----------------------------------------------------------------------------
(* Every result recorded so far, finished implementations and current.    *)
AllResults == UNION {Range(native[i]) : i \in DOMAIN native} \cup Range(implResults)

SweptImpls == Range(Impls) \ {Lambdust}

TypeOK ==
    /\ iterations \in Nat
    /\ phase \in {"check", "build", "sweep", "analysis", "exit"}
    /\ implIdx \in 1..(Len(Impls) + 1)
    /\ caseIdx \in 1..(Len(Cases) + 1)
    /\ implResults \in Seq(Result)
    /\ DOMAIN native \subseteq SweptImpls
    /\ \A i \in DOMAIN native : native[i] \in Seq(Result)
    /\ nativeLost \in BOOLEAN
    /\ tempFiles \in Nat
    /\ measured \in Seq([implementation : Range(Impls), case : Range(Cases),
                         outcomes : Seq(Outcome)])

(* A result says exactly what its timed invocations did: its timings are  *)
(* the elapsed times of the successful invocations before the first       *)
(* failure, in order; it is a success iff there is at least one; a        *)
(* failure carries the reason of the invocation that stopped it.  This is *)
(* the break-on-first-failure loop and the success rule of                *)
(* run_single_test, stated against the outcomes the processes produced.  *)
ResultsFaithful ==
    \A r \in AllResults :
      \E m \in Range(measured) :
        /\ m.implementation = r.implementation
        /\ m.case = r.case
        /\ LET n == Len(r.timing_results) IN
           /\ n <= Len(m.outcomes)
           /\ \A k \in 1..n : m.outcomes[k] = [kind |-> "ok", elapsed |-> r.timing_results[k]]
           /\ n < Len(m.outcomes) => m.outcomes[n + 1].kind # "ok"
           /\ r.success <=> n > 0
           /\ ~r.success => r.error = m.outcomes[1].kind

(* No temporary test file outlives the run_single_test call that created  *)
(* it, on any exit path (the spec's scoped-resource guarantee).           *)
NoTempFileLeft == tempFiles = 0

(* The results handed to the analysis are never thrown away: when the    *)
(* analysis starts, native_results is there (spec: fail loud, not lossy). *)
ResultsKept == phase = "analysis" => ~nativeLost

(* The native sweep benchmarks exactly the swept implementations whose   *)
(* binary check_system_requirements found (spec 7: an unavailable        *)
(* implementation is skipped, the sweep goes on with the rest).           *)
(* run_native_benchmarks skips only lambdust and never consults the      *)
(* availability check, so a missing binary is run and recorded.          *)
AvailableBenchmarked ==
    (phase = "analysis" /\ ~nativeLost) => DOMAIN native = SweptImpls \cap Available
=============================================================================
