------------------------- MODULE PerformanceMonitor -------------------------
(***************************************************************************)
(* scripts/performance_monitor.py: the PerformanceMonitor background       *)
(* sampling thread and the foreground that drives it,                      *)
(* BenchmarkProfiler.profile_benchmark (psutil branch), called Runs times  *)
(* on one profiler, which owns a single shared monitor.                    *)
(*                                                                         *)
(* Actors: the foreground (fg), one sampling thread per start_monitoring   *)
(* (thread t is the one started by run t), and the child process of each   *)
(* run.  The thread's loop body is split where the foreground can observe  *)
(* it: the read of `self.monitoring', the clock read inside                *)
(* _collect_system_metrics, and the appends.  The sleep is folded into the *)
(* next flag read.  A child's pid is its run number; once the child is     *)
(* reaped the pid may be taken by a foreign process.                       *)
(***************************************************************************)
EXTENDS Integers, Sequences, SequencesExt, FiniteSets

CONSTANTS
    Runs,           \* profile_benchmark calls made on the one profiler
    MaxTicks,       \* sampling ticks one thread takes before its run ends
    JoinMayTimeOut, \* a tick can outlast join(timeout=1.0)
    PidReuse,       \* a reaped child's pid can be handed to another process
    Valgrind        \* a call may ask for Valgrind, and valgrind is installed

ASSUME Runs \in Nat \ {0} /\ MaxTicks \in Nat \ {0}
ASSUME JoinMayTimeOut \in BOOLEAN /\ PidReuse \in BOOLEAN /\ Valgrind \in BOOLEAN

RunIds == 1..Runs
Pids == RunIds

VARIABLES
    monitoring,      \* self.monitoring
    monitorThread,   \* self._monitor_thread: 0 (None) or the run that made it
    targets,         \* self._target_processes
    metrics_history, \* self.metrics_history: system samples
    process_history, \* self.process_history: pid -> process samples
    tpc,             \* per thread: "none", "check", "sample", "append", "done"
    tts,             \* per thread: timestamp read by _collect_system_metrics
    ticks,           \* per thread: loop iterations that took samples
    clock,           \* time.time()
    fg,              \* where profile_benchmark is
    run,             \* the profile_benchmark call in progress
    timedOut,        \* communicate raised TimeoutExpired in this run
    pidOwner,        \* pid -> "unused", "child", "zombie", "free", "foreign"
    results,         \* profile_results returned, one per finished run
    vgOut            \* the massif output file: who wrote it (0: none), its snapshots

vars == <<monitoring, monitorThread, targets, metrics_history, process_history,
          tpc, tts, ticks, clock, fg, run, timedOut, pidOwner, results, vgOut>>

(* A sample is tagged with the thread that took it (a ghost field) and,   *)
(* for a process sample, with whose process answered for the pid.         *)
SystemSample == [ts : Nat, by : RunIds]
ProcessSample == [by : RunIds, proc : {"child", "zombie", "foreign"}]
Snapshot == [system_metrics : Seq(SystemSample),
             process_metrics : [Pids -> Seq(ProcessSample)]]
VG == INSTANCE ValgrindOutput

(* profile is the call whose Valgrind output was parsed into the result  *)
(* (0: none; Stale: a file left by an earlier program), profile_data what *)
(* the parse returned, and wrote (a ghost) the snapshots the call's own   *)
(* valgrind run wrote.                                                    *)
Stale == -1
NoFile == [by |-> 0, snaps |-> <<>>]
StaleFile == [by |-> Stale, snaps |-> << [time |-> 0, heap |-> 2, extra |-> 0, stacks |-> 0] >>]
ProfileResult == [success : BOOLEAN, monitored : BOOLEAN, monitoring : Snapshot,
                  profile : {Stale, 0} \cup RunIds,
                  profile_data : {VG!NoProfile} \cup
                                 {VG!parse_massif_output(VG!MassifFile(m)) :
                                    m \in VG!MassifRuns \cup {StaleFile.snaps}},
                  wrote : VG!MassifRuns]

Live == {"check", "sample", "append"}
NoHistory == [p \in Pids |-> <<>>]

(* A profile result without a 'monitoring' entry (spawn error, timeout).  *)
Failed == [success |-> FALSE, monitored |-> FALSE,
           monitoring |-> [system_metrics |-> <<>>, process_metrics |-> NoHistory],
           profile |-> 0, profile_data |-> VG!NoProfile, wrote |-> <<>>]

Init ==
    /\ monitoring = FALSE
    /\ monitorThread = 0
    /\ targets = {}
    /\ metrics_history = <<>>
    /\ process_history = NoHistory
    /\ tpc = [t \in RunIds |-> "none"]
    /\ tts = [t \in RunIds |-> 0]
    /\ ticks = [t \in RunIds |-> 0]
    /\ clock = 0
    /\ fg = "idle"
    /\ run = 1
    /\ timedOut = FALSE
    /\ pidOwner = [p \in Pids |-> "unused"]
    /\ results = <<>>
    /\ vgOut \in {NoFile, StaleFile}   \* /tmp/valgrind_output outlives the program

-----------------------------------------------------------------------------
(* Foreground: profile_benchmark.                                         *)

(* subprocess.Popen(command, ...); a spawn error is caught by the generic *)
(* `except Exception' and returned as a failed profile result.            *)
Popen ==
    /\ fg = "idle"
    /\ run <= Runs
    /\ \/ /\ pidOwner' = [pidOwner EXCEPT ![run] = "child"]
          /\ fg' = "enter"
          /\ UNCHANGED <<run, results, vgOut>>
       \/ /\ results' = Append(results, Failed)
          /\ run' = run + 1
          /\ UNCHANGED <<fg, pidOwner, vgOut>>
    /\ UNCHANGED <<monitoring, monitorThread, targets, metrics_history,
                   process_history, tpc, tts, ticks, clock, timedOut, vgOut>>

(* The Valgrind branch: ValgrindProfiler.profile_command runs the command *)
(* under valgrind with subprocess.run(timeout=600), which waits for the    *)
(* child and kills it on timeout.  On return the output file is parsed if *)
(* it exists, whoever wrote it; valgrind writes it on a normal exit and    *)
(* may not when it fails early.  On timeout nothing is parsed.  The        *)
(* monitor is not touched.                                                *)
profile_command ==
    /\ fg = "idle"
    /\ run <= Runs
    /\ Valgrind
    /\ \E written \in BOOLEAN, exitedZero \in BOOLEAN, timeout \in BOOLEAN,
         snaps \in VG!MassifRuns :
         /\ exitedZero => written /\ ~timeout
         /\ ~written => snaps = <<>>
         /\ vgOut' = IF written THEN [by |-> run, snaps |-> snaps] ELSE vgOut
         /\ results' = Append(results,
                          [success |-> exitedZero, monitored |-> FALSE,
                           monitoring |-> Failed.monitoring,
                           profile |-> IF timeout THEN 0 ELSE vgOut'.by,
                           profile_data |->
                             IF timeout THEN VG!NoProfile
                             ELSE VG!parse_valgrind_output(vgOut'.by # 0, VG!MassifFile(vgOut'.snaps)),
                           wrote |-> snaps])
    /\ pidOwner' = [pidOwner EXCEPT ![run] = "free"]
    /\ run' = run + 1
    /\ UNCHANGED <<monitoring, monitorThread, targets, metrics_history,
                   process_history, tpc, tts, ticks, clock, fg, timedOut>>

(* Seeded fault: start_monitoring without clearing the histories.        *)
monitor_process_enter_noclear ==
    /\ fg = "enter"
    /\ targets' = targets \cup {run}
    /\ IF monitoring
       THEN UNCHANGED <<monitoring, monitorThread, tpc>>
       ELSE /\ monitoring' = TRUE
            /\ monitorThread' = run
            /\ tpc' = [tpc EXCEPT ![run] = "check"]
    /\ fg' = "communicate"
    /\ UNCHANGED <<metrics_history, process_history, tts, ticks, clock, run,
                   timedOut, pidOwner, results, vgOut>>

(* monitor_process.__enter__: add_target_process(pid) then                *)
(* start_monitoring(), which returns at once if already monitoring and    *)
(* otherwise clears both histories and starts a new thread.               *)
monitor_process_enter ==
    /\ fg = "enter"
    /\ targets' = targets \cup {run}
    /\ IF monitoring
       THEN UNCHANGED <<monitoring, monitorThread, metrics_history,
                        process_history, tpc>>
       ELSE /\ monitoring' = TRUE
            /\ metrics_history' = <<>>
            /\ process_history' = NoHistory
            /\ monitorThread' = run
            /\ tpc' = [tpc EXCEPT ![run] = "check"]
    /\ fg' = "communicate"
    /\ UNCHANGED <<tts, ticks, clock, run, timedOut, pidOwner, results, vgOut>>

(* Seeded fault: communicate() without a timeout.                        *)
communicate_untimed ==
    /\ fg = "communicate"
    /\ pidOwner[run] = "zombie"
    /\ pidOwner' = [pidOwner EXCEPT ![run] = "free"]
    /\ timedOut' = FALSE
    /\ fg' = "stop1"
    /\ UNCHANGED <<monitoring, monitorThread, targets, metrics_history,
                   process_history, tpc, tts, ticks, clock, run, results, vgOut>>

(* process.communicate(timeout=300): returns once the child has exited    *)
(* and reaps it, or raises TimeoutExpired while the child still runs; the *)
(* child is not killed.                                                    *)
communicate ==
    /\ fg = "communicate"
    /\ \/ /\ pidOwner[run] = "zombie"
          /\ pidOwner' = [pidOwner EXCEPT ![run] = "free"]
          /\ timedOut' = FALSE
       \/ /\ pidOwner[run] = "child"
          /\ timedOut' = TRUE
          /\ UNCHANGED pidOwner
    /\ fg' = "stop1"
    /\ UNCHANGED <<monitoring, monitorThread, targets, metrics_history,
                   process_history, tpc, tts, ticks, clock, run, results, vgOut>>

(* stop_monitoring(), first half: self.monitoring = False.               *)
StopRequest(from, to) ==
    /\ fg = from
    /\ monitoring' = FALSE
    /\ fg' = to
    /\ UNCHANGED <<monitorThread, targets, metrics_history, process_history,
                   tpc, tts, ticks, clock, run, timedOut, pidOwner, results, vgOut>>

(* Seeded fault: stop_monitoring without the join.                       *)
JoinReturns_nojoin == TRUE

(* stop_monitoring(), second half: self._monitor_thread.join(timeout=1.0) *)
(* returns when the thread has ended, or after the timeout while it runs. *)
(* Its 0.1 s sleep cannot outlast the join; only a slow collection, which *)
(* the thread is in the middle of, can.                                   *)
JoinReturns ==
    \/ monitorThread = 0
    \/ tpc[monitorThread] = "done"
    \/ JoinMayTimeOut /\ tpc[monitorThread] \in {"sample", "append"}

(* The finally of monitor_process: stop_monitoring() (result dropped),    *)
(* then remove_target_process(pid).                                       *)
monitor_process_exit ==
    /\ fg = "join1"
    /\ JoinReturns
    /\ targets' = targets \ {run}
    /\ fg' = IF timedOut THEN "timeout" ELSE "stop2"
    /\ UNCHANGED <<monitoring, monitorThread, metrics_history, process_history,
                   tpc, tts, ticks, clock, run, timedOut, pidOwner, results, vgOut>>

(* profile_benchmark after the with: monitoring_results =                 *)
(* stop_monitoring(), which returns what the histories hold now.          *)
collect_monitoring_results ==
    /\ fg = "join2"
    /\ JoinReturns
    /\ \E exitedZero \in BOOLEAN :
         results' = Append(results,
                      [success |-> exitedZero, monitored |-> TRUE,
                       monitoring |-> [system_metrics |-> metrics_history,
                                       process_metrics |-> process_history],
                       profile |-> 0, profile_data |-> VG!NoProfile, wrote |-> <<>>])
    /\ fg' = "idle"
    /\ run' = run + 1
    /\ UNCHANGED <<monitoring, monitorThread, targets, metrics_history,
                   process_history, tpc, tts, ticks, clock, timedOut, pidOwner, vgOut>>

(* except subprocess.TimeoutExpired: a failed result, no monitoring data. *)
report_timeout ==
    /\ fg = "timeout"
    /\ results' = Append(results, Failed)
    /\ fg' = "idle"
    /\ run' = run + 1
    /\ UNCHANGED <<monitoring, monitorThread, targets, metrics_history,
                   process_history, tpc, tts, ticks, clock, timedOut, pidOwner, vgOut>>

-----------------------------------------------------------------------------
(* The sampling thread t: _monitor_loop.                                  *)

(* `while self.monitoring:' (after the previous tick's sleep).  A thread  *)
(* that has taken MaxTicks samples waits here until monitoring stops.     *)
monitor_loop_check(t) ==
    /\ tpc[t] = "check"
    /\ \/ /\ ~monitoring
          /\ tpc' = [tpc EXCEPT ![t] = "done"]
       \/ /\ monitoring
          /\ ticks[t] < MaxTicks
          /\ tpc' = [tpc EXCEPT ![t] = "sample"]
    /\ UNCHANGED <<monitoring, monitorThread, targets, metrics_history,
                   process_history, tts, ticks, clock, fg, run, timedOut,
                   pidOwner, results, vgOut>>

(* _collect_system_metrics: timestamp=time.time() and the psutil reads.   *)
collect_system_metrics(t) ==
    /\ tpc[t] = "sample"
    /\ tts' = [tts EXCEPT ![t] = clock]
    /\ clock' = clock + 1
    /\ tpc' = [tpc EXCEPT ![t] = "append"]
    /\ UNCHANGED <<monitoring, monitorThread, targets, metrics_history,
                   process_history, ticks, fg, run, timedOut, pidOwner, results, vgOut>>

(* What _collect_process_metrics(pid) gets: psutil answers for a running  *)
(* or foreign process, may or may not for a zombie, and raises            *)
(* NoSuchProcess (caught inside, None returned) for a free pid.           *)
Answers(p) ==
    CASE pidOwner[p] = "child"   -> {"child"}
      [] pidOwner[p] = "foreign" -> {"foreign"}
      [] pidOwner[p] = "zombie"  -> {"zombie", "none"}
      [] pidOwner[p] \in {"free", "unused"} -> {"none"}

(* Seeded fault: `if process_metrics:' dropped, None is appended.        *)
monitor_loop_append_nocheck(t) ==
    /\ tpc[t] = "append"
    /\ metrics_history' = Append(metrics_history, [ts |-> tts[t], by |-> t])
    /\ \E answer \in [targets -> {"child", "zombie", "foreign", "none"}] :
         /\ \A p \in targets : answer[p] \in Answers(p)
         /\ process_history' =
              [p \in Pids |->
                 IF p \in targets
                 THEN Append(process_history[p], [by |-> t, proc |-> answer[p]])
                 ELSE process_history[p]]
    /\ ticks' = [ticks EXCEPT ![t] = @ + 1]
    /\ tpc' = [tpc EXCEPT ![t] = "check"]
    /\ UNCHANGED <<monitoring, monitorThread, targets, tts, clock, fg, run,
                   timedOut, pidOwner, results, vgOut>>

(* The rest of the tick: append the system sample, then for every pid in  *)
(* list(self._target_processes) append the process sample if one came    *)
(* back.  The `discard' in the loop's except never runs: the exception is *)
(* already caught in _collect_process_metrics.                            *)
monitor_loop_append(t) ==
    /\ tpc[t] = "append"
    /\ metrics_history' = Append(metrics_history, [ts |-> tts[t], by |-> t])
    /\ \E answer \in [targets -> {"child", "zombie", "foreign", "none"}] :
         /\ \A p \in targets : answer[p] \in Answers(p)
         /\ process_history' =
              [p \in Pids |->
                 IF p \in targets /\ answer[p] # "none"
                 THEN Append(process_history[p],
                             [by |-> t, proc |-> answer[p]])
                 ELSE process_history[p]]
    /\ ticks' = [ticks EXCEPT ![t] = @ + 1]
    /\ tpc' = [tpc EXCEPT ![t] = "check"]
    /\ UNCHANGED <<monitoring, monitorThread, targets, tts, clock, fg, run,
                   timedOut, pidOwner, results, vgOut>>

-----------------------------------------------------------------------------
(* The environment: the child exits by itself; a freed pid is reused.    *)

ChildExits ==
    /\ \E p \in Pids :
         /\ pidOwner[p] = "child"
         /\ pidOwner' = [pidOwner EXCEPT ![p] = "zombie"]
    /\ UNCHANGED <<monitoring, monitorThread, targets, metrics_history,
                   process_history, tpc, tts, ticks, clock, fg, run, timedOut,
                   results, vgOut>>

PidReused ==
    /\ PidReuse
    /\ \E p \in Pids :
         /\ pidOwner[p] = "free"
         /\ pidOwner' = [pidOwner EXCEPT ![p] = "foreign"]
    /\ UNCHANGED <<monitoring, monitorThread, targets, metrics_history,
                   process_history, tpc, tts, ticks, clock, fg, run, timedOut,
                   results, vgOut>>

Done ==
    /\ run > Runs
    /\ \A t \in RunIds : tpc[t] \in {"none", "done"}
    /\ UNCHANGED vars

Foreground ==
    \/ profile_command
    \/ Popen
    \/ monitor_process_enter
    \/ communicate
    \/ StopRequest("stop1", "join1")
    \/ monitor_process_exit
    \/ StopRequest("stop2", "join2")
    \/ collect_monitoring_results
    \/ report_timeout

Sampler(t) ==
    \/ monitor_loop_check(t)
    \/ collect_system_metrics(t)
    \/ monitor_loop_append(t)

Next ==
    \/ Foreground
    \/ \E t \in RunIds : Sampler(t)
    \/ ChildExits
    \/ PidReused
    \/ Done

(* The foreground and every sampling thread are scheduled by the OS; a    *)
(* child is not assumed to exit (communicate's timeout covers a hang).    *)
Spec == Init /\ [][Next]_vars /\ WF_vars(Foreground)
        /\ \A t \in RunIds : WF_vars(Sampler(t))

-----------------------------------------------------------------------------
TypeOK ==
    /\ monitoring \in BOOLEAN
    /\ monitorThread \in 0..Runs
    /\ targets \subseteq Pids
    /\ metrics_history \in Seq(SystemSample)
    /\ process_history \in [Pids -> Seq(ProcessSample)]
    /\ tpc \in [RunIds -> {"none", "done"} \cup Live]
    /\ tts \in [RunIds -> Nat]
    /\ ticks \in [RunIds -> 0..MaxTicks]
    /\ clock \in Nat
    /\ fg \in {"idle", "enter", "communicate", "stop1", "join1", "stop2",
               "join2", "timeout"}
    /\ run \in 1..(Runs + 1)
    /\ timedOut \in BOOLEAN
    /\ pidOwner \in [Pids -> {"unused", "child", "zombie", "free", "foreign"}]
    /\ results \in Seq(ProfileResult)
    /\ vgOut.by \in {Stale, 0} \cup RunIds /\ vgOut.snaps \in VG!MassifRuns

(* The samples in the result of profile_benchmark call k were all taken   *)
(* by the thread call k started: no sampler of an earlier call leaks into *)
(* its history (start_monitoring's clear, stop_monitoring's join).        *)
RunSamplesOwn ==
    \A k \in 1..Len(results) :
      results[k].monitored =>
        /\ \A s \in Range(results[k].monitoring.system_metrics) : s.by = k
        /\ \A p \in Pids :
             \A s \in Range(results[k].monitoring.process_metrics[p]) : s.by = k

(* The process samples of call k describe its own child only: never       *)
(* another pid, never a process that took the child's pid after it was    *)
(* reaped (spec 4.3: an exited process is dropped from tracking).         *)
ProcessSamplesFromChild ==
    \A k \in 1..Len(results) :
      results[k].monitored =>
        \A p \in Pids :
          \A s \in Range(results[k].monitoring.process_metrics[p]) :
            p = k /\ s.proc # "foreign"

(* When profile_benchmark returns, its child is no longer running (spec   *)
(* 5: a timeout forcibly terminates the subprocess).                      *)
ChildTerminatedOnReturn ==
    \A k \in 1..Len(results) : pidOwner[k] # "child"

(* The Valgrind data in the result of call k was written by call k's own *)
(* valgrind run: _parse_valgrind_output reads {impl}_{test}_massif.out in *)
(* /tmp/valgrind_output whenever it exists, so a run that exits before    *)
(* writing it picks up an earlier run's profile.                          *)
ValgrindProfileOwn ==
    \A k \in 1..Len(results) : results[k].profile \in {0, k}

(* A Valgrind call that parsed the file its own valgrind run wrote        *)
(* reports that run's peak heap and snapshot count: peak_memory_bytes is  *)
(* the largest heap figure massif wrote, whatever the extra-heap figures  *)
(* beside it, and num_snapshots the number of snapshots.  About the       *)
(* startswith tests and the running max of _parse_massif_output, reached  *)
(* from profile_command through _parse_valgrind_output.                   *)
MassifPeakFaithful ==
    \A k \in 1..Len(results) :
      results[k].profile = k =>
        /\ results[k].profile_data.peak_memory_bytes = VG!PeakHeap(results[k].wrote)
        /\ results[k].profile_data.num_snapshots = Len(results[k].wrote)

(* Every profile_benchmark call returns, however long the child or a      *)
(* sampling tick takes: communicate and join are both bounded.            *)
ProfileReturns == <>(run > Runs)

-----------------------------------------------------------------------------
(* Refinement: the monitor, driven by profile_benchmark, is a sampler     *)
(* session in the sense of SamplerSessions.  The session is the thread    *)
(* self._monitor_thread, live while that thread is still in its loop; its *)
(* history is self.metrics_history; a call's result carries the system    *)
(* samples of its 'monitoring' entry.                                     *)
Sessions == INSTANCE SamplerSessions WITH
    owner <- monitorThread,
    live <- monitorThread # 0 /\ tpc[monitorThread] \in Live,
    clock <- clock,
    history <- metrics_history,
    results <- [k \in DOMAIN results |->
                  [monitored |-> results[k].monitored,
                   samples |-> results[k].monitoring.system_metrics]]

(* Every behaviour of start_monitoring / _monitor_loop / stop_monitoring  *)
(* under profile_benchmark is a behaviour of SamplerSessions: the history *)
(* is cleared when a call starts its thread, only that thread appends,    *)
(* stamps never go back, no sample lands after the thread has left its    *)
(* loop, and the call returns its own thread's samples.                   *)
SessionsRefined == Sessions!Spec

=============================================================================
