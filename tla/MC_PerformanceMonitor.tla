----------------------- MODULE MC_PerformanceMonitor -----------------------
(* Model-checking instance of PerformanceMonitor; the bounds are given in *)
(* the .cfg files.  Thread and pid ids are the run numbers 1..Runs.       *)
EXTENDS PerformanceMonitor
=============================================================================
