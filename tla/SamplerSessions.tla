--------------------------- MODULE SamplerSessions ---------------------------
(***************************************************************************)
(* What the resource sampler promises its caller, one profile call after   *)
(* another (spec 4.3, 8): a session starts with an empty history, only the *)
(* session's own sampler adds to it, each sample no older than the one     *)
(* before and no newer than the clock, nothing is added once the session   *)
(* has stopped, and the call returns exactly the history of the session   *)
(* it started, or a failure that carries no samples.  Safety only.         *)
(***************************************************************************)
EXTENDS Naturals, Sequences

VARIABLES
    owner,    \* the profile call whose session the sampler serves (0: none yet)
    live,     \* the session's sampler is still running
    clock,    \* the time samples are stamped with
    history,  \* the samples of the current session, oldest first
    results   \* per finished call: monitored, and the samples it returned

avars == <<owner, live, clock, history, results>>

(* The call in progress is the one after the finished ones.               *)
Call == Len(results) + 1

Oldest == IF history = <<>> THEN 0 ELSE history[Len(history)].ts

Init ==
    /\ owner = 0
    /\ live = FALSE
    /\ clock = 0
    /\ history = <<>>
    /\ results = <<>>

Start ==
    /\ ~live
    /\ owner' = Call
    /\ live' = TRUE
    /\ history' = <<>>
    /\ UNCHANGED <<clock, results>>

Tick ==
    /\ clock' = clock + 1
    /\ UNCHANGED <<owner, live, history, results>>

Sample ==
    /\ live
    /\ \E ts \in Oldest..clock : history' = Append(history, [ts |-> ts, by |-> owner])
    /\ UNCHANGED <<owner, live, clock, results>>

Halt ==
    /\ live
    /\ live' = FALSE
    /\ UNCHANGED <<owner, clock, history, results>>

Collect ==
    /\ ~live
    /\ owner = Call
    /\ results' = Append(results, [monitored |-> TRUE, samples |-> history])
    /\ UNCHANGED <<owner, live, clock, history>>

Fail ==
    /\ ~live
    /\ results' = Append(results, [monitored |-> FALSE, samples |-> <<>>])
    /\ UNCHANGED <<owner, live, clock, history>>

Next == Start \/ Tick \/ Sample \/ Halt \/ Collect \/ Fail

Spec == Init /\ [][Next]_avars
=============================================================================
