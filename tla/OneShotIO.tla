----------------------------- MODULE OneShotIO ------------------------------
(***************************************************************************)
(* What a deadline-guarded device promises its callers (the header comment *)
(* of storage/guard.rs, made precise).  Each call asks for one operation.  *)
(* "done" is only reported for an operation that has been handed to the    *)
(* device; "undone" (DeviceBusy, which callers retry) is only reported for *)
(* one that never was and never will be.  Every other error leaves the     *)
(* caller in doubt: the operation may have run, or may still run later.    *)
(***************************************************************************)
CONSTANT Calls

VARIABLES applied, outcome

Outcomes == {"none", "done", "undone", "doubt"}

OneShotInit == applied = {} /\ outcome = [j \in Calls |-> "none"]

\* The operation of j reaches the device, once.
Apply(j) ==
    /\ j \notin applied /\ outcome[j] \in {"none", "doubt"}
    /\ applied' = applied \cup {j}
    /\ UNCHANGED outcome

\* The caller of j gets its answer, once.
Answer(j, o) ==
    /\ outcome[j] = "none"
    /\ o = "done" => j \in applied
    /\ o = "undone" => j \notin applied
    /\ outcome' = [outcome EXCEPT ![j] = o]
    /\ UNCHANGED applied

OneShotNext == \E j \in Calls : Apply(j) \/ \E o \in Outcomes \ {"none"} : Answer(j, o)

OneShotSpec == OneShotInit /\ [][OneShotNext]_<<applied, outcome>>

=============================================================================
