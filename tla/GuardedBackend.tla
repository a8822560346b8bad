--------------------------- MODULE GuardedBackend ---------------------------
(***************************************************************************)
(* Deadline and failure isolation of one device (storage/guard.rs).  Calls *)
(* of GuardedBackend::run come from any number of threads; a single worker *)
(* thread executes their jobs from a bounded queue.  A caller waits one    *)
(* deadline for its job to start and one for its result.  The device may   *)
(* answer late or never, and the worker may die of a panic.  Devices share *)
(* nothing, so one is enough.                                              *)
(*                                                                         *)
(* Time is not modelled: a recv_timeout may expire whenever the message it *)
(* waits for has not been sent.                                            *)
(***************************************************************************)
EXTENDS Naturals, Sequences, FiniteSets

CONSTANTS
    Calls,          \* the calls of run, each made at most once
    MaxQueued       \* MAX_QUEUED_OPERATIONS

ASSUME GuardAssumption == MaxQueued \in Nat \ {0}

VARIABLES
    pc,         \* where each call is: see CallPoints
    ret,        \* what each call returned
    state,      \* JobState of each call's job
    started,    \* calls whose started message has been sent
    result,     \* the message in each call's result channel
    queue,      \* jobs sent to the worker and not yet received
    worker,     \* where the worker thread is: see WorkerPoints
    job,        \* the job the worker executes, or {}
    failed,     \* the device is in GuardedBackend::failed
    touched,    \* history: calls whose operation has reached the device
    late        \* history: those that reached it after it was fenced

vars == <<pc, ret, state, started, result, queue, worker, job, failed, touched, late>>

CallPoints == {"new", "checked", "queued", "expired", "await", "returned"}

WorkerPoints == {"none", "idle", "taken", "started", "permitted", "busy", "dead"}

----------------------------------------------------------------------------
(* The calling thread: run and await_result.                               *)

\* The call returns; fence says whether it puts the device into failed.
Return(j, r, fence) ==
    /\ pc' = [pc EXCEPT ![j] = "returned"]
    /\ ret' = [ret EXCEPT ![j] = r]
    /\ failed' = (failed \/ fence)

MoveOn(j, point) == pc' = [pc EXCEPT ![j] = point] /\ UNCHANGED <<ret, failed>>

\* A call on a device that is already fenced fails at once.
Call(j) ==
    /\ pc[j] = "new"
    /\ IF failed THEN Return(j, "failed", FALSE) ELSE MoveOn(j, "checked")
    /\ UNCHANGED <<state, started, result, queue, worker, job, touched, late>>

\* Mutant: the queue has no bound.
Submit_Unbounded(j) ==
    /\ pc[j] = "checked" /\ worker # "dead"
    /\ queue' = Append(queue, j)
    /\ worker' = IF worker = "none" THEN "idle" ELSE worker
    /\ MoveOn(j, "queued")
    /\ UNCHANGED <<state, started, result, job, touched, late>>

\* worker() starts the thread on first use and may fail to.
Submit(j) ==
    /\ pc[j] = "checked" /\ worker # "dead" /\ Len(queue) < MaxQueued
    /\ queue' = Append(queue, j)
    /\ worker' = IF worker = "none" THEN "idle" ELSE worker
    /\ MoveOn(j, "queued")
    /\ UNCHANGED <<state, started, result, job, touched, late>>

SubmitFails(j) ==
    /\ pc[j] = "checked"
    /\ \/ worker = "none" /\ Return(j, "error", FALSE)
       \/ worker # "dead" /\ Len(queue) >= MaxQueued /\ Return(j, "busy", FALSE)
       \/ worker = "dead" /\ Return(j, "failed", TRUE)
    /\ UNCHANGED <<state, started, result, queue, worker, job, touched, late>>

\* started_rx.recv_timeout
StartSeen(j) ==
    /\ pc[j] = "queued" /\ j \in started
    /\ MoveOn(j, "await")
    /\ UNCHANGED <<state, started, result, queue, worker, job, touched, late>>

StartLost(j) ==
    /\ pc[j] = "queued" /\ j \notin started /\ worker = "dead"
    /\ Return(j, "failed", TRUE)
    /\ UNCHANGED <<state, started, result, queue, worker, job, touched, late>>

StartTimeout(j) ==
    /\ pc[j] = "queued" /\ j \notin started /\ worker # "dead"
    /\ MoveOn(j, "expired")
    /\ UNCHANGED <<state, started, result, queue, worker, job, touched, late>>

\* Mutant: a job that is still queued is waited for like a running one.
Expire_AlwaysAwait(j) ==
    /\ pc[j] = "expired"
    /\ MoveOn(j, "await")
    /\ UNCHANGED <<state, started, result, queue, worker, job, touched, late>>

\* The job state decides: a job still Pending is cancelled, a job that began
\* in the meantime owns the operation deadline.
Expire(j) ==
    /\ pc[j] = "expired"
    /\ IF state[j] = "Pending"
       THEN /\ state' = [state EXCEPT ![j] = "Cancelled"]
            /\ Return(j, IF failed THEN "failed" ELSE "busy", FALSE)
       ELSE MoveOn(j, "await") /\ UNCHANGED state
    /\ UNCHANGED <<started, result, queue, worker, job, touched, late>>

\* await_result: "error" is MissingDevice or an error that is not fatal.
ResultSeen(j) ==
    /\ pc[j] = "await" /\ result[j] # "none"
    /\ IF result[j] \in {"ok", "error"}
       THEN Return(j, result[j], FALSE) ELSE Return(j, "failed", TRUE)
    /\ UNCHANGED <<state, started, result, queue, worker, job, touched, late>>

\* Mutant: the caller waits for the result without a deadline.
ResultTimeout_Blocking(j) ==
    /\ pc[j] = "await" /\ result[j] = "none" /\ worker = "dead"
    /\ Return(j, "timeout", TRUE)
    /\ UNCHANGED <<state, started, result, queue, worker, job, touched, late>>

ResultTimeout(j) ==
    /\ pc[j] = "await" /\ result[j] = "none" /\ worker # "dead"
    /\ Return(j, "timeout", TRUE)
    /\ UNCHANGED <<state, started, result, queue, worker, job, touched, late>>

ResultLost(j) ==
    /\ pc[j] = "await" /\ result[j] = "none" /\ worker = "dead"
    /\ Return(j, "failed", TRUE)
    /\ UNCHANGED <<state, started, result, queue, worker, job, touched, late>>

----------------------------------------------------------------------------
(* The worker thread and the job closure built by run.                     *)

\* Mutant: a cancelled job is executed like any other.
Take_Cancelled(j) ==
    /\ worker = "idle" /\ queue # << >> /\ j = Head(queue)
    /\ queue' = Tail(queue)
    /\ state' = [state EXCEPT ![j] = "Running"]
    /\ worker' = "taken" /\ job' = {j}
    /\ UNCHANGED <<pc, ret, started, result, failed, touched, late>>

Take(j) ==
    /\ worker = "idle" /\ queue # << >> /\ j = Head(queue)
    /\ queue' = Tail(queue)
    /\ IF state[j] = "Cancelled" THEN UNCHANGED <<state, worker, job>>
       ELSE /\ state' = [state EXCEPT ![j] = "Running"]
            /\ worker' = "taken" /\ job' = {j}
    /\ UNCHANGED <<pc, ret, started, result, failed, touched, late>>

SendStarted(j) ==
    /\ worker = "taken" /\ job = {j}
    /\ started' = started \cup {j}
    /\ worker' = "started"
    /\ UNCHANGED <<pc, ret, state, result, queue, job, failed, touched, late>>

\* Mutant: the worker does not look at the fence.
CheckFence_Skipped(j) ==
    /\ worker = "started" /\ job = {j}
    /\ worker' = "permitted"
    /\ UNCHANGED <<pc, ret, state, started, result, queue, job, failed, touched, late>>

\* previously_failed is read under the lock, which is released before op().
CheckFence(j) ==
    /\ worker = "started" /\ job = {j}
    /\ IF failed
       THEN /\ result' = [result EXCEPT ![j] = "failed"]
            /\ worker' = "idle" /\ job' = {}
       ELSE worker' = "permitted" /\ UNCHANGED <<result, job>>
    /\ UNCHANGED <<pc, ret, state, started, queue, failed, touched, late>>

Begin(j) ==
    /\ worker = "permitted" /\ job = {j}
    /\ worker' = "busy"
    /\ touched' = touched \cup {j}
    /\ late' = IF failed THEN late \cup {j} ELSE late
    /\ UNCHANGED <<pc, ret, state, started, result, queue, job, failed>>

Finish(j) ==
    /\ worker = "busy" /\ job = {j}
    /\ \E r \in {"ok", "error", "fatal"} : result' = [result EXCEPT ![j] = r]
    /\ worker' = "idle" /\ job' = {}
    /\ UNCHANGED <<pc, ret, state, started, queue, failed, touched, late>>

\* A panic in the operation ends the thread and drops the queued jobs.
Panic(j) ==
    /\ worker = "busy" /\ job = {j}
    /\ worker' = "dead" /\ job' = {} /\ queue' = << >>
    /\ UNCHANGED <<pc, ret, state, started, result, failed, touched, late>>

----------------------------------------------------------------------------

Init ==
    /\ pc = [j \in Calls |-> "new"] /\ ret = [j \in Calls |-> "none"]
    /\ state = [j \in Calls |-> "Pending"] /\ started = {}
    /\ result = [j \in Calls |-> "none"]
    /\ queue = << >> /\ worker = "none" /\ job = {}
    /\ failed = FALSE /\ touched = {} /\ late = {}

Step(j) ==
    \/ Submit(j) \/ SubmitFails(j) \/ StartSeen(j) \/ StartLost(j) \/ StartTimeout(j)
    \/ Expire(j) \/ ResultSeen(j) \/ ResultTimeout(j) \/ ResultLost(j)

Work(j) ==
    Take(j) \/ SendStarted(j) \/ CheckFence(j) \/ Begin(j) \/ Finish(j) \/ Panic(j)

Next == \E j \in Calls : Call(j) \/ Step(j) \/ Work(j)

Spec == Init /\ [][Next]_vars

\* A thread inside run is scheduled and its deadlines pass.  Nothing is assumed
\* of the worker or of the device.
FairSpec == Spec /\ \A j \in Calls : WF_vars(Step(j))

----------------------------------------------------------------------------
(* Properties.                                                             *)

\* Type invariant.
TypeOK ==
    /\ pc \in [Calls -> CallPoints]
    /\ ret \in [Calls -> {"none", "ok", "error", "failed", "busy", "timeout"}]
    /\ state \in [Calls -> {"Pending", "Running", "Cancelled"}]
    /\ started \subseteq Calls
    /\ result \in [Calls -> {"none", "ok", "error", "fatal", "failed"}]
    /\ queue \in Seq(Calls) /\ Len(queue) <= MaxQueued
    /\ worker \in WorkerPoints /\ job \subseteq Calls
    /\ failed \in BOOLEAN
    /\ touched \subseteq Calls /\ late \subseteq touched

\* What an answer tells the caller about its operation.
Outcome ==
    [j \in Calls |-> CASE ret[j] = "none" -> "none"
                       [] ret[j] = "ok" -> "done"
                       [] ret[j] = "busy" -> "undone"
                       [] OTHER -> "doubt"]

OneShot == INSTANCE OneShotIO WITH applied <- touched, outcome <- Outcome

\* The guard answers each call as OneShotIO allows: Ok only for an operation the
\* device has executed, DeviceBusy only for one that never reaches it.
ImplementsOneShotIO == OneShot!OneShotSpec

\* Once the device is fenced at most one more operation reaches it: the one the
\* worker had already let past its check of failed.
OneStraggler == Cardinality(late) <= 1

\* A device is fenced only because of an operation the worker had started, or of
\* the worker's death: a long queue alone (DeviceBusy) never fences it.
FenceHasCause ==
    failed => \/ worker = "dead"
              \/ \E j \in Calls : state[j] = "Running" /\ ret[j] \in {"timeout", "failed"}

\* "queued operations are skipped rather than touching that device after
\* fencing" (guard.rs, header comment).
NothingLate == late = {}

\* Every call that passed the fence check returns, whatever the worker and the
\* device do.
EveryCallReturns == \A j \in Calls : pc[j] = "checked" ~> pc[j] = "returned"

=============================================================================
