------------------------ MODULE GuardedBackendProofs ------------------------
(***************************************************************************)
(* Proofs about GuardedBackend for any set of calls and any queue length:  *)
(* it is type correct, fences only with a cause, lets at most one          *)
(* operation through after fencing, and implements OneShotIO.              *)
(***************************************************************************)
EXTENDS GuardedBackend, FiniteSetTheorems, TLAPS

Queued(j) == \E i \in 1..Len(queue) : queue[i] = j

\* What ties a call, its job and the worker together.  The state of a job says
\* who owns it: Running jobs are the worker's or finished, others are at most
\* queued, once.
JobsInv ==
    /\ \A i, k \in 1..Len(queue) : queue[i] = queue[k] => i = k
    /\ \A j \in Calls :
        /\ pc[j] \in {"new", "checked"} => state[j] = "Pending" /\ ~Queued(j)
        /\ Queued(j) => state[j] # "Running"
        /\ state[j] = "Cancelled" => pc[j] = "returned"
        /\ j \in job => state[j] = "Running" /\ job = {j}
        /\ j \in touched => state[j] = "Running"
        /\ j \in started \/ pc[j] = "await" => state[j] = "Running"
        /\ ret[j] = "none" <=> pc[j] # "returned"
        /\ ret[j] = "busy" => state[j] # "Running" /\ (Queued(j) => state[j] = "Cancelled")
        /\ result[j] = "ok" \/ ret[j] = "ok" => j \in touched
        /\ j \in job => (j \in touched <=> worker = "busy")

\* When an operation may still reach a fenced device.
LateInv ==
    /\ late = {} \/ \E j \in Calls : late = {j}
    /\ ~failed \/ worker = "permitted" => late = {}

GuardInv == TypeOK /\ JobsInv /\ LateInv /\ FenceHasCause

----------------------------------------------------------------------------

\* Every step of the callers and of the worker keeps the types.
LEMMA TypeStep ==
    ASSUME TypeOK, [Next]_vars
    PROVE  TypeOK'
<1> USE DEF TypeOK, CallPoints, WorkerPoints
<1>1. ASSUME NEW j \in Calls, Call(j) PROVE TypeOK'
  BY <1>1, GuardAssumption DEF Call, Return, MoveOn
<1>2. ASSUME NEW j \in Calls, Submit(j) PROVE TypeOK'
  BY <1>2, GuardAssumption DEF Submit, Return, MoveOn
<1>3. ASSUME NEW j \in Calls, SubmitFails(j) PROVE TypeOK'
  BY <1>3, GuardAssumption DEF SubmitFails, Return, MoveOn
<1>4. ASSUME NEW j \in Calls, StartSeen(j) PROVE TypeOK'
  BY <1>4, GuardAssumption DEF StartSeen, Return, MoveOn
<1>5. ASSUME NEW j \in Calls, StartLost(j) PROVE TypeOK'
  BY <1>5, GuardAssumption DEF StartLost, Return, MoveOn
<1>6. ASSUME NEW j \in Calls, StartTimeout(j) PROVE TypeOK'
  BY <1>6, GuardAssumption DEF StartTimeout, Return, MoveOn
<1>7. ASSUME NEW j \in Calls, Expire(j) PROVE TypeOK'
  BY <1>7, GuardAssumption DEF Expire, Return, MoveOn
<1>8. ASSUME NEW j \in Calls, ResultSeen(j) PROVE TypeOK'
  <2>1. CASE result[j] \in {"ok", "error"}
    BY <1>8, <2>1 DEF ResultSeen, Return
  <2>2. CASE result[j] \notin {"ok", "error"}
    BY <1>8, <2>2 DEF ResultSeen, Return
  <2> QED  BY <2>1, <2>2
<1>9. ASSUME NEW j \in Calls, ResultTimeout(j) PROVE TypeOK'
  BY <1>9, GuardAssumption DEF ResultTimeout, Return, MoveOn
<1>10. ASSUME NEW j \in Calls, ResultLost(j) PROVE TypeOK'
  BY <1>10, GuardAssumption DEF ResultLost, Return, MoveOn
<1>11. ASSUME NEW j \in Calls, Take(j) PROVE TypeOK'
  BY <1>11, GuardAssumption DEF Take
<1>12. ASSUME NEW j \in Calls, SendStarted(j) PROVE TypeOK'
  BY <1>12, GuardAssumption DEF SendStarted
<1>13. ASSUME NEW j \in Calls, CheckFence(j) PROVE TypeOK'
  BY <1>13, GuardAssumption DEF CheckFence
<1>14. ASSUME NEW j \in Calls, Begin(j) PROVE TypeOK'
  BY <1>14, GuardAssumption DEF Begin
<1>15. ASSUME NEW j \in Calls, Finish(j) PROVE TypeOK'
  BY <1>15, GuardAssumption DEF Finish
<1>16. ASSUME NEW j \in Calls, Panic(j) PROVE TypeOK'
  BY <1>16, GuardAssumption DEF Panic
<1>17. CASE UNCHANGED vars
  BY <1>17 DEF vars
<1>18. QED
  BY <1>1, <1>2, <1>3, <1>4, <1>5, <1>6, <1>7, <1>8, <1>9, <1>10, <1>11, <1>12, <1>13, <1>14, <1>15, <1>16, <1>17 DEF Next, Step, Work

\* Every step keeps calls, jobs and the worker consistent.
LEMMA JobsStep ==
    ASSUME TypeOK, JobsInv, [Next]_vars
    PROVE  JobsInv'
<1> USE DEF TypeOK, JobsInv, Queued
<1>1. ASSUME NEW j \in Calls, Call(j) PROVE JobsInv'
  BY <1>1, GuardAssumption DEF Call, Return, MoveOn
<1>2. ASSUME NEW j \in Calls, Submit(j) PROVE JobsInv'
  BY <1>2, GuardAssumption DEF Submit, Return, MoveOn
<1>3. ASSUME NEW j \in Calls, SubmitFails(j) PROVE JobsInv'
  BY <1>3, GuardAssumption DEF SubmitFails, Return, MoveOn
<1>4. ASSUME NEW j \in Calls, StartSeen(j) PROVE JobsInv'
  BY <1>4, GuardAssumption DEF StartSeen, Return, MoveOn
<1>5. ASSUME NEW j \in Calls, StartLost(j) PROVE JobsInv'
  BY <1>5, GuardAssumption DEF StartLost, Return, MoveOn
<1>6. ASSUME NEW j \in Calls, StartTimeout(j) PROVE JobsInv'
  BY <1>6, GuardAssumption DEF StartTimeout, Return, MoveOn
<1>7. ASSUME NEW j \in Calls, Expire(j) PROVE JobsInv'
  <2>1. CASE state[j] = "Pending" /\ failed
    BY <1>7, <2>1 DEF Expire, Return
  <2>2. CASE state[j] = "Pending" /\ ~failed
    BY <1>7, <2>2 DEF Expire, Return
  <2>3. CASE state[j] # "Pending"
    <3>1. state[j] = "Running"
      BY <1>7, <2>3 DEF Expire
    <3> QED  BY <1>7, <3>1 DEF Expire, MoveOn
  <2> QED  BY <2>1, <2>2, <2>3
<1>8. ASSUME NEW j \in Calls, ResultSeen(j) PROVE JobsInv'
  BY <1>8, GuardAssumption DEF ResultSeen, Return, MoveOn
<1>9. ASSUME NEW j \in Calls, ResultTimeout(j) PROVE JobsInv'
  BY <1>9, GuardAssumption DEF ResultTimeout, Return, MoveOn
<1>10. ASSUME NEW j \in Calls, ResultLost(j) PROVE JobsInv'
  BY <1>10, GuardAssumption DEF ResultLost, Return, MoveOn
<1>11. ASSUME NEW j \in Calls, Take(j) PROVE JobsInv'
  BY <1>11, GuardAssumption DEF Take
<1>12. ASSUME NEW j \in Calls, SendStarted(j) PROVE JobsInv'
  BY <1>12, GuardAssumption DEF SendStarted
<1>13. ASSUME NEW j \in Calls, CheckFence(j) PROVE JobsInv'
  BY <1>13, GuardAssumption DEF CheckFence
<1>14. ASSUME NEW j \in Calls, Begin(j) PROVE JobsInv'
  BY <1>14, GuardAssumption DEF Begin
<1>15. ASSUME NEW j \in Calls, Finish(j) PROVE JobsInv'
  BY <1>15, GuardAssumption DEF Finish
<1>16. ASSUME NEW j \in Calls, Panic(j) PROVE JobsInv'
  BY <1>16, GuardAssumption DEF Panic
<1>17. CASE UNCHANGED vars
  BY <1>17 DEF vars
<1>18. QED
  BY <1>1, <1>2, <1>3, <1>4, <1>5, <1>6, <1>7, <1>8, <1>9, <1>10, <1>11, <1>12, <1>13, <1>14, <1>15, <1>16, <1>17 DEF Next, Step, Work

\* A second operation never passes the fence check of a failed device.
LEMMA LateStep ==
    ASSUME TypeOK, JobsInv, LateInv, [Next]_vars
    PROVE  LateInv'
<1> USE DEF TypeOK, LateInv
<1>1. ASSUME NEW j \in Calls, Call(j) PROVE LateInv'
  BY <1>1, GuardAssumption DEF Call, Return, MoveOn
<1>2. ASSUME NEW j \in Calls, Submit(j) PROVE LateInv'
  BY <1>2, GuardAssumption DEF Submit, Return, MoveOn
<1>3. ASSUME NEW j \in Calls, SubmitFails(j) PROVE LateInv'
  BY <1>3, GuardAssumption DEF SubmitFails, Return, MoveOn
<1>4. ASSUME NEW j \in Calls, StartSeen(j) PROVE LateInv'
  BY <1>4, GuardAssumption DEF StartSeen, Return, MoveOn
<1>5. ASSUME NEW j \in Calls, StartLost(j) PROVE LateInv'
  BY <1>5, GuardAssumption DEF StartLost, Return, MoveOn
<1>6. ASSUME NEW j \in Calls, StartTimeout(j) PROVE LateInv'
  BY <1>6, GuardAssumption DEF StartTimeout, Return, MoveOn
<1>7. ASSUME NEW j \in Calls, Expire(j) PROVE LateInv'
  BY <1>7, GuardAssumption DEF Expire, Return, MoveOn
<1>8. ASSUME NEW j \in Calls, ResultSeen(j) PROVE LateInv'
  BY <1>8, GuardAssumption DEF ResultSeen, Return, MoveOn
<1>9. ASSUME NEW j \in Calls, ResultTimeout(j) PROVE LateInv'
  BY <1>9, GuardAssumption DEF ResultTimeout, Return, MoveOn
<1>10. ASSUME NEW j \in Calls, ResultLost(j) PROVE LateInv'
  BY <1>10, GuardAssumption DEF ResultLost, Return, MoveOn
<1>11. ASSUME NEW j \in Calls, Take(j) PROVE LateInv'
  BY <1>11, GuardAssumption DEF Take
<1>12. ASSUME NEW j \in Calls, SendStarted(j) PROVE LateInv'
  BY <1>12, GuardAssumption DEF SendStarted
<1>13. ASSUME NEW j \in Calls, CheckFence(j) PROVE LateInv'
  BY <1>13, GuardAssumption DEF CheckFence
<1>14. ASSUME NEW j \in Calls, Begin(j) PROVE LateInv'
  BY <1>14, GuardAssumption DEF Begin
<1>15. ASSUME NEW j \in Calls, Finish(j) PROVE LateInv'
  BY <1>15, GuardAssumption DEF Finish
<1>16. ASSUME NEW j \in Calls, Panic(j) PROVE LateInv'
  BY <1>16, GuardAssumption DEF Panic
<1>17. CASE UNCHANGED vars
  BY <1>17 DEF vars
<1>18. QED
  BY <1>1, <1>2, <1>3, <1>4, <1>5, <1>6, <1>7, <1>8, <1>9, <1>10, <1>11, <1>12, <1>13, <1>14, <1>15, <1>16, <1>17 DEF Next, Step, Work

\* A fence has a cause, and the cause remains on record.
LEMMA CauseStep ==
    ASSUME TypeOK, JobsInv, FenceHasCause, [Next]_vars
    PROVE  FenceHasCause'
<1> USE DEF TypeOK, JobsInv, FenceHasCause
<1>1. ASSUME NEW j \in Calls, Call(j) PROVE FenceHasCause'
  BY <1>1, GuardAssumption DEF Call, Return, MoveOn
<1>2. ASSUME NEW j \in Calls, Submit(j) PROVE FenceHasCause'
  BY <1>2, GuardAssumption DEF Submit, Return, MoveOn
<1>3. ASSUME NEW j \in Calls, SubmitFails(j) PROVE FenceHasCause'
  BY <1>3, GuardAssumption DEF SubmitFails, Return, MoveOn
<1>4. ASSUME NEW j \in Calls, StartSeen(j) PROVE FenceHasCause'
  BY <1>4, GuardAssumption DEF StartSeen, Return, MoveOn
<1>5. ASSUME NEW j \in Calls, StartLost(j) PROVE FenceHasCause'
  BY <1>5, GuardAssumption DEF StartLost, Return, MoveOn
<1>6. ASSUME NEW j \in Calls, StartTimeout(j) PROVE FenceHasCause'
  BY <1>6, GuardAssumption DEF StartTimeout, Return, MoveOn
<1>7. ASSUME NEW j \in Calls, Expire(j) PROVE FenceHasCause'
  BY <1>7, GuardAssumption DEF Expire, Return, MoveOn
<1>8. ASSUME NEW j \in Calls, ResultSeen(j) PROVE FenceHasCause'
  BY <1>8, GuardAssumption DEF ResultSeen, Return, MoveOn
<1>9. ASSUME NEW j \in Calls, ResultTimeout(j) PROVE FenceHasCause'
  BY <1>9, GuardAssumption DEF ResultTimeout, Return, MoveOn
<1>10. ASSUME NEW j \in Calls, ResultLost(j) PROVE FenceHasCause'
  BY <1>10, GuardAssumption DEF ResultLost, Return, MoveOn
<1>11. ASSUME NEW j \in Calls, Take(j) PROVE FenceHasCause'
  BY <1>11, GuardAssumption DEF Take
<1>12. ASSUME NEW j \in Calls, SendStarted(j) PROVE FenceHasCause'
  BY <1>12, GuardAssumption DEF SendStarted
<1>13. ASSUME NEW j \in Calls, CheckFence(j) PROVE FenceHasCause'
  BY <1>13, GuardAssumption DEF CheckFence
<1>14. ASSUME NEW j \in Calls, Begin(j) PROVE FenceHasCause'
  BY <1>14, GuardAssumption DEF Begin
<1>15. ASSUME NEW j \in Calls, Finish(j) PROVE FenceHasCause'
  BY <1>15, GuardAssumption DEF Finish
<1>16. ASSUME NEW j \in Calls, Panic(j) PROVE FenceHasCause'
  BY <1>16, GuardAssumption DEF Panic
<1>17. CASE UNCHANGED vars
  BY <1>17 DEF vars
<1>18. QED
  BY <1>1, <1>2, <1>3, <1>4, <1>5, <1>6, <1>7, <1>8, <1>9, <1>10, <1>11, <1>12, <1>13, <1>14, <1>15, <1>16, <1>17 DEF Next, Step, Work

\* The invariant holds from the start and every step keeps it.
THEOREM GuardInvariant == Spec => []GuardInv
<1>1. Init => GuardInv
  <2> SUFFICES ASSUME Init PROVE GuardInv
    OBVIOUS
  <2>1. TypeOK
    <3>1. << >> \in Seq(Calls) /\ Len(<< >>) <= MaxQueued
      BY GuardAssumption
    <3> QED  BY <3>1 DEF Init, TypeOK, CallPoints, WorkerPoints
  <2>2. JobsInv
    BY DEF Init, JobsInv, Queued
  <2>3. LateInv /\ FenceHasCause
    BY DEF Init, LateInv, FenceHasCause
  <2> QED  BY <2>1, <2>2, <2>3 DEF GuardInv
<1>2. GuardInv /\ [Next]_vars => GuardInv'
  BY TypeStep, JobsStep, LateStep, CauseStep DEF GuardInv
<1>3. QED  BY <1>1, <1>2, PTL DEF Spec

\* The guard's state keeps its types and its queue never holds more than
\* MAX_QUEUED_OPERATIONS jobs.
THEOREM GuardTypes == Spec => []TypeOK
<1>1. GuardInv => TypeOK
  BY DEF GuardInv
<1>2. QED  BY <1>1, GuardInvariant, PTL

\* However many calls are under way, at most one operation reaches the device
\* after it was fenced.
THEOREM StragglerTheorem == Spec => []OneStraggler
<1>1. LateInv => OneStraggler
  <2>1. CASE late = {}
    BY <2>1, FS_EmptySet DEF OneStraggler
  <2>2. ASSUME NEW j \in Calls, late = {j} PROVE OneStraggler
    BY <2>2, FS_Singleton DEF OneStraggler
  <2> QED  BY <2>1, <2>2 DEF LateInv
<1>2. QED  BY <1>1, GuardInvariant, PTL DEF GuardInv

\* A full or slow queue alone never fences a device.
THEOREM CauseTheorem == Spec => []FenceHasCause
<1>1. GuardInv => FenceHasCause
  BY DEF GuardInv
<1>2. QED  BY <1>1, GuardInvariant, PTL

----------------------------------------------------------------------------

\* A call that returns answers as OneShotIO allows.
LEMMA ReturnAnswers ==
    ASSUME TypeOK, JobsInv, NEW j \in Calls, pc[j] # "returned",
           NEW r \in {"ok", "error", "failed", "busy", "timeout"}, NEW f,
           Return(j, r, f), touched' = touched,
           r = "ok" => j \in touched, r = "busy" => j \notin touched
    PROVE  OneShot!OneShotNext
<1> DEFINE o == CASE r = "ok" -> "done" [] r = "busy" -> "undone" [] OTHER -> "doubt"
<1>1. o \in OneShot!Outcomes \ {"none"}
  BY DEF OneShot!Outcomes
<1>2. Outcome[j] = "none"
  BY DEF Outcome, JobsInv, TypeOK
<1>3. Outcome' = [Outcome EXCEPT ![j] = o]
  <2>1. ret' = [ret EXCEPT ![j] = r] /\ ret \in [Calls -> {"none", "ok", "error", "failed", "busy", "timeout"}]
    BY DEF Return, TypeOK
  <2>2. \A k \in Calls : Outcome'[k] = IF k = j THEN o ELSE Outcome[k]
    BY <2>1 DEF Outcome
  <2>3. Outcome = [k \in Calls |-> Outcome[k]] /\ Outcome' = [k \in Calls |-> Outcome'[k]]
    BY DEF Outcome
  <2> QED  BY <2>2, <2>3
<1>4. (o = "done" => j \in touched) /\ (o = "undone" => j \notin touched)
  OBVIOUS
<1>5. OneShot!Answer(j, o)
  BY <1>2, <1>3, <1>4 DEF OneShot!Answer
<1> QED  BY <1>1, <1>5 DEF OneShot!OneShotNext

\* Every step of the guard is a step of OneShotIO or invisible to it.
LEMMA OneShotStep ==
    ASSUME TypeOK, JobsInv, [Next]_vars
    PROVE  [OneShot!OneShotNext]_<<touched, Outcome>>
<1> DEFINE Quiet == UNCHANGED <<touched, ret>>
<1>1. Quiet => UNCHANGED <<touched, Outcome>>
  BY DEF Outcome
<1>2. ASSUME NEW j \in Calls, Call(j) PROVE OneShot!OneShotNext \/ Quiet
  BY <1>2, ReturnAnswers DEF Call, MoveOn
<1>3. ASSUME NEW j \in Calls, SubmitFails(j) PROVE OneShot!OneShotNext
  <2>1. j \notin touched
    BY <1>3 DEF SubmitFails, JobsInv
  <2> QED  BY <1>3, <2>1, ReturnAnswers DEF SubmitFails
<1>4. ASSUME NEW j \in Calls, StartLost(j) PROVE OneShot!OneShotNext
  BY <1>4, ReturnAnswers DEF StartLost
<1>5. ASSUME NEW j \in Calls, Expire(j) PROVE OneShot!OneShotNext \/ Quiet
  <2>1. CASE state[j] = "Pending"
    <3>1. j \notin touched
      BY <2>1 DEF JobsInv
    <3>2. CASE failed
      BY <1>5, <2>1, <3>2, ReturnAnswers DEF Expire
    <3>3. CASE ~failed
      BY <1>5, <2>1, <3>1, <3>3, ReturnAnswers DEF Expire
    <3> QED  BY <3>2, <3>3
  <2>2. CASE state[j] # "Pending"
    BY <1>5, <2>2 DEF Expire, MoveOn
  <2> QED  BY <2>1, <2>2
<1>6. ASSUME NEW j \in Calls, ResultSeen(j) PROVE OneShot!OneShotNext
  <2>1. result[j] = "ok" => j \in touched
    BY DEF JobsInv
  <2>2. CASE result[j] \in {"ok", "error"}
    BY <1>6, <2>1, <2>2, ReturnAnswers DEF ResultSeen
  <2>3. CASE result[j] \notin {"ok", "error"}
    BY <1>6, <2>3, ReturnAnswers DEF ResultSeen
  <2> QED  BY <2>2, <2>3
<1>7. ASSUME NEW j \in Calls, ResultTimeout(j) \/ ResultLost(j) PROVE OneShot!OneShotNext
  BY <1>7, ReturnAnswers DEF ResultTimeout, ResultLost
<1>8. ASSUME NEW j \in Calls, Begin(j) PROVE OneShot!OneShotNext
  <2>1. j \notin touched /\ state[j] = "Running"
    BY <1>8 DEF Begin, JobsInv
  <2>2. Outcome[j] \in {"none", "doubt"}
    BY <2>1 DEF Outcome, JobsInv
  <2>3. OneShot!Apply(j)
    BY <1>8, <2>1, <2>2 DEF Begin, OneShot!Apply, Outcome
  <2> QED  BY <2>3 DEF OneShot!OneShotNext
<1>9. ASSUME NEW j \in Calls,
             \/ Submit(j) \/ StartSeen(j) \/ StartTimeout(j) \/ Take(j)
             \/ SendStarted(j) \/ CheckFence(j) \/ Finish(j) \/ Panic(j)
      PROVE Quiet
  BY <1>9 DEF Submit, StartSeen, StartTimeout, MoveOn, Take, SendStarted, CheckFence,
              Finish, Panic
<1>10. CASE UNCHANGED vars
  BY <1>1, <1>10 DEF vars
<1> QED
  BY <1>1, <1>2, <1>3, <1>4, <1>5, <1>6, <1>7, <1>8, <1>9, <1>10 DEF Next, Step, Work

\* Ok is only answered for an operation that reached the device and DeviceBusy
\* only for one that never does, for any number of concurrent calls.
THEOREM OneShotTheorem == Spec => ImplementsOneShotIO
<1>1. Init => OneShot!OneShotInit
  BY DEF Init, OneShot!OneShotInit, Outcome
<1>2. GuardInv /\ [Next]_vars => [OneShot!OneShotNext]_<<touched, Outcome>>
  BY OneShotStep DEF GuardInv
<1>3. QED
  BY <1>1, <1>2, GuardInvariant, PTL DEF Spec, ImplementsOneShotIO, OneShot!OneShotSpec

=============================================================================
