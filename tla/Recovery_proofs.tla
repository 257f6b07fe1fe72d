-------------------------- MODULE Recovery_proofs --------------------------
(***************************************************************************)
(* Theorems about Recovery, for any windows, delays and number of          *)
(* evaluations: the types, that a recovery ends settled and in time, and   *)
(* that a changed runtime keeps its write job.                             *)
(***************************************************************************)
EXTENDS Recovery, SequenceTheorems, TLAPS

\* The context of a recovery: what its state says was recorded, was recorded.
Consistent(c) ==
    /\ c \in Context
    /\ c.state = "normal" => c = Normal
    /\ c.state # "normal" => c.parent \in Entry /\ c.started \in Time
    /\ c.state \in Entry => c.state = c.parent
    /\ c.state = "recovery_settling" => c.settling \in Time

LEMMA ClassifiedConsistent ==
    ASSUME Consistent(ctx), now \in Time
    PROVE  Consistent(Classified(ctx))
BY DEF Consistent, Classified, Context, Normal, Entered, Settled, Entry, State

LEMMA ScheduleTyped ==
    ASSUME NEW jobs \in [Job -> Due], NEW j \in Job, NEW at \in Due
    PROVE  Schedule(jobs, j, at) \in [Job -> Due] /\ Unschedule(jobs, j) \in [Job -> Due]
BY DEF Schedule, Unschedule, Due

\* The deadlines of a recovery lie within the bound of the clock and the windows.
LEMMA DeadlinesTyped ==
    ASSUME NEW c, Consistent(c), NEW jobs \in [Job -> Due]
    PROVE  WithRecoveryJobs(jobs, c) \in [Job -> Due]
<1> USE RecoveryAssumption
<1>1. Window(c.state) \in Nat /\ Window(c.state) <= Startup
      /\ Window(c.parent) \in Nat /\ Window(c.parent) <= Startup
  BY DEF Window
<1>2. Deadline(c) \in Due
  BY <1>1 DEF Deadline, Due, Consistent, Unset, Time, Entry
<1>3. c.state = "degraded_recovery" => c.degraded + Degraded \in Due
  BY DEF Due, Consistent, Context, Unset, Time
<1> DEFINE one == IF Deadline(c) = Unset THEN Unschedule(jobs, "stabilization")
                  ELSE Schedule(jobs, "stabilization", Deadline(c))
<1>4. one \in [Job -> Due]
  BY <1>2, ScheduleTyped DEF Job
<1> HIDE DEF one
<1>5. /\ c.state = "degraded_recovery" =>
             Schedule(one, "degraded_timeout", c.degraded + Degraded) \in [Job -> Due]
      /\ Unschedule(one, "degraded_timeout") \in [Job -> Due]
  BY <1>3, <1>4, ScheduleTyped DEF Job
<1> QED
  BY <1>5 DEF WithRecoveryJobs, one

-----------------------------------------------------------------------------
(* Types *)

\* The types, with the contexts that are consistent; an evaluation in the queue of the saves
\* is saving.
Typed ==
    /\ TypeOK
    /\ Consistent(ctx)
    /\ \A i \in 1..Len(saves) : pc[saves[i]] \in {"writing", "saving"}
    /\ \A i, j \in 1..Len(saves) : saves[i] = saves[j] => i = j

LEMMA InitTyped == Init => Typed
<1> SUFFICES ASSUME Init PROVE Typed
  OBVIOUS
<1> USE RecoveryAssumption
<1>1. Consistent(ctx)
  BY DEF Init, Consistent, Normal, Context, State, Entry
<1>2. saves = <<>> /\ saves \in Seq(Evaluation)
  BY DEF Init
<1>3. NoJobs \in [Job -> Due]
  BY DEF NoJobs, Due
<1>4. now \in Time /\ availableSince \in Time /\ fallbackAt \in 0..(MaxTime + Fallback)
  BY DEF Init, Time
<1>5. TypeOK
  BY <1>1, <1>2, <1>3, <1>4 DEF Init, TypeOK, Consistent, Step
<1> QED
  BY <1>1, <1>2, <1>5 DEF Typed

\* The common part of the steps that begin an evaluation.
LEMMA BeginTyped ==
    ASSUME Typed, NEW e \in Evaluation, NEW job \in BOOLEAN, Begin(e, job)
    PROVE  /\ ctx' \in Context /\ Consistent(ctx') /\ rechecks' \in [Job -> Due]
           /\ pc' \in [Evaluation -> Step] /\ writeDue' \in [Evaluation -> BOOLEAN]
           /\ startupPending' \in BOOLEAN /\ seenUnavailable' \in Time \cup {Unset}
           /\ \A i \in 1..Len(saves) : pc'[saves[i]] \in {"writing", "saving"}
<1>1. Consistent(ctx')
  BY ClassifiedConsistent DEF Begin, Typed, TypeOK
<1>2. rechecks' \in [Job -> Due]
  BY <1>1, DeadlinesTyped DEF Begin, Typed, TypeOK
<1>3. /\ pc' \in [Evaluation -> Step] /\ writeDue' \in [Evaluation -> BOOLEAN]
      /\ startupPending' \in BOOLEAN /\ seenUnavailable' \in Time \cup {Unset}
  BY DEF Begin, Typed, TypeOK, Step
<1>4. \A i \in 1..Len(saves) : saves[i] \in Evaluation /\ saves[i] # e
  BY DEF Begin, Typed, TypeOK
<1>5. \A i \in 1..Len(saves) : pc'[saves[i]] \in {"writing", "saving"}
  BY <1>4 DEF Begin, Typed, TypeOK
<1> QED
  BY <1>1, <1>2, <1>3, <1>5 DEF Consistent

\* A save that starts goes to the end of the queue.
LEMMA QueueGrows ==
    ASSUME Typed, NEW e \in Evaluation, pc[e] \notin {"writing", "saving"},
           NEW s \in {"writing", "saving"},
           pc' = [pc EXCEPT ![e] = s], saves' = Append(saves, e)
    PROVE  /\ saves' \in Seq(Evaluation) /\ pc' \in [Evaluation -> Step]
           /\ \A i \in 1..Len(saves') : pc'[saves'[i]] \in {"writing", "saving"}
           /\ \A i, j \in 1..Len(saves') : saves'[i] = saves'[j] => i = j
<1>1. /\ saves \in Seq(Evaluation) /\ pc \in [Evaluation -> Step]
      /\ \A i \in 1..Len(saves) : pc[saves[i]] \in {"writing", "saving"}
      /\ \A i, j \in 1..Len(saves) : saves[i] = saves[j] => i = j
  BY DEF Typed, TypeOK
<1>2. /\ saves' \in Seq(Evaluation) /\ Len(saves') = Len(saves) + 1
      /\ \A i \in 1..Len(saves) : saves'[i] = saves[i]
      /\ saves'[Len(saves) + 1] = e
  BY <1>1, AppendProperties
<1>3. Len(saves) \in Nat /\ \A i \in 1..Len(saves) : saves[i] \in Evaluation /\ saves[i] # e
  BY <1>1
<1>4. \A i \in 1..Len(saves') : i \in 1..Len(saves) \/ i = Len(saves) + 1
  BY <1>2, <1>3
<1>5. pc' \in [Evaluation -> Step]
  BY <1>1 DEF Step
<1>6. \A i \in 1..Len(saves') : pc'[saves'[i]] \in {"writing", "saving"}
  BY <1>1, <1>2, <1>3, <1>4
<1>7. \A i, j \in 1..Len(saves') : saves'[i] = saves'[j] => i = j
  BY <1>1, <1>2, <1>3, <1>4
<1> QED
  BY <1>2, <1>5, <1>6, <1>7

\* The save that ends is the first of the queue, and no other evaluation is concerned.
LEMMA QueueShrinks ==
    ASSUME Typed, NEW e \in Evaluation, saves # <<>>, e = Head(saves),
           pc' = [pc EXCEPT ![e] = "idle"], saves' = Tail(saves)
    PROVE  /\ saves' \in Seq(Evaluation) /\ pc' \in [Evaluation -> Step]
           /\ pc[e] \in {"writing", "saving"}
           /\ \A i \in 1..Len(saves') : pc'[saves'[i]] \in {"writing", "saving"}
           /\ \A i, j \in 1..Len(saves') : saves'[i] = saves'[j] => i = j
<1>1. /\ saves \in Seq(Evaluation) /\ pc \in [Evaluation -> Step]
      /\ \A i \in 1..Len(saves) : pc[saves[i]] \in {"writing", "saving"}
      /\ \A i, j \in 1..Len(saves) : saves[i] = saves[j] => i = j
  BY DEF Typed, TypeOK
<1>2. /\ saves' \in Seq(Evaluation) /\ Len(saves') = Len(saves) - 1
      /\ \A i \in 1..Len(saves') : saves'[i] = saves[i + 1]
  BY <1>1, HeadTailProperties
<1>3. Len(saves) \in Nat \ {0} /\ e = saves[1]
  BY <1>1
<1>4. \A i \in 1..Len(saves') : i \in Nat /\ i + 1 \in 1..Len(saves) /\ i + 1 # 1
  BY <1>2, <1>3
<1>5. pc' \in [Evaluation -> Step] /\ pc[e] \in {"writing", "saving"}
  BY <1>1, <1>3 DEF Step
<1>6. \A i \in 1..Len(saves') : saves'[i] # e /\ saves'[i] \in Evaluation
  BY <1>1, <1>2, <1>3, <1>4
<1>7. \A i \in 1..Len(saves') : pc'[saves'[i]] \in {"writing", "saving"}
  BY <1>1, <1>2, <1>4, <1>6
<1>8. \A i, j \in 1..Len(saves') : saves'[i] = saves'[j] => i = j
  BY <1>1, <1>2, <1>4
<1> QED
  BY <1>2, <1>5, <1>7, <1>8

LEMMA NextTyped == Typed /\ [Next]_vars => Typed'
<1> SUFFICES ASSUME Typed, [Next]_vars PROVE Typed'
  OBVIOUS
<1> USE RecoveryAssumption
<1>0. /\ TypeOK /\ Consistent(ctx) /\ NoJobs \in [Job -> Due]
      /\ \A jobs \in [Job -> Due], j \in Job : Unschedule(jobs, j) \in [Job -> Due]
  BY DEF Typed, NoJobs, Due, Unschedule
<1>1. ASSUME NEW e \in Evaluation,
             Evaluate(e) \/ FallbackFires(e) \/ \E j \in Job : JobFires(e, j)
      PROVE  Typed'
  <2>1. PICK job \in BOOLEAN : Begin(e, job)
    BY <1>1 DEF Evaluate, FallbackFires, JobFires
  <2>2. armed' \in [Job -> Due] /\ fallbackAt' \in 0..(MaxTime + Fallback)
    <3>1. \/ armed' = armed
          \/ \E j \in Job : armed' = Unschedule(armed, j)
      BY <1>1 DEF Evaluate, FallbackFires, JobFires
    <3>2. armed' \in [Job -> Due]
      BY <1>0, <3>1 DEF TypeOK
    <3>3. fallbackAt' = fallbackAt \/ fallbackAt' = now + Fallback
      BY <1>1 DEF Evaluate, FallbackFires, JobFires
    <3>4. fallbackAt' \in 0..(MaxTime + Fallback)
      BY <1>0, <3>3 DEF TypeOK, Time
    <3> QED
      BY <3>2, <3>4
  <2>3. UNCHANGED <<stable, draft, saves, fresh, now, unavailable, availableSince, savedLast>>
    BY <2>1 DEF Begin, checkpointVars, worldVars
  <2>4. /\ ctx' \in Context /\ Consistent(ctx') /\ rechecks' \in [Job -> Due]
        /\ pc' \in [Evaluation -> Step] /\ writeDue' \in [Evaluation -> BOOLEAN]
        /\ startupPending' \in BOOLEAN /\ seenUnavailable' \in Time \cup {Unset}
        /\ \A i \in 1..Len(saves) : pc'[saves[i]] \in {"writing", "saving"}
    BY <2>1, BeginTyped
  <2> QED
    BY <1>0, <2>2, <2>3, <2>4 DEF Typed, TypeOK
<1>2. ASSUME NEW e \in Evaluation, Compute(e) PROVE Typed'
  <2>1. /\ pc[e] = "classified" /\ pc' = [pc EXCEPT ![e] = "computed"]
        /\ rechecks' = NoJobs /\ stable' = TRUE
        /\ UNCHANGED <<ctx, startupPending, now, unavailable, availableSince, saves, armed,
                       fallbackAt, writeDue, seenUnavailable, savedLast>>
    BY <1>2 DEF Compute, worldVars, checkpointVars
  <2>2. fresh' \in BOOLEAN /\ draft' \in [Evaluation -> BOOLEAN]
    BY <1>0, <1>2 DEF Compute, checkpointVars, TypeOK
  <2>3. pc' \in [Evaluation -> Step] /\ \A i \in 1..Len(saves) : pc'[saves[i]] = pc[saves[i]]
    BY <2>1 DEF Typed, TypeOK, Step
  <2> QED
    BY <1>0, <2>1, <2>2, <2>3 DEF Typed, TypeOK
<1>3. ASSUME NEW e \in Evaluation, Finish(e) PROVE Typed'
  <2>1. rechecks' \in [Job -> Due]
    <3>1. now + WriteDelay \in Due
      BY <1>0 DEF TypeOK, Due, Time
    <3> QED
      BY <1>3, <1>0, <3>1, ScheduleTyped DEF Finish, WithWriteJob, TypeOK, Job
  <2>2. pc[e] = "computed" /\ pc' = [pc EXCEPT ![e] = "idle"]
    BY <1>3 DEF Finish
  <2>3. \A i \in 1..Len(saves) : pc'[saves[i]] = pc[saves[i]]
    BY <2>2 DEF Typed, TypeOK, Step
  <2>4. pc' \in [Evaluation -> Step]
    BY <1>0, <2>2 DEF TypeOK, Step
  <2>5. /\ armed' = rechecks' /\ savedLast' = FALSE
        /\ UNCHANGED <<ctx, startupPending, stable, draft, saves, fresh, now, unavailable,
                       availableSince, fallbackAt, writeDue, seenUnavailable>>
    BY <1>3 DEF Finish, recoveryVars, checkpointVars, worldVars
  <2> QED
    BY <1>0, <2>1, <2>3, <2>4, <2>5 DEF Typed, TypeOK
<1>4. ASSUME NEW e \in Evaluation, WriteStarts(e) PROVE Typed'
  <2>1. /\ pc[e] = "computed" /\ pc' = [pc EXCEPT ![e] = "writing"]
        /\ saves' = Append(saves, e) /\ draft' = [draft EXCEPT ![e] = TRUE]
        /\ rechecks' = Unschedule(rechecks, "checkpoint_write")
        /\ UNCHANGED <<ctx, startupPending, stable, fresh, now, unavailable, availableSince,
                       armed, fallbackAt, writeDue, seenUnavailable, savedLast>>
    BY <1>4 DEF WriteStarts, recoveryVars, worldVars
  <2>2. /\ saves' \in Seq(Evaluation) /\ pc' \in [Evaluation -> Step]
        /\ \A i \in 1..Len(saves') : pc'[saves'[i]] \in {"writing", "saving"}
        /\ \A i, j \in 1..Len(saves') : saves'[i] = saves'[j] => i = j
    BY <2>1, QueueGrows
  <2>3. draft' \in [Evaluation -> BOOLEAN] /\ rechecks' \in [Job -> Due]
    BY <1>0, <2>1 DEF TypeOK, Job
  <2> QED
    BY <1>0, <2>1, <2>2, <2>3 DEF Typed, TypeOK
<1>5. ASSUME NEW e \in Evaluation, ServiceWrite(e) PROVE Typed'
  <2>1. /\ pc[e] = "idle"
        /\ UNCHANGED <<ctx, startupPending, stable, fresh, now, unavailable, availableSince,
                       armed, fallbackAt, writeDue, seenUnavailable, savedLast>>
        /\ rechecks' \in [Job -> Due]
    BY <1>5, <1>0 DEF ServiceWrite, recoveryVars, worldVars, TypeOK, Job
  <2>2. CASE Recovering
    BY <1>0, <1>5, <2>1, <2>2 DEF ServiceWrite, Typed, TypeOK
  <2>3. CASE ~Recovering
    <3>1. /\ pc' = [pc EXCEPT ![e] = "saving"] /\ saves' = Append(saves, e)
          /\ draft' = [draft EXCEPT ![e] = TRUE]
      BY <1>5, <2>3 DEF ServiceWrite
    <3>2. /\ saves' \in Seq(Evaluation) /\ pc' \in [Evaluation -> Step]
          /\ \A i \in 1..Len(saves') : pc'[saves'[i]] \in {"writing", "saving"}
          /\ \A i, j \in 1..Len(saves') : saves'[i] = saves'[j] => i = j
      BY <2>1, <3>1, QueueGrows
    <3>3. draft' \in [Evaluation -> BOOLEAN]
      BY <1>0, <3>1 DEF TypeOK
    <3> QED
      BY <1>0, <2>1, <3>2, <3>3 DEF Typed, TypeOK
  <2> QED
    BY <2>2, <2>3
<1>6. ASSUME NEW e \in Evaluation, SaveEnds(e) PROVE Typed'
  <2>1. /\ saves # <<>> /\ e = Head(saves) /\ saves' = Tail(saves)
        /\ pc' = [pc EXCEPT ![e] = "idle"]
        /\ UNCHANGED <<ctx, startupPending, stable, draft, now, unavailable, availableSince,
                       fallbackAt, writeDue, seenUnavailable>>
        /\ savedLast' = TRUE
    BY <1>6 DEF SaveEnds, recoveryVars, worldVars
  <2>2. /\ saves' \in Seq(Evaluation) /\ pc' \in [Evaluation -> Step]
        /\ \A i \in 1..Len(saves') : pc'[saves'[i]] \in {"writing", "saving"}
        /\ \A i, j \in 1..Len(saves') : saves'[i] = saves'[j] => i = j
    BY <2>1, QueueShrinks
  <2>3. fresh' \in BOOLEAN
    BY <1>6, <1>0 DEF SaveEnds, TypeOK
  <2>4. rechecks' \in [Job -> Due]
    BY <1>6, <1>0 DEF SaveEnds, TypeOK, Job
  <2>5. armed' = rechecks' \/ armed' = armed
    BY <1>6 DEF SaveEnds
  <2>6. armed' \in [Job -> Due]
    BY <1>0, <2>4, <2>5 DEF TypeOK
  <2> QED
    BY <1>0, <2>1, <2>2, <2>3, <2>4, <2>6 DEF Typed, TypeOK
<1>7. CASE Outage
  BY <1>7 DEF Outage, Typed, TypeOK, recoveryVars, checkpointVars
<1>8. CASE Restore
  BY <1>8 DEF Restore, Typed, TypeOK, recoveryVars, checkpointVars
<1>9. CASE Restart
  <2>1. Consistent(ctx')
    BY <1>9 DEF Restart, Consistent, Normal, Context, State, Entry
  <2>2. /\ rechecks' \in [Job -> Due] /\ armed' \in [Job -> Due] /\ saves' = <<>>
        /\ writeDue' \in [Evaluation -> BOOLEAN] /\ draft' \in [Evaluation -> BOOLEAN]
    BY <1>9, <1>0 DEF Restart
  <2>6. pc' \in [Evaluation -> Step]
    BY <1>9 DEF Restart, Step
  <2>3. now' \in Time /\ availableSince' \in Time /\ fallbackAt' \in 0..(MaxTime + Fallback)
    BY <1>9, <1>0 DEF Restart, TypeOK, Time
  <2>4. /\ startupPending' \in BOOLEAN /\ stable' \in BOOLEAN /\ fresh' \in BOOLEAN
        /\ savedLast' \in BOOLEAN /\ unavailable' \in BOOLEAN
        /\ seenUnavailable' \in Time \cup {Unset}
    BY <1>9, <1>0 DEF Restart, TypeOK
  <2>5. saves' \in Seq(Evaluation)
    BY <2>2
  <2> QED
    BY <2>1, <2>2, <2>3, <2>4, <2>5, <2>6 DEF Typed, TypeOK, Consistent
<1>10. CASE Tick
  <2>1. now' \in Time
    BY <1>10, <1>0 DEF Tick, TypeOK, Time
  <2> QED
    BY <1>10, <2>1 DEF Tick, Typed, TypeOK, recoveryVars, checkpointVars
<1>11. CASE UNCHANGED vars
  BY <1>11 DEF vars, Typed, TypeOK, recoveryVars, checkpointVars, worldVars
<1> QED
  BY <1>1, <1>2, <1>3, <1>4, <1>5, <1>6, <1>7, <1>8, <1>9, <1>10, <1>11
  DEF Next, EvaluationStep

\* The context, the tables of rechecks and timers, and the queue of the saves are well typed,
\* whatever evaluations, saves, outages and restarts overlap, for any bounds.
THEOREM TypeCorrect == Spec => []TypeOK
<1>1. Typed => TypeOK
  BY DEF Typed
<1> QED
  BY <1>1, InitTyped, NextTyped, PTL DEF Spec

-----------------------------------------------------------------------------
(* Where the context moves *)

\* The context of a recovery changes when an evaluation begins or the program restarts.
LEMMA ContextMoves ==
    ASSUME [Next]_vars
    PROVE  \/ \E e \in Evaluation, job \in BOOLEAN :
                  Begin(e, job) /\ (FallbackFires(e) \/ UNCHANGED fallbackAt)
           \/ Restart
           \/ /\ UNCHANGED <<ctx, startupPending, fallbackAt, seenUnavailable>>
              /\ UNCHANGED worldVars \/ Outage \/ Restore \/ Tick
<1>1. ASSUME NEW e \in Evaluation, Evaluate(e) \/ \E j \in Job : JobFires(e, j)
      PROVE  \E job \in BOOLEAN : Begin(e, job) /\ UNCHANGED fallbackAt
  BY <1>1 DEF Evaluate, JobFires
<1>2. ASSUME NEW e \in Evaluation, FallbackFires(e) PROVE Begin(e, FALSE)
  BY <1>2 DEF FallbackFires
<1>3. ASSUME NEW e \in Evaluation,
             Compute(e) \/ Finish(e) \/ WriteStarts(e) \/ ServiceWrite(e) \/ SaveEnds(e)
      PROVE  UNCHANGED <<ctx, startupPending, fallbackAt, seenUnavailable, worldVars>>
  BY <1>3 DEF Compute, Finish, WriteStarts, ServiceWrite, SaveEnds, recoveryVars
<1>4. ASSUME Outage \/ Restore \/ Tick \/ UNCHANGED vars
      PROVE  UNCHANGED <<ctx, startupPending, fallbackAt, seenUnavailable>>
  BY <1>4 DEF Outage, Restore, Tick, vars, recoveryVars
<1> QED
  BY <1>1, <1>2, <1>3, <1>4 DEF Next, EvaluationStep, vars

\* What an evaluation that finds the entities available makes of a context, and that only a
\* settled recovery ends.
LEMMA ClassifiedAvailable ==
    ASSUME Consistent(ctx)
    PROVE  /\ ~unavailable /\ ~startupPending /\ ctx.state = "normal" => Classified(ctx) = ctx
           /\ ~unavailable /\ ctx.state \in Entry \cup {"degraded_recovery"} =>
                  Classified(ctx) = Settled(ctx)
           /\ ~unavailable /\ ctx.state = "recovery_settling" =>
                  Classified(ctx) = IF CanExit(ctx) THEN Normal ELSE ctx
           /\ ctx.state # "normal" /\ Classified(ctx).state = "normal" =>
                  ctx.state = "recovery_settling" /\ ~unavailable /\ CanExit(ctx)
BY DEF Consistent, Classified, Context, Normal, Entered, Settled, Entry, State

-----------------------------------------------------------------------------
(* A recovery ends settled *)

\* A recovery has begun, and settles, in the past; since it settles, no evaluation has found
\* the entities unavailable.
Settling ==
    /\ seenUnavailable <= now
    /\ Recovering => ctx.started <= now
    /\ ctx.state = "recovery_settling" =>
          /\ ctx.started <= ctx.settling /\ ctx.settling <= now
          /\ seenUnavailable <= ctx.settling

LEMMA BeginSettles ==
    ASSUME Typed, Settling, NEW e \in Evaluation, NEW job \in BOOLEAN, Begin(e, job)
    PROVE  Settling'
<1>1. /\ ctx' = Classified(ctx) /\ now' = now /\ now \in Time /\ Consistent(ctx)
      /\ seenUnavailable' = IF unavailable THEN now ELSE seenUnavailable
  BY DEF Begin, worldVars, Typed, TypeOK
<1>2. seenUnavailable \in Time \cup {Unset}
  BY DEF Typed, TypeOK
<1>3. seenUnavailable' <= now'
  BY <1>1, <1>2 DEF Settling, Time
<1>4. ctx'.state # "normal" => ctx'.started <= now'
  BY <1>1 DEF Settling, Recovering, Classified, Consistent, Context, Normal, Entered, Settled,
              Entry, State, Time
<1>5. ASSUME ctx'.state = "recovery_settling"
      PROVE  /\ ctx'.started <= ctx'.settling /\ ctx'.settling <= now'
             /\ seenUnavailable' <= ctx'.settling
  <2>1. ~unavailable
    BY <1>1, <1>5 DEF Classified, Consistent, Context, Entered, Settled, Entry, State, Normal
  <2>2. CASE ctx.state = "recovery_settling"
    <3>1. ctx' = ctx
      BY <1>1, <1>5, <2>1, <2>2, ClassifiedAvailable DEF Normal
    <3> QED
      BY <1>1, <2>1, <2>2, <3>1 DEF Settling
  <2>3. CASE ctx.state \in Entry \cup {"degraded_recovery"}
    <3>1. ctx' = Settled(ctx) /\ ctx.state # "normal"
      BY <1>1, <2>1, <2>3, ClassifiedAvailable DEF Entry
    <3>2. ctx'.settling = now /\ ctx'.started = ctx.started
      BY <1>1, <3>1 DEF Settled, Consistent, Context
    <3> QED
      BY <1>1, <1>2, <2>1, <3>1, <3>2 DEF Settling, Recovering, Time
  <2>4. CASE ctx.state = "normal"
    BY <1>1, <1>5, <2>4 DEF Classified, Entered, Consistent, Normal
  <2> QED
    BY <1>1, <2>2, <2>3, <2>4 DEF Consistent, Context, State
<1> QED
  BY <1>3, <1>4, <1>5 DEF Settling, Recovering

LEMMA NextSettles == Typed /\ Settling /\ [Next]_vars => Settling'
<1> SUFFICES ASSUME Typed, Settling, [Next]_vars PROVE Settling'
  OBVIOUS
<1> USE RecoveryAssumption
<1>1. CASE \E e \in Evaluation, job \in BOOLEAN : Begin(e, job)
  BY <1>1, BeginSettles
<1>2. CASE Restart
  BY <1>2 DEF Restart, Settling, Recovering, Normal, Unset, Typed, TypeOK, Time
<1>3. CASE /\ UNCHANGED <<ctx, startupPending, fallbackAt, seenUnavailable>>
           /\ UNCHANGED worldVars \/ Outage \/ Restore \/ Tick
  <2>1. now' = now \/ now' = now + 1
    BY <1>3 DEF worldVars, Outage, Restore, Tick
  <2>2. now \in Nat /\ seenUnavailable \in Int /\ Consistent(ctx)
    BY DEF Typed, TypeOK, Time, Unset
  <2>3. /\ ctx.state # "normal" => ctx.started \in Int
        /\ ctx.state = "recovery_settling" => ctx.settling \in Int
    BY <2>2 DEF Consistent, Time
  <2> QED
    BY <1>3, <2>1, <2>2, <2>3 DEF Settling, Recovering
<1> QED
  BY <1>1, <1>2, <1>3, ContextMoves

\* Recovery is left only after a whole window of availability since it was settling, and not
\* before the window that its cause asks for, for any windows and any flapping.
THEOREM LeavesSettled == Spec => LeavesRecoverySettled
<1> USE RecoveryAssumption
<1>1. Init => Settling
  BY DEF Init, Settling, Recovering, Normal, Unset
<1>2. ASSUME Typed, Settling, [Next]_vars, Recovering, ctx'.state = "normal", ~startupPending'
      PROVE  /\ seenUnavailable = Unset \/ now - seenUnavailable >= Window(ctx.parent)
             /\ now - ctx.started >= Window(ctx.parent)
  <2>1. \E e \in Evaluation, job \in BOOLEAN : Begin(e, job)
    BY <1>2, ContextMoves DEF Restart, Recovering
  <2>2. ctx' = Classified(ctx) /\ Consistent(ctx)
    BY <1>2, <2>1 DEF Begin, Typed
  <2>3. ctx.state = "recovery_settling" /\ CanExit(ctx)
    BY <1>2, <2>2, ClassifiedAvailable DEF Recovering
  <2>4. /\ now \in Int /\ ctx.settling \in Int /\ ctx.started \in Int
        /\ seenUnavailable \in Int /\ Window(ctx.parent) \in Int
    BY <1>2, <2>2, <2>3 DEF Typed, TypeOK, Consistent, Time, Unset, Window
  <2> QED
    BY <1>2, <2>3, <2>4 DEF Settling, CanExit
<1>3. Typed /\ Settling /\ [Next]_vars =>
          [Recovering /\ ctx'.state = "normal" /\ ~startupPending' =>
              /\ seenUnavailable = Unset \/ now - seenUnavailable >= Window(ctx.parent)
              /\ now - ctx.started >= Window(ctx.parent)]_vars
  BY <1>2
<1> QED
  BY <1>1, <1>3, InitTyped, NextTyped, NextSettles, PTL DEF Spec, LeavesRecoverySettled

-----------------------------------------------------------------------------
(* The write job *)

LEMMA NextKeepsWrite == Typed /\ WriteScheduled /\ [Next]_vars => WriteScheduled'
<1> SUFFICES ASSUME Typed, WriteScheduled, [Next]_vars,
                    AllIdle', ~startupPending', ~Recovering', ~fresh'
             PROVE  armed'["checkpoint_write"] # Unset \/ savedLast'
  BY DEF WriteScheduled
<1> USE RecoveryAssumption
<1>1. pc \in [Evaluation -> Step] /\ \A e \in Evaluation : pc'[e] = "idle"
  BY DEF Typed, TypeOK, AllIdle
<1>2. ASSUME NEW e \in Evaluation,
             Evaluate(e) \/ FallbackFires(e) \/ \E j \in Job : JobFires(e, j)
      PROVE  FALSE
  <2>1. PICK job \in BOOLEAN : Begin(e, job)
    BY <1>2 DEF Evaluate, FallbackFires, JobFires
  <2> QED
    BY <1>1, <2>1 DEF Begin
<1>3. ASSUME NEW e \in Evaluation, Compute(e) \/ WriteStarts(e) PROVE FALSE
  BY <1>1, <1>3 DEF Compute, WriteStarts
<1>4. ASSUME NEW e \in Evaluation, Finish(e) PROVE armed'["checkpoint_write"] # Unset
  <2>1. ~Recovering /\ ~fresh /\ armed' = rechecks' /\ rechecks' = WithWriteJob(rechecks)
    BY <1>4 DEF Finish, Recovering, recoveryVars, checkpointVars
  <2>2. rechecks' = Schedule(rechecks, "checkpoint_write", now + WriteDelay)
    BY <2>1 DEF WithWriteJob
  <2>3. rechecks \in [Job -> Due] /\ now + WriteDelay # Unset /\ "checkpoint_write" \in Job
    BY DEF Typed, TypeOK, Time, Unset, Job
  <2> QED
    BY <2>1, <2>2, <2>3 DEF Schedule
<1>5. ASSUME NEW e \in Evaluation, ServiceWrite(e) PROVE FALSE
  BY <1>1, <1>5 DEF ServiceWrite, Recovering, recoveryVars
<1>6. ASSUME NEW e \in Evaluation, SaveEnds(e) PROVE savedLast'
  BY <1>6 DEF SaveEnds
<1>7. CASE Outage \/ Restore \/ Tick \/ UNCHANGED vars
  BY <1>7 DEF Outage, Restore, Tick, vars, recoveryVars, checkpointVars, WriteScheduled,
              AllIdle, Recovering
<1>8. ~Restart
  BY DEF Restart
<1> QED
  BY <1>2, <1>3, <1>4, <1>5, <1>6, <1>7, <1>8 DEF Next, EvaluationStep

\* A runtime that differs from the stored checkpoint keeps its write job between evaluations,
\* whichever saves overlapped or failed, unless a save was the last to end.
THEOREM WriteStaysScheduled == Spec => []WriteScheduled
<1>1. Init => WriteScheduled
  BY DEF Init, WriteScheduled
<1> QED
  BY <1>1, InitTyped, NextTyped, NextKeepsWrite, PTL DEF Spec

-----------------------------------------------------------------------------
(* A recovery ends in time *)

\* The last time the fallback fired, or was armed by a start.
LastFallback == fallbackAt - Fallback

\* The fallback is never late; before the clock moves, the first evaluation after a start has
\* produced a snapshot.
Clocked ==
    /\ availableSince <= now /\ now <= fallbackAt /\ fallbackAt <= now + Fallback
    /\ startupPending => availableSince = now
    /\ ~stable => /\ availableSince = now
                  /\ startupPending \/ \E e \in Evaluation : pc[e] = "classified"

\* A fallback that fired after the entities came back left the recovery settling; one that
\* fired a whole period after they came back ended it.
Bounded ==
    ~unavailable /\ ~startupPending =>
        /\ Recovering /\ LastFallback > availableSince =>
               ctx.state = "recovery_settling" /\ ctx.settling <= LastFallback
        /\ LastFallback > availableSince + Fallback => ~Recovering

LEMMA NextClocked == Typed /\ Clocked /\ [Next]_vars => Clocked'
<1> SUFFICES ASSUME Typed, Clocked, [Next]_vars PROVE Clocked'
  OBVIOUS
<1> USE RecoveryAssumption
<1>0. /\ now \in Nat /\ availableSince \in Nat /\ fallbackAt \in Nat /\ Fallback \in Nat
      /\ pc \in [Evaluation -> Step]
  BY DEF Typed, TypeOK, Time
<1>1. ASSUME NEW e \in Evaluation,
             Evaluate(e) \/ FallbackFires(e) \/ \E j \in Job : JobFires(e, j)
      PROVE  Clocked'
  <2>1. PICK job \in BOOLEAN : Begin(e, job)
    BY <1>1 DEF Evaluate, FallbackFires, JobFires
  <2>2. fallbackAt' = fallbackAt \/ fallbackAt' = now + Fallback
    BY <1>1 DEF Evaluate, FallbackFires, JobFires
  <2>3. /\ now' = now /\ availableSince' = availableSince /\ stable' = stable
        /\ startupPending' = FALSE /\ pc'[e] = "classified"
    BY <1>0, <2>1 DEF Begin, worldVars
  <2> QED
    BY <1>0, <2>2, <2>3 DEF Clocked
<1>2. ASSUME NEW e \in Evaluation, Compute(e) PROVE Clocked'
  BY <1>0, <1>2 DEF Compute, worldVars, Clocked
<1>3. ASSUME NEW e \in Evaluation,
             Finish(e) \/ WriteStarts(e) \/ ServiceWrite(e) \/ SaveEnds(e)
      PROVE  Clocked'
  <2>1. UNCHANGED <<startupPending, stable, now, availableSince, fallbackAt>>
    BY <1>3 DEF Finish, WriteStarts, ServiceWrite, SaveEnds, recoveryVars, worldVars
  <2>2. SaveEnds(e) => pc[e] \in {"writing", "saving"}
    BY QueueShrinks DEF SaveEnds
  <2>3. pc[e] # "classified"
    BY <1>3, <2>2 DEF Finish, WriteStarts, ServiceWrite
  <2>4. \A d \in Evaluation : d # e => pc'[d] = pc[d]
    BY <1>0, <1>3 DEF Finish, WriteStarts, ServiceWrite, SaveEnds
  <2> QED
    BY <1>0, <2>1, <2>3, <2>4 DEF Clocked
<1>4. CASE Outage \/ UNCHANGED vars
  BY <1>4 DEF Outage, vars, recoveryVars, worldVars, Clocked
<1>5. CASE Restore
  BY <1>0, <1>5 DEF Restore, recoveryVars, Clocked
<1>6. CASE Restart
  BY <1>0, <1>6 DEF Restart, Clocked
<1>7. CASE Tick
  <2>1. stable /\ ~startupPending
    BY <1>7 DEF Tick, AllIdle, Clocked
  <2> QED
    BY <1>0, <1>7, <2>1 DEF Tick, TimersServed, recoveryVars, Clocked
<1> QED
  BY <1>1, <1>2, <1>3, <1>4, <1>5, <1>6, <1>7 DEF Next, EvaluationStep

\* The fallback's evaluation, later than the return of the entities, and any other one.
LEMMA BeginBounded ==
    ASSUME Typed, Settling, Clocked, Bounded, NEW e \in Evaluation, NEW job \in BOOLEAN,
           Begin(e, job), FallbackFires(e) \/ UNCHANGED fallbackAt
    PROVE  Bounded'
<1> USE RecoveryAssumption
<1>0. /\ now \in Nat /\ availableSince \in Nat /\ fallbackAt \in Nat /\ Fallback \in Nat
      /\ Consistent(ctx)
  BY DEF Typed, TypeOK, Time
<1>1. /\ ctx' = Classified(ctx) /\ now' = now /\ availableSince' = availableSince
      /\ unavailable' = unavailable /\ ~startupPending'
  BY DEF Begin, worldVars
<1>2. fallbackAt' = fallbackAt \/ fallbackAt' = now + Fallback
  BY DEF FallbackFires
<1>3. LastFallback' = fallbackAt' - Fallback
  BY DEF LastFallback
<1>4. LastFallback' \in Int
  BY <1>0, <1>2, <1>3
<1>5. LastFallback' <= now
  BY <1>0, <1>2, <1>3 DEF Clocked
<1> SUFFICES ASSUME ~unavailable, LastFallback' > availableSince
             PROVE  /\ Recovering' => /\ ctx'.state = "recovery_settling"
                                      /\ ctx'.settling <= LastFallback'
                    /\ LastFallback' > availableSince + Fallback => ~Recovering'
  BY <1>0, <1>1, <1>4 DEF Bounded, Recovering
<1>6. availableSince < now /\ ~startupPending /\ stable
  <2>1. availableSince < now
    BY <1>0, <1>4, <1>5
  <2> QED
    BY <1>0, <2>1 DEF Clocked
<1>7. ctx.state = "normal" => ctx' = ctx
  BY <1>0, <1>1, <1>6, ClassifiedAvailable
<1>8. ctx.state = "recovery_settling" =>
          /\ ctx' = IF CanExit(ctx) THEN Normal ELSE ctx
          /\ ctx.settling \in Nat /\ ctx.settling <= now
  BY <1>0, <1>1, ClassifiedAvailable DEF Consistent, Time, Settling
<1>9. CASE UNCHANGED fallbackAt
  <2>1. LastFallback' = LastFallback
    BY <1>9 DEF LastFallback
  <2>2. /\ Recovering => ctx.state = "recovery_settling" /\ ctx.settling <= LastFallback
        /\ LastFallback > availableSince + Fallback => ~Recovering
    BY <1>6, <2>1 DEF Bounded
  <2> QED
    BY <1>7, <1>8, <2>1, <2>2 DEF Recovering, Normal
<1>10. CASE FallbackFires(e)
  <2>1. fallbackAt = now /\ LastFallback' = now /\ LastFallback = now - Fallback
    BY <1>0, <1>10 DEF FallbackFires, LastFallback, Clocked
  <2>2. ctx'.state # "normal" => ctx'.state = "recovery_settling" /\ ctx'.settling <= now
    <3>1. CASE ctx.state \in Entry \cup {"degraded_recovery"}
      <4>1. ctx' = Settled(ctx)
        BY <1>0, <1>1, <3>1, ClassifiedAvailable
      <4> QED
        BY <1>0, <4>1 DEF Settled, Consistent, Context
    <3> QED
      BY <1>0, <1>7, <1>8, <3>1 DEF Consistent, Context, State, Normal
  <2>3. ASSUME now > availableSince + Fallback PROVE ctx'.state = "normal"
    <3>1. Recovering => ctx.state = "recovery_settling" /\ ctx.settling <= now - Fallback
      BY <1>0, <1>6, <2>1, <2>3 DEF Bounded
    <3>2. CASE ctx.state = "recovery_settling"
      <4>1. Window(ctx.parent) \in Nat /\ Window(ctx.parent) <= Fallback
        BY DEF Window
      <4>2. CanExit(ctx)
        BY <1>0, <1>6, <1>8, <3>1, <3>2, <4>1 DEF CanExit, Recovering
      <4> QED
        BY <1>8, <3>2, <4>2 DEF Normal
    <3> QED
      BY <1>7, <3>1, <3>2 DEF Recovering
  <2> QED
    BY <2>1, <2>2, <2>3 DEF Recovering
<1> QED
  BY <1>9, <1>10

LEMMA NextBounded == Typed /\ Settling /\ Clocked /\ Bounded /\ [Next]_vars => Bounded'
<1> SUFFICES ASSUME Typed, Settling, Clocked, Bounded, [Next]_vars PROVE Bounded'
  OBVIOUS
<1> USE RecoveryAssumption
<1>0. /\ now \in Nat /\ availableSince \in Nat /\ fallbackAt \in Nat /\ Fallback \in Nat
  BY DEF Typed, TypeOK, Time
<1>1. CASE \E e \in Evaluation, job \in BOOLEAN :
              Begin(e, job) /\ (FallbackFires(e) \/ UNCHANGED fallbackAt)
  BY <1>1, BeginBounded
<1>2. CASE Restart
  BY <1>2 DEF Restart, Bounded
<1>3. CASE /\ UNCHANGED <<ctx, startupPending, fallbackAt, seenUnavailable>>
           /\ UNCHANGED worldVars \/ Outage \/ Tick
  <2>1. unavailable' \/ UNCHANGED <<unavailable, availableSince>>
    BY <1>3 DEF worldVars, Outage, Tick
  <2> QED
    BY <1>3, <2>1 DEF Bounded, Recovering, LastFallback
<1>4. CASE Restore /\ UNCHANGED fallbackAt
  <2>1. availableSince' = now /\ LastFallback' <= now /\ LastFallback' \in Int
    BY <1>0, <1>4 DEF Restore, LastFallback, Clocked
  <2> QED
    BY <1>0, <2>1 DEF Bounded
<1> QED
  BY <1>1, <1>2, <1>3, <1>4, ContextMoves

\* Once the critical entities are back for good, two periods of the fallback end the recovery,
\* for any windows and however the evaluations, saves and restarts overlapped.
THEOREM EndsInTime == Spec => []RecoveryBounded
<1> USE RecoveryAssumption
<1>1. Init => Settling /\ Clocked /\ Bounded
  BY DEF Init, Settling, Recovering, Normal, Unset, Clocked, Bounded
<1>2. Typed /\ Clocked /\ Bounded => RecoveryBounded
  <2> SUFFICES ASSUME Typed, Clocked, Bounded, TimersServed, ~startupPending, ~unavailable,
                      now >= availableSince + 2 * Fallback
               PROVE  ~Recovering
    BY DEF RecoveryBounded
  <2>1. /\ now \in Nat /\ availableSince \in Nat /\ fallbackAt \in Nat /\ Fallback \in Nat
    BY DEF Typed, TypeOK, Time
  <2>2. LastFallback > availableSince + Fallback
    BY <2>1 DEF TimersServed, LastFallback
  <2> QED
    BY <2>2 DEF Bounded
<1> QED
  BY <1>1, <1>2, InitTyped, NextTyped, NextSettles, NextClocked, NextBounded, PTL DEF Spec

=============================================================================
