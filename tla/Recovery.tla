------------------------------ MODULE Recovery ------------------------------
(***************************************************************************)
(* Recovery after a start or a power loss, and the runtime checkpoint:     *)
(* RecoveryManager (runtime/recovery.py), the steps of an evaluation in    *)
(* runtime/engine.py that drive it, the engine's table of timed rechecks   *)
(* and the timers that the scheduler arms for them.                        *)
(*                                                                         *)
(* An evaluation suspends between its classification and its snapshot (the *)
(* calendar refresh), between the snapshot and its end (events, services), *)
(* and while it saves a checkpoint; nothing keeps a second evaluation out  *)
(* (see EvaluationTrigger).  Time passes only between evaluations, and     *)
(* never past a timer that is due.                                         *)
(***************************************************************************)
EXTENDS Integers, Sequences

CONSTANTS
    Evaluation,      \* the evaluations that may be in flight together
    MaxTime,         \* bound on the clock; a tick stands for one minute
    Startup, Power,  \* startup_stabilization_s, power_restore_stabilization_s
    Degraded,        \* degraded_timeout_s
    Fallback,        \* _PERIODIC_FALLBACK_S
    WriteDelay       \* _RUNTIME_CHECKPOINT_WRITE_DELAY_S

ASSUME RecoveryAssumption ==
    /\ {MaxTime, Startup, Power, Degraded, Fallback, WriteDelay} \subseteq Nat \ {0}
    /\ Power <= Startup /\ Startup <= Fallback

Unset == -1
Time  == 0..MaxTime
Due   == 0..(MaxTime + Startup + Degraded + WriteDelay) \cup {Unset}

Job    == {"stabilization", "degraded_timeout", "checkpoint_write"}
NoJobs == [j \in Job |-> Unset]

Entry == {"startup_recovery", "power_recovery"}
State == Entry \cup {"normal", "degraded_recovery", "recovery_settling"}

\* RecoveryContext.
Context == [state : State, parent : Entry \cup {"none"},
            started : Time \cup {Unset}, settling : Time \cup {Unset},
            degraded : Time \cup {Unset}]

Normal == [state |-> "normal", parent |-> "none", started |-> Unset,
           settling |-> Unset, degraded |-> Unset]

VARIABLES
    now,
    unavailable,     \* the share of unavailable critical entities is above the threshold
    ctx,             \* RecoveryManager._context
    startupPending,  \* _startup_recovery_pending
    stable,          \* a snapshot has been produced (_snapshot.snapshot_id)
    rechecks,        \* [Job -> Due], the engine's _timed_rechecks
    armed,           \* [Job -> Due], the scheduler's timers
    fallbackAt,      \* when the periodic fallback fires
    pc,              \* [Evaluation -> Step], how far the evaluation is
    writeDue,        \* [Evaluation -> BOOLEAN], checkpoint_job_due
    draft,           \* [Evaluation -> BOOLEAN], the checkpoint being saved is still current
    saves,           \* the saves under way, oldest first: the store's lock is fair
    fresh,           \* _last_runtime_checkpoint_key is the key of the current runtime
    seenUnavailable, \* history: when an evaluation last saw the entities unavailable
    availableSince,  \* history: when they came back, or the program was started
    savedLast        \* history: what ended last is a save, not an evaluation without one

Step == {"idle", "classified", "computed", "writing", "saving"}

recoveryVars   == <<ctx, startupPending, stable>>
checkpointVars == <<draft, saves, fresh>>
worldVars      == <<now, unavailable, availableSince>>
vars == <<recoveryVars, checkpointVars, worldVars, rechecks, armed, fallbackAt, pc,
          writeDue, seenUnavailable, savedLast>>

Recovering == ctx.state # "normal"
AllIdle    == \A e \in Evaluation : pc[e] = "idle"

-----------------------------------------------------------------------------
(* RecoveryManager.evaluate *)

Window(parent) == IF parent = "startup_recovery" THEN Startup ELSE Power

Entered(s) == [Normal EXCEPT !.state = s, !.parent = s, !.started = now]

\* Mutant: the settling window is not restarted after the entities flapped.
Settled_KeepsStart(c) ==
    [c EXCEPT !.state = "recovery_settling", !.degraded = Unset,
              !.settling = IF @ = Unset THEN c.started ELSE @]

Settled(c) == [c EXCEPT !.state = "recovery_settling", !.settling = now, !.degraded = Unset]

WindowElapsed(c) == now - c.started >= Window(c.state)

\* _can_exit_settling.
CanExit(c) == stable /\ now - c.settling >= Window(c.parent)

Classified(c) ==
    CASE c.state = "normal" /\ startupPending -> Entered("startup_recovery")
      [] c.state = "normal" /\ ~startupPending /\ unavailable -> Entered("power_recovery")
      [] c.state \in Entry /\ unavailable /\ WindowElapsed(c) ->
            [c EXCEPT !.state = "degraded_recovery", !.degraded = now]
      [] c.state \in Entry \cup {"degraded_recovery"} /\ ~unavailable -> Settled(c)
      [] c.state = "recovery_settling" /\ unavailable ->
            [c EXCEPT !.state = c.parent, !.settling = Unset]
      [] c.state = "recovery_settling" /\ ~unavailable /\ CanExit(c) -> Normal
      [] OTHER -> c

\* _stabilization_deadline.
Deadline(c) ==
    CASE c.state \in Entry -> c.started + Window(c.state)
      [] c.state = "recovery_settling" -> c.settling + Window(c.parent)
      [] OTHER -> Unset

-----------------------------------------------------------------------------
(* The engine's timed rechecks *)

\* _schedule_timed_recheck_deadline keeps the earlier of two deadlines.
Schedule(jobs, j, at) ==
    IF jobs[j] # Unset /\ jobs[j] <= at THEN jobs ELSE [jobs EXCEPT ![j] = at]

Unschedule(jobs, j) == [jobs EXCEPT ![j] = Unset]

\* The jobs of _compute_recovery_context.
WithRecoveryJobs(jobs, c) ==
    LET one == IF Deadline(c) = Unset THEN Unschedule(jobs, "stabilization")
               ELSE Schedule(jobs, "stabilization", Deadline(c))
    IN IF c.state = "degraded_recovery"
       THEN Schedule(one, "degraded_timeout", c.degraded + Degraded)
       ELSE Unschedule(one, "degraded_timeout")

-----------------------------------------------------------------------------
(* An evaluation *)

\* async_evaluate up to its first await: _compute_recovery_context.
Begin(e, isWriteJob) ==
    /\ pc[e] = "idle"
    /\ pc' = [pc EXCEPT ![e] = "classified"]
    /\ writeDue' = [writeDue EXCEPT ![e] = isWriteJob]
    /\ ctx' = Classified(ctx)
    /\ startupPending' = FALSE
    /\ rechecks' = WithRecoveryJobs(rechecks, ctx')
    /\ seenUnavailable' = IF unavailable THEN now ELSE seenUnavailable
    /\ UNCHANGED <<stable, checkpointVars, worldVars, savedLast>>

\* A state change, a service or a reload.
Evaluate(e) == Begin(e, FALSE) /\ UNCHANGED <<armed, fallbackAt>>

JobFires(e, j) ==
    /\ armed[j] # Unset /\ armed[j] <= now
    /\ armed' = Unschedule(armed, j)
    /\ Begin(e, j = "checkpoint_write")
    /\ UNCHANGED fallbackAt

\* Mutant: the fallback is not armed again.
FallbackFires_NotRearmed(e) ==
    /\ fallbackAt <= now
    /\ fallbackAt' = MaxTime + Fallback
    /\ Begin(e, FALSE)
    /\ UNCHANGED armed

FallbackFires(e) ==
    /\ fallbackAt <= now
    /\ fallbackAt' = now + Fallback
    /\ Begin(e, FALSE)
    /\ UNCHANGED armed

\* _compute_snapshot starts from an empty table of rechecks.  What it computes may
\* differ materially from the runtime of the last checkpoint.
Compute(e) ==
    /\ pc[e] = "classified"
    /\ pc' = [pc EXCEPT ![e] = "computed"]
    /\ rechecks' = NoJobs
    /\ stable' = TRUE
    /\ \/ UNCHANGED checkpointVars
       \/ /\ fresh' = FALSE
          /\ draft' = [d \in Evaluation |-> FALSE]
          /\ UNCHANGED saves
    /\ UNCHANGED <<ctx, startupPending, worldVars, armed, fallbackAt, writeDue,
                   seenUnavailable, savedLast>>

\* Mutant: a job whose timer is still armed is taken for scheduled.
WithWriteJob_SkipsArmed(jobs) ==
    IF Recovering THEN Unschedule(jobs, "checkpoint_write")
    ELSE IF fresh \/ armed["checkpoint_write"] # Unset THEN jobs
    ELSE Schedule(jobs, "checkpoint_write", now + WriteDelay)

\* _update_runtime_checkpoint_after_evaluation, when its evaluation is not the write job's.
WithWriteJob(jobs) ==
    IF Recovering THEN Unschedule(jobs, "checkpoint_write")
    ELSE IF fresh THEN jobs
    ELSE Schedule(jobs, "checkpoint_write", now + WriteDelay)

\* The end of an evaluation that saves nothing, and the coordinator's _sync_scheduler.
Finish(e) ==
    /\ pc[e] = "computed"
    /\ Recovering \/ ~writeDue[e]
    /\ pc' = [pc EXCEPT ![e] = "idle"]
    /\ rechecks' = WithWriteJob(rechecks)
    /\ armed' = rechecks'
    /\ savedLast' = FALSE
    /\ UNCHANGED <<recoveryVars, checkpointVars, worldVars, fallbackAt, writeDue,
                   seenUnavailable>>

\* The write job's evaluation builds the checkpoint and starts to save it.
WriteStarts(e) ==
    /\ pc[e] = "computed"
    /\ ~Recovering /\ writeDue[e]
    /\ pc' = [pc EXCEPT ![e] = "writing"]
    /\ draft' = [draft EXCEPT ![e] = TRUE]
    /\ saves' = Append(saves, e)
    /\ rechecks' = Unschedule(rechecks, "checkpoint_write")
    /\ UNCHANGED <<recoveryVars, fresh, worldVars, armed, fallbackAt, writeDue,
                   seenUnavailable, savedLast>>

\* The service write_runtime_checkpoint, refused while recovering.
ServiceWrite(e) ==
    /\ pc[e] = "idle"
    /\ rechecks' = IF Recovering THEN Unschedule(rechecks, "checkpoint_write") ELSE rechecks
    /\ IF Recovering THEN UNCHANGED <<pc, draft, saves>>
       ELSE /\ pc' = [pc EXCEPT ![e] = "saving"]
            /\ draft' = [draft EXCEPT ![e] = TRUE]
            /\ saves' = Append(saves, e)
    /\ UNCHANGED <<recoveryVars, fresh, worldVars, armed, fallbackAt, writeDue,
                   seenUnavailable, savedLast>>

\* The save returns or raises; either way the job is dropped once more.  Only an
\* evaluation is followed by _sync_scheduler.
SaveEnds(e) ==
    /\ saves # <<>> /\ e = Head(saves)
    /\ saves' = Tail(saves)
    /\ pc' = [pc EXCEPT ![e] = "idle"]
    /\ \/ fresh' = draft[e]
       \/ UNCHANGED fresh
    /\ rechecks' = Unschedule(rechecks, "checkpoint_write")
    /\ armed' = IF pc[e] = "writing" THEN rechecks' ELSE armed
    /\ savedLast' = TRUE
    /\ UNCHANGED <<recoveryVars, draft, worldVars, fallbackAt, writeDue, seenUnavailable>>

-----------------------------------------------------------------------------
(* The world *)

Outage == /\ ~unavailable
          /\ unavailable' = TRUE
          /\ UNCHANGED <<recoveryVars, checkpointVars, now, availableSince, rechecks, armed,
                         fallbackAt, pc, writeDue, seenUnavailable, savedLast>>

Restore == /\ unavailable
           /\ unavailable' = FALSE
           /\ availableSince' = now
           /\ UNCHANGED <<recoveryVars, checkpointVars, now, rechecks, armed, fallbackAt, pc,
                          writeDue, seenUnavailable, savedLast>>

\* Home Assistant restarts: nothing in memory survives, and the first evaluation of the
\* new engine follows at once.
Restart ==
    /\ ctx' = Normal /\ startupPending' = TRUE /\ stable' = FALSE
    /\ rechecks' = NoJobs /\ armed' = NoJobs
    /\ fallbackAt' = now + Fallback
    /\ pc' = [e \in Evaluation |-> "idle"]
    /\ writeDue' = [e \in Evaluation |-> FALSE]
    /\ draft' = [e \in Evaluation |-> FALSE] /\ saves' = <<>>
    /\ fresh' = FALSE /\ savedLast' = FALSE
    /\ availableSince' = now /\ seenUnavailable' = Unset
    /\ UNCHANGED <<now, unavailable>>

TimersServed == /\ fallbackAt > now
                /\ \A j \in Job : armed[j] = Unset \/ armed[j] > now

Tick == /\ now < MaxTime
        /\ AllIdle /\ TimersServed /\ ~startupPending
        /\ now' = now + 1
        /\ UNCHANGED <<recoveryVars, checkpointVars, unavailable, availableSince, rechecks,
                       armed, fallbackAt, pc, writeDue, seenUnavailable, savedLast>>

-----------------------------------------------------------------------------

Init ==
    /\ now = 0 /\ unavailable \in BOOLEAN
    /\ ctx = Normal /\ startupPending = TRUE /\ stable = FALSE
    /\ rechecks = NoJobs /\ armed = NoJobs
    /\ fallbackAt = Fallback
    /\ pc = [e \in Evaluation |-> "idle"]
    /\ writeDue = [e \in Evaluation |-> FALSE]
    /\ draft = [e \in Evaluation |-> FALSE] /\ saves = <<>>
    /\ fresh = FALSE /\ savedLast = FALSE
    /\ availableSince = 0 /\ seenUnavailable = Unset

EvaluationStep(e) ==
    \/ Evaluate(e) \/ FallbackFires(e)
    \/ \E j \in Job : JobFires(e, j)
    \/ Compute(e) \/ Finish(e) \/ WriteStarts(e)
    \/ ServiceWrite(e) \/ SaveEnds(e)

Next == (\E e \in Evaluation : EvaluationStep(e)) \/ Outage \/ Restore \/ Restart \/ Tick

Spec == Init /\ [][Next]_vars

-----------------------------------------------------------------------------
(* Properties *)

\* Every variable has its type.
TypeOK ==
    /\ now \in Time /\ unavailable \in BOOLEAN
    /\ ctx \in Context /\ startupPending \in BOOLEAN /\ stable \in BOOLEAN
    /\ rechecks \in [Job -> Due] /\ armed \in [Job -> Due]
    /\ fallbackAt \in 0..(MaxTime + Fallback)
    /\ pc \in [Evaluation -> Step]
    /\ writeDue \in [Evaluation -> BOOLEAN] /\ draft \in [Evaluation -> BOOLEAN]
    /\ saves \in Seq(Evaluation) /\ fresh \in BOOLEAN
    /\ seenUnavailable \in Time \cup {Unset}
    /\ availableSince \in Time /\ savedLast \in BOOLEAN

\* Recovery ends only after a whole window in which every evaluation found the critical
\* entities available, however often they flapped before; a start asks for the longer
\* window, also when it went through a degraded phase.
LeavesRecoverySettled ==
    [][Recovering /\ ctx'.state = "normal" /\ ~startupPending' =>
          /\ seenUnavailable = Unset \/ now - seenUnavailable >= Window(ctx.parent)
          /\ now - ctx.started >= Window(ctx.parent)]_vars

\* Once the entities are back for good, recovery is over after two periods of the
\* fallback, even when nothing but the fallback evaluates.
RecoveryBounded ==
    AllIdle /\ TimersServed /\ ~startupPending /\ ~unavailable
        /\ now >= availableSince + 2 * Fallback => ~Recovering

\* Between evaluations, a runtime that differs materially from the stored checkpoint has a
\* write job, whichever evaluations and saves overlapped before and whichever saves failed,
\* unless what ended last was a save (which drops the job of the others: then the next
\* evaluation schedules it).
WriteScheduled ==
    AllIdle /\ ~startupPending /\ ~Recovering /\ ~fresh =>
        armed["checkpoint_write"] # Unset \/ savedLast

=============================================================================
