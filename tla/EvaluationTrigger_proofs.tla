---------------------- MODULE EvaluationTrigger_proofs ----------------------
(***************************************************************************)
(* Proofs about EvaluationTrigger, for any classes, jobs and tasks and any *)
(* number of reloads and failures.                                         *)
(***************************************************************************)
EXTENDS EvaluationTrigger, FiniteSetTheorems, TLAPS

-----------------------------------------------------------------------------
(* Type correctness *)

\* After loading the triggers and tasks are well typed.
LEMMA InitType == Init => TypeOK
<1> SUFFICES ASSUME Init PROVE TypeOK
  OBVIOUS
<1>1. reloads \in 0..MaxReloads /\ failures \in 0..MaxFailures
  BY TriggerAssumption DEF Init
<1>2. wanted \subseteq Job /\ armed \subseteq Job
  BY DEF Init
<1>3. task \in [Task -> [kind : Kind, pc : Pc] \cup {Idle}]
  BY DEF Init
<1> QED
  BY <1>1, <1>2, <1>3 DEF Init, TypeOK

\* A trigger that begins an evaluation, or only reports a change, keeps the tasks' type.
LEMMA StartTriggeredType ==
    ASSUME TypeOK, NEW t \in Task, NEW k \in Kind, StartTriggered(t, k)
    PROVE  /\ running' \in BOOLEAN
           /\ task' \in [Task -> [kind : Kind, pc : Pc] \cup {Idle}]
           /\ reloads' \in 0..MaxReloads /\ failures' \in 0..MaxFailures
<1>1. CASE Start(t, k) /\ UNCHANGED boundVars
  BY <1>1 DEF StartTriggered, Start, TypeOK, boundVars, Pc
<1>2. ASSUME NEW u \in Task \ {t},
             task' = [task EXCEPT ![t] = [kind |-> k, pc |-> "reporting"],
                                  ![u] = [kind |-> "reload", pc |-> "before"]]
      PROVE  task' \in [Task -> [kind : Kind, pc : Pc] \cup {Idle}]
  BY <1>2 DEF TypeOK, Pc, Kind
<1>3. CASE reloads < MaxReloads /\ reloads' = reloads + 1 /\ UNCHANGED failures
           /\ \E u \in Task \ {t} :
                /\ Free(u)
                /\ task' = [task EXCEPT ![t] = [kind |-> k, pc |-> "reporting"],
                                        ![u] = [kind |-> "reload", pc |-> "before"]]
  <2>1. reloads' \in 0..MaxReloads
    BY <1>3, TriggerAssumption DEF TypeOK
  <2> QED
    BY <1>2, <1>3, <2>1 DEF StartTriggered, TypeOK
<1> QED
  BY <1>1, <1>3 DEF StartTriggered

\* The end of a task keeps the types.
LEMMA LeaveType ==
    ASSUME TypeOK, NEW t \in Task, Leave(t)
    PROVE  /\ task' \in [Task -> [kind : Kind, pc : Pc] \cup {Idle}]
           /\ running' \in BOOLEAN /\ fallback' \in BOOLEAN
<1>1. task' \in [Task -> [kind : Kind, pc : Pc] \cup {Idle}]
  BY DEF Leave, TypeOK
<1>2. running' = (running /\ ~Triggered(t)) /\ fallback' = (fallback \/ task[t].kind = "fallback")
  BY DEF Leave
<1> QED
  BY <1>1, <1>2, Zenon

\* No step of a task breaks a type.
LEMMA TaskStepType ==
    ASSUME TypeOK, NEW t \in Task, TaskStep(t)
    PROVE  TypeOK'
<1>1. CASE ServiceCall(t)
  BY <1>1 DEF ServiceCall, Start, TypeOK, Kind, Pc, triggerVars, jobVars, boundVars
<1>2. CASE OptionsUpdate(t)
  <2>1. reloads' \in 0..MaxReloads
    BY <1>2, TriggerAssumption DEF OptionsUpdate, TypeOK
  <2> QED
    BY <1>2, <2>1 DEF OptionsUpdate, Start, TypeOK, Kind, Pc, triggerVars, jobVars
<1>3. ASSUME NEW j \in Job, JobFires(j, t) PROVE TypeOK'
  BY <1>3 DEF JobFires, Start, TypeOK, Kind, Pc, triggerVars, boundVars
<1>4. CASE Snapshot(t)
  <2>1. task' \in [Task -> [kind : Kind, pc : Pc] \cup {Idle}]
    BY <1>4 DEF Snapshot, TypeOK, Kind, Pc, Idle
  <2> QED
    BY <1>4, <2>1 DEF Snapshot, TypeOK, triggerVars, boundVars
<1>5. CASE SyncScheduler(t)
  <2>1. task' \in [Task -> [kind : Kind, pc : Pc] \cup {Idle}]
    BY <1>5 DEF SyncScheduler, TypeOK, Kind, Pc, Idle
  <2> QED
    BY <1>5, <2>1 DEF SyncScheduler, Sync, Cancelled, TypeOK, triggerVars, boundVars
<1>6. CASE End(t)
  BY <1>6, LeaveType DEF End, Leave, TypeOK, jobVars, boundVars
<1>7. CASE Fail(t)
  <2>1. failures' \in 0..MaxFailures
    BY <1>7, TriggerAssumption DEF Fail, TypeOK
  <2> QED
    BY <1>7, <2>1, LeaveType DEF Fail, Leave, TypeOK, jobVars
<1> QED
  BY <1>1, <1>2, <1>3, <1>4, <1>5, <1>6, <1>7 DEF TaskStep

\* The types are inductive on their own.
LEMMA NextType == TypeOK /\ [Next]_vars => TypeOK'
<1> SUFFICES ASSUME TypeOK, [Next]_vars PROVE TypeOK'
  OBVIOUS
<1>1. ASSUME NEW c \in Class, StateChange(c) PROVE TypeOK'
  BY <1>1 DEF StateChange, TypeOK, jobVars, boundVars
<1>2. ASSUME NEW c \in Class, DebounceFires(c) PROVE TypeOK'
  <2>1. CASE running
    BY <1>2, <2>1 DEF DebounceFires, FollowUp, TypeOK, jobVars, boundVars
  <2>2. CASE ~running
    <3>1. PICK t \in Task : StartTriggered(t, "trigger")
      BY <1>2, <2>2 DEF DebounceFires
    <3>2. /\ handles' = handles \ {c} /\ reasons' = reasons \ {c}
          /\ evalPending' \in BOOLEAN
          /\ UNCHANGED <<entry, listening, fallback, jobVars, changed>>
      BY <1>2, <2>2 DEF DebounceFires
    <3> QED
      BY <3>1, <3>2, StartTriggeredType DEF TypeOK, jobVars, Kind
  <2> QED
    BY <2>1, <2>2
<1>3. CASE FallbackFires
  <2>1. CASE running
    BY <1>3, <2>1 DEF FallbackFires, TypeOK, jobVars, boundVars
  <2>2. CASE ~running
    <3>1. PICK t \in Task : StartTriggered(t, "fallback")
      BY <1>3, <2>2 DEF FallbackFires
    <3> QED
      BY <1>3, <2>2, <3>1, StartTriggeredType DEF FallbackFires, TypeOK, jobVars, Kind
  <2> QED
    BY <2>1, <2>2
<1>4. CASE StopTriggers \/ StopScheduler
  BY <1>4 DEF StopTriggers, StopScheduler, Cancelled, TypeOK, triggerVars, jobVars, boundVars
<1>5. CASE UNCHANGED vars
  BY <1>5 DEF vars, TypeOK, triggerVars, jobVars, boundVars
<1> QED
  BY <1>1, <1>2, <1>3, <1>4, <1>5, TaskStepType DEF Next

\* Whatever fires, fails, reloads or is unloaded, every variable keeps its type.
THEOREM TypeCorrect == Spec => []TypeOK
BY InitType, NextType, PTL DEF Spec

-----------------------------------------------------------------------------
(* The records of pending triggers *)

\* _schedule_eval, _trigger_eval and _cancel_eval_debounce_handles change the three
\* records together, also when a trigger is debounced again behind a running evaluation.
THEOREM PendingAgrees == Spec => []PendingMeansTimer
<1>1. Init => PendingMeansTimer
  BY DEF Init, PendingMeansTimer
<1>2. PendingMeansTimer /\ [Next]_vars => PendingMeansTimer'
  <2> SUFFICES ASSUME PendingMeansTimer, [Next]_vars PROVE PendingMeansTimer'
    OBVIOUS
  <2>1. ASSUME NEW c \in Class, StateChange(c) \/ DebounceFires(c) PROVE PendingMeansTimer'
    BY <2>1 DEF StateChange, DebounceFires, FollowUp, PendingMeansTimer
  <2>2. ASSUME NEW t \in Task, TaskStep(t) PROVE PendingMeansTimer'
    <3>1. CASE SyncScheduler(t)
      BY <3>1 DEF SyncScheduler, Cancelled, PendingMeansTimer, triggerVars
    <3>2. CASE ~SyncScheduler(t)
      BY <2>2, <3>2 DEF TaskStep, ServiceCall, OptionsUpdate, JobFires, Snapshot, End, Fail,
                        Leave, PendingMeansTimer, triggerVars
    <3> QED
      BY <3>1, <3>2
  <2>3. CASE FallbackFires \/ StopTriggers \/ StopScheduler \/ UNCHANGED vars
    BY <2>3 DEF FallbackFires, StopTriggers, StopScheduler, Cancelled, PendingMeansTimer,
                vars, triggerVars
  <2> QED
    BY <2>1, <2>2, <2>3 DEF Next
<1> QED
  BY <1>1, <1>2, PTL DEF Spec

-----------------------------------------------------------------------------
(* The running flag and the fallback *)

\* At most one task is an evaluation that a trigger started, and the flag says whether.
Guarded ==
    /\ running <=> \E t \in Task : Triggered(t)
    /\ \A t, u \in Task : Triggered(t) /\ Triggered(u) => t = u

\* What a step makes of the triggered tasks: one starts, where there was none, one ends,
\* or they stay.
Starts(t, k) ==
    /\ ~running /\ running'
    /\ task'[t].kind = k
    /\ \A u \in Task \ {t} : task'[u].kind \in {task[u].kind, "reload"}
                           /\ (Triggered(u) => task'[u].kind = task[u].kind)

Ends(t) ==
    /\ running' = (running /\ ~Triggered(t))
    /\ fallback' = (fallback \/ task[t].kind = "fallback")
    /\ task'[t].kind = "none"
    /\ \A u \in Task \ {t} : task'[u] = task[u]

Stays ==
    /\ UNCHANGED running
    /\ \A u \in Task : Triggered(u) \/ Triggered(u)' => task'[u].kind = task[u].kind

\* A debounced trigger or the fallback that begins an evaluation adds one triggered task.
LEMMA StartsOne ==
    ASSUME TypeOK, ~running, NEW t \in Task, NEW k \in {"trigger", "fallback"},
           StartTriggered(t, k)
    PROVE  Starts(t, k)
BY DEF StartTriggered, Start, Starts, Free, Idle, Triggered, TypeOK

\* The `finally` clauses end one task.
LEMMA LeaveEnds ==
    ASSUME TypeOK, NEW t \in Task, Leave(t)
    PROVE  Ends(t)
BY DEF Leave, Ends, Idle, TypeOK

\* No other step of a task, from the snapshot to the sync, is about triggers.
LEMMA TaskStays ==
    ASSUME TypeOK, NEW t \in Task, TaskStep(t), ~End(t), ~Fail(t)
    PROVE  Stays /\ UNCHANGED fallback
<1>1. CASE ServiceCall(t) \/ OptionsUpdate(t) \/ \E j \in Job : JobFires(j, t)
  BY <1>1 DEF ServiceCall, OptionsUpdate, JobFires, Start, Stays, Free, Idle, Triggered,
              TypeOK, triggerVars
<1>2. CASE Snapshot(t)
  BY <1>2 DEF Snapshot, Stays, Triggered, TypeOK, Idle, triggerVars
<1>3. CASE SyncScheduler(t)
  BY <1>3 DEF SyncScheduler, Stays, Triggered, TypeOK, Idle, triggerVars
<1> QED
  BY <1>1, <1>2, <1>3 DEF TaskStep

\* Those are all the effects of a step.
Effect ==
    \/ \E t \in Task : Starts(t, "trigger") /\ UNCHANGED fallback
    \/ \E t \in Task : Starts(t, "fallback")
    \/ \E t \in Task : Ends(t)
    \/ Stays /\ (UNCHANGED fallback \/ entry' # "loaded")

\* Every step has one of them; the entry is never loaded again.
LEMMA StepEffect ==
    ASSUME TypeOK, [Next]_vars
    PROVE  Effect /\ (entry' = "loaded" => entry = "loaded")
<1>1. ASSUME NEW c \in Class, DebounceFires(c) PROVE Effect /\ UNCHANGED entry
  <2>1. CASE running
    BY <1>1, <2>1 DEF DebounceFires, Effect, Stays, Triggered
  <2>2. CASE ~running
    BY <1>1, <2>2, StartsOne DEF DebounceFires, Effect
  <2> QED
    BY <2>1, <2>2
<1>2. CASE FallbackFires
  <2>1. CASE running
    BY <1>2, <2>1 DEF FallbackFires, Effect, Stays, Triggered
  <2>2. CASE ~running
    BY <1>2, <2>2, StartsOne DEF FallbackFires, Effect
  <2> QED
    BY <1>2, <2>1, <2>2 DEF FallbackFires
<1>3. ASSUME NEW t \in Task, End(t) \/ Fail(t) PROVE Effect /\ UNCHANGED entry
  BY <1>3, LeaveEnds DEF End, Fail, Leave, Effect
<1>4. ASSUME NEW t \in Task, TaskStep(t), ~End(t), ~Fail(t) PROVE Effect /\ UNCHANGED entry
  BY <1>4, TaskStays DEF Effect, TaskStep, ServiceCall, OptionsUpdate, JobFires, Snapshot,
                         SyncScheduler
<1>5. ASSUME NEW c \in Class, StateChange(c) PROVE Effect /\ UNCHANGED entry
  BY <1>5 DEF StateChange, Effect, Stays, Triggered
<1>6. CASE StopTriggers \/ StopScheduler \/ UNCHANGED vars
  BY <1>6 DEF StopTriggers, StopScheduler, vars, triggerVars, Effect, Stays, Triggered
<1> QED
  BY <1>1, <1>2, <1>3, <1>4, <1>5, <1>6 DEF Next

\* The flag is the only thing between two triggers, and it suffices.
LEMMA NextGuarded == TypeOK /\ Guarded /\ [Next]_vars => Guarded'
<1> SUFFICES ASSUME TypeOK, Guarded, Effect PROVE Guarded'
  BY StepEffect
<1>1. ASSUME NEW t \in Task, NEW k \in {"trigger", "fallback"}, Starts(t, k) PROVE Guarded'
  <2>1. Triggered(t)' /\ \A u \in Task \ {t} : ~Triggered(u)'
    BY <1>1 DEF Starts, Guarded, Triggered
  <2> QED
    BY <1>1, <2>1 DEF Starts, Guarded
<1>2. ASSUME NEW t \in Task, Ends(t) PROVE Guarded'
  <2>1. ~Triggered(t)' /\ \A u \in Task \ {t} : Triggered(u)' <=> Triggered(u)
    BY <1>2 DEF Ends, Triggered
  <2>2. running' <=> running /\ ~Triggered(t)
    BY <1>2 DEF Ends
  <2> QED
    BY <2>1, <2>2, Zenon DEF Guarded
<1>3. CASE Stays
  <2>1. \A u \in Task : Triggered(u)' <=> Triggered(u)
    BY <1>3 DEF Stays, Triggered
  <2> QED
    BY <1>3, <2>1 DEF Stays, Guarded
<1> QED
  BY <1>1, <1>2, <1>3 DEF Effect

\* Neither failures nor follow-up triggers leave `_eval_running` stuck or admit a second
\* triggered evaluation.
THEOREM OneTriggered == Spec => []RunningIsOneTask
<1>1. Init => Guarded
  BY DEF Init, Guarded, Triggered, Idle
<1>2. Guarded => RunningIsOneTask
  <2> SUFFICES ASSUME Guarded PROVE RunningIsOneTask
    OBVIOUS
  <2> DEFINE some == {t \in Task : Triggered(t)}
  <2>1. CASE running
    <3>1. PICK t \in Task : Triggered(t)
      BY <2>1 DEF Guarded
    <3>2. some = {t}
      BY <3>1 DEF Guarded
    <3> QED
      BY <2>1, <3>2, FS_Singleton DEF RunningIsOneTask
  <2>2. CASE ~running
    <3>1. some = {}
      BY <2>2 DEF Guarded
    <3> QED
      BY <2>2, <3>1, FS_EmptySet DEF RunningIsOneTask
  <2> QED
    BY <2>1, <2>2
<1> QED
  BY <1>1, <1>2, InitType, NextType, NextGuarded, PTL DEF Spec

\* As long as the entry is loaded, a lost trigger is found by the fallback, whatever
\* fails in between.
THEOREM FallbackStays == Spec => []FallbackAlive
<1>1. Init => FallbackAlive
  BY DEF Init, FallbackAlive
<1>2. TypeOK /\ Guarded /\ FallbackAlive /\ [Next]_vars => FallbackAlive'
  <2> SUFFICES ASSUME TypeOK, Guarded, FallbackAlive, Effect, entry = "loaded", entry' = "loaded"
               PROVE  FallbackAlive'
    BY StepEffect DEF FallbackAlive
  <2>1. ASSUME NEW t \in Task, Starts(t, "trigger"), UNCHANGED fallback PROVE FallbackAlive'
    BY <2>1 DEF Starts, FallbackAlive, Guarded, Triggered
  <2>2. ASSUME NEW t \in Task, Starts(t, "fallback") PROVE FallbackAlive'
    BY <2>2 DEF Starts, FallbackAlive
  <2>3. ASSUME NEW t \in Task, Ends(t) PROVE FallbackAlive'
    <3>1. fallback' <=> fallback \/ task[t].kind = "fallback"
      BY <2>3 DEF Ends
    <3> QED
      BY <2>3, <3>1 DEF Ends, FallbackAlive
  <2>4. CASE Stays /\ UNCHANGED fallback
    BY <2>4 DEF Stays, FallbackAlive, Triggered
  <2> QED
    BY <2>1, <2>2, <2>3, <2>4 DEF Effect
<1>3. Init => Guarded
  BY DEF Init, Guarded, Triggered, Idle
<1> QED
  BY <1>1, <1>2, <1>3, InitType, NextType, NextGuarded, PTL DEF Spec

-----------------------------------------------------------------------------
(* The timed rechecks *)

\* With any number of overlapping evaluations: between them, a recheck of the last
\* snapshot is armed, or has fired and its evaluation is still to read the states.
\* A task that raises after its snapshot leaves the timers unsynced, hence the
\* condition on `failures` in the property.
THEOREM DeadlinesStayCovered == Spec => []DeadlinesCovered
<1>1. Init => DeadlinesCovered
  BY DEF Init, DeadlinesCovered
<1>2. TypeOK /\ DeadlinesCovered /\ [Next]_vars => DeadlinesCovered'
  <2> SUFFICES ASSUME TypeOK, DeadlinesCovered, [Next]_vars PROVE DeadlinesCovered'
    OBVIOUS
  <2> DEFINE Before(t) == task[t].pc = "before"
             After(t)  == task[t].pc = "after"
  <2>1. ASSUME UNCHANGED <<jobVars, entry, failures>>,
               \A t \in Task : (Before(t) => Before(t)') /\ (After(t) => After(t)')
        PROVE  DeadlinesCovered'
    BY <2>1 DEF DeadlinesCovered, jobVars
  <2>2. ASSUME NEW t \in Task, NEW k \in Kind, StartTriggered(t, k), UNCHANGED <<jobVars, entry>>
        PROVE  DeadlinesCovered'
    BY <2>1, <2>2 DEF StartTriggered, boundVars, Start, Free, Idle, TypeOK
  <2>3. ASSUME NEW c \in Class, StateChange(c) \/ DebounceFires(c) PROVE DeadlinesCovered'
    BY <2>1, <2>2, <2>3 DEF StateChange, DebounceFires, boundVars, Kind
  <2>4. CASE FallbackFires
    BY <2>1, <2>2, <2>4 DEF FallbackFires, boundVars, Kind
  <2>5. ASSUME NEW t \in Task, ServiceCall(t) \/ OptionsUpdate(t) PROVE DeadlinesCovered'
    BY <2>1, <2>5 DEF ServiceCall, OptionsUpdate, boundVars, Start, Free, Idle, TypeOK
  <2>6. ASSUME NEW t \in Task, NEW j \in Job, JobFires(j, t) PROVE DeadlinesCovered'
    <3>1. Before(t)' /\ \A u \in Task : After(u) => After(u)'
      BY <2>6 DEF JobFires, Start, Free, Idle, TypeOK
    <3>2. armed' \subseteq armed /\ UNCHANGED <<wanted, entry, failures>>
      BY <2>6 DEF JobFires, boundVars
    <3> QED
      BY <3>1, <3>2 DEF DeadlinesCovered
  <2>7. ASSUME NEW t \in Task, Snapshot(t) PROVE DeadlinesCovered'
    <3>1. After(t)'
      BY <2>7 DEF Snapshot, TypeOK, Idle
    <3> QED
      BY <3>1 DEF DeadlinesCovered
  <2>8. ASSUME NEW t \in Task, SyncScheduler(t) PROVE DeadlinesCovered'
    BY <2>8 DEF SyncScheduler, Sync, DeadlinesCovered, boundVars
  <2>9. ASSUME NEW t \in Task, End(t) PROVE DeadlinesCovered'
    BY <2>1, <2>9 DEF End, Leave, boundVars, TypeOK
  <2>10. ASSUME NEW t \in Task, Fail(t) PROVE DeadlinesCovered'
    <3>1. failures' # 0
      BY <2>10 DEF Fail, TypeOK
    <3> QED
      BY <3>1 DEF DeadlinesCovered
  <2>11. CASE StopTriggers \/ StopScheduler
    BY <2>11 DEF StopTriggers, StopScheduler, DeadlinesCovered
  <2>12. CASE UNCHANGED vars
    BY <2>12, <2>1 DEF vars, boundVars
  <2> QED
    BY <2>3, <2>4, <2>5, <2>6, <2>7, <2>8, <2>9, <2>10, <2>11, <2>12 DEF Next, TaskStep
<1> QED
  BY <1>1, <1>2, InitType, NextType, PTL DEF Spec
-----------------------------------------------------------------------------
(* Changes that no snapshot has read *)

\* A loaded entry listens, and only a reload, which is counted, cancels debounce timers.
Listens == /\ entry = "loaded" => listening
           /\ reloads = 0 => \A t \in Task : task[t].kind # "reload"

\* Without reloads and failures, a change keeps its timer or an evaluation that has not
\* read the states yet, whichever evaluations it meets.
THEOREM ChangesCovered == Spec => []ChangeCovered
<1>1. Init => Listens /\ ChangeCovered
  BY DEF Init, Listens, ChangeCovered, Idle
<1>2. TypeOK /\ Listens /\ [Next]_vars => Listens'
  <2> SUFFICES ASSUME TypeOK, Listens, [Next]_vars PROVE Listens'
    OBVIOUS
  <2>1. ASSUME entry' = "loaded" => entry = "loaded" /\ listening',
               reloads' = 0 => reloads = 0,
               reloads' = 0 => \A t \in Task : task'[t].kind = "reload" => task[t].kind = "reload"
        PROVE  Listens'
    BY <2>1 DEF Listens
  <2>2. ASSUME NEW t \in Task, NEW k \in {"trigger", "fallback"}, StartTriggered(t, k),
               UNCHANGED <<entry, listening>>
        PROVE  Listens'
    <3>1. reloads' = 0 => reloads = 0 /\ Start(t, k)
      BY <2>2 DEF StartTriggered, boundVars, TypeOK
    <3> QED
      BY <2>2, <3>1 DEF Start, Listens, TypeOK
  <2>3. ASSUME NEW c \in Class, StateChange(c) \/ DebounceFires(c) PROVE Listens'
    BY <2>1, <2>2, <2>3 DEF StateChange, DebounceFires, boundVars, Listens
  <2>4. CASE FallbackFires
    BY <2>1, <2>2, <2>4 DEF FallbackFires, boundVars, Listens
  <2>5. ASSUME NEW t \in Task, ServiceCall(t) \/ \E j \in Job : JobFires(j, t) PROVE Listens'
    BY <2>5 DEF ServiceCall, JobFires, Start, triggerVars, boundVars, Listens, TypeOK
  <2>6. ASSUME NEW t \in Task, OptionsUpdate(t) PROVE Listens'
    <3>1. reloads' # 0
      BY <2>6 DEF OptionsUpdate, TypeOK
    <3> QED
      BY <2>6, <3>1 DEF OptionsUpdate, triggerVars, Listens
  <2>7. ASSUME NEW t \in Task, Snapshot(t) \/ SyncScheduler(t) PROVE Listens'
    <3>1. \A u \in Task : task'[u].kind = task[u].kind
      BY <2>7 DEF Snapshot, SyncScheduler, TypeOK, Idle
    <3>2. entry' = entry /\ reloads' = reloads /\ (listening => listening')
      BY <2>7 DEF Snapshot, SyncScheduler, triggerVars, boundVars
    <3> QED
      BY <3>1, <3>2 DEF Listens
  <2>8. ASSUME NEW t \in Task, End(t) \/ Fail(t) PROVE Listens'
    BY <2>8 DEF End, Fail, Leave, Idle, boundVars, Listens, TypeOK
  <2>9. CASE StopTriggers \/ StopScheduler \/ UNCHANGED vars
    BY <2>9 DEF StopTriggers, StopScheduler, vars, triggerVars, boundVars, Listens
  <2> QED
    BY <2>3, <2>4, <2>5, <2>6, <2>7, <2>8, <2>9 DEF Next, TaskStep
<1>3. TypeOK /\ Listens /\ ChangeCovered /\ [Next]_vars => ChangeCovered'
  <2> SUFFICES ASSUME TypeOK, Listens, ChangeCovered, [Next]_vars,
                      entry' = "loaded", reloads' = 0, failures' = 0
               PROVE  \A c \in changed' : c \in handles' \/ \E t \in Task : task'[t].pc = "before"
    BY DEF ChangeCovered
  <2> DEFINE Covered == \A c \in changed' : c \in handles' \/ \E t \in Task : task'[t].pc = "before"
  <2>1. ASSUME entry = "loaded", reloads = 0, failures = 0, changed' = changed,
               \A c \in handles : c \in handles' \/ \E t \in Task : task'[t].pc = "before",
               \A t \in Task : task[t].pc = "before" => task'[t].pc = "before"
        PROVE  Covered
    BY <2>1 DEF ChangeCovered
  <2>2. ASSUME NEW t \in Task, NEW k \in {"trigger", "fallback"}, StartTriggered(t, k)
        PROVE  /\ reloads = 0 /\ failures = 0
               /\ task'[t].pc = "before"
               /\ \A u \in Task : task[u].pc = "before" => task'[u].pc = "before"
    <3>1. Start(t, k) /\ UNCHANGED boundVars
      BY <2>2 DEF StartTriggered, TypeOK
    <3> QED
      BY <2>2, <3>1 DEF Start, Free, Idle, boundVars, TypeOK
  <2>3. ASSUME NEW c \in Class, StateChange(c) PROVE Covered
    <3>1. listening /\ entry = "loaded" /\ reloads = 0 /\ failures = 0 /\ task' = task
      BY <2>3 DEF StateChange, boundVars, Listens
    <3>2. changed' = changed \cup {c} /\ handles' = handles \cup {c}
      BY <2>3, <3>1 DEF StateChange
    <3> QED
      BY <3>1, <3>2 DEF ChangeCovered
  <2>4. ASSUME NEW c \in Class, DebounceFires(c) PROVE Covered
    <3>1. CASE running
      <4>1. handles' = handles \cup {c} /\ task' = task /\ reloads = 0 /\ failures = 0
        BY <2>4, <3>1 DEF DebounceFires, FollowUp, boundVars
      <4> QED
        BY <2>1, <2>4, <4>1 DEF DebounceFires
    <3>2. CASE ~running
      <4>1. PICK t \in Task : StartTriggered(t, "trigger")
        BY <2>4, <3>2 DEF DebounceFires
      <4> QED
        BY <2>2, <4>1
    <3> QED
      BY <3>1, <3>2
  <2>5. CASE FallbackFires
    <3>1. CASE running
      BY <2>1, <2>5, <3>1 DEF FallbackFires, boundVars
    <3>2. CASE ~running
      <4>1. PICK t \in Task : StartTriggered(t, "fallback")
        BY <2>5, <3>2 DEF FallbackFires
      <4> QED
        BY <2>2, <4>1
    <3> QED
      BY <3>1, <3>2
  <2>6. ASSUME NEW t \in Task, ServiceCall(t) \/ OptionsUpdate(t) \/ \E j \in Job : JobFires(j, t)
        PROVE  Covered
    <3>1. task'[t].pc = "before"
      BY <2>6 DEF ServiceCall, OptionsUpdate, JobFires, Start, TypeOK
    <3> QED
      BY <3>1
  <2>7. ASSUME NEW t \in Task, Snapshot(t) PROVE Covered
    BY <2>7 DEF Snapshot
  <2>8. ASSUME NEW t \in Task, SyncScheduler(t) PROVE Covered
    <3>1. reloads = 0 /\ failures = 0 /\ entry = "loaded" /\ task[t].kind # "reload"
      BY <2>8 DEF SyncScheduler, boundVars, Listens
    <3>2. changed' = changed /\ handles' = handles
      BY <2>8, <3>1 DEF SyncScheduler, triggerVars
    <3>3. \A u \in Task : task[u].pc = "before" => task'[u].pc = "before"
      BY <2>8 DEF SyncScheduler, TypeOK
    <3> QED
      BY <2>1, <3>1, <3>2, <3>3
  <2>9. ASSUME NEW t \in Task, End(t) PROVE Covered
    <3>1. \A u \in Task : task[u].pc = "before" => task'[u].pc = "before"
      BY <2>9 DEF End, Leave, TypeOK
    <3> QED
      BY <2>1, <2>9, <3>1 DEF End, Leave, boundVars
  <2>10. ASSUME NEW t \in Task, Fail(t) PROVE Covered
    BY <2>10 DEF Fail, TypeOK
  <2>11. CASE StopTriggers \/ StopScheduler
    BY <2>11 DEF StopTriggers, StopScheduler
  <2>12. CASE UNCHANGED vars
    BY <2>1, <2>12 DEF vars, triggerVars, boundVars
  <2> QED
    BY <2>3, <2>4, <2>5, <2>6, <2>7, <2>8, <2>9, <2>10, <2>11, <2>12 DEF Next, TaskStep
<1> QED
  BY <1>1, <1>2, <1>3, InitType, NextType, PTL DEF Spec
=============================================================================
