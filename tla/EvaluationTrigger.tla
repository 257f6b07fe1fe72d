-------------------------- MODULE EvaluationTrigger --------------------------
(***************************************************************************)
(* What starts an evaluation, and what is left of the triggers when it     *)
(* ends: the debounced state changes, the periodic fallback, the jobs of   *)
(* the scheduler, service calls and options reloads (coordinator.py and    *)
(* runtime/scheduler.py), up to and after the unloading of the entry.      *)
(*                                                                         *)
(* An evaluation is a task that suspends before its snapshot (the calendar *)
(* refresh), after it (events and service calls) and after it has synced   *)
(* the scheduler (alerts, the refresh of the entities).  Durations are     *)
(* left out: an armed timer may fire at any moment.                        *)
(***************************************************************************)
EXTENDS Integers, FiniteSets

CONSTANTS
    Class,       \* the entity classes of _DEBOUNCE_BY_CLASS
    Job,         \* the ids of timed rechecks
    Task,        \* bound on the tasks in flight together
    MaxReloads,  \* bound on the options updates that reload in place
    MaxFailures  \* bound on the tasks that raise

ASSUME TriggerAssumption == MaxReloads \in Nat /\ MaxFailures \in Nat

Kind == {"trigger", "fallback", "request", "reload"}
Pc   == {"before", "after", "synced", "reporting"}

\* No task.
Idle == [kind |-> "none", pc |-> "none"]

VARIABLES
    entry,        \* the config entry: loaded, being unloaded, unloaded
    listening,    \* _unsub_state_changed is set
    handles,      \* the keys of _debounce_handles
    reasons,      \* the keys of _pending_eval_reasons
    evalPending,  \* _eval_pending
    running,      \* _eval_running
    fallback,     \* the timer of the periodic fallback is armed
    wanted,       \* the engine's _timed_rechecks
    armed,        \* the scheduler's timers
    task,         \* [Task -> a running task or Idle]
    changed,      \* history: the classes with a change that no snapshot has read
    reloads, failures

triggerVars == <<listening, handles, reasons, evalPending, running, fallback>>
jobVars     == <<wanted, armed>>
boundVars   == <<reloads, failures>>
vars        == <<entry, triggerVars, jobVars, task, changed, boundVars>>

Free(t)       == task[t] = Idle
Start(t, k)   == task' = [task EXCEPT ![t] = [kind |-> k, pc |-> "before"]]
Triggered(t)  == task[t].kind \in {"trigger", "fallback"}

-----------------------------------------------------------------------------
(* State changes and their debounce timers *)

\* Mutant: the follow-up of a trigger that met a running evaluation is forgotten.
FollowUp_Dropped(c) ==
    /\ handles' = handles \ {c}
    /\ reasons' = reasons \ {c}
    /\ evalPending' = (reasons' # {})

\* The trigger fires while an evaluation is running: it is debounced again.
FollowUp(c) ==
    /\ handles' = handles \cup {c}
    /\ reasons' = reasons \cup {c}
    /\ evalPending' = TRUE

\* Mutant: the timers are cancelled and their reasons kept.
Cancelled_KeepsReasons ==
    /\ handles' = {}
    /\ UNCHANGED <<reasons, evalPending>>

\* _cancel_eval_debounce_handles.
Cancelled ==
    /\ handles' = {} /\ reasons' = {}
    /\ evalPending' = FALSE

\* A meaningful change of a classified entity: _on_state_changed, _schedule_eval.
StateChange(c) ==
    /\ changed' = changed \cup {c}
    /\ IF listening
       THEN /\ handles' = handles \cup {c}
            /\ reasons' = reasons \cup {c}
            /\ evalPending' = TRUE
       ELSE UNCHANGED <<handles, reasons, evalPending>>
    /\ UNCHANGED <<entry, listening, running, fallback, jobVars, task, boundVars>>

\* _async_request_triggered_evaluation, up to its first await: either the evaluation
\* begins, or the HA-backed objects changed.  Then the options are updated, which
\* starts a reload, and the trigger only reports the change.
StartTriggered(t, k) ==
    /\ Free(t)
    /\ running' = TRUE
    /\ \/ Start(t, k) /\ UNCHANGED boundVars
       \/ /\ reloads < MaxReloads
          /\ reloads' = reloads + 1
          /\ \E u \in Task \ {t} :
                /\ Free(u)
                /\ task' = [task EXCEPT ![t] = [kind |-> k, pc |-> "reporting"],
                                        ![u] = [kind |-> "reload", pc |-> "before"]]
          /\ UNCHANGED failures

\* Mutant: the running flag is not consulted.
DebounceFires_Reentrant(c) ==
    /\ c \in handles
    /\ handles' = handles \ {c}
    /\ reasons' = reasons \ {c}
    /\ evalPending' = (reasons' # {})
    /\ \E t \in Task : StartTriggered(t, "trigger")
    /\ UNCHANGED <<entry, listening, fallback, jobVars, changed>>

\* _trigger_eval for a debounced class.
DebounceFires(c) ==
    /\ c \in handles
    /\ IF running
       THEN FollowUp(c) /\ UNCHANGED <<running, task, boundVars>>
       ELSE /\ handles' = handles \ {c}
            /\ reasons' = reasons \ {c}
            /\ evalPending' = (reasons' # {})
            /\ \E t \in Task : StartTriggered(t, "trigger")
    /\ UNCHANGED <<entry, listening, fallback, jobVars, changed>>

\* _async_run_periodic_fallback: skipped, and armed again, while a triggered evaluation
\* is running.
FallbackFires ==
    /\ fallback
    /\ IF running
       THEN UNCHANGED <<running, fallback, task, boundVars>>
       ELSE /\ fallback' = FALSE
            /\ \E t \in Task : StartTriggered(t, "fallback")
    /\ UNCHANGED <<entry, listening, handles, reasons, evalPending, jobVars, changed>>

-----------------------------------------------------------------------------
(* Scheduler jobs, services and options updates: evaluations nobody guards *)

JobFires(j, t) ==
    /\ j \in armed /\ Free(t)
    /\ armed' = armed \ {j}
    /\ Start(t, "request")
    /\ UNCHANGED <<entry, triggerVars, wanted, changed, boundVars>>

ServiceCall(t) ==
    /\ entry = "loaded" /\ Free(t)
    /\ Start(t, "request")
    /\ UNCHANGED <<entry, triggerVars, jobVars, changed, boundVars>>

OptionsUpdate(t) ==
    /\ entry = "loaded" /\ Free(t)
    /\ reloads < MaxReloads
    /\ reloads' = reloads + 1
    /\ Start(t, "reload")
    /\ UNCHANGED <<entry, triggerVars, jobVars, changed, failures>>

-----------------------------------------------------------------------------
(* The tasks *)

\* _compute_snapshot reads the state of every entity and lists the rechecks it needs.
Snapshot(t) ==
    /\ task[t].pc = "before"
    /\ task' = [task EXCEPT ![t].pc = "after"]
    /\ wanted' \in SUBSET Job
    /\ changed' = {}
    /\ UNCHANGED <<entry, triggerVars, armed, boundVars>>

\* Mutant: timers that are armed already are kept.
Sync_KeepsOld == armed' = armed \cup (wanted \ armed) /\ UNCHANGED wanted

\* sync_jobs: cancel what is no longer wanted, arm what is not armed.
Sync == armed' = wanted /\ UNCHANGED wanted

\* The end of an evaluation: the scheduler is synced; a reload first subscribes anew,
\* which cancels every debounce timer.
SyncScheduler(t) ==
    /\ task[t].pc = "after"
    /\ task' = [task EXCEPT ![t].pc = "synced"]
    /\ Sync
    /\ IF task[t].kind = "reload"
       THEN listening' = TRUE /\ Cancelled /\ UNCHANGED <<running, fallback>>
       ELSE UNCHANGED triggerVars
    /\ UNCHANGED <<entry, changed, boundVars>>

\* Mutant: the fallback is armed again by an evaluation that succeeds, not by a `finally`.
Leave_NoFinally(t) ==
    /\ task' = [task EXCEPT ![t] = Idle]
    /\ running' = (running /\ ~Triggered(t))
    /\ fallback' = (fallback \/ (task[t].kind = "fallback" /\ task[t].pc = "synced"))
    /\ UNCHANGED <<entry, listening, handles, reasons, evalPending, jobVars, changed>>

\* The `finally` clauses: the flag is reset, the fallback is armed again.
Leave(t) ==
    /\ task' = [task EXCEPT ![t] = Idle]
    /\ running' = (running /\ ~Triggered(t))
    /\ fallback' = (fallback \/ task[t].kind = "fallback")
    /\ UNCHANGED <<entry, listening, handles, reasons, evalPending, jobVars, changed>>

End(t) == task[t].pc \in {"synced", "reporting"} /\ Leave(t) /\ UNCHANGED boundVars

\* Any await may raise.
Fail(t) == /\ ~Free(t) /\ failures < MaxFailures
           /\ failures' = failures + 1
           /\ Leave(t) /\ UNCHANGED reloads

-----------------------------------------------------------------------------
(* Unloading: async_shutdown, up to and after its first await *)

StopTriggers ==
    /\ entry = "loaded"
    /\ entry' = "stopping"
    /\ listening' = FALSE
    /\ Cancelled
    /\ fallback' = FALSE
    /\ UNCHANGED <<running, jobVars, task, changed, boundVars>>

StopScheduler ==
    /\ entry = "stopping"
    /\ entry' = "unloaded"
    /\ armed' = {}
    /\ UNCHANGED <<triggerVars, wanted, task, changed, boundVars>>

-----------------------------------------------------------------------------

Init ==
    /\ entry = "loaded" /\ listening = TRUE
    /\ handles = {} /\ reasons = {} /\ evalPending = FALSE
    /\ running = FALSE /\ fallback = TRUE
    /\ wanted \in SUBSET Job /\ armed = wanted
    /\ task = [t \in Task |-> Idle]
    /\ changed = {}
    /\ reloads = 0 /\ failures = 0

TaskStep(t) ==
    \/ ServiceCall(t) \/ OptionsUpdate(t)
    \/ \E j \in Job : JobFires(j, t)
    \/ Snapshot(t) \/ SyncScheduler(t) \/ End(t) \/ Fail(t)

Next ==
    \/ \E c \in Class : StateChange(c) \/ DebounceFires(c)
    \/ FallbackFires
    \/ \E t \in Task : TaskStep(t)
    \/ StopTriggers \/ StopScheduler

Spec == Init /\ [][Next]_vars

\* The fallback's timer fires and the awaits of a task return.  Nothing is assumed of the
\* debounce timers, which a noisy entity may postpone for ever.
Fairness ==
    /\ WF_vars(FallbackFires)
    /\ \A t \in Task : WF_vars(Snapshot(t)) /\ WF_vars(SyncScheduler(t)) /\ WF_vars(End(t))

FairSpec == Spec /\ Fairness

-----------------------------------------------------------------------------
(* Properties *)

\* Every variable has its type.
TypeOK ==
    /\ entry \in {"loaded", "stopping", "unloaded"} /\ listening \in BOOLEAN
    /\ handles \subseteq Class /\ reasons \subseteq Class /\ evalPending \in BOOLEAN
    /\ running \in BOOLEAN /\ fallback \in BOOLEAN
    /\ wanted \subseteq Job /\ armed \subseteq Job
    /\ task \in [Task -> [kind : Kind, pc : Pc] \cup {Idle}]
    /\ changed \subseteq Class
    /\ reloads \in 0..MaxReloads /\ failures \in 0..MaxFailures

\* The three records of a pending trigger agree, whatever fires, is debounced again or
\* is cancelled in between: a reason without a timer would announce an evaluation that
\* nothing starts.
PendingMeansTimer == handles = reasons /\ (evalPending <=> reasons # {})

\* _eval_running is set exactly while one triggered evaluation is in flight, also after
\* failures: the flag neither admits a second one nor stays set and blocks all of them.
RunningIsOneTask ==
    Cardinality({t \in Task : Triggered(t)}) = IF running THEN 1 ELSE 0

\* While the entry is loaded the fallback is armed or its own evaluation is in flight,
\* whatever fails: every other recovery of a lost trigger rests on it.
FallbackAlive ==
    entry = "loaded" => fallback \/ \E t \in Task : task[t].kind = "fallback"

\* As long as nothing reloads, which cancels every debounce timer, and nothing raises: no
\* change of a presence, motion or other class is left to the fallback.  Its timer is armed,
\* or an evaluation that has not read the states yet is under way.
ChangeCovered ==
    entry = "loaded" /\ reloads = 0 /\ failures = 0 =>
        \A c \in changed : c \in handles \/ \E t \in Task : task[t].pc = "before"

\* With no evaluation between its snapshot and its end, the armed timers are rechecks
\* of the last snapshot; one of them is missing only if it fired and its evaluation is
\* still to come.  Holds for any number of overlapping evaluations and reloads, as long as
\* none of them raises before it has synced the scheduler.
DeadlinesCovered ==
    entry = "loaded" /\ failures = 0 /\ (\A t \in Task : task[t].pc # "after") =>
        /\ armed \subseteq wanted
        /\ armed # wanted => \E t \in Task : task[t].pc = "before"

\* Every change is read by some snapshot, unless the entry is unloaded first.
EventuallySeen ==
    \A c \in Class : c \in changed ~> c \notin changed \/ entry # "loaded"

=============================================================================
