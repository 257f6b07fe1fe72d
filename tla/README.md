# Heima: a TLA+ verification project

Heima (`src/custom_components/heima`) is a Home Assistant integration that derives
a canonical state of a home (people, occupancy, house state, lighting, heating,
security), learns reactions, and applies plans. This directory holds TLA+ models of
its control logic, the TLC runs that check them on small instances, and proofs
checked by TLAPS. `PROJECT.json` is the index: components, runs, mutants, the map
from every definition to the lines it models, the disagreements met, the hazards and
the theorems.

Paths below are relative to `src/custom_components/heima` unless they start with
`docs/` (`src/docs`).

## 1. Inventory

Everything runs in Home Assistant's single event loop. A handler is therefore atomic
up to its first real suspension (`await` on a service call, a store, a network
refresh), and what is hard about the program is what may happen between two
suspensions of one task: other tasks, timers, reloads, and the unload of the entry.

| component | state it keeps | operations | what must hold |
|---|---|---|---|
| config entry (`__init__.py`) | the entry's options, `last_options_snapshot` | set-up, update listener (in-place or structural reload), unload | a reload loses no trigger; after the unload nothing acts |
| coordinator (`coordinator.py`) | debounce handles and reasons, `_eval_running`, fallback handle, `HeimaRuntimeState` | state changes, triggers, periodic fallback, learning ticks, reviews, options mutations | every change is evaluated; one triggered evaluation at a time |
| scheduler (`runtime/scheduler.py`) | `_jobs`, `_handles` | `sync_jobs`, due job, cancel, shutdown | armed timers are the jobs of the last evaluation |
| engine (`runtime/engine.py`) | snapshot, canonical state, `_timed_rechecks`, reactions, mutes | `async_evaluate`, plan building, filters, execution, reload, stored plans | evaluation order; each job reaches the scheduler |
| runtime confirmation (`runtime/runtime_confirmation*.py`) | pending and completed requests, occurrence index, timers | create, answer, time out, claim, complete, dependency filter | one decision per request, at most one execution, one pending request per occurrence |
| promotion (`coordinator.py`, options) | confirmation statistics, reviews, policies | record an outcome, decide, reset, edit | a promotion is offered only on good evidence; decisions last |
| options flow (`config_flow_steps/`) | a copy of the options while a dialog is open | open, store one section, save, abandon | a stale copy overwrites nothing |
| recovery (`runtime/recovery.py`) | recovery context | classify at every evaluation | ends only when settled, ends in time |
| checkpoint (`runtime/checkpoint_store.py`) | last checkpoint, its key | schedule, write, load | a changed runtime is written in time |
| proposal engine (`runtime/proposal_engine.py`, `proposal_lifecycle_store.py`, `finding_router.py`) | proposals, lifecycle records | submit, run, decide, batch decide, withdraw, boost, prune | one pending proposal per identity; learning undoes no decision; list, records, approvals and files agree |
| notifications (`runtime/notifications.py`, `runtime/domains/events.py`) | dedup and rate stamps, deferred deliveries, policy memory | queue, emit, defer, flush, actionable delivery | nothing deferred is lost or made twice; a push is counted only when made; an emission ends |
| manual holds (`runtime/manual_hold.py`) | active holds, pending applies | activate, release, classify a change | Heima's own change never holds itself; a resident's change is respected |
| outcome tracker (`runtime/outcome_tracker.py`) | pending verifications, streaks, the events of a cycle | fire, check, boost, degrade | each firing is verified; streaks count what happened |
| invariant checks (`runtime/invariant_check.py`, `runtime/invariants/`) | debounce per check | evaluate | reported once per violation |
| domains (`runtime/domains/`) | candidate and dwell timers, last applies | compute | thresholds respected, rechecks scheduled, no oscillation |
| reactions (`runtime/reactions/`) | last firing, streaks, overrides, absence deadlines | evaluate, scheduled jobs | one firing per occurrence; what a reaction turned on it turns off |
| plugin DAG (`runtime/dag.py`) | none | order plugins | a topological order or an error |
| stores (`runtime/event_store.py`, `runtime/inference/*_store.py`, `runtime/snapshot_buffer.py`) | bounded lists | append, evict, flush | bounds kept, order kept |
| normalization, room sources, topology, contexts | none or caches | pure functions | fusion agrees with its definition |
| inference, analyzers, detectors, behaviors | statistics | analyse, record | numerical; not modelled |
| services, websocket, panel, entities, diagnostics | none | entry points and views | only the commands that change state are modelled |

How they interact: state changes, timers, services and options updates start
evaluations (coordinator); an evaluation classifies recovery, refreshes the calendar,
computes a snapshot, lets the reactions fire (some ask residents first), filters and
executes a plan, writes a checkpoint and finally syncs the scheduler. Answers of
residents come back as events of the notification service; every recorded outcome
updates the entry's options, and the update listener reloads the engine in place,
which rebuilds the reactions and evaluates again. Learning ticks feed proposals that an
admin reviews in the options flow or the panel.

Home Assistant, its options flow manager, its clock and its notify services are
outside the repository; they are modelled from how the code uses them.

## 2. The modules

| module | models | checked by | proofs |
|---|---|---|---|
| `RequestLifecycle` | what a resident is promised about one request (abstract) | `confirmation` | refinement |
| `RuntimeConfirmation` | registry, controller, the engine's two ends, the options update, the writers of the counters | `confirmation`, `confirmation_one`, `confirmation_reasked` | `RequestsAndNotifications_proofs` |
| `StepDependencies` | `evaluate_step_dependencies`, `_cyclic_step_ids` | `dependencies` | `StepDependencies_proofs` |
| `PromotionReview` | statistics, reviews, decisions, options flow | `promotion` | `PromotionReview_proofs` |
| `Recovery` | `RecoveryManager`, timed rechecks, checkpoint writes | `recovery` | `Recovery_proofs` |
| `EvaluationTrigger` | debounce, fallback, scheduler jobs, reloads, unload | `trigger` | `EvaluationTrigger_proofs` |
| `ProposalEngine` | proposals, their reviews, three stores and their saves | `proposals` | `ProposalEngine_proofs` |
| `SmartLighting` | the smart lighting reaction of a room, its plans, one of its lights, the residents | `lighting` | `HouseAndLighting_proofs` |
| `NotificationPipeline` | occupancy mismatch, event queue, delivery policy, routes, deferred deliveries | `notifications` | `RequestsAndNotifications_proofs` |
| `HouseState` | the house-state domain, its recovery guard and rechecks | `house` | `HouseAndLighting_proofs` |
| `OutcomeTracker` | firings, the arrivals of a cycle, outcomes, streaks, degradations and boosts | `outcomes` | `OutcomeTracker_proofs` |
| `MC*` | constants of the instances | | |

Two modules of proofs are about two components each, which never share a definition: the requests and the notifications
that residents get, the state of the house and the light of a room. The definitions of `SmartLighting` and
`NotificationPipeline` that every component has (`Init`, `Next`, `Spec`, `TypeOK`) therefore carry the component's name.

### RuntimeConfirmation

`status`, `occurrence`, `pending`, `index` are the registry's objects and its two
dictionaries; `timers` the controller's handles; `sending`, `applying` and `evaluating`
the tasks that are suspended in a delivery, in the execution of a plan and in an
evaluation before it dispatches its reactions. `registered`, `muted` and `lastFired`
belong to the engine, `cfg` and `stats` to the entry's options, `reloadDue` to Home
Assistant's scheduled update listener, `flow` to an open options flow.

Two details decide what holds. `_remove_pending` pops the occurrence key whoever it
belongs to, and `mark_completed` calls it a second time after a plan that suspended.
And every outcome is written to the options, so every answer leads to `Reload`, which
builds new reaction objects.

Whether a plan suspends is a property of its steps (`blocking=True` calls), hence the
constant `Blocking`. A service error is swallowed by the executor, so an executed plan may end
in the trigger's status or, where the handler raises, in `failed`.

The counters of a reaction have more writers than the recording of an outcome (`Record`). An options flow copies the
reactions section, counters included, when it opens (`OpenFlow`). Every step of it that stores something writes the whole copy
back (`StoreReactions`, and `StoreOther` from another section), over what was recorded meanwhile; an edit, an enabling, a
disabling or a deletion does (`EditReaction`); Save writes the section without `confirmation_stats` (`Save`). The admin's reset
removes the counters of one reaction or of all (`ResetCounters`), the service that upserts
configured reactions rewrites their configuration (`Upsert`), and an answer to a promotion takes a reaction back (`TakeBack`). The
promotion itself is `PromotionReview`'s, so here `TakeBack` may come at any moment of a flow. One flow is open at a time.
`MaxVisits` bounds the flows and the resets, `intact` is the history of the reactions
whose counters only `Record` has changed. The mute list of the options is fixed (`PersistedMuted`).

`confirmation` checks that the component implements `RequestLifecycle` under
the mapping `phase = "running"` while a claimed plan is being executed.

### StepDependencies

The function is pure; its loops are steps so that the call stack of the depth-first
search can be looked at. Every plan of three steps is an initial state: which steps
carry an id, which are blocked, what each depends on. Ids are taken to be distinct; the
`failed_step_ids` and `skipped_step_ids` arguments are empty, as in the only caller.
`ExecutesTheRunnable` is a reference definition: the largest set of unblocked steps closed
under dependencies.

### PromotionReview

One record per reaction holds what the options hold of it: its policy, its answers, its
review. `flow` is the options flow's copy. Time stamps are ticks, days are groups of
ticks, and the policy's thresholds are constants. The model's answers stay below the
200 explicit events the code keeps.

### Recovery

A tick is a minute; time passes only when no evaluation is in flight and no armed timer
is due, so that "late" means late by the design of the timers and not by a slow machine.
`rechecks` is the engine's table, `armed` the scheduler's copy of it. `Compute` empties
the table, as `_compute_snapshot` does. A save may fail. Three history variables serve
the properties only: `seenUnavailable`, `availableSince` and `savedLast`.

### EvaluationTrigger

Up to `Task` tasks are in flight; each has suspended before its snapshot, between the
snapshot and the end of the evaluation, after the sync of the scheduler, or reports a
reconciliation. Durations are left out: an armed timer may fire at any moment, and a
timer that is postponed for ever is a behaviour too. When the HA-backed objects changed, a
trigger updates the options and only reports; the reload that follows is a task of its
own. `changed` is a history variable: the classes with a change no snapshot has read.

### ProposalEngine

`proposals` is the engine's list, `stored` its file; `records` and `approvals` are the lifecycle
records and the decisions that inference obeys, each with its file. Home Assistant's store
queues the newest data and writes under a fair lock: `queued` is data not written yet,
`waiting` the tasks whose `async_save` has not returned, `written` how many of them the last write
served. Its own delay and retries are left out; a write may come at any moment.

A review is a task with a program counter: it decides and saves, then writes lifecycle records,
then flushes approvals. A review of one proposal keeps the *index* it found before its save
(`_set_status`), a batch keeps the proposals. Learning runs, submissions and
withdrawals do not suspend between reading the list and replacing it, so each is one step. `mishaps`
is the history of what may befall a review: the list moved under an index, a stop or an exception
cut it off, two reviews of one proposal met, a reset met it. The properties say for
each promise which of these break it.

### SmartLighting

`reaction` is the memory of `RoomSmartLightingAssistReaction` (occupancy edge, gate, applied
profile, override, hold, the stage of the two-step turn-off), `muted` the engine's mute of it, `pending` the pending apply of the
light, `plans` the filtered plans of evaluations that have not executed them yet, `calls` the service
calls the light has not carried out. Time is reduced to which deadlines have passed.

One light of several is followed. Each profile turns it on, turns it off or leaves it alone (`Drives`), and the reaction
looks only at the lights of the profile it applied last, or of `Default` where it has applied none (`ActiveStep`, `Managed`):
the two steps of the turn-off, and the override, are about these. Of the other lights the model has what residents do with them
(`HumanSwitchesOther`) and whether one of them makes the profile be applied again (`others`). A muted reaction
is not evaluated, and none is during a recovery, so that deadlines pass unread (`EvaluateRoom`).

`touched`, `by` and `mishaps` are histories: what residents did in this visit, who changed the light last, and
what disturbed the reaction: commands that overtake each other, a resident's switch crossing a command, a late
report, a ramp, a failed call, a recovery, or a turn-off that is lost ("forgotten") to a reload, to an engine disabled over a plan or to
another light of the profile turned off during the absence. The run allows one kind of mishap in a behaviour.

### NotificationPipeline

Three kinds of events stand for the families with a policy of their own. A coroutine is a record: the events it has
yet to emit, the routes it has yet to call, what its flush could not deliver, the call
under way. `got` is what the code believes (the global counter `notify_route_delivered` went up during my call),
`own` what really happened. `owed` is the history of deferred deliveries that were neither made, handled
nor dropped.

### HouseState

Signals are the arguments of an evaluation; `Evidence` is what the resolution tells apart of them. A candidate's timer is
an age in ticks, capped at the longest threshold: an older candidate behaves alike. `job` is the recheck
the last evaluation scheduled. The override, the reload (with and without the house state) and the recovery guard are included.
`left` is the history of states left while the evidence stayed the same.

### OutcomeTracker

A firing is the time in `pending`; the presence reactions, the only ones with an expected outcome, fire for a snapshot of an empty
home inside their window. An evaluation is five actions, one per suspension: the snapshot is computed, dispatched (recorder, then reactions), its
outcomes are checked, and each submitted or boosted proposal is saved. `OnSnapshot` overwrites the cycle's events, so an overlapping
evaluation can drop an arrival that another has not looked at. `Decide`, `Reconfigure`, `ResetStarts`, `ResetEnds` and `Restart` are what
admins and Home Assistant do meanwhile. `outcomes` is the history of what was recorded, `seen` says that an arrival was dispatched since the
firing, `disturbed` that evaluations have overlapped or learning data was reset. How a reaction learns its window is an
arbitrary subset of those whose time it is.

## 3. The runs

| run | bound | shows |
|---|---|---|
| `confirmation` | 1 reaction with a suspending plan, applied at the deadline, muted in the options; 2 requests, 1 day, fair | the registry's invariants, at most one execution, refinement, every request is decided |
| `confirmation_one` | 1 reaction, no suspending plan, skipped at the deadline; 3 requests and 2 days, or 2 requests of 1 day around one options flow or one reset | one pending request per occurrence; the counters claim nothing that did not happen, and are exact until something else writes them |
| `dependencies` | all plans of 3 steps | result, termination, truth of the reasons |
| `promotion` | 1 reaction, clock to 10, one options flow | a pending review is earned; cooldown and new evidence after "not now" |
| `recovery` | two overlapping evaluations, failing saves, clock to 7 | settled exit, bounded recovery, write scheduled |
| `trigger` | 2 classes, 1 job, 3 tasks, 1 reload, 1 failure, fair | pending triggers agree, flag and fallback survive, jobs agree, changes covered and read in the end |
| `proposals` | 2 house-state contexts, 2 proposals of one learned identity, a rule; 2 made, 2 reviews at a time, 1 reset or restart | one pending per identity, durable reports, records and approvals follow the decisions, learning undoes none |
| `lighting` | 2 profiles, of which one drives the light, one plan and one call on their way, one kind of mishap, fair | provenance of changes, residents respected, the light of the active profile goes dark in an empty room |
| `notifications` | 2 coroutines, 2 routes, a queue of 2, 2 events, clock to 2, fair | deferred deliveries accounted for, no silent mismatch, emissions end |
| `house` | thresholds 1 and 2 in every order that matters, all signals but guests, override, reloads, recovery, fair | rechecks armed, no bounce, settles by priority |
| `outcomes` | 1 reaction, 2 overlapping evaluations, 2 arrivals, 1 reset, restart or reconfiguration, thresholds of 2, clock to 2, fair | truthful blame, earned feedback, every firing verified |
| `confirmation_reasked` | 1 reaction, 2 requests, 1 day | a violation, see below |

The type invariants are theorems, one for every component.

Properties whose guarantee has a condition in the code carry it, so that one run can check them beside
the rest: `NotNowRespected` (as long as no options flow was opened), `ChangeCovered` (no reload, no
failure so far), `DeadlinesCovered` (no failure so far), `StatsTruthful` (exact as long as a reaction is `intact`), and those of `ProposalEngine` and `SmartLighting`, each of
which names the mishaps that break it and holds under all others. `RechecksArmed` excepts
`WorkBehindMedia`, and `NoBounce` holds where sleeping requires that no media plays.

Why the bounds are enough. Residents meet a request while it is being delivered or
applied, and a second request of the same occurrence while the first is being applied: two
requests with a suspending plan; three with one that does not, of which two share one of
two days. The counters go wrong when outcomes are recorded between the copy of a flow and its write-back, for which one flow and two requests
of one day are enough (`FewerWithVisit`). `confirmation` has neither flow nor reset (`MaxVisits = 0`): it asks about the registry, which they do not touch
except by deleting a reaction, and there reactions are disabled only. A reset while a
flow is open takes two visits, which is left to the theorem `StatsStayTruthful`: it holds for any number of flows and resets. Plans of three steps hold a cycle of two with a dependent outside, and a cycle of
three. Two cooldown slots tell the first dismissal from a later one, and ten ticks hold two
days of approvals, a "not now", its cooldown and the new approvals. A clock of
seven minutes with windows of two and one and a fallback of three covers a start, a
degraded phase, a flap and two fallback periods. Three tasks let one overtake two
others. Requests and evaluations are interchangeable, so symmetry is used where only
safety is checked. Runs with one reaction cannot confuse two of them; the theorems of
`RequestsAndNotifications_proofs` hold for any set of reactions, coroutines and routes. Two proposals are what a stale index, a
follow-up and a hidden sibling need, and two reviews what a race needs; one reset or restart falls between
any two steps of a review. Two routes and two coroutines fill a queue of two while both flush it, and one of the
calls of each may overlap one of the other. The two profiles of `lighting` tell a first from a later application, and a light of the active profile from another's (a
profile that turns the light off is left to the theorems). The run does not explore what follows a mishap after which none of its properties promises
anything (`StillPromised`), which hides no counterexample: all three hold of such a state whatever follows. In it one plan and
one call on their way let each cross anything else. One reaction is enough for `outcomes`: the records of two do not meet, and its loops over the reactions
only save one proposal after another. Two arrivals and two failures reach the thresholds, a fault falls between any two steps, and the window closes a timeout before the
clock does. The thresholds of `house` hold each pair of candidates with the
shorter timer first somewhere, and its horizon is the longest of them. The theorems of `HouseAndLighting_proofs` hold for
any thresholds, and any number of plans and calls.

Fairness. `RuntimeConfirmation`: an armed timer fires, a delivery returns (the notify services
answer or raise), a started plan returns; nothing is assumed of residents, admins, reloads
or evaluations. `EvaluationTrigger`: the fallback's timer fires and the awaits of a
task return; nothing is assumed of the debounce timers. `StepDependencies`: the function is executed.
`SmartLighting`: a passed deadline and a
change of the occupancy are evaluated (the jobs of the reaction, `EvaluationTrigger`) unless the reaction is muted (a weak fairness that muting disables), a plan is executed, the light carries out its
calls, and deadlines pass. `NotificationPipeline`: the event loop runs every coroutine and every service call
returns or raises. `HouseState`: time passes, and the house is evaluated again and again with unchanged signals, which the fallback alone guarantees.
`OutcomeTracker`: evaluations start (the fallback) and go on, and time passes.
`ProposalEngine`, `Recovery` and `PromotionReview` claim no liveness; `RecoveryBounded` is a bound in time.

Deadlock checking is off where the system may stop: an unloaded entry with nothing in
flight, the end of the clock, a function that has returned.

### Disagreements

One run expects a violation: it checks a statement of a specification that the code does not
keep. `PROJECT.json` quotes the statement.

- `confirmation_reasked`: every outcome updates the options, the update reloads the reactions, and
  the new objects have forgotten that they fired: residents are asked again about a decided occurrence.

The models hold the steps of the following ones too, without a run of their own; a
property that forbids them would fail. Of the confirmation, the recovery, the promotion and the triggers:

- When a plan suspends, `mark_completed` pops the occurrence key of a newer request (`Complete`), and two requests can be pending for
  one occurrence (`runtime/runtime_confirmation.py:390`), although
  `docs/specs/core/resident_runtime_confirmation_spec.md:467` allows at most one. `OnePending` is proved for plans that do not suspend.
- Cyclic steps are added after the fixpoint (`AddCyclic`), so a dependent of a cyclic step may be executed
  (`runtime/runtime_confirmation.py:609`), although the docstring at line 579 says it is skipped. `ExecutesTheRunnable` speaks of plans without a cycle.
- Editing a sibling in an options flow that was opened earlier writes the flow's copy back, undoes a promotion and loses the outcomes counted
  meanwhile (`StoreReactions`,
  `config_flow_steps/_steps_reactions.py:149`), although the docstring at line 150 promises not to drop sibling state.
- `_compute_snapshot` wipes the recovery recheck before the scheduler sees it (`Compute`, `runtime/engine.py:1677`); the fallback ends the recovery, although
  `docs/specs/core/runtime_checkpoint_and_power_recovery_spec.md:504` excludes that. `RecoveryBounded` says how late.
- Evaluations in flight arm jobs, debounce timers and the fallback again after the unload (`Sync`, `Leave`, `coordinator.py:633`, `:1808`, `:1921`), although
  `docs/specs/core/runtime_scheduler_spec.md:137` and `docs/specs/heima_v2_spec.md:1127` cancel them.
- A reload drops the mutes of the mute service (`SetMute`, `Reload`), although
  `docs/specs/core/reactive_behavior_spec.md:577` calls them persisted.
- After the unload an evaluation in flight still creates requests and arms their timers
  (`Ask`, `ApplyDeadline`), although
  `docs/specs/core/resident_runtime_confirmation_spec.md:1082` limits `on_timeout: apply` to the time
  Heima is online.
- The dismissal counter restarts with each new review (`UpdatedReview`), and Save drops statistics and
  reviews (`Save`); the same specification, lines 964 and 1066.
- Every evaluation drops the checkpoint's write job and schedules it anew (`Compute`, `Finish`), and a
  save that ends drops the job an overlapping evaluation scheduled (`SaveEnds`);
  `docs/specs/core/runtime_checkpoint_and_power_recovery_spec.md:400` and `:412`. `WriteScheduled` says what is left.
- `_eval_running` does not guard jobs, services and reloads (`JobFires`, `ServiceCall`, `OptionsUpdate`),
  and a reload drops a debounced change (`SyncScheduler`); `docs/specs/heima_v2_spec.md:1102` and `:1117`.

Of the proposals:

- `_set_status` looks at the entry at a remembered index after its save (`Saved`): if a run, a withdrawal or a reset moved the list, the
  wrong proposal is monitored, or the review raises and no approval is recorded (mishap "moved").
- A stop between the save of a decision and the flush of its approval leaves a decided proposal without an approval; nothing compares the
  two files at a start (`Restart`, mishap "stopped"). An accept and a reject of the same proposal record their approvals in the
  order their saves return, while the list holds the later decision (mishap "contended").
- The monitoring of an accepted rule counts an unavailable dependency at most once per window, so the first branch of the decision order in
  `docs/specs/learning/proposal_lifecycle_spec.md` (line 503) is hardly ever taken. The lifecycle opportunities are outside the model.

Of the lighting:

- The two-step turn-off looks neither at the light nor at the override: a light that is off when the room is left, because a
  resident turned it off or the room was bright, is turned on for the dim phase (`EvaluateAbsent`);
  `docs/specs/core/smart_lighting_assist_spec.md:273` describes the step, and line 158 lets an override block the turn-on condition only.
- The steps of an absence are those of the profile applied last (`ActiveStep`, `runtime/reactions/smart_lighting_assist.py:380`): a light that
  an earlier profile of the visit turned on, and the later one does not use, stays on in the empty room. `RoomGoesDark` speaks of the lights of the active profile only.
- Turning off a light that the active profile does not use sets no override (`External`): the profile that uses it turns it on again. `HumanRespected`
  speaks of switch-offs of the active profile's lights.
- A muted reaction is not evaluated (`EvaluateRoom`): deadlines that pass meanwhile are lost to the room, which stays lit until it is unmuted.
- The hold helper of a room does not block steps that name an entity (`Filtered`), although
  `docs/specs/learning/learning_system_spec.md:2018` blocks lighting steps of reactions.
- The first change of the light pops the pending apply (`Changes`): a late report, a ramp or a resident's switch that crosses a command
  makes Heima's change an override or a hold, and a failed call leaves a pending apply that swallows a resident's next change.
- A reload during an absence forgets the deadlines, and an engine that is disabled when they are due loses the step: the room stays lit (mishap "forgotten").

Of the notifications:

- A mismatch that ends does not clear the time it was first seen (`Renewed`), so that a second short mismatch may be pushed at once;
  `docs/specs/core/events_and_notifications_spec.md:200` sends nothing for one that resolves in time. The domain queues a mismatch once, so one
  that persists without a second event is never pushed under a threshold.
- A delivery by another coroutine during a failed call counts for both (`Bumped`), so the failed mismatch is silenced. The burst limit does not count deferred
  deliveries, and a full queue drops its oldest item, an alarm included.

Of the house state:

- A sleep candidate that is not confirmed yet is looked at before an explicit `relax_mode` (`HomeSubstate`,
  `runtime/domains/house_state.py:843`), so the house leaves relax for home and sleeps from there;
  `docs/specs/core/domains/house_state_spec.md:310` lets it remain relaxed.
- Where `sleep_requires_media_off` is off, media wakes the house and the house falls asleep again under the same evidence, for ever (hence the condition of `NoBounce`).
- Nothing is scheduled for work that will preempt passive media (`WorkBehindMedia`); the fallback finds it.
- A reload clears the override of `heima.set_mode` and the timers of all candidates (`Reload`).

Of the outcomes:

- An overlapping evaluation overwrites the events of a cycle before their own evaluation has checked them (`OnSnapshot`), so that an
  arrival in time can be recorded as a failure; `BlamedTruthfully` holds as long as evaluations do not overlap.
- The positive streak is reset after the save of the boost (`Boosted`), so an evaluation that overlaps the save boosts again;
  `docs/specs/heima_v2_spec.md` (line 1766) allows one boost per streak.
- Nothing keeps a presence reaction from firing in every evaluation of its window, and each firing replaces the last (`Registered`): the outcome is
  decided only a timeout after the window has closed.
- A reset of the learning data leaves the streaks and the pending verifications (`ResetStarts`), and an accepted
  degradation counts as the proposal that a later boost makes more confident (`Boostable`).

Each property of a passing run has a mutant: a definition of the model changed as a plausible
bug would change the code, under which TLC finds the property violated. The mutants stand
before the definitions they replace.

## 4. The proofs

Assumptions are the named `ASSUME`s of the modules: ranges of the bounds, and that the
"none" values are not elements of the sets they complete. The sets themselves may be infinite.

**RuntimeConfirmation** (`RequestsAndNotifications_proofs`). `TypeCorrect` is inductive by itself. For the rest, every
step is first reduced to one of seven effects on the registry (nothing, a new request, a request
closed without execution, one executed at once, one claimed, one finished, timers
stopped): lemma `StepEffect`. The inductive invariant `Safe` is the conjunction of `UndecidedAccounted`, `IndexSound`,
`TimersMatchPending` and `RunsMatchStatus`. None of them is inductive alone: that an
executed request was never executed before needs that it was pending and unclaimed; that removing
a key leaves the index sound needs that the timers and the index speak of pending requests.
`IndexStaysSound` and `TimersStayMatched` follow from `Safe` alone. For `StatsStayTruthful` every step is reduced
once more (`StepTally`, in terms of `Tally`): the counters of a reaction get one outcome that one request has just had, or change in nothing, or are
overwritten by the flow's copy or by zeros, which are counters of an older state (`Older`). What has happened only
grows, so older counters still claim no more than that; the counters of an intact reaction are never overwritten, and stay equal. Its invariant `Truthful` adds to
`StatsTruthful` the same bound for the flow's copy, that an intact reaction is configured, and that the requests born of a reaction are finitely many, so that the
library's facts about cardinality apply; that a closed request moves from no counted set into exactly one needs `Safe`. `OnePending` adds `Indexed` (each pending request is the one the index names for its occurrence), which
holds only when no plan suspends, and says so in its hypothesis `Blocking = {}`: otherwise a finished
request pops the key of a newer one. `Implements` maps each effect to a step
of `RequestLifecycle` or a stutter, using `Safe` for the old phase.

**NotificationPipeline** (`RequestsAndNotifications_proofs`). Every step is first reduced to what the accounts see of it: one
coroutine becomes a given record, the others keep their stage, events, routes, items and call (`Moved`, one lemma per action).
`Shaped` adds to the types which fields each stage may use, for instance that the call of an emission is that of its first event by its first
route. `DeferredStaysAccounted` rests on three invariants. `Numbered`: an event is in the queue or with one coroutine, under its own number.
`NotYet`: what is owed belongs to an event that no coroutine has yet to emit, and by a route that the sending one has passed, so that
nothing is deferred twice (`NewItem`). `Accounted`: the owed items are those in the queue and those that the flushes hold, each in one place,
once. Its step is one lemma about sets, `AccountsBalance`: the queue and the coroutine that moves lose and gain together exactly what
`owed` does. `DeferredAccounted` counts places, and follows because they are none or one (`AccountedCounts`). `NotifiedStaysTrue` needs `Flags`: a
coroutine whose counter moved during its call was crossed by another's, because two calls under way have crossed each other. That the deferred
queue is bounded is part of the types. The proofs assume that an audience names no route twice, which `_resolve_routes` sees to.

**EvaluationTrigger_proofs.** `PendingAgrees` is inductive given the types. `OneTriggered` goes through `Guarded`,
which says that the flag is set exactly when some triggered task exists and that any two triggered tasks are
equal; cardinality enters only in the last step. `FallbackStays` needs that the fallback's own task is the only way to
lose the timer, and that every end of it passes through the `finally`. `DeadlinesStayCovered` is
inductive given the types, as long as nothing has raised: an evaluation that raises leaves its table of
rechecks unsynced. `ChangesCovered` needs `Listens`: a loaded entry is subscribed to state changes, and a
reload task, the only one that cancels debounce timers, has been counted.

**PromotionReview_proofs.** `Holds` strengthens `PendingIsEarned` with types and with the same statement about the
flow's copy: a stale copy is harmless for this property because answers and review travel together in it.
`NotNowKept` rests on `NoFlowYet`: as long as no flow was opened, each reaction that was told "not now" either still has that
review, dismissed once at that time, or has earned another since (`Waits`); a pending review has a count of zero, and the answers are finitely many, so
that new ones raise the count of approvals.

**HouseState** (`HouseAndLighting_proofs`). `TypeCorrect` is inductive by itself. `RechecksAreArmed` rests on an invariant that ties the last evaluation to the
present: the house state is what the resolution gave for the ages the candidates had then, and the recheck is what is left of its wait. It is
proved for the evaluation by cases of the resolution (each branch either keeps its state at every later age or schedules the
threshold it waits for), and for a tick because ages and waits move together, up to the horizon. `NeverBounces` ranks the house states for
given evidence and override (`Rank`): every evaluation keeps the state or raises its rank, and each state left behind ranks
lower than the present one (`Advanced`). That needs to know that a house that works beside passive media has its work
confirmed (`WorksBesideMedia`, `WorkIsConfirmed`): otherwise it could go back from work to relaxing.

**SmartLighting** (`HouseAndLighting_proofs`). `OwnChangesStayOwn` needs `PendingTold`: as long as nothing crossed or came late there is at most one call on its
way, the pending apply is fresh and foretells what that call will do, and a pending apply left over agrees with the light; the filter that
holds back a second plan for a light under way is what keeps the first part. `ResidentsStayRespected` needs `TouchesKept`: short of the mishaps the
property names, a light that a resident turned off in this visit has its override active, and after one was turned on the reaction
holds. The step of the property is one lemma, `PlansRespect`: an evaluation plans a switch only past both.

**Recovery_proofs.** `Typed` adds to the types that a context records what its state needs (`Consistent`), and that the queue of
the saves names each saving evaluation once. `LeavesSettled` needs `Settling`: since a recovery settles, no evaluation has found the
entities unavailable. `EndsInTime` bounds by the clock what nothing but the fallback evaluates: `Clocked` says that the
fallback is never late and that the clock stands until a start has produced its first snapshot; `Bounded` says that a fallback after the entities came back left
the recovery settling, and that the next one ended it, because no window is longer than the fallback's period (`RecoveryAssumption`, true of the
code's constants). `WriteScheduled` is inductive given the types.

**OutcomeTracker_proofs.** `BlameIsTrue` rests on `Blameless`: as long as nothing overlapped or was reset, only one evaluation is in flight;
an arrival seen since the firing is still in the events of that evaluation, which has yet to match it, or the last dispatch
saw an empty home. `OnlyExpiredBlamed` says that a failure is recorded only where the check found the firing expired. That the first reaction of a
loop exists is a minimum, proved by the well-foundedness of strict subsets (`FirstIsOne`). `FeedbackStaysEarned` reads the streaks off the logs (`StreaksInLog`): a log ends with as many
failures as are counted, no reaction has two streaks at once, and, unless something overlapped, it ends with as many successes as are counted until
a boost is recorded whose save is under way. The facts about ends of logs are lemmas of their own (`EndsWithMore`, `WithoutLast`).

**StepDependencies_proofs.** Plans of any length. The first loop is a fixpoint: `NoneLost` says that no set of steps that could run together
loses a member, `Settled` that a round without a change has found no reason, so that what is left at the end of the loop is the
greatest such set. The second is a depth-first search whose stack is an explicit variable. `Chain` says that each call reaches the ones above it
and that none is called twice, `Calls` that the dependencies a call is done with are visited, called or closed a cycle, `Finished` that
visited steps outside a cycle lead only to visited ones. From these follow `Cut` (the visited steps that were not found cyclic
hold no cycle, which is `CyclesAreCut` at the end), and `OnCycle` (whatever was found cyclic is on one or leads to one), on which `RunsTheRunnable` and
`ReasonsAreTruthful` rest. `Caused` follows a reason that is not a cycle to a blocked step or a missing dependency. That every step of the
search ends is liveness and stays with TLC.

**ProposalEngine_proofs.** `Typed` adds to the types that the entries of the list, of its file and of every save that is
queued are distinct (`Distinct`), that only saving tasks wait for a write, each once (`Queued`), and what a review remembers
(`Shaped`); `OnePendingStays` is a part of the first. `ReportedStaysDurable` needs `Durable` (a decision is in the
file unless a review of it waits for a write), because one write serves all the saves before it and a later one may carry another task's
list. `MonitoringStays` needs `Indexed` (as long as no entry has moved, the index a review remembers is its proposal's) and `ResetClean`.
`ApprovalsAgree` holds as long as nothing went wrong, and its invariant `Calm` follows the decision through the two files: `Obeyed` and
`ObeyedInFile` for the approvals, `DecidedInFile` and `Cleared` for what a restart reads back. `DecisionsStay` follows from the types alone.

Every invariant and every action property of the runs is a theorem. Only model-checked: the liveness properties, `SettlesByPriority` of `HouseState`
among them, because liveness under fairness and `ENABLED` are outside the prover's reach.

## 5. Not modelled

See `PROJECT.json`, components with status `not_modelled`, and the hazards that carry a note. In short: the
content of snapshots, plans and checkpoints; inference, analyzers and what proposals say; the lifecycle monitoring of accepted rules;
heating, security, people and calendar; rendering of notifications; forms, views and entities. The
statistics of learning are numerical and have no interleaving of their own; the forms are user interface.

## 6. Plan

1. `EvaluationPipeline`: overlapping evaluations with versions of what they read, so that stale snapshots can be stated.
2. The other domains with timers (occupancy dwell, heating apply guard), `InvariantCheck`, and the bounded stores.
3. Pure algorithms against reference definitions: the plugin DAG, normalization strategies.
