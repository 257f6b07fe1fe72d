------------------------ MODULE RuntimeConfirmation ------------------------
(***************************************************************************)
(* Asking residents before a reaction acts: the request registry           *)
(* (runtime/runtime_confirmation.py), the controller that owns timers and  *)
(* notification responses (runtime/runtime_confirmation_controller.py),    *)
(* the engine's two ends of the exchange (a reaction that fires, a stored  *)
(* plan that is applied), the options update every recorded outcome causes *)
(* (coordinator.py, __init__.py) and the other writers of the counters:    *)
(* the options flow (config_flow_steps/) and the admin's reset.            *)
(*                                                                         *)
(* Home Assistant runs all of this in one event loop, so a handler is      *)
(* atomic up to its first real suspension.  Three suspend: the delivery of *)
(* the notification, an evaluation (before its reactions are dispatched)   *)
(* and the execution of a plan with a blocking step; each is a pair of     *)
(* actions here, and everything else may happen in between.                *)
(*                                                                         *)
(* The reactions modelled are the configured ones whose execution policy   *)
(* is a valid `ask_residents`; the counters kept for diagnostics only      *)
(* (stale responses, duplicates, recent requests) are left out.            *)
(***************************************************************************)
EXTENDS Integers, FiniteSets

CONSTANTS
    Request,        \* request ids (uuid4), each used for one request object at most
    Reaction,       \* ids of the configured reactions
    MaxDay,         \* bound on the calendar: the days 1..MaxDay
    OnTimeout,      \* [Reaction -> {"skip", "apply"}], ConfirmationPolicy.on_timeout
    Blocking,       \* the reactions whose plan holds a step awaited with blocking=True
    PersistedMuted, \* options["reactions"]["muted"]
    MaxVisits,      \* bound on the options flows an admin opens and the resets of counters
    Closed,         \* no options flow is open
    NoRequest,      \* no entry in _pending_by_occurrence
    NoOccurrence    \* the occurrence of a request that does not exist yet

ASSUME ConfirmationAssumption ==
    /\ MaxDay \in Nat \ {0}
    /\ OnTimeout \in [Reaction -> {"skip", "apply"}]
    /\ Blocking \subseteq Reaction
    /\ PersistedMuted \subseteq Reaction
    /\ MaxVisits \in Nat
    /\ NoRequest \notin Request

Day == 1..MaxDay

\* (reaction_id, occurrence_key): the key holds the date of the reaction's window, and
\* otherwise only configuration (room, weekday, minute, entities).
Occurrence == Reaction \X Day

ASSUME OccurrenceAssumption == NoOccurrence \notin Occurrence

Trigger  == {"approved", "timeout_applied"}
Terminal == Trigger \cup {"dismissed", "timeout_skipped", "cancelled", "failed"}
Status   == Terminal \cup {"unborn", "pending"}

\* The counters of confirmation_stats; "cancelled" has none.
Counter == {"requested"} \cup (Terminal \ {"cancelled"})

\* What options["reactions"] holds of each reaction: whether it is configured and enabled,
\* and its confirmation_stats (a missing counter reads as zero).
Configured == [Reaction -> {"on", "off", "absent"}]
Counters   == [Reaction -> [Counter -> Nat]]
Section    == [configured : Configured, stats : Counters]
Zero       == [c \in Counter |-> 0]

ASSUME FlowAssumption == Closed \notin Section

VARIABLES
    \* the registry and the controller
    status,      \* [Request -> Status], RuntimeActionRequest.status
    occurrence,  \* [Request -> Occurrence \cup {NoOccurrence}]
    pending,     \* the keys of _pending_by_id
    index,       \* [Occurrence -> Request \cup {NoRequest}], _pending_by_occurrence
    timers,      \* the keys of _timeout_handles
    sending,     \* requests whose async_create_request awaits the notify services
    notified,    \* requests at least one device shows
    applying,    \* [Request -> Trigger \cup {"no"}], claimed, the plan being executed
    runs,        \* [Request -> Nat], how often the plan was handed to the executor
    \* the engine
    registered,  \* the ids in _reactions
    muted,       \* _muted_reactions
    lastFired,   \* [Reaction -> Day \cup {0}], _last_fired_date of the reaction object
    evaluating,  \* an evaluation is under way and has not finished its dispatch
    \* the config entry and the world
    cfg,         \* Configured, options["reactions"]["configured"]
    stats,       \* Counters, options["reactions"]["confirmation_stats"]
    reloadDue,   \* the entry's update listener is scheduled
    flow,        \* the open options flow's copy of the Section, or Closed
    visits,      \* options flows opened and counters reset so far
    intact,      \* history: the reactions never deleted whose counters only Record changed
    up,          \* the entry is loaded: subscribed to responses and to updates
    today        \* the occurrence date of a window that matches now

registryVars == <<status, occurrence, pending, index, timers, sending, notified,
                  applying, runs>>
engineVars   == <<registered, muted, lastFired, evaluating>>
entryVars    == <<cfg, stats, reloadDue>>
flowVars     == <<flow, visits, intact>>
vars         == <<registryVars, engineVars, entryVars, flowVars, up, today>>

-----------------------------------------------------------------------------
(* Helpers *)

ReactionOf(r) == occurrence[r][1]

\* _runtime_confirmation_source_state: the source reaction exists and is not muted.
SourceEnabled(r) == ReactionOf(r) \in registered \ muted

\* Mutant: the occurrence key is left behind.
RemovePending_KeepsKey(r) == pending' = pending \ {r} /\ UNCHANGED index

\* _remove_pending pops the id and the occurrence key, whoever the key belongs to now.
RemovePending(r) ==
    /\ pending' = pending \ {r}
    /\ index' = [index EXCEPT ![occurrence[r]] = NoRequest]

\* The section as the entry holds it.
Entry == [configured |-> cfg, stats |-> stats]

\* Mutant: an outcome without a counter of its own is counted as a failure.
Record_CancelledAsFailed(a, outcome) ==
    /\ reloadDue' = (reloadDue \/ up)
    /\ stats' = [stats EXCEPT ![a][IF outcome \in Counter THEN outcome ELSE "failed"] = @ + 1]

\* _record_runtime_confirmation_outcome: a counter in the entry's options, unless the
\* reaction's configuration is gone or the outcome has no counter.  The options update
\* schedules the update listener, which only exists while the entry is loaded.
Record(a, outcome) ==
    IF cfg[a] # "absent" /\ outcome \in Counter
    THEN /\ stats' = [stats EXCEPT ![a][outcome] = @ + 1]
         /\ reloadDue' = (reloadDue \/ up)
    ELSE UNCHANGED <<stats, reloadDue>>

\* Registry.resolve, or mark_completed, with a terminal status and the outcome handler.
Complete(r, s) ==
    /\ RemovePending(r)
    /\ status' = [status EXCEPT ![r] = s]
    /\ Record(ReactionOf(r), s)

Ignore == UNCHANGED <<pending, index, status, stats, reloadDue>>

-----------------------------------------------------------------------------
(* Evaluations and the reactions they fire *)

\* async_request_evaluation: up to the first await, before the snapshot is built.
StartEvaluation ==
    /\ up /\ ~evaluating
    /\ evaluating' = TRUE
    /\ UNCHANGED <<registryVars, registered, muted, lastFired, entryVars, flowVars, up, today>>

EndEvaluation ==
    /\ evaluating
    /\ evaluating' = FALSE
    /\ UNCHANGED <<registryVars, registered, muted, lastFired, entryVars, flowVars, up, today>>

\* A reaction in its window, with its context conditions met, fires once per object.
Fires(a) ==
    /\ evaluating
    /\ a \in registered \ muted
    /\ lastFired[a] # today
    /\ lastFired' = [lastFired EXCEPT ![a] = today]
    /\ UNCHANGED <<registered, muted, evaluating, cfg, flowVars, up, today>>

\* add finds a pending request for the occurrence: nothing is sent.
AskAgain(a) ==
    /\ Fires(a)
    /\ index[<<a, today>>] \in pending
    /\ UNCHANGED <<registryVars, stats, reloadDue>>

\* Mutant: a fresh request is registered without looking for a pending one.
Ask_NoLookup(a, r) ==
    /\ Fires(a)
    /\ status[r] = "unborn"
    /\ status' = [status EXCEPT ![r] = "pending"]
    /\ occurrence' = [occurrence EXCEPT ![r] = <<a, today>>]
    /\ pending' = pending \cup {r}
    /\ index' = [index EXCEPT ![<<a, today>>] = r]
    /\ timers' = timers \cup {r}
    /\ sending' = sending \cup {r}
    /\ Record(a, "requested")
    /\ UNCHANGED <<notified, applying, runs>>

\* Mutant: the request is registered and no timer is armed for it.
Ask_NoTimer(a, r) ==
    /\ Fires(a)
    /\ index[<<a, today>>] \notin pending
    /\ status[r] = "unborn"
    /\ status' = [status EXCEPT ![r] = "pending"]
    /\ occurrence' = [occurrence EXCEPT ![r] = <<a, today>>]
    /\ pending' = pending \cup {r}
    /\ index' = [index EXCEPT ![<<a, today>>] = r]
    /\ sending' = sending \cup {r}
    /\ Record(a, "requested")
    /\ UNCHANGED <<timers, notified, applying, runs>>

\* async_create_request up to the delivery: registered, its timer armed, and the
\* outcome "pending" recorded as "requested".
Ask(a, r) ==
    /\ Fires(a)
    /\ index[<<a, today>>] \notin pending
    /\ status[r] = "unborn"
    /\ status' = [status EXCEPT ![r] = "pending"]
    /\ occurrence' = [occurrence EXCEPT ![r] = <<a, today>>]
    /\ pending' = pending \cup {r}
    /\ index' = [index EXCEPT ![<<a, today>>] = r]
    /\ timers' = timers \cup {r}
    /\ sending' = sending \cup {r}
    /\ Record(a, "requested")
    /\ UNCHANGED <<notified, applying, runs>>

-----------------------------------------------------------------------------
(* Delivery of the notification *)

\* One of the actionable routes accepted the message; others may still be awaited.
DeviceReached(r) ==
    /\ r \in sending \ notified
    /\ notified' = notified \cup {r}
    /\ UNCHANGED <<status, occurrence, pending, index, timers, sending, applying, runs,
                   engineVars, entryVars, flowVars, up, today>>

\* The delivery returns.  With no route reached the request fails closed, if it is
\* still pending.
DeliveryEnds(r) ==
    /\ r \in sending
    /\ sending' = sending \ {r}
    /\ IF r \in notified
       THEN Ignore /\ UNCHANGED timers
       ELSE /\ timers' = timers \ {r}
            /\ IF r \in pending THEN Complete(r, "failed") ELSE Ignore
    /\ UNCHANGED <<occurrence, notified, applying, runs, engineVars, cfg, flowVars, up, today>>

-----------------------------------------------------------------------------
(* Answers and deadlines *)

\* async_apply_runtime_confirmation_request, for a claimed request: cancelled when its
\* reaction is gone; failed when no step of the plan survives the filters (or the
\* handler raises); otherwise the plan is executed, and the trigger's status holds.
ApplyClaimed(r, trigger) ==
    \/ /\ ~SourceEnabled(r)
       /\ Complete(r, "cancelled")
       /\ UNCHANGED <<runs, applying>>
    \/ /\ SourceEnabled(r)
       /\ Complete(r, "failed")
       /\ UNCHANGED <<runs, applying>>
    \/ /\ SourceEnabled(r)
       /\ runs' = [runs EXCEPT ![r] = @ + 1]
       /\ IF ReactionOf(r) \in Blocking
          THEN /\ applying' = [applying EXCEPT ![r] = trigger]
               /\ RemovePending(r)
               /\ UNCHANGED <<status, stats, reloadDue>>
          ELSE /\ \E s \in {trigger, "failed"} : Complete(r, s)
               /\ UNCHANGED applying

\* Mutant: the trigger is processed without claiming the request first.
ApplyTrigger_Unclaimed(r, trigger) ==
    /\ timers' = timers \ {r}
    /\ ApplyClaimed(r, trigger)
    /\ UNCHANGED <<occurrence, sending, notified, engineVars, cfg, flowVars, up, today>>

\* Mutant: the timer of the answered request is left armed.
ApplyTrigger_KeepsTimer(r, trigger) ==
    /\ IF r \in pending THEN ApplyClaimed(r, trigger) ELSE Ignore /\ UNCHANGED <<runs, applying>>
    /\ UNCHANGED <<occurrence, timers, sending, notified, engineVars, cfg, flowVars, up, today>>

\* _async_process_apply_trigger: cancel the timer, claim before the await, apply.  A
\* response to a request that is no longer pending is counted and ignored.
ApplyTrigger(r, trigger) ==
    /\ timers' = timers \ {r}
    /\ IF r \in pending THEN ApplyClaimed(r, trigger) ELSE Ignore /\ UNCHANGED <<runs, applying>>
    /\ UNCHANGED <<occurrence, sending, notified, engineVars, cfg, flowVars, up, today>>

\* Mutant: a handler that raises leaves the claimed request without an outcome.
ApplyEnds_NoOutcome(r) ==
    /\ applying[r] # "no"
    /\ applying' = [applying EXCEPT ![r] = "no"]
    /\ Complete(r, applying[r]) \/ Ignore
    /\ UNCHANGED <<occurrence, timers, sending, notified, runs, engineVars, cfg, flowVars, up, today>>

\* The executor returns (every service error is swallowed there), or raises.
\* mark_completed removes the request from the registry a second time.
ApplyEnds(r) ==
    /\ applying[r] # "no"
    /\ applying' = [applying EXCEPT ![r] = "no"]
    /\ \E s \in {applying[r], "failed"} : Complete(r, s)
    /\ UNCHANGED <<occurrence, timers, sending, notified, runs, engineVars, cfg, flowVars, up, today>>

Approve(r) == up /\ r \in notified /\ ApplyTrigger(r, "approved")

\* Mutant: the answer is recorded whether or not the request is still pending.
Dismiss_Stale(r) ==
    /\ up /\ r \in notified
    /\ timers' = timers \ {r}
    /\ Complete(r, "dismissed")
    /\ UNCHANGED <<occurrence, sending, notified, applying, runs, engineVars, cfg, flowVars, up, today>>

Dismiss(r) ==
    /\ up /\ r \in notified
    /\ timers' = timers \ {r}
    /\ IF r \in pending THEN Complete(r, "dismissed") ELSE Ignore
    /\ UNCHANGED <<occurrence, sending, notified, applying, runs, engineVars, cfg, flowVars, up, today>>

\* async_handle_timeout, whether or not the entry is still loaded.
SkipDeadline(r) ==
    /\ r \in timers
    /\ OnTimeout[ReactionOf(r)] = "skip"
    /\ timers' = timers \ {r}
    /\ IF r \in pending THEN Complete(r, "timeout_skipped") ELSE Ignore
    /\ UNCHANGED <<occurrence, sending, notified, applying, runs, engineVars, cfg, flowVars, up, today>>

ApplyDeadline(r) ==
    /\ r \in timers
    /\ OnTimeout[ReactionOf(r)] = "apply"
    /\ ApplyTrigger(r, "timeout_applied")

-----------------------------------------------------------------------------
(* The config entry, the services and the calendar *)

\* _async_entry_updated, engine.async_reload_options: the configured reactions are
\* rebuilt as new objects, the mute set is read back from the options, and an
\* evaluation is started.
Reload ==
    /\ up /\ reloadDue
    /\ reloadDue' = FALSE
    /\ registered' = {a \in Reaction : cfg[a] = "on"}
    /\ muted' = PersistedMuted \cap registered'
    /\ lastFired' = [a \in Reaction |-> 0]
    /\ evaluating' = TRUE
    /\ UNCHANGED <<registryVars, cfg, stats, flowVars, up, today>>

\* heima.command mute_reaction and unmute_reaction.
SetMute(a, on) ==
    /\ up /\ a \in registered
    /\ muted' = IF on THEN muted \cup {a} ELSE muted \ {a}
    /\ UNCHANGED <<registryVars, registered, lastFired, evaluating, entryVars, flowVars,
                   up, today>>

\* Unloading the entry: responses are no longer handled and every timer is cancelled.
\* What is already awaiting goes on.
Shutdown ==
    /\ up
    /\ up' = FALSE
    /\ timers' = {}
    /\ UNCHANGED <<status, occurrence, pending, index, sending, notified, applying, runs,
                   engineVars, entryVars, flowVars, today>>

NextDay ==
    /\ today < MaxDay
    /\ today' = today + 1
    /\ UNCHANGED <<registryVars, engineVars, entryVars, flowVars, up>>

-----------------------------------------------------------------------------
(* The other writers of the section.  One options flow is open at a time;    *)
(* its copy is as old as its last step on another section.                  *)

\* async_update_entry with a new section: the update listener is scheduled when it, or
\* another option, differs from the entry's.
WriteSection(section, changed) ==
    /\ cfg' = section.configured
    /\ stats' = section.stats
    /\ intact' = {a \in intact : section.configured[a] # "absent"
                                  /\ section.stats[a] = stats[a]}
    /\ reloadDue' = (reloadDue \/ (up /\ (changed \/ section # Entry)))
    /\ UNCHANGED <<registryVars, engineVars, up, today>>

\* OptionsFlow.__init__ copies the entry's options.
OpenFlow ==
    /\ flow = Closed /\ visits < MaxVisits
    /\ flow' = Entry
    /\ visits' = visits + 1
    /\ UNCHANGED <<registryVars, engineVars, entryVars, intact, up, today>>

\* _update_options with a section other than the reactions starts from the entry's
\* options, and so brings the flow's copy up to date.
StoreOther ==
    /\ flow # Closed
    /\ flow' = Entry
    /\ reloadDue' = (reloadDue \/ up)
    /\ UNCHANGED <<registryVars, engineVars, cfg, stats, visits, intact, up, today>>

\* _store_reactions_options: the flow's copy of the whole section replaces the entry's.
StoreReactions(section, changed) ==
    /\ flow # Closed
    /\ flow' = section
    /\ WriteSection(section, changed)
    /\ UNCHANGED visits

\* An admin enables, disables or deletes a configured reaction.  Its counters stay.
EditReaction(a, setting) ==
    /\ flow # Closed
    /\ flow.configured[a] \notin {"absent", setting}
    /\ StoreReactions([flow EXCEPT !.configured[a] = setting], TRUE)

\* Any other step that stores the section, such as the editor of a policy profile.
EditSection(changed) == StoreReactions(flow, changed)

\* The editor of a promoted reaction makes it ask again, and drops its counters.
TakeBack(a) ==
    /\ flow # Closed
    /\ flow.configured[a] # "absent"
    /\ StoreReactions([flow EXCEPT !.stats[a] = Zero], TRUE)

\* _finalize_options rebuilds the section from three keys; confirmation_stats is none.
Save(changed) ==
    /\ flow # Closed
    /\ flow' = Closed
    /\ WriteSection([flow EXCEPT !.stats = [a \in Reaction |-> Zero]], changed)
    /\ UNCHANGED visits

Abandon ==
    /\ flow # Closed
    /\ flow' = Closed
    /\ UNCHANGED <<registryVars, engineVars, entryVars, visits, intact, up, today>>

\* async_reset_runtime_confirmation_promotion_state; an open flow is not told.
ResetCounters(a) ==
    /\ up /\ stats[a] # Zero /\ visits < MaxVisits
    /\ visits' = visits + 1
    /\ WriteSection([Entry EXCEPT !.stats[a] = Zero], TRUE)
    /\ UNCHANGED flow

\* heima.command upsert_configured_reactions: also a deleted reaction may come back.
Upsert(a, setting) ==
    /\ up /\ cfg[a] # setting
    /\ WriteSection([Entry EXCEPT !.configured[a] = setting], TRUE)
    /\ UNCHANGED <<flow, visits>>

-----------------------------------------------------------------------------

Init ==
    /\ status = [r \in Request |-> "unborn"]
    /\ occurrence = [r \in Request |-> NoOccurrence]
    /\ pending = {}
    /\ index = [o \in Occurrence |-> NoRequest]
    /\ timers = {} /\ sending = {} /\ notified = {}
    /\ applying = [r \in Request |-> "no"]
    /\ runs = [r \in Request |-> 0]
    /\ cfg = [a \in Reaction |-> "on"]
    /\ registered = Reaction
    /\ muted = {}
    /\ lastFired = [a \in Reaction |-> 0]
    /\ evaluating = FALSE
    /\ stats = [a \in Reaction |-> Zero]
    /\ reloadDue = FALSE
    /\ flow = Closed /\ visits = 0 /\ intact = Reaction
    /\ up = TRUE
    /\ today = 1

RequestStep(r) ==
    \/ DeviceReached(r) \/ DeliveryEnds(r)
    \/ Approve(r) \/ Dismiss(r) \/ SkipDeadline(r) \/ ApplyDeadline(r)
    \/ ApplyEnds(r)

ReactionStep(a) ==
    \/ AskAgain(a)
    \/ \E r \in Request : Ask(a, r)
    \/ \E setting \in {"on", "off", "absent"} : EditReaction(a, setting)
    \/ \E on \in BOOLEAN : SetMute(a, on)
    \/ TakeBack(a) \/ ResetCounters(a)
    \/ \E setting \in {"on", "off"} : Upsert(a, setting)

FlowStep ==
    \/ OpenFlow \/ StoreOther \/ Abandon
    \/ \E changed \in BOOLEAN : EditSection(changed) \/ Save(changed)

Next ==
    \/ \E r \in Request : RequestStep(r)
    \/ \E a \in Reaction : ReactionStep(a)
    \/ FlowStep
    \/ StartEvaluation \/ EndEvaluation
    \/ Reload \/ Shutdown \/ NextDay

Spec == Init /\ [][Next]_vars

\* An armed timer fires, the notify services answer, the executor returns.  Nothing is
\* assumed of residents, admins or evaluations.
Fairness ==
    \A r \in Request : /\ WF_vars(SkipDeadline(r))
                       /\ WF_vars(ApplyDeadline(r))
                       /\ WF_vars(DeliveryEnds(r))
                       /\ WF_vars(ApplyEnds(r))

FairSpec == Spec /\ Fairness

-----------------------------------------------------------------------------
(* Properties *)

\* Every variable has its type.
TypeOK ==
    /\ status \in [Request -> Status]
    /\ occurrence \in [Request -> Occurrence \cup {NoOccurrence}]
    /\ pending \subseteq Request
    /\ index \in [Occurrence -> Request \cup {NoRequest}]
    /\ timers \subseteq Request /\ sending \subseteq Request /\ notified \subseteq Request
    /\ applying \in [Request -> Trigger \cup {"no"}]
    /\ runs \in [Request -> Nat]
    /\ registered \subseteq Reaction /\ muted \subseteq registered
    /\ lastFired \in [Reaction -> Day \cup {0}]
    /\ evaluating \in BOOLEAN
    /\ cfg \in Configured
    /\ stats \in Counters
    /\ flow \in Section \cup {Closed} /\ visits \in Nat /\ intact \subseteq Reaction
    /\ reloadDue \in BOOLEAN /\ up \in BOOLEAN /\ today \in Day

\* An undecided request is in exactly one place: in the registry, or claimed by the
\* one task that applies its plan.  None is lost between the claim and the outcome.
UndecidedAccounted ==
    \A r \in Request :
        /\ r \in pending => applying[r] = "no"
        /\ status[r] = "pending" <=> r \in pending \/ applying[r] # "no"

\* _pending_by_occurrence never points at a request that is not pending, nor at the
\* request of another occurrence, so a finished request cannot silence its reaction.
IndexSound ==
    \A o \in Occurrence : index[o] # NoRequest =>
        index[o] \in pending /\ occurrence[index[o]] = o

\* No timer outlives its request, and while the entry is loaded no pending request is
\* without a timer: every way out of the registry cancels the timer, every way in arms it.
TimersMatchPending == timers \subseteq pending /\ (up => pending \subseteq timers)

\* A plan is executed at most once, exactly once for a request that ends approved or
\* applied by its deadline, and never for one that was declined, skipped or cancelled.
RunsMatchStatus ==
    \A r \in Request :
        /\ runs[r] \in {0, 1}
        /\ status[r] \in Trigger \/ applying[r] # "no" => runs[r] = 1
        /\ status[r] \in {"unborn", "dismissed", "timeout_skipped", "cancelled"} => runs[r] = 0
        /\ r \in pending => runs[r] = 0

Born(a) == {r \in Request : status[r] # "unborn" /\ ReactionOf(r) = a}

\* The requests a counter of a reaction is to count.
Happened(a, c) == {r \in Born(a) : c = "requested" \/ status[r] = c}

\* The persisted counters, on which promotion rests, never claim more than happened to
\* the requests of their reaction, whatever old copy was stored over them and whenever
\* they were dropped or reset; and as long as none of this changed the counters of a
\* reaction, and it was never deleted, they miss nothing either.
StatsTruthful ==
    \A a \in Reaction, c \in Counter :
        /\ stats[a][c] <= Cardinality(Happened(a, c))
        /\ a \in intact => stats[a][c] = Cardinality(Happened(a, c))

\* "At most one pending request may exist for the same (reaction_id, occurrence_key)."
OnePendingPerOccurrence ==
    \A r, q \in pending : occurrence[r] = occurrence[q] => r = q

\* "Heima must not create repeated notifications for the same reaction occurrence."
AskedOncePerOccurrence ==
    \A r, q \in Request :
        status[r] # "unborn" /\ status[q] # "unborn" /\ occurrence[r] = occurrence[q] => r = q

\* Every request is decided, unless the entry is unloaded first; a plan that was
\* started always ends in an outcome.
EveryRequestDecided ==
    \A r \in Request :
        /\ status[r] = "pending" ~> status[r] \in Terminal \/ ~up
        /\ applying[r] # "no" ~> status[r] \in Terminal

\* The component implements the lifecycle a resident is promised.
Lifecycle == INSTANCE RequestLifecycle
    WITH phase <- [r \in Request |-> IF applying[r] # "no" THEN "running" ELSE status[r]],
         runs <- runs

ImplementsLifecycle == Lifecycle!Spec
=============================================================================
