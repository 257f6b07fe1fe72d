------------------------ MODULE NotificationPipeline ------------------------
(***************************************************************************)
(* From a mismatch of presence and occupancy to a push on a phone: the     *)
(* consistency events of runtime/domains/occupancy.py, the queue of events *)
(* and their emission (runtime/domains/events.py), and the delivery policy *)
(* and the pipeline of runtime/notifications.py, with evaluations and      *)
(* external events that emit at the same time.                             *)
(*                                                                         *)
(* Three kinds of events stand for the families: the occupancy mismatch    *)
(* (pushed after persistence), a configuration issue (pushed to admins)    *)
(* and an alarm (security critical).  Each kind has one event key.         *)
(***************************************************************************)
EXTENDS Integers, Sequences, FiniteSets

CONSTANTS
    Task,         \* the coroutines that emit: evaluations and external events
    Routes,       \* the notify services of the audience, a sequence
    QueueMax,     \* _MAX_DEFERRED_ROUTE_DELIVERIES
    PersistS,     \* persist_s of the occupancy mismatch, 0 for the policy "strict"
    Threshold,    \* persistence_thresholds.occupancy_mismatch
    Grace,        \* startup_notification_grace_s
    MismatchWindow, BurstMax, BurstWindow,   \* aggregation
    Dedup, RateLimit,                        \* dedup_window_s, rate_limit_per_key_s
    MaxTime,      \* bound on the clock
    MaxEvents,    \* bound on the emissions
    Never, NoItem

Kind  == {"mismatch", "config", "alarm"}
Event == [kind : Kind, id : 1..MaxEvents]
Route == {Routes[i] : i \in DOMAIN Routes}
Item  == (1..MaxEvents) \X Route   \* the delivery of an event by a route

\* The routes of an audience are resolved without repetition (_resolve_routes).
ASSUME PipelineAssumption ==
    /\ {QueueMax, Threshold, MaxTime, MaxEvents} \subseteq Nat \ {0}
    /\ {PersistS, Grace, MismatchWindow, BurstMax, BurstWindow, Dedup, RateLimit} \subseteq Nat
    /\ Never \notin Nat
    /\ NoItem \notin Item
    /\ Routes \in Seq(Route)
    /\ \A i, j \in DOMAIN Routes : Routes[i] = Routes[j] => i = j

VARIABLES
    now,
    mismatch,   \* someone is home and no room is occupied
    domain,     \* the occupancy domain's memory of the mismatch
    queued,     \* Seq(Event), _pending_events
    policy,     \* the delivery policy's memory
    seen,       \* [Kind -> time], _last_seen_ts
    emitted,    \* [Kind -> time], _last_emitted_ts
    task,       \* the coroutines
    deferred,   \* Seq(Item), _deferred_route_deliveries
    disabled,   \* _schema_incompatible_routes
    count,      \* events so far
    owed        \* history: the deferred deliveries that were neither made, handled nor dropped

notificationVars == <<now, mismatch, domain, queued, policy, seen, emitted, task, deferred, disabled,
          count, owed>>
clockVars    == <<now, mismatch, domain>>
pipelineVars == <<policy, seen, emitted>>

\* events: those the coroutine has yet to emit, todo: the routes it has yet to call for the
\* first of them, remaining: what its flush could not deliver, calling: the delivery whose
\* call is under way, bumped: another delivery ended during the call, got: the emission counts as
\* delivered; histories: own: a route delivered it, crossed: a call of another coroutine was
\* under way during its own.
Idle == [stage |-> "idle", events |-> <<>>, todo |-> <<>>, remaining |-> <<>>,
         calling |-> NoItem, bumped |-> FALSE, got |-> FALSE, own |-> FALSE, crossed |-> FALSE]

Since(time, window) == time # Never /\ now - time < window

-----------------------------------------------------------------------------
(* The occupancy domain, _persistent_condition_ready for "home_no_room" *)

\* An evaluation queues the mismatch when it has persisted, once, and events of others.
Evaluate(others) ==
    LET since  == IF domain.since = Never THEN now ELSE domain.since
        ready  == mismatch /\ ~domain.emitted /\ now - since >= PersistS
        kinds  == (IF ready THEN <<"mismatch">> ELSE <<>>) \o others IN
    /\ count + Len(kinds) <= MaxEvents
    /\ count' = count + Len(kinds)
    /\ queued' = queued \o [i \in 1..Len(kinds) |-> [kind |-> kinds[i], id |-> count + i]]
    /\ domain' = IF mismatch THEN [since |-> since, emitted |-> domain.emitted \/ ready]
                 ELSE [since |-> Never, emitted |-> FALSE]
    /\ UNCHANGED <<now, mismatch, pipelineVars, task, deferred, disabled, owed>>

-----------------------------------------------------------------------------
(* The delivery policy, decide() and record_decision() *)

\* _persistence_decision: a key that was notified starts anew after a quiet time.
Renewed(p) ==
    IF p.notified /\ ~Since(p.last, Threshold)
    THEN [p EXCEPT !.notified = FALSE, !.first = Never] ELSE p

Observed(p) ==
    LET r == Renewed(p) IN
    [r EXCEPT !.last = now, !.first = IF r.first = Never THEN now ELSE @]

Recent(p) == SelectSeq(p.burst, LAMBDA time : Since(time, BurstWindow))

Decided(kind) == IF kind = "mismatch" /\ now >= Grace THEN Observed(policy) ELSE policy

\* After the startup grace, a mismatch waits for its persistence and for the aggregation
\* window, and the burst limit holds for all but alarms.
Delivers(kind) ==
    LET p == Decided(kind) IN
    \/ kind = "alarm"
    \/ /\ now >= Grace
       /\ kind = "mismatch" => /\ ~p.notified /\ now - p.first >= Threshold
                               /\ ~Since(p.pushed, MismatchWindow)
       /\ BurstMax = 0 \/ BurstWindow = 0 \/ Len(Recent(p)) < BurstMax

\* Mutant: an attempt counts as a push, delivered or not.
Recorded_Attempt(kind, got) ==
    LET p == [policy EXCEPT
                !.burst = IF kind # "alarm" /\ BurstMax > 0 THEN Append(Recent(policy), now)
                          ELSE @] IN
    IF kind = "mismatch" THEN [p EXCEPT !.pushed = now, !.notified = TRUE, !.last = now] ELSE p

\* _record_push_delivery, if a route of the emission was delivered
Recorded(kind, got) ==
    LET p == [policy EXCEPT
                !.burst = IF kind # "alarm" /\ BurstMax > 0 THEN Append(Recent(policy), now)
                          ELSE @] IN
    IF ~got THEN policy
    ELSE IF kind = "mismatch"
    THEN [p EXCEPT !.pushed = now, !.notified = p.notified \/ p.first # Never,
                   !.last = IF p.first # Never THEN now ELSE @]
    ELSE p

-----------------------------------------------------------------------------
(* Emissions: async_emit_queued_events and async_emit_external_event *)

TakeQueued(t) ==
    /\ task[t].stage = "idle" /\ queued # <<>>
    /\ task' = [task EXCEPT ![t] = [Idle EXCEPT !.stage = "next", !.events = queued]]
    /\ queued' = <<>>
    /\ UNCHANGED <<clockVars, pipelineVars, count, deferred, disabled, owed>>

External(t, kind) ==
    /\ task[t].stage = "idle" /\ count < MaxEvents
    /\ count' = count + 1
    /\ task' = [task EXCEPT ![t] =
           [Idle EXCEPT !.stage = "next", !.events = <<[kind |-> kind, id |-> count']>>]]
    /\ UNCHANGED <<clockVars, queued, pipelineVars, deferred, disabled, owed>>

\* The end of an emission: the next event of the task, if there is one.
Rest(s) ==
    IF Len(s.events) = 1 THEN Idle ELSE [Idle EXCEPT !.stage = "next", !.events = Tail(s.events)]

\* The decision, the deduplication and the rate limit, without a suspension.
Emit(t) ==
    LET s     == task[t]
        kind  == Head(s.events).kind
        fresh == /\ Dedup > 0 => ~Since(seen[kind], Dedup)
                 /\ RateLimit > 0 => ~Since(emitted[kind], RateLimit) IN
    /\ s.stage = "next"
    /\ policy' = Decided(kind)
    /\ seen' = IF Dedup > 0 THEN [seen EXCEPT ![kind] = now] ELSE seen
    /\ emitted' = IF fresh THEN [emitted EXCEPT ![kind] = now] ELSE emitted
    /\ task' = [task EXCEPT ![t] =
           IF fresh THEN [s EXCEPT !.stage = "flush",
                                   !.todo = IF Delivers(kind) THEN Routes ELSE <<>>]
           ELSE Rest(s)]
    /\ UNCHANGED <<clockVars, queued, count, deferred, disabled, owed>>

InFlight == {t \in Task : task[t].calling # NoItem}

\* _try_deliver_route up to the call of the service.
Call(t, item) ==
    task' = [u \in Task |->
        IF u = t THEN [task[t] EXCEPT !.calling = item, !.bumped = FALSE,
                                      !.crossed = @ \/ InFlight # {}]
        ELSE [task[u] EXCEPT !.crossed = @ \/ u \in InFlight]]

-----------------------------------------------------------------------------
(* _flush_deferred_route_deliveries *)

\* What an undelivered item leaves of the flush's own queue, and what is still owed.
Retained(s, item) ==
    IF Len(s.remaining) = QueueMax THEN s.remaining ELSE Append(s.remaining, item)
Kept(s, item) == IF Len(s.remaining) = QueueMax THEN owed \ {item} ELSE owed

\* Mutant: the flush stops at the first item it cannot deliver.
FlushEnds_AtFailure(t) ==
    /\ task[t].stage = "flush" /\ task[t].calling = NoItem
    /\ deferred = <<>> \/ task[t].remaining # <<>>
    /\ deferred' = task[t].remaining
    /\ task' = [task EXCEPT ![t].stage = "send", ![t].remaining = <<>>]
    /\ UNCHANGED <<clockVars, queued, pipelineVars, count, disabled, owed>>

FlushEnds(t) ==
    /\ task[t].stage = "flush" /\ task[t].calling = NoItem
    /\ deferred = <<>>
    /\ deferred' = task[t].remaining
    /\ task' = [task EXCEPT ![t].stage = "send", ![t].remaining = <<>>]
    /\ UNCHANGED <<clockVars, queued, pipelineVars, count, disabled, owed>>

\* Mutant: an item that cannot be delivered goes back to the queue that is flushed.
FlushNext_Requeues(t) ==
    LET item == Head(deferred) IN
    /\ task[t].stage = "flush" /\ task[t].calling = NoItem /\ deferred # <<>>
    /\ \/ /\ item[2] \notin disabled
          /\ deferred' = Tail(deferred)
          /\ Call(t, item)
          /\ UNCHANGED owed
       \/ /\ item[2] \in disabled
          /\ deferred' = Tail(deferred)
          /\ owed' = owed \ {item}
          /\ UNCHANGED task
       \/ /\ item[2] \notin disabled
          /\ deferred' = Append(Tail(deferred), item)
          /\ UNCHANGED <<task, owed>>
    /\ UNCHANGED <<clockVars, queued, pipelineVars, count, disabled>>

\* The next item: its route exists and is called, or is disabled, which counts as delivered,
\* or does not exist, and the item is kept.
FlushNext(t) ==
    LET item == Head(deferred)
        s    == task[t] IN
    /\ s.stage = "flush" /\ s.calling = NoItem /\ deferred # <<>>
    /\ deferred' = Tail(deferred)
    /\ \/ /\ item[2] \notin disabled
          /\ Call(t, item)
          /\ UNCHANGED owed
       \/ /\ item[2] \in disabled
          /\ owed' = owed \ {item}
          /\ UNCHANGED task
       \/ /\ item[2] \notin disabled
          /\ task' = [task EXCEPT ![t].remaining = Retained(s, item)]
          /\ owed' = Kept(s, item)
    /\ UNCHANGED <<clockVars, queued, pipelineVars, count, disabled>>

\* A delivery by any task raises the counter that the others compare.
Bumped(t) ==
    [u \in Task |-> [task[u] EXCEPT
        !.bumped = @ \/ (u # t /\ u \in InFlight /\ task[u].stage = "send")]]

\* How a call ends: delivered, ServiceNotFound, another error, or a payload that no
\* fallback makes acceptable, which disables the route.
CallOutcome == {"delivered", "missing", "error", "rejected"}

FlushReturns(t, outcome) ==
    LET s    == task[t]
        item == s.calling
        base == IF outcome = "delivered" THEN Bumped(t) ELSE task IN
    /\ s.stage = "flush" /\ item # NoItem
    /\ task' = [base EXCEPT
           ![t].calling = NoItem,
           ![t].remaining = IF outcome = "missing" THEN Retained(s, item) ELSE @]
    /\ owed' = IF outcome = "missing" THEN Kept(s, item) ELSE owed \ {item}
    /\ disabled' = IF outcome = "rejected" THEN disabled \cup {item[2]} ELSE disabled
    /\ UNCHANGED <<clockVars, queued, pipelineVars, count, deferred>>

-----------------------------------------------------------------------------
(* The routes of the emission *)

\* _defer_route_delivery: a full queue drops its oldest item.
Defer(item) ==
    LET full == Len(deferred) = QueueMax IN
    /\ deferred' = Append(IF full THEN Tail(deferred) ELSE deferred, item)
    /\ owed' = (IF full THEN owed \ {Head(deferred)} ELSE owed) \cup {item}

SendNext(t) ==
    LET s    == task[t]
        item == <<Head(s.events).id, Head(s.todo)>>
        skip == [task EXCEPT ![t].todo = Tail(s.todo)] IN
    /\ s.stage = "send" /\ s.calling = NoItem /\ s.todo # <<>>
    /\ \/ /\ item[2] \notin disabled
          /\ Call(t, item)
          /\ UNCHANGED <<deferred, owed>>
       \/ /\ item[2] \in disabled
          /\ task' = skip
          /\ UNCHANGED <<deferred, owed>>
       \/ /\ item[2] \notin disabled
          /\ task' = skip
          /\ Defer(item)
    /\ UNCHANGED <<clockVars, queued, pipelineVars, count, disabled>>

SendReturns(t, outcome) ==
    LET s    == task[t]
        item == s.calling
        base == IF outcome = "delivered" THEN Bumped(t) ELSE task IN
    /\ s.stage = "send" /\ item # NoItem
    /\ task' = [base EXCEPT ![t].calling = NoItem, ![t].todo = Tail(s.todo),
                            ![t].got = s.got \/ s.bumped \/ outcome = "delivered",
                            ![t].own = s.own \/ outcome = "delivered"]
    /\ IF outcome = "missing" THEN Defer(item) ELSE UNCHANGED <<deferred, owed>>
    /\ disabled' = IF outcome = "rejected" THEN disabled \cup {item[2]} ELSE disabled
    /\ UNCHANGED <<clockVars, queued, pipelineVars, count>>

\* record_decision
RecordDecision(t) ==
    LET s == task[t] IN
    /\ s.stage = "send" /\ s.calling = NoItem /\ s.todo = <<>>
    /\ policy' = Recorded(Head(s.events).kind, s.got)
    /\ task' = [task EXCEPT ![t] = Rest(s)]
    /\ UNCHANGED <<clockVars, queued, seen, emitted, count, deferred, disabled, owed>>

-----------------------------------------------------------------------------

Tick ==
    /\ now < MaxTime /\ now' = now + 1
    /\ UNCHANGED <<mismatch, domain, queued, pipelineVars, count, task, deferred, disabled, owed>>

MismatchChanges ==
    /\ mismatch' = ~mismatch
    /\ UNCHANGED <<now, domain, queued, pipelineVars, count, task, deferred, disabled, owed>>

PipelineInit ==
    /\ now = 0 /\ mismatch = FALSE
    /\ domain = [since |-> Never, emitted |-> FALSE]
    /\ queued = <<>>
    /\ policy = [first |-> Never, last |-> Never, notified |-> FALSE, pushed |-> Never,
                 burst |-> <<>>]
    /\ seen = [k \in Kind |-> Never] /\ emitted = [k \in Kind |-> Never]
    /\ task = [t \in Task |-> Idle]
    /\ deferred = <<>>
    /\ disabled = {}
    /\ count = 0
    /\ owed = {}

Step(t) ==
    \/ Emit(t) \/ FlushNext(t) \/ FlushEnds(t) \/ SendNext(t) \/ RecordDecision(t)
    \/ \E outcome \in CallOutcome : FlushReturns(t, outcome) \/ SendReturns(t, outcome)

PipelineNext ==
    \/ \E others \in {<<>>, <<"config">>, <<"alarm">>} : Evaluate(others)
    \/ Tick \/ MismatchChanges
    \/ \E t \in Task : TakeQueued(t) \/ Step(t)
    \/ \E t \in Task, kind \in {"config", "alarm"} : External(t, kind)

\* The event loop runs every coroutine, and every call of a service returns.
PipelineFairness == \A t \in Task : WF_notificationVars(Step(t))

PipelineSpec == PipelineInit /\ [][PipelineNext]_notificationVars /\ PipelineFairness

-----------------------------------------------------------------------------
(* Properties *)

Coroutine ==
    [stage : {"idle", "next", "flush", "send"}, events : Seq(Event), todo : Seq(Route),
     remaining : Seq(Item), calling : Item \cup {NoItem}, bumped : BOOLEAN, got : BOOLEAN,
     own : BOOLEAN, crossed : BOOLEAN]

Times == (0..MaxTime) \cup {Never}

\* Types of what outlives an emission, the memory of the delivery policy apart.
StoresTyped ==
    /\ now \in 0..MaxTime /\ mismatch \in BOOLEAN
    /\ domain \in [since : Times, emitted : BOOLEAN]
    /\ queued \in Seq(Event)
    /\ seen \in [Kind -> Times] /\ emitted \in [Kind -> Times]
    /\ deferred \in Seq(Item) /\ Len(deferred) <= QueueMax
    /\ disabled \subseteq Route
    /\ count \in 0..MaxEvents
    /\ owed \subseteq Item

\* Types of the stores, of the policy, whose burst may be any, and of the coroutines.
PipelineTypeOK ==
    /\ StoresTyped
    /\ policy \in [first : Times, last : Times, notified : BOOLEAN, pushed : Times,
                   burst : {policy.burst}]
    /\ task \in [Task -> Coroutine]

\* Where a deferred delivery waits: in the queue, or in the flush of a coroutine.
At(queue, item) == {i \in DOMAIN queue : queue[i] = item}

Waiting(item) ==
    {<<NoItem, i>> : i \in At(deferred, item)}
    \cup (UNION {{<<t, i>> : i \in At(task[t].remaining, item)} : t \in Task})
    \cup {<<t, 0>> : t \in {u \in Task : task[u].stage = "flush" /\ task[u].calling = item}}

\* Coroutines that flush the queue at the same time lose no deferred delivery and make none
\* twice: it waits in one place until it is delivered, handled, or dropped by a full queue.
DeferredAccounted ==
    \A item \in Item :
        Cardinality(Waiting(item)) = IF item \in owed THEN 1 ELSE 0

\* A mismatch is silenced as notified only if a route delivered that event, unless another
\* call was under way, whose delivery raises the counter both compare.
NotifiedMeansDelivered ==
    [][ policy'.notified /\ ~policy.notified =>
            \E t \in Task : /\ task[t].stage = "send" /\ Head(task[t].events).kind = "mismatch"
                            /\ task[t].own \/ task[t].crossed ]_notificationVars

\* Every emission ends, and with it the evaluation that waits for it, whatever the routes do.
EmissionsEnd == \A t \in Task : task[t].stage # "idle" ~> task[t].stage = "idle"

=============================================================================
