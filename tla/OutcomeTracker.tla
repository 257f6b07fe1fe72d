--------------------------- MODULE OutcomeTracker ---------------------------
(***************************************************************************)
(* Whether the automatic reactions help: OutcomeTracker                    *)
(* (runtime/outcome_tracker.py), the events of a cycle that                *)
(* EventRecorderBehavior keeps for it (behaviors/event_recorder.py), and   *)
(* the steps of an evaluation (runtime/engine.py) that register a firing,  *)
(* look for its outcome, and turn streaks of outcomes into a degradation   *)
(* proposal or a boost of confidence.                                      *)
(*                                                                         *)
(* The only reactions with an expected outcome are those that prepare the  *)
(* home for an arrival (reactions/presence.py).  An evaluation suspends    *)
(* between its snapshot and the dispatch, between the dispatch and the     *)
(* check of the outcomes, and at every proposal it saves; evaluations      *)
(* overlap (see EvaluationTrigger).                                        *)
(***************************************************************************)
EXTENDS Integers, Sequences

CONSTANTS
    Reactions,    \* how many there are: 1..Reactions, in the order of engine._reactions
    Evaluation,   \* the evaluations that may be in flight together
    MaxTime,      \* bound on the clock
    Window,       \* the times at which an arrival is expected soon enough
    Timeout,      \* outcome_spec.timeout_s
    DegradeAt,    \* DEGRADATION_THRESHOLD
    BoostAt,      \* POSITIVE_BOOST_THRESHOLD
    MaxArrivals,  \* bound on the arrivals
    MaxFaults     \* bound on the resets, restarts and reconfigurations

Reaction == 1..Reactions
Time     == 0..MaxTime
NoTime   == -1

ASSUME OutcomeAssumption ==
    /\ {Reactions, MaxTime, MaxArrivals, MaxFaults} \subseteq Nat
    /\ {Timeout, DegradeAt, BoostAt} \subseteq Nat \ {0}
    /\ Window \subseteq Time

VARIABLES
    now, home,      \* the clock; somebody is at home
    pc,             \* [Evaluation -> Step], how far the evaluation is
    snap,           \* [Evaluation -> BOOLEAN], somebody is at home in its snapshot
    previous,       \* EventRecorderBehavior._previous_snapshot: "none", "home" or "away"
    arrived,        \* _cycle_events holds an arrival
    enabled,        \* the ids in engine._reactions
    pending,        \* [Reaction -> Time or NoTime], _pending: when it fired
    negative,       \* [Reaction -> Nat], _negative_streaks
    positive,       \* [Reaction -> Nat], _positive_streaks
    proposal,       \* [Reaction -> status], the proposal with identity degradation:<id>
    backed,         \* the reactions whose own accepted proposal is in the store
    target, todo,   \* [Evaluation -> ...], where the loop over the reactions is
    resetting,      \* async_reset_learning_data is between its two ends
    outcomes,       \* history: [Reaction -> what was recorded and boosted, in order]
    seen,           \* history: an evaluation has seen somebody home since the firing
    disturbed,      \* history: evaluations have overlapped, or learning data was reset
    arrivals, faults

worldVars    == <<now, home, arrivals, faults>>
observedVars == <<previous, arrived>>
trackerVars  == <<pending, negative, positive>>
loopVars     == <<pc, target, todo>>
vars == <<worldVars, observedVars, trackerVars, loopVars, snap, enabled, proposal, backed,
          resetting, outcomes, seen, disturbed>>

Step == {"idle", "computed", "applying", "submitting", "boosting"}

-----------------------------------------------------------------------------
(* The outcome of a firing: OutcomeTracker.check_pending *)

Awaited == {r \in Reaction : pending[r] # NoTime}
Overdue(r) == now - pending[r] >= Timeout

\* Mutant: the deadline is looked at before the events.
Matched_TimeoutFirst == IF arrived THEN {r \in Awaited : ~Overdue(r)} ELSE {}

\* The events of this cycle decide first.
Matched == IF arrived THEN Awaited ELSE {}

\* Mutant: a reaction that was disabled meanwhile is not looked at any more.
Expired_EnabledOnly == {r \in (Awaited \ Matched) \cap enabled : Overdue(r)}

Expired == {r \in Awaited \ Matched : Overdue(r)}

Recorded == [r \in Reaction |-> CASE r \in Matched -> Append(outcomes[r], "positive")
                                  [] r \in Expired -> Append(outcomes[r], "negative")
                                  [] OTHER         -> outcomes[r]]

\* Mutant: a success does not end a streak of failures.
Negatives_NeverForgiven ==
    [r \in Reaction |-> IF r \in Expired THEN negative[r] + 1 ELSE negative[r]]

Negatives == [r \in Reaction |-> CASE r \in Matched -> 0
                                   [] r \in Expired -> negative[r] + 1
                                   [] OTHER         -> negative[r]]

Positives == [r \in Reaction |-> CASE r \in Matched -> positive[r] + 1
                                   [] r \in Expired -> 0
                                   [] OTHER         -> positive[r]]

-----------------------------------------------------------------------------
(* The two loops over engine._reactions: each runs to its next suspension *)

First(S)      == CHOOSE r \in S : \A q \in S : r <= q
After(S, r)   == {q \in S : q > r}

Suspends(e, where, r, rest) ==
    /\ pc' = [pc EXCEPT ![e] = where]
    /\ target' = [target EXCEPT ![e] = r]
    /\ todo' = [todo EXCEPT ![e] = rest]

Ends(e) == /\ pc' = [pc EXCEPT ![e] = "idle"]
           /\ target' = [target EXCEPT ![e] = 0]
           /\ todo' = [todo EXCEPT ![e] = {}]

\* async_boost_confidence finds an accepted proposal that targets the reaction: the one it
\* was learned from, or the degradation itself.
Boostable == backed \cup {r \in Reaction : proposal[r] = "accepted"}

\* _maybe_boost_reaction_confidence: without an accepted proposal nothing is saved, and
\* the streak starts again all the same.
Boosts(e, rest, streak, log) ==
    LET ready   == {r \in rest : streak[r] >= BoostAt}
        boosted == ready \cap Boostable
    IN \/ /\ boosted = {}
          /\ Ends(e)
          /\ positive' = [r \in Reaction |-> IF r \in ready THEN 0 ELSE streak[r]]
          /\ outcomes' = log
       \/ /\ boosted # {}
          /\ LET r == First(boosted) IN
             /\ Suspends(e, "boosting", r, After(rest, r))
             /\ positive' = [q \in Reaction |-> IF q \in ready /\ q < r THEN 0 ELSE streak[q]]
             /\ outcomes' = [log EXCEPT ![r] = Append(@, "boost")]

\* _maybe_submit_degradation_proposals: one that nobody has decided is submitted, or
\* submitted again; then the loop of the boosts follows.
Submits(e, rest, failures, streak, log) ==
    LET failing == {r \in rest : /\ failures[r] >= DegradeAt
                                 /\ proposal[r] \notin {"accepted", "rejected"}}
    IN \/ /\ failing # {}
          /\ proposal' = [proposal EXCEPT ![First(failing)] = "pending"]
          /\ Suspends(e, "submitting", First(failing), After(rest, First(failing)))
          /\ positive' = streak
          /\ outcomes' = log
       \/ /\ failing = {}
          /\ Boosts(e, enabled, streak, log)
          /\ UNCHANGED proposal

-----------------------------------------------------------------------------
(* An evaluation *)

\* async_evaluate up to the snapshot.
Compute(e) ==
    /\ pc[e] = "idle"
    /\ pc' = [pc EXCEPT ![e] = "computed"]
    /\ snap' = [snap EXCEPT ![e] = home]
    /\ disturbed' = (disturbed \/ \E d \in Evaluation : pc[d] # "idle")
    /\ UNCHANGED <<worldVars, observedVars, trackerVars, target, todo, enabled, proposal,
                   backed, resetting, outcomes, seen>>

\* EventRecorderBehavior.on_snapshot: the events are those of this cycle alone.
OnSnapshot(here) == /\ arrived' = (previous = "away" /\ here)
                    /\ previous' = IF here THEN "home" ELSE "away"

\* The reactions whose time it is, by the time of the snapshot, which is one save ago.
Due(here) == {r \in enabled : ~here /\ now \in Window}

\* register_pending: a firing replaces the one that is still to be verified.
Registered(fired) == [r \in Reaction |-> IF r \in fired THEN now ELSE pending[r]]

\* The behaviors see the snapshot, and reactions fire for it.  Of those whose time it is
\* the muted ones do not, and none does during recovery or before a window is learned.
Dispatch(e) ==
    /\ pc[e] = "computed"
    /\ pc' = [pc EXCEPT ![e] = "applying"]
    /\ snap' = [snap EXCEPT ![e] = FALSE]
    /\ OnSnapshot(snap[e])
    /\ \E fired \in SUBSET Due(snap[e]) :
          /\ pending' = Registered(fired)
          /\ seen' = [r \in Reaction |-> r \notin fired /\ (seen[r] \/ snap[e])]
    /\ UNCHANGED <<worldVars, negative, positive, target, todo, enabled, proposal, backed,
                   resetting, outcomes, disturbed>>

\* The plan is executed; _check_reaction_outcomes, and on to the first suspension.
Check(e) ==
    /\ pc[e] = "applying"
    /\ pending' = [r \in Reaction |-> IF r \in Matched \cup Expired THEN NoTime ELSE pending[r]]
    /\ negative' = Negatives
    /\ Submits(e, enabled, Negatives, Positives, Recorded)
    /\ UNCHANGED <<worldVars, observedVars, snap, enabled, backed, resetting, seen, disturbed>>

\* A submitted proposal is saved.
Submitted(e) ==
    /\ pc[e] = "submitting"
    /\ Submits(e, todo[e], negative, positive, outcomes)
    /\ UNCHANGED <<worldVars, observedVars, pending, negative, snap, enabled, backed,
                   resetting, seen, disturbed>>

\* A boosted proposal is saved, and the streak starts again.
Boosted(e) ==
    /\ pc[e] = "boosting"
    /\ Boosts(e, todo[e], [positive EXCEPT ![target[e]] = 0], outcomes)
    /\ UNCHANGED <<worldVars, observedVars, pending, negative, snap, enabled, proposal,
                   backed, resetting, seen, disturbed>>

-----------------------------------------------------------------------------
(* Admins and the world *)

\* The installer decides a degradation proposal.
Decide(r, verdict) ==
    /\ proposal[r] = "pending"
    /\ proposal' = [proposal EXCEPT ![r] = verdict]
    /\ UNCHANGED <<worldVars, observedVars, trackerVars, loopVars, snap, enabled, backed,
                   resetting, outcomes, seen, disturbed>>

\* A reload after a reaction was enabled or disabled: the tracker keeps what it knows.
Reconfigure(r) ==
    /\ faults < MaxFaults /\ faults' = faults + 1
    /\ enabled' = IF r \in enabled THEN enabled \ {r} ELSE enabled \cup {r}
    /\ UNCHANGED <<now, home, arrivals, observedVars, trackerVars, loopVars, snap, proposal, backed,
                   resetting, outcomes, seen, disturbed>>

\* async_reset_learning_data clears the proposals and, some awaits later, what the
\* behaviors and reactions have learned; it leaves the tracker alone.
ResetStarts ==
    /\ ~resetting /\ faults < MaxFaults
    /\ resetting' = TRUE /\ faults' = faults + 1 /\ disturbed' = TRUE
    /\ proposal' = [r \in Reaction |-> "none"]
    /\ backed' = {}
    /\ UNCHANGED <<now, home, arrivals, observedVars, trackerVars, loopVars, snap, enabled,
                   outcomes, seen>>

ResetEnds ==
    /\ resetting
    /\ resetting' = FALSE
    /\ previous' = "none"
    /\ UNCHANGED <<worldVars, arrived, trackerVars, loopVars, snap, enabled, proposal, backed,
                   outcomes, seen, disturbed>>

\* Home Assistant restarts, or the entry is set up again: the tracker lives in memory.  A
\* proposal whose save was under way may be lost.
Restart ==
    /\ faults < MaxFaults /\ faults' = faults + 1
    /\ previous' = "none" /\ arrived' = FALSE /\ resetting' = FALSE
    /\ pending' = [r \in Reaction |-> NoTime]
    /\ negative' = [r \in Reaction |-> 0] /\ positive' = [r \in Reaction |-> 0]
    /\ pc' = [e \in Evaluation |-> "idle"] /\ snap' = [e \in Evaluation |-> FALSE]
    /\ target' = [e \in Evaluation |-> 0] /\ todo' = [e \in Evaluation |-> {}]
    /\ \E lost \in SUBSET {target[e] : e \in {d \in Evaluation : pc[d] = "submitting"}} :
          proposal' = [r \in Reaction |-> IF r \in lost THEN "none" ELSE proposal[r]]
    /\ outcomes' = [r \in Reaction |-> <<>>] /\ seen' = [r \in Reaction |-> FALSE]
    /\ UNCHANGED <<now, home, arrivals, enabled, backed, disturbed>>

ComeOrGo ==
    /\ home \/ arrivals < MaxArrivals
    /\ home' = ~home
    /\ arrivals' = IF home THEN arrivals ELSE arrivals + 1
    /\ UNCHANGED <<now, faults, observedVars, trackerVars, loopVars, snap, enabled, proposal,
                   backed, resetting, outcomes, seen, disturbed>>

Tick ==
    /\ now < MaxTime
    /\ now' = now + 1
    /\ UNCHANGED <<home, arrivals, faults, observedVars, trackerVars, loopVars, snap, enabled,
                   proposal, backed, resetting, outcomes, seen, disturbed>>

-----------------------------------------------------------------------------

Init ==
    /\ now = 0 /\ home \in BOOLEAN
    /\ pc = [e \in Evaluation |-> "idle"]
    /\ snap = [e \in Evaluation |-> FALSE]
    /\ previous = "none" /\ arrived = FALSE
    /\ enabled = Reaction
    /\ pending = [r \in Reaction |-> NoTime]
    /\ negative = [r \in Reaction |-> 0] /\ positive = [r \in Reaction |-> 0]
    /\ proposal = [r \in Reaction |-> "none"] /\ backed \in SUBSET Reaction
    /\ target = [e \in Evaluation |-> 0] /\ todo = [e \in Evaluation |-> {}]
    /\ resetting = FALSE
    /\ outcomes = [r \in Reaction |-> <<>>] /\ seen = [r \in Reaction |-> FALSE]
    /\ disturbed = FALSE /\ arrivals = 0 /\ faults = 0

Continue(e) == Dispatch(e) \/ Check(e) \/ Submitted(e) \/ Boosted(e)

Next ==
    \/ \E e \in Evaluation : Compute(e) \/ Continue(e)
    \/ \E r \in Reaction : Reconfigure(r) \/ \E v \in {"accepted", "rejected"} : Decide(r, v)
    \/ ResetStarts \/ ResetEnds \/ Restart
    \/ ComeOrGo \/ Tick

Spec == Init /\ [][Next]_vars

\* The periodic fallback evaluates whatever else happens (FallbackAlive of
\* EvaluationTrigger), an evaluation that is under way goes on, and time passes.
Fairness ==
    /\ \A e \in Evaluation : WF_vars(Compute(e)) /\ WF_vars(Continue(e))
    /\ WF_vars(Tick)

FairSpec == Spec /\ Fairness

-----------------------------------------------------------------------------
(* Properties *)

\* Every variable has its type.
TypeOK ==
    /\ now \in Time /\ home \in BOOLEAN
    /\ pc \in [Evaluation -> Step] /\ snap \in [Evaluation -> BOOLEAN]
    /\ previous \in {"none", "home", "away"} /\ arrived \in BOOLEAN
    /\ enabled \subseteq Reaction /\ backed \subseteq Reaction
    /\ pending \in [Reaction -> Time \cup {NoTime}]
    /\ negative \in [Reaction -> Nat] /\ positive \in [Reaction -> Nat]
    /\ proposal \in [Reaction -> {"none", "pending", "accepted", "rejected"}]
    /\ target \in [Evaluation -> Reaction \cup {0}]
    /\ todo \in [Evaluation -> SUBSET Reaction]
    /\ outcomes \in [Reaction -> Seq({"positive", "negative", "boost"})]
    /\ seen \in [Reaction -> BOOLEAN]
    /\ resetting \in BOOLEAN /\ disturbed \in BOOLEAN
    /\ arrivals \in 0..MaxArrivals /\ faults \in 0..MaxFaults

\* A reaction is not blamed when the arrival it prepared for was seen after it fired, also
\* when that is seen only at the deadline.  It is not so once evaluations overlap, of which
\* one drops the events that another has not looked at yet, or learning data is reset.
BlamedTruthfully ==
    [][~disturbed => \A r \in Reaction :
          outcomes'[r] = Append(outcomes[r], "negative") => ~seen[r]]_vars

EndsWith(log, kind, n) ==
    n <= Len(log) /\ \A i \in (Len(log) - n + 1)..Len(log) : log[i] = kind

\* A degradation is proposed only after DegradeAt failures in a row, whatever was reset,
\* disabled or decided in between; and, unless evaluations overlap, confidence is boosted
\* once for every BoostAt successes in a row.
FeedbackEarned ==
    [][\A r \in Reaction :
          LET log == outcomes'[r] IN
          /\ proposal[r] = "none" /\ proposal'[r] = "pending" =>
                EndsWith(log, "negative", DegradeAt)
          /\ ~disturbed /\ Len(log) > Len(outcomes[r]) /\ log[Len(log)] = "boost" =>
                EndsWith(SubSeq(log, 1, Len(log) - 1), "positive", BoostAt)]_vars

\* Every firing is verified in the end, also of a reaction that was disabled meanwhile:
\* only a window without an end, in which it fires again and again, would postpone it.
EveryFiringVerified == \A r \in Reaction : pending[r] # NoTime ~> pending[r] = NoTime

=============================================================================
