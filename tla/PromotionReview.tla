--------------------------- MODULE PromotionReview ---------------------------
(***************************************************************************)
(* From residents' answers to an automatic reaction: the evidence and the  *)
(* promotion review that coordinator.py keeps in the entry's options, the  *)
(* admin's decisions about them, and the options flow (config_flow_steps)  *)
(* that edits a copy of the same options and writes it back.               *)
(*                                                                         *)
(* Every handler here is atomic; what interleaves is the flow, which stays *)
(* open for as long as the admin looks at it.  Reminders, the counters of  *)
(* outcomes that are no explicit answer, and policy profiles (a reference  *)
(* plus an override, resolved to the same fields) are left out; the policy *)
(* thresholds are those of the specification's constants.                  *)
(***************************************************************************)
EXTENDS Integers, Sequences, FiniteSets

CONSTANTS
    Reaction,     \* ids of reactions with an execution policy
    MaxTime,      \* bound on the clock
    DayLength,    \* ticks of the clock in a day
    MinSamples, MinDays,  \* promotion.min_samples, min_distinct_days
    MinRate,      \* promotion.min_approval_rate, in percent
    MinNew,       \* promotion.min_new_approvals_after_dismissal
    Cooldown,     \* promotion.cooldown_schedule_days, in ticks
    MaxFlows,     \* bound on the options flows an admin opens
    Closed        \* no options flow is open

ASSUME PromotionAssumption ==
    /\ {MaxTime, MinSamples, MinDays, MinRate, MinNew, MaxFlows} \subseteq Nat
    /\ DayLength \in Nat \ {0}
    /\ Cooldown \in Seq(Nat) /\ Cooldown # <<>>

Time     == 0..(MaxTime + 1)
Explicit == {"approved", "dismissed"}
Answer   == [at : Time, outcome : Explicit]
Decision == {"approve_auto_apply", "dismiss_not_now", "disable_future_prompts"}

\* promotion_reviews[reaction]: `since` is last_promotion_dismissed_at.
Review == [status : {"none", "pending", "approved", "not_now", "disabled", "revoked"},
           count : Nat, since : Time]

\* What the options hold of one reaction: its policy (configured[..].execution_policy),
\* its answers (confirmation_stats[..]) and its review.
Entry == [mode : {"ask", "auto", "absent"}, promoted : BOOLEAN, prompts : BOOLEAN,
          answers : SUBSET Answer, review : Review]

NoReview == [status |-> "none", count |-> 0, since |-> 0]

ASSUME ClosedAssumption == Closed \notin [Reaction -> Entry]

VARIABLES
    opts,      \* [Reaction -> Entry], entry.options["reactions"]
    flow,      \* self.options["reactions"] of the open options flow, or Closed
    flows,     \* options flows opened so far
    now,       \* the clock; two answers never carry the same time stamp
    notNow     \* history: [Reaction -> Seq(Time)], the admin's "not now" since the last reset

vars == <<opts, flow, flows, now, notNow>>

-----------------------------------------------------------------------------
(* Eligibility *)

Approvals(answers)  == {x \in answers : x.outcome = "approved"}
RateReached(answers) ==
    Cardinality(Approvals(answers)) * 100 >= MinRate * Cardinality(answers)

\* Enough answers, mostly approvals, on enough days.
Convincing(answers) ==
    /\ Cardinality(answers) >= MinSamples
    /\ RateReached(answers)
    /\ Cardinality({x.at \div DayLength : x \in Approvals(answers)}) >= MinDays

Since(answers, t) == {x \in answers : x.at > t}

CooldownOf(n) ==
    Cooldown[IF n < 1 THEN 1 ELSE IF n > Len(Cooldown) THEN Len(Cooldown) ELSE n]

\* Mutant: after the cooldown the old evidence is enough.
CooldownSatisfied_NoNewEvidence(e) ==
    e.review.status = "not_now" => now >= e.review.since + CooldownOf(e.review.count)

\* _runtime_promotion_cooldown_satisfied: after a "not now", its cooldown and new answers.
CooldownSatisfied(e) ==
    LET later == Since(e.answers, e.review.since) IN
    e.review.status = "not_now" =>
        /\ now >= e.review.since + CooldownOf(e.review.count)
        /\ Cardinality(Approvals(later)) >= MinNew
        /\ RateReached(later)

\* _runtime_promotion_eligible.
Eligible(e) ==
    /\ e.mode = "ask" /\ e.prompts
    /\ Convincing(e.answers)
    /\ CooldownSatisfied(e)

\* Mutant: a pending review outlives the evidence it rests on.
UpdatedReview_NeverRevokes(e) ==
    IF Eligible(e) /\ e.review.status \notin {"approved", "disabled", "pending"}
    THEN [NoReview EXCEPT !.status = "pending"]
    ELSE e.review

\* _updated_runtime_promotion_reviews: a new review starts from an empty record.
UpdatedReview(e) ==
    IF Eligible(e) /\ e.review.status \notin {"approved", "disabled", "pending"}
    THEN [NoReview EXCEPT !.status = "pending"]
    ELSE IF ~Eligible(e) /\ e.review.status = "pending"
         THEN [e.review EXCEPT !.status = "revoked"]
         ELSE e.review

-----------------------------------------------------------------------------
(* The coordinator *)

\* _record_runtime_confirmation_outcome, for an explicit answer to a request.
Record(a, outcome) ==
    LET e == [opts[a] EXCEPT !.answers = @ \cup {[at |-> now, outcome |-> outcome]}] IN
    /\ now < MaxTime
    /\ opts[a].mode # "absent"
    /\ opts' = [opts EXCEPT ![a] = [e EXCEPT !.review = UpdatedReview(e)]]
    /\ now' = now + 1
    /\ UNCHANGED <<flow, flows, notNow>>

\* What a decision makes of a pending review and of the reaction's policy.
Decided(e, decision) ==
    CASE decision = "approve_auto_apply" ->
            [e EXCEPT !.mode = "auto", !.promoted = TRUE, !.review.status = "approved"]
      [] decision = "dismiss_not_now" ->
            [e EXCEPT !.review =
                [status |-> "not_now", count |-> e.review.count + 1, since |-> now]]
      [] decision = "disable_future_prompts" ->
            [e EXCEPT !.prompts = FALSE, !.review.status = "disabled"]

\* async_review_runtime_promotion, from the admin panel or from the options flow: the
\* flow's own copy does not learn of it.
Decide(a, decision) ==
    /\ now < MaxTime
    /\ opts[a].mode # "absent" /\ opts[a].review.status = "pending"
    /\ opts' = [opts EXCEPT ![a] = Decided(@, decision)]
    /\ notNow' = IF decision = "dismiss_not_now"
                 THEN [notNow EXCEPT ![a] = Append(@, now)] ELSE notNow
    /\ now' = now + 1
    /\ UNCHANGED <<flow, flows>>

Forgotten(e) == [e EXCEPT !.answers = {}, !.review = NoReview]

\* async_reset_runtime_confirmation_promotion_state.
Reset(a) ==
    /\ opts[a] # Forgotten(opts[a])
    /\ opts' = [opts EXCEPT ![a] = Forgotten(@)]
    /\ notNow' = [notNow EXCEPT ![a] = <<>>]
    /\ UNCHANGED <<flow, flows, now>>

-----------------------------------------------------------------------------
(* The options flow *)

Open ==
    /\ flow = Closed /\ flows < MaxFlows
    /\ flow' = opts
    /\ flows' = flows + 1
    /\ UNCHANGED <<opts, now, notNow>>

\* A step that persists other keys starts from the entry's options (_update_options).
StoreOther ==
    /\ flow # Closed
    /\ flow' = opts
    /\ UNCHANGED <<opts, flows, now, notNow>>

\* A step that persists the reactions starts from the flow's copy of them
\* (_store_reactions_options), whatever it changes.
StoreReactions(reactions) ==
    /\ flow # Closed
    /\ flow' = reactions
    /\ opts' = reactions
    /\ UNCHANGED <<flows, now, notNow>>

\* The mute list, a label, another reaction's steps.
EditSibling == StoreReactions(flow)

\* The editor of a reaction that asks residents: an admin who takes a promoted reaction
\* back to asking also discards the evidence.
EditPolicy(a, mode) ==
    /\ flow # Closed /\ flow[a].mode # "absent"
    /\ LET e == [flow[a] EXCEPT !.mode = mode, !.promoted = @ /\ mode = "auto"]
           takenBack == flow[a].mode = "auto" /\ flow[a].promoted /\ mode = "ask"
       IN StoreReactions([flow EXCEPT ![a] = IF takenBack THEN Forgotten(e) ELSE e])

\* The configuration and the labels go; the statistics and the review stay behind.
Delete(a) ==
    /\ flow # Closed /\ flow[a].mode # "absent"
    /\ StoreReactions([flow EXCEPT ![a].mode = "absent", ![a].promoted = FALSE,
                                   ![a].prompts = TRUE])

\* "Save" in the menu: _finalize_options keeps muted, configured and labels of the
\* flow's copy, and the result replaces the entry's options.
Save ==
    /\ flow # Closed
    /\ opts' = [a \in Reaction |-> Forgotten(flow[a])]
    /\ flow' = Closed
    /\ UNCHANGED <<flows, now, notNow>>

\* The dialog is closed, or Home Assistant restarts: the options are what was persisted.
Abandon ==
    /\ flow # Closed
    /\ flow' = Closed
    /\ UNCHANGED <<opts, flows, now, notNow>>

Tick ==
    /\ now < MaxTime
    /\ now' = now + 1
    /\ UNCHANGED <<opts, flow, flows, notNow>>

-----------------------------------------------------------------------------

Init ==
    /\ opts = [a \in Reaction |-> [mode |-> "ask", promoted |-> FALSE, prompts |-> TRUE,
                                   answers |-> {}, review |-> NoReview]]
    /\ flow = Closed /\ flows = 0
    /\ now = 1
    /\ notNow = [a \in Reaction |-> <<>>]

ReactionStep(a) ==
    \/ \E outcome \in Explicit : Record(a, outcome)
    \/ \E decision \in Decision : Decide(a, decision)
    \/ \E mode \in {"ask", "auto"} : EditPolicy(a, mode)
    \/ Reset(a) \/ Delete(a)

FlowStep == Open \/ StoreOther \/ EditSibling \/ Save \/ Abandon

Next == (\E a \in Reaction : ReactionStep(a)) \/ FlowStep \/ Tick

Spec == Init /\ [][Next]_vars

-----------------------------------------------------------------------------
(* Properties *)

\* Every variable has its type.
TypeOK ==
    /\ opts \in [Reaction -> Entry]
    /\ flow \in [Reaction -> Entry] \cup {Closed}
    /\ flows \in 0..MaxFlows
    /\ now \in Time
    /\ notNow \in [Reaction -> Seq(Time)]

\* An admin is never offered a promotion that the recorded answers do not support, nor
\* one for a reaction whose prompts were disabled: whatever answers arrive while the
\* review is pending, and whichever copy of the options is written back meanwhile.
Earned(e) == e.review.status = "pending" => e.prompts /\ Convincing(e.answers)

PendingIsEarned == \A a \in Reaction : opts[a].mode # "absent" => Earned(opts[a])

\* As long as no options flow was opened, which may write a stale copy back: after a "not
\* now" the admin is asked again only when the cooldown has passed and residents have
\* approved often enough since; neither revocations nor later answers get round it.
NotNowRespected ==
    flows = 0 => \A a \in Reaction :
        opts[a].review.status = "pending" /\ notNow[a] # <<>> =>
            LET last == notNow[a][Len(notNow[a])] IN
            /\ now >= last + CooldownOf(1)
            /\ Cardinality(Approvals(Since(opts[a].answers, last))) >= MinNew

=============================================================================
