--------------------------- MODULE SmartLighting ---------------------------
(***************************************************************************)
(* One room with a smart lighting reaction                                 *)
(* (runtime/reactions/smart_lighting_assist.py), the plan that an          *)
(* evaluation makes of it, filters and executes (runtime/engine.py), the   *)
(* pending applies by which Heima tells its own changes from a resident's  *)
(* (runtime/manual_hold.py), the light, and the residents.                 *)
(*                                                                         *)
(* One light of the room is followed, which the profiles turn on, turn off *)
(* or leave alone; of the others, what residents do with them and whether  *)
(* the profile has to be applied again because of them.  Brightness is     *)
(* "dim" or the profile's.  Time is reduced to which of the deadlines have *)
(* passed.                                                                 *)
(***************************************************************************)
EXTENDS Integers, Sequences, FiniteSets

CONSTANTS
    Profile,      \* the lighting profiles (house state, hour, outdoor light)
    Drives,       \* [Profile -> {"on", "off", "none"}], the profile's step for the light
    Default,      \* the profile whose lights count when none is applied: entity_steps, or the first
    MaxPlans,     \* bound on the filtered plans that await their execution
    MaxCalls,     \* bound on the service calls in flight
    MaxMishaps,   \* bound on the kinds of mishaps in one behaviour
    NoProfile

ASSUME LightingAssumption ==
    /\ MaxPlans \in Nat \ {0} /\ MaxCalls \in Nat \ {0} /\ MaxMishaps \in Nat
    /\ NoProfile \notin Profile /\ Default \in Profile
    /\ Drives \in [Profile -> {"on", "off", "none"}]

Step    == {"on", "dim", "off"}
TurnsOn == {"on", "dim"}

\* The constraint of an armed house (_apply_filter), and engine_enabled = False.
Blocker == {"none", "armed_away", "disabled"}

VARIABLES
    present,   \* the room is occupied
    light,     \* "on", "dim" or "off"
    by,        \* history: who changed the light last
    reaction,  \* the memory of the reaction
    muted,     \* the reaction is in _muted_reactions
    pending,   \* the state a pending apply of the last five seconds expects, or "none"
    calls,     \* Seq(Step), service calls the light has yet to carry out
    plans,     \* [Step -> Nat], filtered plans of evaluations that have yet to execute them
    recovery,  \* the runtime recovers from a power loss
    touched,   \* history: what residents of this visit did: a light of the active profile
               \* turned off, a light turned on while the reaction is active
    mishaps    \* history: what has disturbed the reaction

lightingVars ==
    <<present, light, by, reaction, muted, pending, calls, plans, recovery, touched, mishaps>>

\* The memory of a new reaction.  absence says which deadline of the two-step turn-off
\* has passed: none is set, none has passed, the dimming is due, the turn-off is due.
Forgetful ==
    [occupied |-> FALSE, gate |-> FALSE, applied |-> NoProfile, override |-> FALSE,
     hold |-> FALSE, absence |-> "none", dimmed |-> FALSE]

Reaction ==
    [occupied : BOOLEAN, gate : BOOLEAN, applied : Profile \cup {NoProfile},
     override : BOOLEAN, hold : BOOLEAN,
     absence : {"none", "early", "dim due", "off due"}, dimmed : BOOLEAN]

\* overtaken: a plan was made or executed before an older one had reached the light.
\* crossed: a resident used the light while a plan or a call was on its way.  late, ramp:
\* the light reported Heima's change after five seconds, or with another brightness.
\* forgotten: the turn-off was lost to a reload, to an engine that is disabled over a plan,
\* or to a resident who turned another light of the profile off meanwhile.
Mishap == {"overtaken", "crossed", "late", "ramp", "failed", "forgotten", "recovery"}

Suffers(what) ==
    /\ mishaps' = mishaps \cup what
    /\ Cardinality(mishaps') <= MaxMishaps

State(level) == IF level = "off" THEN "off" ELSE "on"
Planned      == \E step \in Step : plans[step] > 0

-----------------------------------------------------------------------------
(* The reaction, evaluate() *)

Cleared(r) == [r EXCEPT !.absence = "none", !.dimmed = FALSE]

\* Mutant: every evaluation of an occupied room ends an override and a hold.
Occupied_AlwaysReleases(r) ==
    [Cleared([r EXCEPT !.override = FALSE, !.hold = FALSE]) EXCEPT !.occupied = TRUE]

\* _on_occupied: entering the room ends an override and a hold.
Occupied(r) ==
    [Cleared(IF r.occupied THEN r
             ELSE [r EXCEPT !.override = FALSE, !.hold = FALSE, !.applied = NoProfile])
     EXCEPT !.occupied = TRUE]

\* Mutant: every evaluation of an empty room sets the deadlines.
Unoccupied_Restarts(r) ==
    [r EXCEPT !.occupied = FALSE, !.absence = "early", !.dimmed = FALSE]

\* _on_unoccupied: leaving the room sets the two deadlines.
Unoccupied(r) ==
    IF r.occupied THEN [r EXCEPT !.occupied = FALSE, !.absence = "early", !.dimmed = FALSE]
    ELSE r

\* _active_entity_steps: the step of the profile applied last.
ActiveStep(r) == Drives[IF r.applied = NoProfile THEN Default ELSE r.applied]

\* _active_profile_light_entities holds the light.
Managed(r) == ActiveStep(r) # "none"

\* _entity_steps_need_apply: the light, or another one, is not as the profile has it.
Deviates(profile, others) ==
    \/ others
    \/ Drives[profile] = "on" /\ light = "off"
    \/ Drives[profile] = "off" /\ light # "off"

\* _evaluate_occupied: house state and indoor light allow it (gate), no override, and the
\* profile or a light is not as it should be.
Fires(r, profile, others) ==
    /\ r.gate /\ ~r.override
    /\ ~(r.hold /\ r.applied # NoProfile)
    /\ r.applied # profile \/ Deviates(profile, others)

EvaluateOccupied(r, profile, others) ==
    IF Fires(r, profile, others)
    THEN [step |-> Drives[profile], memory |-> [r EXCEPT !.applied = profile]]
    ELSE [step |-> "none", memory |-> r]

\* _evaluate_absent: first dim the lights the active profile has on, at the next evaluation
\* turn all of its lights off.  A light of another profile is left as it is.
EvaluateAbsent(r) ==
    IF r.absence \in {"dim due", "off due"} /\ ~r.dimmed
    THEN [step |-> IF ActiveStep(r) = "on" THEN "dim" ELSE "none",
          memory |-> [r EXCEPT !.dimmed = TRUE]]
    ELSE IF r.absence = "off due"
    THEN [step |-> IF Managed(r) THEN "off" ELSE "none",
          memory |-> [Cleared(r) EXCEPT !.applied = NoProfile]]
    ELSE [step |-> "none", memory |-> r]

React(profile, gate, others) ==
    IF present
    THEN EvaluateOccupied([Occupied(reaction) EXCEPT !.gate = gate], profile, others)
    ELSE EvaluateAbsent(Unoccupied(reaction))

-----------------------------------------------------------------------------
(* Evaluations *)

\* What is left of a step after the filters, and after the check of engine_enabled.  The
\* hold helper of the room holds the room (_sync_lighting_explicit_holds), which is looked
\* up for a step without an entity only (held_reason_for_step): it blocks none of these.
Filtered(step, blocker) ==
    IF \/ blocker = "armed_away" /\ step \in TurnsOn
       \/ blocker = "disabled"
    THEN "none" ELSE step

\* async_evaluate up to the filtered plan.  A muted reaction is not evaluated, nor is any
\* during recovery (_dispatch_reactions): a deadline or a visit passes unseen.
EvaluateRoom(profile, gate, others, blocker) ==
    LET result == React(profile, gate, others)
        step   == Filtered(result.step, blocker) IN
    /\ ~muted /\ ~recovery
    /\ UNCHANGED <<present, light, by, muted, pending, calls, recovery>>
    /\ reaction' = result.memory
    /\ IF step = "none" THEN UNCHANGED plans
       ELSE /\ plans[step] < MaxPlans
            /\ plans' = [plans EXCEPT ![step] = @ + 1]
    /\ touched' = IF present /\ ~reaction.occupied THEN {} ELSE touched
    /\ Suffers((IF step # "none" /\ Planned THEN {"overtaken"} ELSE {})
          \cup (IF result.step # "none" /\ blocker = "disabled" THEN {"forgotten"} ELSE {}))

\* Mutant: the pending apply is registered after the call.
Execute_NotRegistered(step) ==
    /\ plans[step] > 0
    /\ Len(calls) < MaxCalls
    /\ calls' = Append(calls, step)
    /\ plans' = [plans EXCEPT ![step] = @ - 1]
    /\ Suffers(IF calls = <<>> THEN {} ELSE {"overtaken"})
    /\ UNCHANGED <<present, light, by, reaction, muted, pending, recovery, touched>>

\* execute_lighting_steps: the pending apply is registered, then the service is called,
\* which does not wait for the light.
Execute(step) ==
    /\ plans[step] > 0
    /\ Len(calls) < MaxCalls
    /\ pending' = IF recovery THEN pending ELSE State(step)
    /\ calls' = Append(calls, step)
    /\ plans' = [plans EXCEPT ![step] = @ - 1]
    /\ Suffers(IF calls = <<>> THEN {} ELSE {"overtaken"})
    /\ UNCHANGED <<present, light, by, reaction, muted, recovery, touched>>

-----------------------------------------------------------------------------
(* Changes of the light *)

\* handle_external_light_change, of a light of the active profile or of another one.
External(r, state, managed) ==
    IF state = "on" THEN [r EXCEPT !.hold = r.hold \/ (r.occupied /\ r.gate)]
    ELSE IF managed THEN [Cleared(r) EXCEPT !.override = TRUE]
    ELSE r

\* What a resident who turns a light on or off has done in this visit.
Touched(state, managed) ==
    IF ~recovery /\ (IF state = "on" THEN reaction.occupied /\ reaction.gate ELSE managed)
    THEN touched \cup {state} ELSE touched

\* handle_smart_lighting_state_changed: the first change of the light consumes the
\* pending apply, matching or not.  A change of the brightness alone is not seen.
Changes(level, matches) ==
    LET owned == pending = State(level) /\ matches IN
    /\ light' = level
    /\ IF State(level) = State(light)
       THEN UNCHANGED <<pending, reaction>>
       ELSE /\ pending' = "none"
            /\ reaction' = IF owned \/ recovery THEN reaction
                           ELSE External(reaction, State(level), Managed(reaction))

\* Heima's oldest call reaches the light.
CallReaches(matches) ==
    /\ calls # <<>>
    /\ Changes(Head(calls), matches)
    /\ by' = IF State(Head(calls)) = State(light) THEN by ELSE "heima"
    /\ calls' = Tail(calls)
    /\ Suffers(IF matches THEN {} ELSE {"ramp"})
    /\ UNCHANGED <<present, muted, plans, recovery, touched>>

CallFails ==
    /\ calls # <<>>
    /\ calls' = Tail(calls)
    /\ Suffers({"failed"})
    /\ UNCHANGED <<present, light, by, reaction, muted, pending, plans, recovery, touched>>

HumanSwitches ==
    LET level == IF light = "off" THEN "on" ELSE "off" IN
    /\ Changes(level, TRUE)
    /\ by' = "human"
    /\ touched' = Touched(level, Managed(reaction))
    /\ Suffers(IF Planned \/ calls # <<>> THEN {"crossed"} ELSE {})
    /\ UNCHANGED <<present, muted, calls, plans, recovery>>

\* A resident uses another light the reaction tracks, of the active profile or not.
HumanSwitchesOther(state, managed) ==
    /\ ~recovery
    /\ reaction' = External(reaction, state, managed)
    /\ touched' = Touched(state, managed)
    /\ Suffers(IF state = "off" /\ managed /\ reaction.absence # "none" THEN {"forgotten"} ELSE {})
    /\ UNCHANGED <<present, light, by, muted, pending, calls, plans, recovery>>

-----------------------------------------------------------------------------
(* Time, occupancy, recovery and reloads *)

PresenceChanges ==
    /\ present' = ~present
    /\ UNCHANGED <<light, by, reaction, muted, pending, calls, plans, recovery, touched, mishaps>>

DeadlinePasses ==
    /\ \/ reaction.absence = "early" /\ reaction' = [reaction EXCEPT !.absence = "dim due"]
       \/ reaction.absence = "dim due" /\ reaction' = [reaction EXCEPT !.absence = "off due"]
    /\ UNCHANGED <<present, light, by, muted, pending, calls, plans, recovery, touched, mishaps>>

\* The window of an override is over.  evaluate() clears it before it reads it.
OverrideExpires ==
    /\ reaction.override
    /\ reaction' = [reaction EXCEPT !.override = FALSE]
    /\ touched' = touched \ {"off"}
    /\ UNCHANGED <<present, light, by, muted, pending, calls, plans, recovery, mishaps>>

\* Five seconds have passed since the call: a pending apply no longer matches a change.
PendingExpires ==
    /\ pending # "none"
    /\ pending' = "none"
    /\ Suffers(IF calls # <<>> THEN {"late"} ELSE {})
    /\ UNCHANGED <<present, light, by, reaction, muted, calls, plans, recovery, touched>>

\* _compute_recovery_context finds that a recovery has begun or ended.
RecoveryChanges ==
    /\ recovery' = ~recovery
    /\ Suffers({"recovery"})
    /\ UNCHANGED <<present, light, by, reaction, muted, pending, calls, plans, touched>>

\* heima.command mute_reaction and unmute_reaction.
MuteChanges ==
    /\ muted' = ~muted
    /\ UNCHANGED <<present, light, by, reaction, pending, calls, plans, recovery, touched, mishaps>>

\* A reload builds a new reaction and reads the mute list of the options
\* (_rebuild_configured_reactions); a reset of the learning data makes the reaction forget
\* and leaves it muted or not (reset_learning_state).
Forget ==
    /\ Suffers({"forgotten"})
    /\ reaction' = Forgetful
    /\ muted' \in BOOLEAN
    /\ touched' = {}
    /\ UNCHANGED <<present, light, by, pending, calls, plans, recovery>>

-----------------------------------------------------------------------------

LightingInit ==
    /\ present = FALSE /\ light = "off" /\ by = "human"
    /\ reaction = Forgetful /\ muted = FALSE
    /\ pending = "none" /\ calls = <<>>
    /\ plans = [step \in Step |-> 0]
    /\ recovery = FALSE
    /\ touched = {} /\ mishaps = {}

Evaluates ==
    \E profile \in Profile, gate, others \in BOOLEAN, blocker \in Blocker :
        EvaluateRoom(profile, gate, others, blocker)

LightingNext ==
    \/ Evaluates
    \/ \E step \in Step : Execute(step)
    \/ \E matches \in BOOLEAN : CallReaches(matches)
    \/ CallFails \/ HumanSwitches
    \/ \E state \in {"on", "off"}, managed \in BOOLEAN : HumanSwitchesOther(state, managed)
    \/ PresenceChanges \/ DeadlinePasses \/ OverrideExpires \/ PendingExpires
    \/ RecoveryChanges \/ MuteChanges \/ Forget

\* A deadline that has passed and a change of the occupancy are evaluated (the jobs of
\* the reaction, and EvaluationTrigger), as long as the reaction is not muted; plans are
\* executed and the light obeys.
Due == reaction.absence \in {"dim due", "off due"} \/ reaction.occupied # present

LightingFairness ==
    /\ WF_lightingVars(Due /\ Evaluates)
    /\ \A step \in Step : WF_lightingVars(Execute(step))
    /\ WF_lightingVars(\E matches \in BOOLEAN : CallReaches(matches))
    /\ WF_lightingVars(DeadlinePasses)

LightingSpec == LightingInit /\ [][LightingNext]_lightingVars /\ LightingFairness

-----------------------------------------------------------------------------
(* Properties *)

\* Types of the room, the reaction and the plans.
LightingTypeOK ==
    /\ present \in BOOLEAN /\ light \in Step /\ by \in {"human", "heima"}
    /\ reaction \in Reaction /\ muted \in BOOLEAN
    /\ pending \in {"none", "on", "off"}
    /\ calls \in Seq(Step) /\ Len(calls) <= MaxCalls
    /\ plans \in [Step -> 0..MaxPlans]
    /\ recovery \in BOOLEAN
    /\ touched \subseteq {"on", "off"}
    /\ mishaps \subseteq Mishap

\* Heima does not take its own service calls for a resident's: an override or a hold
\* rests on something a resident did in this visit, unless changes crossed at the light,
\* the light was late or dimmed up, or the runtime recovered from a power loss.
OwnChangesNotClaimed ==
    mishaps \cap {"overtaken", "crossed", "late", "ramp", "recovery"} = {} =>
        /\ reaction.override => "off" \in touched
        /\ reaction.hold => "on" \in touched

\* While the room is occupied, a resident who turned a light of the active profile off keeps
\* the light off until the override ends, and one who turned a light on while the reaction
\* was active keeps the light as it is, unless Heima has yet to apply its first profile of
\* the visit.
HumanRespected ==
    [][ /\ mishaps \cap {"overtaken", "crossed", "late", "failed", "recovery"} = {}
        /\ present /\ reaction.occupied
        /\ plans'["on"] > plans["on"]
        => /\ "off" \notin touched
           /\ "on" \in touched => reaction.applied = NoProfile ]_lightingVars

\* A light of the profile applied last that Heima turned on does not stay on in a room that
\* was left, whatever blocks the dimming and however short the visit: it is turned off, or
\* the room is entered again, the reaction is muted, a resident uses the light, or something
\* disturbed the reaction.  One that only an earlier profile of the visit used is not covered.
RoomGoesDark ==
    (/\ light # "off" /\ by = "heima" /\ Managed(reaction)
     /\ ~present /\ (reaction.occupied \/ reaction.absence # "none"))
        ~> (light = "off" \/ present \/ muted \/ by = "human" \/ mishaps # {})

=============================================================================
