----------------------------- MODULE HouseState -----------------------------
(***************************************************************************)
(* The house state (runtime/domains/house_state.py): candidates with       *)
(* timers, the machine of the home substates, the override of the service  *)
(* heima.set_mode, the recovery guard and the rechecks that the engine     *)
(* schedules (runtime/engine.py).                                          *)
(*                                                                         *)
(* Signals are read by evaluations only: what changes between two of them  *)
(* is never seen.  A candidate's timer is its age in ticks, counted up to  *)
(* the longest threshold.  The domain looks at nothing but the state it    *)
(* resolved before, the candidates and the signals.                        *)
(***************************************************************************)
EXTENDS Integers

CONSTANTS
    SleepEnter, SleepExit,      \* sleep_enter_min, sleep_exit_min
    WorkEnter, WorkGrace,       \* work_enter_min, work_activity_grace_min
    RelaxEnter, RelaxExit,      \* relax_enter_min, relax_exit_min
    Horizon,                    \* the longest of them: older candidates are all alike
    MediaOff,                   \* sleep_requires_media_off
    ActivityRequired,           \* work_activity_required
    Signals,                    \* what evaluations read, a subset of Signal
    Override,                   \* modes the service sets
    Checkpoint,                 \* house states a checkpoint may hold
    NoJob, NoMode

Threshold == {SleepEnter, SleepExit, WorkEnter, WorkGrace, RelaxEnter, RelaxExit}
Substate  == {"sleeping", "relax", "working", "home"}
Hard      == {"vacation", "guest", "away"}
House     == Substate \cup Hard \cup {"unknown"}
Candidate == {"sleep", "wake", "work", "relax"}

\* media: an entity of media_active_entities plays; roomMedia: what counts for relax, the
\* occupied rooms' media where their contexts are known; workBase: work window and workday;
\* charged: enough chargers; learned: the approved signal of the inference; guarded: the
\* runtime recovers and no room is occupied.
Signal ==
    [home : BOOLEAN, vacation : BOOLEAN, guest : BOOLEAN, window : BOOLEAN, relaxMode : BOOLEAN,
     workBase : BOOLEAN, activity : BOOLEAN, media : BOOLEAN, roomMedia : BOOLEAN,
     charged : BOOLEAN, learned : Substate \cup {NoMode}, guarded : BOOLEAN]

ASSUME HouseStateAssumption ==
    /\ Threshold \subseteq 0..Horizon /\ Horizon \in Nat
    /\ {MediaOff, ActivityRequired} \subseteq BOOLEAN
    /\ Signals \subseteq Signal
    /\ Override \subseteq House \ {"unknown"}
    /\ Checkpoint \subseteq House
    /\ NoJob \notin Nat /\ NoMode \notin House

VARIABLES
    house,      \* sensor.heima_house_state
    override,   \* _house_state_override
    known,      \* the candidates have been evaluated since the last reset
    age,        \* [Candidate -> ticks since the candidate changed]
    seen,       \* the evidence of the last evaluation
    job,        \* ticks until the recheck that the last evaluation scheduled, or NoJob
    current,    \* no override and no reload since the last evaluation
    left        \* history: states left since the evidence or the override changed

vars == <<house, override, known, age, seen, job, current, left>>

-----------------------------------------------------------------------------
(* _build_candidate_inputs *)

SleepCandidate(s) == s.home /\ s.window /\ (MediaOff => ~s.media) /\ s.charged
WakeCandidate(s)  == s.home /\ (~s.window \/ s.media)
WorkCandidate(s)  == s.home /\ s.workBase /\ (ActivityRequired => s.activity)
RelaxCandidate(s) == s.home /\ (s.relaxMode \/ s.roomMedia)

\* What the resolution tells apart: on are the active candidates, explicit says that relax
\* rests on relax_mode, paused that only the required work activity is missing.
Evidence(s) ==
    [hard |-> CASE s.vacation -> "vacation"
                [] ~s.vacation /\ s.guest -> "guest"
                [] ~s.vacation /\ ~s.guest /\ ~s.home -> "away"
                [] OTHER -> NoMode,
     on |-> {c \in Candidate :
                \/ c = "sleep" /\ SleepCandidate(s)
                \/ c = "wake"  /\ WakeCandidate(s)
                \/ c = "work"  /\ WorkCandidate(s)
                \/ c = "relax" /\ RelaxCandidate(s)},
     explicit |-> s.home /\ s.relaxMode,
     paused   |-> s.home /\ s.workBase /\ ActivityRequired /\ ~s.activity,
     learned  |-> s.learned,
     guarded  |-> s.guarded /\ ~s.home]

AnyEvidence == {Evidence(s) : s \in Signals}

-----------------------------------------------------------------------------
(* _resolve_home_substate *)

\* The result of an evaluation: the state, and the ticks until its recheck.
Keep(state)       == [state |-> state, job |-> NoJob]
Until(state, wait) == [state |-> state, job |-> IF wait > 0 THEN wait ELSE NoJob]

\* Mutant: only a house that already relaxes is asked whether it works.
Relaxing_Preempted(e, ages, now) ==
    LET busy == "work" \in e.on /\ ages["work"] >= WorkEnter /\ ActivityRequired IN
    IF now = "relax" /\ ~e.explicit /\ busy THEN Keep("working")
    ELSE IF e.explicit \/ now = "relax" \/ ages["relax"] >= RelaxEnter THEN Keep("relax")
    ELSE Until("home", RelaxEnter - ages["relax"])

\* The relax candidate is active.  Confirmed work activity prevails over passive media.
Relaxing(e, ages, now) ==
    LET busy == "work" \in e.on /\ ages["work"] >= WorkEnter /\ ActivityRequired IN
    IF ~e.explicit /\ busy THEN Keep("working")
    ELSE IF e.explicit \/ now = "relax" \/ ages["relax"] >= RelaxEnter THEN Keep("relax")
    ELSE Until("home", RelaxEnter - ages["relax"])

Working(ages, now) ==
    IF now = "working" \/ ages["work"] >= WorkEnter THEN Keep("working")
    ELSE Until("home", WorkEnter - ages["work"])

\* Awake, or never asleep: a sleep candidate comes first, confirmed or not.
Awake(e, ages, now) ==
    IF "sleep" \in e.on
    THEN IF ages["sleep"] >= SleepEnter THEN Keep("sleeping")
         ELSE Until("home", SleepEnter - ages["sleep"])
    ELSE IF "relax" \in e.on THEN Relaxing(e, ages, now)
    ELSE IF now = "relax" /\ ages["relax"] < RelaxExit
    THEN Until("relax", RelaxExit - ages["relax"])
    ELSE IF "work" \in e.on THEN Working(ages, now)
    ELSE IF now = "working" /\ e.paused /\ ages["work"] < WorkGrace
    THEN Until("working", WorkGrace - ages["work"])
    ELSE Keep(IF e.learned # NoMode THEN e.learned ELSE "home")

\* Mutant: the end of a sleep is not rechecked.
HomeSubstate_NoWakeJob(e, ages, now) ==
    IF now = "sleeping" /\ ("wake" \notin e.on \/ ages["wake"] < SleepExit)
    THEN Keep("sleeping")
    ELSE Awake(e, ages, now)

\* The house sleeps until the wake candidate is confirmed.
HomeSubstate(e, ages, now) ==
    IF now = "sleeping" /\ ("wake" \notin e.on \/ ages["wake"] < SleepExit)
    THEN IF "wake" \in e.on THEN Until("sleeping", SleepExit - ages["wake"]) ELSE Keep("sleeping")
    ELSE Awake(e, ages, now)

\* compute(): override, hard states, home substates.
Resolve(e, mode, ages, now) ==
    IF mode # NoMode THEN Keep(mode)
    ELSE IF e.hard # NoMode THEN Keep(e.hard)
    ELSE HomeSubstate(e, ages, IF now \in Substate THEN now ELSE "home")

-----------------------------------------------------------------------------
(* Evaluations *)

\* _recovery_guard_house_state: no "away" from silent sensors during a recovery.
Guarded(e, state, now) ==
    IF state # "away" \/ ~e.guarded THEN {state}
    ELSE IF now \notin {"unknown", "away"} THEN {now}
    ELSE {IF c = "away" THEN "unknown" ELSE c : c \in Checkpoint \cup {"unknown"}}

\* Mutant: every evaluation restarts the timers.
Ages_Restarted(e) == [c \in Candidate |-> 0]

\* _update_candidate_trace: the timer of a candidate restarts when the candidate changes.
Ages(e) ==
    [c \in Candidate |-> IF known /\ (c \in e.on <=> c \in seen.on) THEN age[c] ELSE 0]

Evaluate(e) ==
    LET result == Resolve(e, override, Ages(e), house) IN
    /\ age' = Ages(e)
    /\ known' = TRUE /\ current' = TRUE
    /\ seen' = e
    /\ job' = result.job
    /\ \E state \in Guarded(e, result.state, house) : house' = state
    /\ left' = IF ~(known /\ current /\ e = seen) THEN {}
               ELSE IF house' = house THEN left ELSE left \cup {house}
    /\ UNCHANGED override

Tick ==
    /\ age' = [c \in Candidate |-> IF age[c] < Horizon THEN age[c] + 1 ELSE age[c]]
    /\ job' = IF job = NoJob \/ job = 0 THEN job ELSE job - 1
    /\ UNCHANGED <<house, override, known, seen, current, left>>

\* set_override: clearing names the mode that is set.  The service evaluates afterwards.
SetMode(mode, enabled) ==
    /\ enabled <=> override # mode
    /\ override' = IF enabled THEN mode ELSE NoMode
    /\ current' = FALSE /\ left' = {}
    /\ UNCHANGED <<house, known, age, seen, job>>

\* reset() in a reload, which then evaluates; a full reload also forgets the house state.
Reload(full) ==
    /\ override' = NoMode
    /\ known' = FALSE /\ current' = FALSE /\ left' = {}
    /\ house' = IF full THEN "unknown" ELSE house
    /\ UNCHANGED <<age, seen, job>>

-----------------------------------------------------------------------------

Init ==
    /\ house = "unknown" /\ override = NoMode
    /\ known = FALSE /\ current = FALSE
    /\ age = [c \in Candidate |-> 0]
    /\ seen \in AnyEvidence
    /\ job = NoJob
    /\ left = {}

Next ==
    \/ \E e \in AnyEvidence : Evaluate(e)
    \/ Tick
    \/ \E mode \in Override, enabled \in BOOLEAN : SetMode(mode, enabled)
    \/ \E full \in BOOLEAN : Reload(full)

\* Time passes, and the house is evaluated again and again (the fallback, and the jobs),
\* also when no signal changes.
Fairness == WF_vars(Tick) /\ WF_vars(Evaluate(seen))

Spec == Init /\ [][Next]_vars /\ Fairness

-----------------------------------------------------------------------------
(* Properties *)

\* Types of the domain's memory and of the recheck.
TypeOK ==
    /\ house \in House /\ override \in Override \cup {NoMode}
    /\ known \in BOOLEAN /\ current \in BOOLEAN
    /\ age \in [Candidate -> 0..Horizon]
    /\ seen \in AnyEvidence
    /\ job \in 0..Horizon \cup {NoJob}
    /\ left \subseteq House

Aged(ages, ticks) ==
    [c \in Candidate |-> IF ages[c] + ticks < Horizon THEN ages[c] + ticks ELSE Horizon]

\* What the house may be if nothing but time passes.
Later(e, mode, ages, ticks, now) ==
    Guarded(e, Resolve(e, mode, Aged(ages, ticks), now).state, now)

\* Passive media plays while the work candidate waits to be confirmed.
WorkBehindMedia ==
    house \in {"home", "relax"} /\ {"work", "relax"} \subseteq seen.on /\ ~seen.explicit

\* No decision waits for the fallback: if the passing of time alone will change the house
\* state, a recheck is scheduled for that time at the latest; but nothing is scheduled for
\* work that will preempt passive media.
RechecksArmed ==
    current /\ ~WorkBehindMedia =>
        \A ticks \in 1..Horizon :
            house \notin Later(seen, override, age, ticks, house)
                => job # NoJob /\ job <= ticks

\* The hysteresis does not bounce: while the evidence stays as it is, the house does not
\* come back to a state it has left, where sleeping requires that no media plays.
NoBounce == MediaOff => house \notin left

\* What the priorities of the specification allow for stable evidence.
Settled ==
    LET awake == CASE "sleep" \in seen.on -> "sleeping"
                   [] "sleep" \notin seen.on /\ seen.explicit -> "relax"
                   [] "sleep" \notin seen.on /\ ~seen.explicit ->
                        IF ActivityRequired /\ "work" \in seen.on THEN "working"
                        ELSE IF "relax" \in seen.on THEN "relax"
                        ELSE IF "work" \in seen.on THEN "working"
                        ELSE IF seen.learned # NoMode THEN seen.learned ELSE "home" IN
    IF override # NoMode THEN {override}
    ELSE IF seen.hard # NoMode THEN {seen.hard}
    ELSE IF seen.on \cap {"sleep", "wake"} = {} THEN {awake, "sleeping"}
    ELSE {awake}

Quiet == seen' = seen /\ override' = override /\ (known => known')

\* Whatever happened before, once the signals stay as they are the house takes the state
\* of the highest priority that they support, and keeps it.
SettlesByPriority ==
    <>[][Quiet]_vars => <>[](house \in Settled \/ seen.guarded)

=============================================================================
