---------------------- MODULE HouseAndLighting_proofs -----------------------
(***************************************************************************)
(* Theorems about HouseState, for any thresholds, signals and options: the *)
(* types, that no change of the house state that time alone brings about   *)
(* waits for the fallback, and that time alone does not bring back a state *)
(* that the house has left.  Then theorems about SmartLighting, for any    *)
(* profiles and any number of plans, calls and mishaps: the types, that    *)
(* the reaction takes no call of its own for a resident's, and that a      *)
(* resident who switched the light keeps it so.                            *)
(***************************************************************************)
EXTENDS HouseState, SmartLighting, SequenceTheorems, TLAPS

EvidenceType ==
    [hard : Hard \cup {NoMode}, on : SUBSET Candidate, explicit : BOOLEAN, paused : BOOLEAN,
     learned : Substate \cup {NoMode}, guarded : BOOLEAN]

Timers == [Candidate -> 0..Horizon]

\* What evaluations make of the signals is well typed.
LEMMA EvidenceTyped == AnyEvidence \subseteq EvidenceType
<1> SUFFICES ASSUME NEW s \in Signals PROVE Evidence(s) \in EvidenceType
  BY DEF AnyEvidence
<1>1. s \in Signal
  BY HouseStateAssumption
<1> QED
  BY <1>1 DEF Evidence, EvidenceType, Signal, Hard

\* The result of the home substates: a substate, and a recheck within the horizon.
LEMMA HomeSubstateTyped ==
    ASSUME NEW e \in EvidenceType, NEW ages \in Timers, NEW now \in Substate
    PROVE  LET r == HomeSubstate(e, ages, now) IN
           r.state \in Substate /\ r.job \in 1..Horizon \cup {NoJob}
<1>1. \A c \in Candidate : ages[c] \in 0..Horizon
  BY DEF Timers
<1>2. Horizon \in Nat /\ \A t \in Threshold : t \in 0..Horizon
  BY HouseStateAssumption
<1> QED
  BY <1>1, <1>2, HouseStateAssumption
  DEF HomeSubstate, Awake, Relaxing, Working, Until, Keep, EvidenceType, Substate, Candidate,
      Threshold

\* A wait that has not ended is a recheck of its own length.
LEMMA Waiting ==
    ASSUME NEW t \in Nat, NEW a \in Nat, a < t
    PROVE  t - a \in Nat /\ t - a # NoJob /\ \A ticks \in Nat : ~(a + ticks < t) => t - a <= ticks
BY HouseStateAssumption

\* While only time passes, the home substate that was resolved changes when its recheck is
\* due and not before, unless work waits behind passive media.
LEMMA HomeSubstateArmed ==
    ASSUME NEW e \in EvidenceType, NEW ages \in Timers, NEW later \in Timers, NEW ticks \in Nat,
           \A c \in Candidate :
               later[c] = IF ages[c] + ticks < Horizon THEN ages[c] + ticks ELSE Horizon,
           NEW now \in Substate,
           ~ /\ HomeSubstate(e, ages, now).state \in {"home", "relax"}
             /\ {"work", "relax"} \subseteq e.on /\ ~e.explicit,
           HomeSubstate(e, later, HomeSubstate(e, ages, now).state).state
               # HomeSubstate(e, ages, now).state
    PROVE  LET r == HomeSubstate(e, ages, now) IN r.job # NoJob /\ r.job <= ticks
<1>1. \A c \in Candidate : ages[c] \in 0..Horizon
  BY DEF Timers
<1>2. Horizon \in Nat /\ \A t \in Threshold : t \in 0..Horizon
  BY HouseStateAssumption
<1>3. /\ ages["sleep"] \in Nat /\ ages["wake"] \in Nat
      /\ ages["work"] \in Nat /\ ages["relax"] \in Nat
      /\ later["sleep"] >= SleepEnter <=> ages["sleep"] + ticks >= SleepEnter
      /\ later["wake"] < SleepExit <=> ages["wake"] + ticks < SleepExit
      /\ later["work"] >= WorkEnter <=> ages["work"] + ticks >= WorkEnter
      /\ later["work"] < WorkGrace <=> ages["work"] + ticks < WorkGrace
      /\ later["relax"] >= RelaxEnter <=> ages["relax"] + ticks >= RelaxEnter
      /\ later["relax"] < RelaxExit <=> ages["relax"] + ticks < RelaxExit
      /\ SleepEnter \in Nat /\ SleepExit \in Nat /\ WorkEnter \in Nat /\ WorkGrace \in Nat
      /\ RelaxEnter \in Nat /\ RelaxExit \in Nat
  BY <1>1, <1>2 DEF Candidate, Threshold
<1> DEFINE r == HomeSubstate(e, ages, now)
           s == HomeSubstate(e, later, r.state)
<1> SUFFICES ASSUME s.state # r.state,
                    ~(/\ r.state \in {"home", "relax"}
                      /\ {"work", "relax"} \subseteq e.on /\ ~e.explicit)
             PROVE  r.job # NoJob /\ r.job <= ticks
  OBVIOUS
<1>4. NoJob \notin Nat /\ e.learned \in Substate \cup {NoMode} /\ NoMode \notin House
  BY HouseStateAssumption DEF EvidenceType
<1>5. CASE now = "sleeping" /\ "wake" \notin e.on
  <2>1. r.state = "sleeping" /\ s.state = "sleeping"
    BY <1>5 DEF HomeSubstate, Keep
  <2> QED
    BY <2>1
<1>6. CASE now = "sleeping" /\ "wake" \in e.on /\ ages["wake"] < SleepExit
  <2>1. r = [state |-> "sleeping", job |-> SleepExit - ages["wake"]]
    BY <1>3, <1>6 DEF HomeSubstate, Until
  <2>2. ages["wake"] + ticks < SleepExit => s.state = "sleeping"
    BY <1>3, <1>6, <2>1 DEF HomeSubstate, Until
  <2>3. s.state # r.state
    OBVIOUS
  <2> HIDE DEF r, s
  <2> QED
    BY <1>3, <1>6, <2>1, <2>2, <2>3, Waiting
<1>7. CASE ~(now = "sleeping" /\ ("wake" \notin e.on \/ ages["wake"] < SleepExit))
  <2>1. r = Awake(e, ages, now)
    BY <1>7 DEF HomeSubstate
  <2>2. \/ s = Awake(e, later, r.state)
        \/ r.state = "sleeping" /\ s.state = "sleeping"
    BY DEF HomeSubstate, Until, Keep
  <2>3. SUFFICES ASSUME s = Awake(e, later, r.state)
        PROVE r.job # NoJob /\ r.job <= ticks
    BY <2>2
  <2>4. CASE "sleep" \in e.on
    <3>1. CASE ages["sleep"] >= SleepEnter
      BY <1>3, <2>1, <2>3, <2>4, <3>1 DEF Awake, Keep
    <3>2. CASE ages["sleep"] < SleepEnter
      BY <1>3, <1>4, <2>1, <2>3, <2>4, <3>2, Waiting DEF Awake, Keep, Until
    <3> QED
      BY <1>3, <3>1, <3>2
  <2>5. CASE "sleep" \notin e.on /\ "relax" \in e.on
    <3>1. r = Relaxing(e, ages, now) /\ s = Relaxing(e, later, r.state)
      BY <2>1, <2>3, <2>5 DEF Awake
    <3> HIDE DEF r, s
    <3>2. CASE e.explicit
      BY <3>1, <3>2 DEF Relaxing, Keep
    <3>3. CASE ~e.explicit /\ "work" \in e.on
      BY <1>3, <2>5, <3>1, <3>3 DEF Relaxing, Keep, Until
    <3>4. CASE ~e.explicit /\ "work" \notin e.on
      BY <1>3, <1>4, <2>5, <3>1, <3>4, Waiting DEF Relaxing, Keep, Until
    <3> QED
      BY <3>2, <3>3, <3>4
  <2>6. CASE /\ "sleep" \notin e.on /\ "relax" \notin e.on
             /\ now = "relax" /\ ages["relax"] < RelaxExit
    <3>1. r = [state |-> "relax", job |-> RelaxExit - ages["relax"]]
      BY <1>3, <2>1, <2>6 DEF Awake, Until
    <3>2. ages["relax"] + ticks < RelaxExit => s.state = "relax"
      BY <1>3, <2>3, <2>6, <3>1 DEF Awake, Until
    <3> HIDE DEF r, s
    <3> QED
      BY <1>3, <2>6, <3>1, <3>2, Waiting
  <2>7. CASE /\ "sleep" \notin e.on /\ "relax" \notin e.on /\ "work" \in e.on
             /\ ~(now = "relax" /\ ages["relax"] < RelaxExit)
    <3>1. r = Working(ages, now)
      BY <2>1, <2>7 DEF Awake
    <3>2. r.state \in {"working", "home"}
      BY <3>1 DEF Working, Keep, Until
    <3>3. s = Working(later, r.state)
      BY <2>3, <2>7, <3>2 DEF Awake
    <3> HIDE DEF r, s
    <3> QED
      BY <1>3, <1>4, <3>1, <3>3, Waiting DEF Working, Keep, Until
  <2>8. CASE /\ "sleep" \notin e.on /\ "relax" \notin e.on /\ "work" \notin e.on
             /\ ~(now = "relax" /\ ages["relax"] < RelaxExit)
    <3>1. CASE now = "working" /\ e.paused /\ ages["work"] < WorkGrace
      <4>1. r = [state |-> "working", job |-> WorkGrace - ages["work"]]
        BY <1>3, <2>1, <2>8, <3>1 DEF Awake, Until
      <4>2. ages["work"] + ticks < WorkGrace => s.state = "working"
        BY <1>3, <2>3, <2>8, <3>1, <4>1 DEF Awake, Until
      <4> QED
        BY <1>3, <3>1, <4>1, <4>2, Waiting
    <3>2. CASE ~(now = "working" /\ e.paused /\ ages["work"] < WorkGrace)
      <4>1. r = Keep(IF e.learned # NoMode THEN e.learned ELSE "home")
        BY <2>1, <2>8, <3>2 DEF Awake
      <4>2. s.state \in {r.state, IF e.learned # NoMode THEN e.learned ELSE "home"}
        BY <2>3, <2>8 DEF Awake, Keep, Until
      <4> QED
        BY <4>1, <4>2 DEF Keep
    <3> QED
      BY <3>1, <3>2
  <2> QED
    BY <2>4, <2>5, <2>6, <2>7, <2>8
<1> QED
  BY <1>3, <1>5, <1>6, <1>7

-----------------------------------------------------------------------------
(* Types *)

LEMMA ResolveTyped ==
    ASSUME NEW e \in EvidenceType, NEW ages \in Timers, NEW mode \in Override \cup {NoMode},
           NEW now \in House
    PROVE  LET r == Resolve(e, mode, ages, now) IN
           r.state \in House /\ r.job \in 1..Horizon \cup {NoJob}
<1>1. CASE mode # NoMode \/ e.hard # NoMode
  BY <1>1, HouseStateAssumption DEF Resolve, Keep, EvidenceType, House
<1>2. CASE mode = NoMode /\ e.hard = NoMode
  BY <1>2, HomeSubstateTyped DEF Resolve, House, Substate
<1> QED
  BY <1>1, <1>2

LEMMA GuardedTyped ==
    ASSUME NEW e, NEW state \in House, NEW now \in House
    PROVE  Guarded(e, state, now) \subseteq House
BY HouseStateAssumption DEF Guarded, House

LEMMA AgesTyped == ASSUME TypeOK, NEW e PROVE Ages(e) \in Timers
<1>1. age \in Timers /\ 0 \in 0..Horizon
  BY HouseStateAssumption DEF TypeOK, Timers
<1> QED
  BY <1>1 DEF Ages, Timers

LEMMA AgedTyped == ASSUME NEW ages \in Timers, NEW ticks \in Nat PROVE Aged(ages, ticks) \in Timers
<1>1. Horizon \in Nat /\ \A c \in Candidate : ages[c] \in 0..Horizon
  BY HouseStateAssumption DEF Timers
<1>2. \A c \in Candidate :
        (IF ages[c] + ticks < Horizon THEN ages[c] + ticks ELSE Horizon) \in 0..Horizon
  BY <1>1
<1> QED
  BY <1>2 DEF Aged, Timers

LEMMA TypeInit == Init => TypeOK
<1> SUFFICES ASSUME Init PROVE TypeOK
  OBVIOUS
<1>1. 0 \in 0..Horizon
  BY HouseStateAssumption
<1>2. age \in [Candidate -> 0..Horizon]
  BY <1>1 DEF Init
<1> QED
  BY <1>2 DEF Init, TypeOK, House

LEMMA TypeStep == TypeOK /\ [Next]_vars => TypeOK'
<1> SUFFICES ASSUME TypeOK, [Next]_vars PROVE TypeOK'
  OBVIOUS
<1>1. ASSUME NEW e \in AnyEvidence, Evaluate(e) PROVE TypeOK'
  <2> DEFINE r == Resolve(e, override, Ages(e), house)
  <2>1. r.state \in House /\ r.job \in 1..Horizon \cup {NoJob}
    BY AgesTyped, EvidenceTyped, ResolveTyped DEF TypeOK
  <2>2. house' \in House
    BY <1>1, <2>1, GuardedTyped DEF Evaluate, TypeOK
  <2>3. age' \in [Candidate -> 0..Horizon]
    BY <1>1, AgesTyped DEF Evaluate, Timers
  <2>4. job' \in 0..Horizon \cup {NoJob}
    BY <1>1, <2>1, HouseStateAssumption DEF Evaluate
  <2>5. left' \subseteq House
    BY <1>1 DEF Evaluate, TypeOK
  <2> QED
    BY <1>1, <2>2, <2>3, <2>4, <2>5 DEF Evaluate, TypeOK
<1>2. CASE Tick
  <2>1. age' \in [Candidate -> 0..Horizon] /\ job' \in 0..Horizon \cup {NoJob}
    BY <1>2, HouseStateAssumption DEF Tick, TypeOK
  <2> QED
    BY <1>2, <2>1 DEF Tick, TypeOK
<1>3. ASSUME NEW mode \in Override, NEW enabled \in BOOLEAN, SetMode(mode, enabled) PROVE TypeOK'
  BY <1>3 DEF SetMode, TypeOK
<1>4. ASSUME NEW full \in BOOLEAN, Reload(full) PROVE TypeOK'
  BY <1>4 DEF Reload, TypeOK, House
<1>5. CASE UNCHANGED vars
  BY <1>5 DEF vars, TypeOK
<1> QED
  BY <1>1, <1>2, <1>3, <1>4, <1>5 DEF Next

\* Every reachable state of the domain is well typed.
THEOREM TypeCorrect == Spec => []TypeOK
BY TypeInit, TypeStep, PTL DEF Spec

-----------------------------------------------------------------------------
(* Rechecks *)

\* What the recovery guard has let pass, it lets pass again.
LEMMA GuardedStable ==
    ASSUME NEW e, NEW state, NEW now, NEW next \in Guarded(e, state, now)
    PROVE  next \in Guarded(e, state, next)
BY DEF Guarded

\* A home substate is not guarded.
LEMMA SubstateUnguarded ==
    ASSUME NEW e, NEW state \in Substate, NEW now
    PROVE  Guarded(e, state, now) = {state}
BY DEF Guarded, Substate

\* An evaluation schedules the recheck of what it has resolved.
LEMMA EvaluateArms ==
    ASSUME TypeOK, NEW e \in AnyEvidence, Evaluate(e)
    PROVE  RechecksArmed'
<1> DEFINE r == Resolve(e, override, Ages(e), house)
<1>1. /\ age' = Ages(e) /\ seen' = e /\ override' = override /\ job' = r.job
      /\ house' \in Guarded(e, r.state, house)
  BY DEF Evaluate
<1>2. e \in EvidenceType /\ Ages(e) \in Timers
  BY AgesTyped, EvidenceTyped
<1> SUFFICES ASSUME ~WorkBehindMedia', NEW ticks \in 1..Horizon,
                    house' \notin Later(e, override, Ages(e), ticks, house')
             PROVE  r.job # NoJob /\ r.job <= ticks
  BY <1>1 DEF RechecksArmed
<1> DEFINE later == Aged(Ages(e), ticks)
<1>3. CASE override # NoMode \/ e.hard # NoMode
  <2>1. Resolve(e, override, later, house').state = r.state
    BY <1>3 DEF Resolve, Keep
  <2> QED
    BY <1>1, <2>1, GuardedStable DEF Later
<1>4. CASE override = NoMode /\ e.hard = NoMode
  <2> DEFINE now == IF house \in Substate THEN house ELSE "home"
  <2>1. r = HomeSubstate(e, Ages(e), now) /\ now \in Substate
    BY <1>4 DEF Resolve, Substate
  <2>2. r.state \in Substate
    BY <1>2, <2>1, HomeSubstateTyped
  <2>3. house' = r.state
    BY <1>1, <2>2, SubstateUnguarded
  <2>4. ticks \in Nat /\ later \in Timers
    BY <1>2, AgedTyped, HouseStateAssumption
  <2>5. \A c \in Candidate :
            later[c] = IF Ages(e)[c] + ticks < Horizon THEN Ages(e)[c] + ticks ELSE Horizon
    BY DEF Aged
  <2> DEFINE s == HomeSubstate(e, later, r.state)
  <2>6. Resolve(e, override, later, house') = s
    BY <1>4, <2>2, <2>3 DEF Resolve
  <2>7. s.state \in Substate
    BY <1>2, <2>2, <2>4, HomeSubstateTyped
  <2>8. s.state # r.state
    BY <2>3, <2>6, <2>7, SubstateUnguarded DEF Later
  <2>9. ~(r.state \in {"home", "relax"} /\ {"work", "relax"} \subseteq e.on /\ ~e.explicit)
    BY <1>1, <2>3 DEF WorkBehindMedia
  <2> HIDE DEF later, now
  <2> QED
    BY <1>2, <2>1, <2>4, <2>5, <2>8, <2>9, HomeSubstateArmed
<1> QED
  BY <1>3, <1>4

\* While time passes, the recheck comes nearer as the change does.
LEMMA TickKeeps == ASSUME TypeOK, RechecksArmed, Tick PROVE RechecksArmed'
<1>1. /\ Horizon \in Nat /\ \A c \in Candidate : age[c] \in 0..Horizon
      /\ job \in 0..Horizon \cup {NoJob} /\ NoJob \notin Nat
  BY HouseStateAssumption DEF TypeOK
<1>2. UNCHANGED <<house, override, seen, current>>
  BY DEF Tick
<1> SUFFICES ASSUME current, ~WorkBehindMedia, NEW ticks \in 1..Horizon,
                    house \notin Later(seen, override, age', ticks, house)
             PROVE  job' # NoJob /\ job' <= ticks
  BY <1>2 DEF RechecksArmed, WorkBehindMedia
<1> DEFINE next == IF ticks < Horizon THEN ticks + 1 ELSE Horizon
<1>3. next \in 1..Horizon /\ next <= ticks + 1
  BY <1>1
<1>4. Aged(age', ticks) = Aged(age, next)
  BY <1>1 DEF Aged, Tick
<1>5. job # NoJob /\ job <= next
  <2>1. house \notin Later(seen, override, age, next, house)
    BY <1>4 DEF Later
  <2> QED
    BY <1>3, <2>1 DEF RechecksArmed
<1> QED
  BY <1>1, <1>3, <1>5 DEF Tick

\* For any thresholds, a change of the house state that time alone brings about is
\* rechecked when it is due; the fallback is not needed for it.
THEOREM RechecksAreArmed == Spec => []RechecksArmed
<1>1. Init => RechecksArmed
  BY DEF Init, RechecksArmed
<1>2. TypeOK /\ RechecksArmed /\ [Next]_vars => RechecksArmed'
  <2> SUFFICES ASSUME TypeOK, RechecksArmed, [Next]_vars PROVE RechecksArmed'
    OBVIOUS
  <2>1. ASSUME NEW mode, NEW enabled, SetMode(mode, enabled) PROVE RechecksArmed'
    BY <2>1 DEF SetMode, RechecksArmed
  <2>2. ASSUME NEW full, Reload(full) PROVE RechecksArmed'
    BY <2>2 DEF Reload, RechecksArmed
  <2>3. CASE UNCHANGED vars
    BY <2>3 DEF vars, RechecksArmed, WorkBehindMedia
  <2> QED
    BY <2>1, <2>2, <2>3, EvaluateArms, TickKeeps DEF Next
<1> QED
  BY <1>1, <1>2, TypeCorrect, PTL DEF Spec

-----------------------------------------------------------------------------
(* Bouncing *)

\* How far the house has come, while the evidence and the override stay as they are: the
\* later states of an evening, a night or an outage have the higher rank.
Rank(e, mode, state) ==
    LET target == IF mode # NoMode THEN mode ELSE e.hard
        rest   == IF e.learned # NoMode THEN e.learned ELSE "home" IN
    IF target = "away" /\ e.guarded
    THEN IF state = "away" THEN 0 ELSE IF state = "unknown" THEN 1 ELSE 2
    ELSE IF target # NoMode THEN IF state = target THEN 1 ELSE 0
    ELSE IF "sleep" \in e.on
    THEN IF state = "sleeping" THEN 2 ELSE IF state = "home" THEN 1 ELSE 0
    ELSE IF "relax" \in e.on /\ e.explicit
    THEN IF state = "relax" THEN 2 ELSE IF state = "sleeping" THEN 1 ELSE 0
    ELSE IF "relax" \in e.on
    THEN IF state = "working" THEN 4 ELSE IF state = "relax" THEN 3
         ELSE IF state = "home" THEN 2 ELSE IF state = "sleeping" THEN 1 ELSE 0
    ELSE IF "work" \in e.on
    THEN IF state = "working" THEN 4 ELSE IF state = "home" THEN 3
         ELSE IF state = "relax" THEN 2 ELSE IF state = "sleeping" THEN 1 ELSE 0
    ELSE IF state = rest THEN 1 ELSE 0

\* Work prevails over passive media only once it is confirmed.
WorksBesideMedia(e, mode, ages, now) ==
    /\ mode = NoMode /\ e.hard = NoMode /\ "sleep" \notin e.on
    /\ "relax" \in e.on /\ ~e.explicit /\ now = "working"
    => ActivityRequired /\ "work" \in e.on /\ ages["work"] >= WorkEnter

\* Where sleeping requires that no media plays, the sleep and the wake candidate exclude each
\* other; a house that is occupied is not guarded.
LEMMA EvidenceExcludes ==
    ASSUME NEW e \in AnyEvidence
    PROVE  /\ MediaOff => ~({"sleep", "wake"} \subseteq e.on)
           /\ e.hard = NoMode => ~e.guarded
<1>1. PICK s \in Signals : e = Evidence(s)
  BY DEF AnyEvidence
<1>2. s \in Signal
  BY HouseStateAssumption
<1>3. /\ e.hard = CASE s.vacation -> "vacation"
                    [] ~s.vacation /\ s.guest -> "guest"
                    [] ~s.vacation /\ ~s.guest /\ ~s.home -> "away"
                    [] OTHER -> NoMode
      /\ "sleep" \in e.on => SleepCandidate(s)
      /\ "wake" \in e.on => WakeCandidate(s)
      /\ e.guarded <=> s.guarded /\ ~s.home
  BY <1>1 DEF Evidence
<1>4. MediaOff => ~({"sleep", "wake"} \subseteq e.on)
  BY <1>3 DEF SleepCandidate, WakeCandidate
<1>5. "vacation" # NoMode /\ "guest" # NoMode /\ "away" # NoMode
  BY HouseStateAssumption DEF House, Hard
<1>6. e.hard = NoMode => s.home
  BY <1>2, <1>3, <1>5 DEF Signal
<1> QED
  BY <1>3, <1>4, <1>6

\* The home substates only advance.
LEMMA SubstateAdvances ==
    ASSUME NEW e \in EvidenceType, NEW ages \in Timers, NEW now \in Substate, e.hard = NoMode,
           ~({"sleep", "wake"} \subseteq e.on), WorksBesideMedia(e, NoMode, ages, now)
    PROVE  LET h == HomeSubstate(e, ages, now).state IN
           /\ h = now \/ Rank(e, NoMode, now) < Rank(e, NoMode, h)
           /\ now = "home" => Rank(e, NoMode, h) > 0
<1>1. NoMode # "away" /\ NoMode \notin Substate
  BY HouseStateAssumption DEF House, Hard
<1>2. now \in {"sleeping", "relax", "working", "home"}
      /\ e.learned \in {NoMode, "sleeping", "relax", "working", "home"}
  BY DEF Substate, EvidenceType
<1>3. CASE "sleep" \in e.on
  BY <1>1, <1>2, <1>3 DEF Rank, WorksBesideMedia, HomeSubstate, Awake, Until, Keep
<1>4. CASE "sleep" \notin e.on /\ "relax" \in e.on /\ e.explicit
  BY <1>1, <1>2, <1>4 DEF Rank, WorksBesideMedia, HomeSubstate, Awake, Relaxing, Until, Keep
<1>5. CASE "sleep" \notin e.on /\ "relax" \in e.on /\ ~e.explicit
  BY <1>1, <1>2, <1>5 DEF Rank, WorksBesideMedia, HomeSubstate, Awake, Relaxing, Until, Keep
<1>6. CASE "sleep" \notin e.on /\ "relax" \notin e.on /\ "work" \in e.on
  BY <1>1, <1>2, <1>6 DEF Rank, WorksBesideMedia, HomeSubstate, Awake, Working, Until, Keep
<1>7. CASE e.on \cap {"sleep", "relax", "work"} = {}
  BY <1>1, <1>2, <1>7 DEF Rank, WorksBesideMedia, HomeSubstate, Awake, Until, Keep
<1> QED
  BY <1>3, <1>4, <1>5, <1>6, <1>7

\* So does the house.
LEMMA HouseAdvances ==
    ASSUME NEW e \in AnyEvidence, NEW ages \in Timers, NEW mode \in Override \cup {NoMode},
           NEW now \in House, MediaOff, WorksBesideMedia(e, mode, ages, now),
           NEW next \in Guarded(e, Resolve(e, mode, ages, now).state, now)
    PROVE  next = now \/ Rank(e, mode, now) < Rank(e, mode, next)
<1>1. e \in EvidenceType /\ (e.hard = NoMode => ~e.guarded) /\ ~({"sleep", "wake"} \subseteq e.on)
  BY EvidenceTyped, EvidenceExcludes
<1> DEFINE target == IF mode # NoMode THEN mode ELSE e.hard
<1>2. CASE target # NoMode
  <2>1. Resolve(e, mode, ages, now).state = target
    BY <1>2 DEF Resolve, Keep
  <2> QED
    BY <1>2, <2>1 DEF Rank, Guarded
<1>3. CASE target = NoMode
  <2>1. mode = NoMode /\ e.hard = NoMode
    BY <1>3
  <2> DEFINE home == IF now \in Substate THEN now ELSE "home"
  <2>2. home \in Substate /\ Resolve(e, mode, ages, now) = HomeSubstate(e, ages, home)
    BY <2>1 DEF Resolve, Substate
  <2>3. WorksBesideMedia(e, NoMode, ages, home)
    BY <2>1 DEF WorksBesideMedia
  <2>4. next = HomeSubstate(e, ages, home).state
    BY <1>1, <2>2, HomeSubstateTyped, SubstateUnguarded
  <2>5. now \notin Substate => Rank(e, NoMode, now) = 0
    BY <1>1, <2>1, HouseStateAssumption DEF Rank, Substate, EvidenceType, House
  <2> HIDE DEF home
  <2>6. /\ next = home \/ Rank(e, NoMode, home) < Rank(e, NoMode, next)
        /\ home = "home" => Rank(e, NoMode, next) > 0
    BY <1>1, <2>1, <2>2, <2>3, <2>4, SubstateAdvances
  <2> QED
    BY <2>1, <2>5, <2>6 DEF home
<1> QED
  BY <1>2, <1>3

\* Wherever an evaluation finds the house, it leaves it at work beside media only if the work
\* is confirmed.
LEMMA WorkIsConfirmed ==
    ASSUME NEW e \in AnyEvidence, NEW ages \in Timers, NEW mode, NEW now,
           NEW next \in Guarded(e, Resolve(e, mode, ages, now).state, now)
    PROVE  WorksBesideMedia(e, mode, ages, next)
<1> SUFFICES ASSUME mode = NoMode, e.hard = NoMode, "sleep" \notin e.on, "relax" \in e.on,
                    ~e.explicit, next = "working"
             PROVE  ActivityRequired /\ "work" \in e.on /\ ages["work"] >= WorkEnter
  BY DEF WorksBesideMedia
<1> DEFINE home == IF now \in Substate THEN now ELSE "home"
<1>1. e \in EvidenceType /\ home \in Substate
  BY EvidenceTyped DEF Substate
<1>2. Resolve(e, mode, ages, now) = HomeSubstate(e, ages, home)
  BY DEF Resolve
<1>3. HomeSubstate(e, ages, home).state = "working"
  BY <1>1, <1>2, HomeSubstateTyped, SubstateUnguarded
<1> HIDE DEF home
<1> QED
  BY <1>3 DEF HomeSubstate, Awake, Relaxing, Until, Keep

\* The states that were left rank below the present one.
Advanced ==
    /\ current => known
    /\ ~current => left = {}
    /\ MediaOff /\ current =>
          /\ WorksBesideMedia(seen, override, age, house)
          /\ \A state \in left : Rank(seen, override, state) < Rank(seen, override, house)

LEMMA NextAdvanced == TypeOK /\ Advanced /\ [Next]_vars => Advanced'
<1> SUFFICES ASSUME TypeOK, Advanced, [Next]_vars PROVE Advanced'
  OBVIOUS
<1>1. ASSUME NEW e \in AnyEvidence, Evaluate(e) PROVE Advanced'
  <2>1. /\ age' = Ages(e) /\ known' /\ current' /\ seen' = e /\ override' = override
        /\ house' \in Guarded(e, Resolve(e, override, Ages(e), house).state, house)
        /\ left' = IF ~(known /\ current /\ e = seen) THEN {}
                   ELSE IF house' = house THEN left ELSE left \cup {house}
    BY <1>1 DEF Evaluate
  <2>2. Ages(e) \in Timers /\ override \in Override \cup {NoMode} /\ house \in House
    BY AgesTyped DEF TypeOK
  <2>3. WorksBesideMedia(e, override, Ages(e), house')
    BY <2>1, <2>2, WorkIsConfirmed
  <2>4. ASSUME MediaOff, NEW state \in left'
        PROVE  Rank(e, override, state) < Rank(e, override, house')
    <3>1. known /\ current /\ e = seen
      BY <2>1, <2>4
    <3>2. Ages(e) = age
      BY <3>1 DEF Ages, TypeOK
    <3>3. WorksBesideMedia(e, override, Ages(e), house)
      BY <2>4, <3>1, <3>2 DEF Advanced
    <3>4. house' = house \/ Rank(e, override, house) < Rank(e, override, house')
      BY <2>1, <2>2, <2>4, <3>3, HouseAdvances
    <3>5. state \in left => Rank(e, override, state) < Rank(e, override, house)
      BY <2>4, <3>1 DEF Advanced
    <3>6. state \in left \/ (state = house /\ house' # house)
      BY <2>1, <2>4, <3>1
    <3>7. \A x : Rank(e, override, x) \in 0..4
      BY DEF Rank
    <3> QED
      BY <3>4, <3>5, <3>6, <3>7
  <2> QED
    BY <2>1, <2>3, <2>4 DEF Advanced
<1>2. CASE Tick
  <2>1. /\ UNCHANGED <<house, override, known, seen, current, left>>
        /\ age' = [c \in Candidate |-> IF age[c] < Horizon THEN age[c] + 1 ELSE age[c]]
    BY <1>2 DEF Tick
  <2>2. "work" \in Candidate /\ age["work"] \in 0..Horizon /\ Horizon \in Nat
        /\ WorkEnter \in 0..Horizon
    BY HouseStateAssumption DEF TypeOK, Candidate, Threshold
  <2>3. age["work"] >= WorkEnter => age'["work"] >= WorkEnter
    BY <2>1, <2>2
  <2>4. WorksBesideMedia(seen, override, age, house)
            => WorksBesideMedia(seen, override, age', house)
    BY <2>3 DEF WorksBesideMedia
  <2> QED
    BY <2>1, <2>4 DEF Advanced
<1>3. ASSUME NEW mode, NEW enabled, SetMode(mode, enabled) PROVE Advanced'
  BY <1>3 DEF SetMode, Advanced
<1>4. ASSUME NEW full, Reload(full) PROVE Advanced'
  BY <1>4 DEF Reload, Advanced
<1>5. CASE UNCHANGED vars
  BY <1>5 DEF vars, Advanced
<1> QED
  BY <1>1, <1>2, <1>3, <1>4, <1>5 DEF Next

\* For any thresholds: while the evidence stays as it is, the house does not come back to a
\* state it has left, where sleeping requires that no media plays.
THEOREM NeverBounces == Spec => []NoBounce
<1>1. Init => Advanced
  BY DEF Init, Advanced
<1>2. Advanced => NoBounce
  <2>1. \A x : Rank(seen, override, x) \in 0..4
    BY DEF Rank
  <2>2. \A x : ~(Rank(seen, override, x) < Rank(seen, override, x))
    BY <2>1
  <2> QED
    BY <2>2 DEF Advanced, NoBounce
<1> QED
  BY <1>1, <1>2, NextAdvanced, TypeCorrect, PTL DEF Spec

-----------------------------------------------------------------------------
(* The lighting of a room: types *)

\* What the reaction returns is a step, or none, and its memory.
LEMMA ReactTyped ==
    ASSUME LightingTypeOK, NEW profile \in Profile, NEW gate \in BOOLEAN, NEW others \in BOOLEAN
    PROVE  React(profile, gate, others).step \in Step \cup {"none"} /\ React(profile, gate, others).memory \in Reaction
<1>1. Occupied(reaction) \in Reaction /\ Unoccupied(reaction) \in Reaction
  BY DEF LightingTypeOK, Occupied, Unoccupied, Cleared, Reaction
<1>2. CASE present
  <2> DEFINE r == [Occupied(reaction) EXCEPT !.gate = gate]
  <2>1. r \in Reaction
    BY <1>1 DEF Reaction
  <2> HIDE DEF r
  <2>2. EvaluateOccupied(r, profile, others).memory \in Reaction /\ EvaluateOccupied(r, profile, others).step \in {"on", "off", "none"}
    BY <2>1, LightingAssumption DEF EvaluateOccupied, Reaction
  <2>3. React(profile, gate, others) = EvaluateOccupied(r, profile, others)
    BY <1>2 DEF React, r
  <2> QED
    BY <2>2, <2>3 DEF Step
<1>3. CASE ~present
  <2> DEFINE r == Unoccupied(reaction)
  <2>1. r \in Reaction
    BY <1>1
  <2> HIDE DEF r
  <2>2. EvaluateAbsent(r).memory \in Reaction /\ EvaluateAbsent(r).step \in {"dim", "off", "none"}
    BY <2>1 DEF EvaluateAbsent, Cleared, Reaction
  <2>3. React(profile, gate, others) = EvaluateAbsent(r)
    BY <1>3 DEF React, r
  <2> QED
    BY <2>2, <2>3 DEF Step
<1> QED
  BY <1>2, <1>3

\* So is what a change of the light makes of the pending apply and of the memory.
LEMMA ChangesTyped ==
    ASSUME LightingTypeOK, NEW level \in Step, NEW matches \in BOOLEAN, Changes(level, matches)
    PROVE  /\ light' \in Step /\ reaction' \in Reaction
           /\ pending' \in {"none", "on", "off"}
<1>1. External(reaction, State(level), Managed(reaction)) \in Reaction
  BY DEF LightingTypeOK, External, Cleared, Reaction
<1>2. State(level) \in {"on", "off"}
  BY DEF State
<1>3. light' = level /\ reaction' \in {reaction, External(reaction, State(level), Managed(reaction))}
      /\ pending' \in {pending, "none"}
  BY DEF Changes
<1> QED
  BY <1>1, <1>2, <1>3 DEF LightingTypeOK

\* A step of the calls in flight.
LEMMA CallsTyped ==
    ASSUME LightingTypeOK
    PROVE  /\ calls # <<>> => /\ Head(calls) \in Step /\ Tail(calls) \in Seq(Step)
                              /\ Len(Tail(calls)) <= MaxCalls
           /\ \A step \in Step : Len(calls) < MaxCalls =>
                 Append(calls, step) \in Seq(Step) /\ Len(Append(calls, step)) <= MaxCalls
<1>1. calls \in Seq(Step) /\ Len(calls) \in Nat /\ Len(calls) <= MaxCalls /\ MaxCalls \in Nat
  BY LightingAssumption DEF LightingTypeOK
<1>2. \A step \in Step : Append(calls, step) \in Seq(Step) /\ Len(Append(calls, step)) = Len(calls) + 1
  BY <1>1, AppendProperties
<1>3. ASSUME calls # <<>>
      PROVE  Head(calls) \in Step /\ Tail(calls) \in Seq(Step) /\ Len(Tail(calls)) = Len(calls) - 1
  BY <1>1, <1>3, HeadTailProperties
<1> QED
  BY <1>1, <1>2, <1>3

LEMMA LightingInitTyped == LightingInit => LightingTypeOK
<1> SUFFICES ASSUME LightingInit PROVE LightingTypeOK
  OBVIOUS
<1>1. reaction \in Reaction
  BY DEF LightingInit, Forgetful, Reaction
<1>2. calls \in Seq(Step) /\ Len(calls) <= MaxCalls /\ plans \in [Step -> 0..MaxPlans]
  BY LightingAssumption DEF LightingInit
<1> QED
  BY <1>1, <1>2 DEF LightingInit, LightingTypeOK, Step

LEMMA LightingNextTyped == LightingTypeOK /\ [LightingNext]_lightingVars => LightingTypeOK'
<1> SUFFICES ASSUME LightingTypeOK, [LightingNext]_lightingVars PROVE LightingTypeOK'
  OBVIOUS
<1> USE LightingAssumption
<1>1. ASSUME NEW profile \in Profile, NEW gate \in BOOLEAN, NEW others \in BOOLEAN,
             NEW blocker \in Blocker, EvaluateRoom(profile, gate, others, blocker)
      PROVE  LightingTypeOK'
  <2> DEFINE result == React(profile, gate, others)
             step   == Filtered(result.step, blocker)
  <2>1. result.memory \in Reaction /\ step \in Step \cup {"none"}
    BY ReactTyped DEF Filtered
  <2>2. reaction' = result.memory /\ UNCHANGED <<present, light, by, muted, pending, calls, recovery>>
    BY <1>1 DEF EvaluateRoom
  <2>3. plans' \in [Step -> 0..MaxPlans]
    <3>1. \/ UNCHANGED plans
          \/ step # "none" /\ plans[step] < MaxPlans /\ plans' = [plans EXCEPT ![step] = @ + 1]
      BY <1>1 DEF EvaluateRoom
    <3> HIDE DEF step
    <3> QED
      BY <2>1, <3>1 DEF LightingTypeOK
  <2>4. touched' \subseteq touched
    BY <1>1 DEF EvaluateRoom
  <2>5. mishaps' \subseteq Mishap
    <3>1. mishaps' \subseteq mishaps \cup {"overtaken", "forgotten"}
      BY <1>1 DEF EvaluateRoom, Suffers
    <3> QED
      BY <3>1 DEF LightingTypeOK, Mishap
  <2> HIDE DEF result, step
  <2> QED
    BY <2>1, <2>2, <2>3, <2>4, <2>5 DEF LightingTypeOK
<1>2. ASSUME NEW step \in Step, Execute(step) PROVE LightingTypeOK'
  <2>1. pending' \in {"none", "on", "off"}
    BY <1>2 DEF Execute, LightingTypeOK, State
  <2>2. plans' \in [Step -> 0..MaxPlans]
    BY <1>2 DEF Execute, LightingTypeOK
  <2>3. mishaps' \subseteq Mishap
    BY <1>2 DEF Execute, LightingTypeOK, Suffers, Mishap
  <2>4. calls' \in Seq(Step) /\ Len(calls') <= MaxCalls
    BY <1>2, CallsTyped DEF Execute
  <2> QED
    BY <1>2, <2>1, <2>2, <2>3, <2>4 DEF Execute, LightingTypeOK
<1>3. ASSUME NEW matches \in BOOLEAN, CallReaches(matches) PROVE LightingTypeOK'
  <2>1. /\ light' \in Step /\ reaction' \in Reaction
        /\ pending' \in {"none", "on", "off"}
    BY <1>3, CallsTyped, ChangesTyped DEF CallReaches
  <2>2. mishaps' \subseteq Mishap
    BY <1>3 DEF CallReaches, LightingTypeOK, Suffers, Mishap
  <2> QED
    BY <1>3, <2>1, <2>2, CallsTyped DEF CallReaches, LightingTypeOK
<1>4. CASE CallFails
  BY <1>4, CallsTyped DEF CallFails, LightingTypeOK, Suffers, Mishap
<1>5. CASE HumanSwitches
  <2> DEFINE level == IF light = "off" THEN "on" ELSE "off"
  <2>1. /\ light' \in Step /\ reaction' \in Reaction
        /\ pending' \in {"none", "on", "off"}
    BY <1>5, ChangesTyped DEF HumanSwitches, Step
  <2>2. touched' \subseteq {"on", "off"}
    BY <1>5 DEF HumanSwitches, Touched, State, LightingTypeOK
  <2>3. mishaps' \subseteq Mishap
    BY <1>5 DEF HumanSwitches, LightingTypeOK, Suffers, Mishap
  <2> QED
    BY <1>5, <2>1, <2>2, <2>3 DEF HumanSwitches, LightingTypeOK
<1>6. CASE DeadlinePasses \/ OverrideExpires \/ PendingExpires
  <2>1. reaction' \in Reaction /\ pending' \in {"none", "on", "off"}
    <3>1. CASE DeadlinePasses
      <4>1. PICK due \in {"dim due", "off due"} : reaction' = [reaction EXCEPT !.absence = due]
        BY <3>1 DEF DeadlinePasses
      <4>2. [reaction EXCEPT !.absence = due] \in Reaction
        BY DEF LightingTypeOK, Reaction
      <4>3. pending' = pending
        BY <3>1 DEF DeadlinePasses
      <4> QED
        BY <4>1, <4>2, <4>3 DEF LightingTypeOK
    <3>2. CASE OverrideExpires
      BY <3>2 DEF OverrideExpires, LightingTypeOK, Reaction
    <3>3. CASE PendingExpires
      BY <3>3 DEF PendingExpires, LightingTypeOK
    <3> QED
      BY <1>6, <3>1, <3>2, <3>3
  <2>2. touched' \subseteq touched /\ mishaps' \subseteq Mishap
    BY <1>6 DEF DeadlinePasses, OverrideExpires, PendingExpires, LightingTypeOK, Suffers, Mishap
  <2> QED
    BY <1>6, <2>1, <2>2 DEF DeadlinePasses, OverrideExpires, PendingExpires, LightingTypeOK
<1>7. CASE PresenceChanges \/ RecoveryChanges \/ MuteChanges
  BY <1>7 DEF PresenceChanges, RecoveryChanges, MuteChanges, LightingTypeOK, Suffers, Mishap
<1>8. CASE Forget
  BY <1>8 DEF Forget, LightingTypeOK, Suffers, Mishap, Forgetful, Reaction
<1>9. ASSUME NEW state \in {"on", "off"}, NEW managed \in BOOLEAN, HumanSwitchesOther(state, managed)
      PROVE  LightingTypeOK'
  <2>1. reaction' \in Reaction
    BY <1>9 DEF HumanSwitchesOther, External, Cleared, LightingTypeOK, Reaction
  <2>2. touched' \subseteq {"on", "off"} /\ mishaps' \subseteq Mishap
    BY <1>9 DEF HumanSwitchesOther, Touched, LightingTypeOK, Suffers, Mishap
  <2> QED
    BY <1>9, <2>1, <2>2 DEF HumanSwitchesOther, LightingTypeOK
<1>10. CASE UNCHANGED lightingVars
  BY <1>10 DEF lightingVars, LightingTypeOK
<1> QED
  BY <1>1, <1>2, <1>3, <1>4, <1>5, <1>6, <1>7, <1>8, <1>9, <1>10 DEF LightingNext, Evaluates

\* The memory of the reaction, the pending apply and the calls are well typed, whatever is in
\* flight and whoever uses the light.
THEOREM LightingTypeCorrect == LightingSpec => []LightingTypeOK
BY LightingInitTyped, LightingNextTyped, PTL DEF LightingSpec

-----------------------------------------------------------------------------
(* Heima's own changes, and the resident's *)

\* As long as nothing crossed, one call at most is on its way, and the pending apply tells it.
\* One that is left over, since the light was already so, tells no change to come.
PendingTold ==
    mishaps \cap {"overtaken", "crossed", "late", "recovery"} = {} =>
        /\ ~recovery
        /\ \/ calls = <<>>
           \/ \E step \in Step : calls = <<step>> /\ pending = State(step)
        /\ "failed" \notin mishaps /\ calls = <<>> => pending \in {"none", State(light)}

\* What a resident did in this visit is remembered: an override, or a hold.
TouchesKept ==
    mishaps \cap {"overtaken", "crossed", "late", "failed", "recovery"} = {} =>
        /\ "off" \in touched => reaction.override
        /\ "on" \in touched => reaction.hold

\* A mishap is not forgotten.
LEMMA MishapsStay == [LightingNext]_lightingVars => mishaps \subseteq mishaps'
<1> SUFFICES ASSUME [LightingNext]_lightingVars PROVE mishaps \subseteq mishaps'
  OBVIOUS
<1>1. ASSUME NEW state \in {"on", "off"}, NEW managed \in BOOLEAN, HumanSwitchesOther(state, managed)
      PROVE  mishaps \subseteq mishaps'
  BY <1>1 DEF HumanSwitchesOther, Suffers
<1>2. CASE MuteChanges \/ Forget
  BY <1>2 DEF MuteChanges, Forget, Suffers
<1>3. CASE Evaluates
  BY <1>3 DEF Evaluates, EvaluateRoom, Suffers
<1>4. CASE \/ \E step \in Step : Execute(step)
           \/ \E matches \in BOOLEAN : CallReaches(matches)
           \/ CallFails \/ HumanSwitches \/ PresenceChanges \/ DeadlinePasses
           \/ OverrideExpires \/ PendingExpires \/ RecoveryChanges \/ UNCHANGED lightingVars
  BY <1>4 DEF Execute, CallReaches, CallFails, HumanSwitches,
     PresenceChanges, DeadlinePasses, OverrideExpires, PendingExpires, RecoveryChanges,
     lightingVars, Suffers
<1> QED
  BY <1>1, <1>2, <1>3, <1>4 DEF LightingNext

\* The call that arrives is the only one.
LEMMA LastCall ==
    ASSUME PendingTold, mishaps \cap {"overtaken", "crossed", "late", "recovery"} = {}, calls # <<>>
    PROVE  Head(calls) \in Step /\ Tail(calls) = <<>> /\ pending = State(Head(calls))
<1>1. PICK step \in Step : calls = <<step>> /\ pending = State(step)
  BY DEF PendingTold
<1>2. Head(<<step>>) = step /\ Tail(<<step>>) = <<>>
  OBVIOUS
<1> QED
  BY <1>1, <1>2

LEMMA NextTold ==
    LightingTypeOK /\ PendingTold /\ [LightingNext]_lightingVars => PendingTold'
<1> SUFFICES ASSUME LightingTypeOK, PendingTold, [LightingNext]_lightingVars,
                    mishaps' \cap {"overtaken", "crossed", "late", "recovery"} = {}
             PROVE  PendingTold'
  BY DEF PendingTold
<1>0. /\ mishaps \cap {"overtaken", "crossed", "late", "recovery"} = {}
      /\ "failed" \in mishaps => "failed" \in mishaps'
      /\ ~recovery
  BY MishapsStay DEF PendingTold
<1>1. ASSUME NEW step \in Step, Execute(step) PROVE PendingTold'
  <2>1. calls = <<>>
    BY <1>1 DEF Execute, Suffers
  <2>2. calls' = <<step>> /\ pending' = State(step) /\ recovery' = recovery
    BY <1>0, <1>1, <2>1 DEF Execute
  <2>3. <<step>> # <<>>
    OBVIOUS
  <2> QED
    BY <1>0, <2>2, <2>3 DEF PendingTold
<1>2. ASSUME NEW matches \in BOOLEAN, CallReaches(matches) PROVE PendingTold'
  <2>1. /\ calls' = <<>> /\ recovery' = recovery /\ pending = State(Head(calls))
        /\ light' = Head(calls)
        /\ IF State(Head(calls)) = State(light) THEN pending' = pending ELSE pending' = "none"
    BY <1>0, <1>2, LastCall DEF CallReaches, Changes
  <2>2. pending' \in {"none", State(light')}
    BY <2>1
  <2>3. State(light)' = State(light')
    BY DEF State
  <2> QED
    BY <1>0, <2>1, <2>2, <2>3 DEF PendingTold
<1>3. CASE CallFails
  <2>1. calls' = <<>> /\ recovery' = recovery /\ "failed" \in mishaps'
    BY <1>0, <1>3, LastCall DEF CallFails, Suffers
  <2> QED
    BY <1>0, <2>1 DEF PendingTold
<1>4. CASE HumanSwitches
  <2> DEFINE level == IF light = "off" THEN "on" ELSE "off"
  <2>1. calls = <<>> /\ calls' = calls /\ recovery' = recovery
    BY <1>4 DEF HumanSwitches, Suffers
  <2>2. State(level) # State(light) /\ Changes(level, TRUE)
    BY <1>4 DEF HumanSwitches, State
  <2>3. pending' = "none"
    BY <2>2 DEF Changes
  <2> QED
    BY <1>0, <2>1, <2>3 DEF PendingTold
<1>5. CASE PendingExpires
  <2>1. calls = <<>> /\ calls' = calls /\ recovery' = recovery
    BY <1>5 DEF PendingExpires, Suffers
  <2>2. pending' = "none"
    BY <1>5 DEF PendingExpires
  <2> QED
    BY <1>0, <2>1, <2>2 DEF PendingTold
<1>6. CASE RecoveryChanges
  BY <1>6 DEF RecoveryChanges, Suffers
<1>7. CASE \/ Evaluates \/ PresenceChanges \/ DeadlinePasses \/ OverrideExpires \/ MuteChanges
           \/ \E state \in {"on", "off"}, managed \in BOOLEAN : HumanSwitchesOther(state, managed)
           \/ Forget \/ UNCHANGED lightingVars
  <2>1. UNCHANGED <<light, calls, pending, recovery>>
    BY <1>7 DEF Evaluates, EvaluateRoom, PresenceChanges, DeadlinePasses, OverrideExpires,
                MuteChanges, HumanSwitchesOther, Forget, lightingVars
  <2> QED
    BY <1>0, <2>1 DEF PendingTold, State
<1> QED
  BY <1>1, <1>2, <1>3, <1>4, <1>5, <1>6, <1>7 DEF LightingNext

\* What an evaluation does to an override and a hold: entering the room ends both.
LEMMA ReactKeeps ==
    ASSUME LightingTypeOK, NEW profile \in Profile, NEW gate \in BOOLEAN, NEW others \in BOOLEAN
    PROVE  LET memory == React(profile, gate, others).memory IN
           IF present /\ ~reaction.occupied
           THEN ~memory.override /\ ~memory.hold
           ELSE memory.override = reaction.override /\ memory.hold = reaction.hold
<1>2. CASE present
  <2> DEFINE r == [Occupied(reaction) EXCEPT !.gate = gate]
  <2>1. IF reaction.occupied THEN r.override = reaction.override /\ r.hold = reaction.hold
        ELSE ~r.override /\ ~r.hold
    BY DEF LightingTypeOK, Occupied, Cleared, Reaction
  <2>2. r \in Reaction
    BY DEF LightingTypeOK, Occupied, Cleared, Reaction
  <2> HIDE DEF r
  <2>3. /\ EvaluateOccupied(r, profile, others).memory.override = r.override
        /\ EvaluateOccupied(r, profile, others).memory.hold = r.hold
    BY <2>2 DEF EvaluateOccupied, Reaction
  <2>4. React(profile, gate, others) = EvaluateOccupied(r, profile, others)
    BY <1>2 DEF React, r
  <2> QED
    BY <1>2, <2>1, <2>3, <2>4
<1>3. CASE ~present
  <2> DEFINE r == Unoccupied(reaction)
  <2>1. r \in Reaction /\ r.override = reaction.override /\ r.hold = reaction.hold
    BY DEF LightingTypeOK, Unoccupied, Reaction
  <2> HIDE DEF r
  <2>2. EvaluateAbsent(r).memory.override = r.override /\ EvaluateAbsent(r).memory.hold = r.hold
    BY <2>1 DEF EvaluateAbsent, Cleared, Reaction
  <2>3. React(profile, gate, others) = EvaluateAbsent(r)
    BY <1>3 DEF React, r
  <2> QED
    BY <1>3, <2>1, <2>2, <2>3
<1> QED
  BY <1>2, <1>3

\* What an external change of a light does to them.
LEMMA ExternalKeeps ==
    ASSUME LightingTypeOK, NEW managed \in BOOLEAN
    PROVE  /\ External(reaction, "off", managed).override = (reaction.override \/ managed)
           /\ External(reaction, "off", managed).hold = reaction.hold
           /\ External(reaction, "on", managed).override = reaction.override
           /\ External(reaction, "on", managed).hold = (reaction.hold \/ (reaction.occupied /\ reaction.gate))
BY DEF LightingTypeOK, External, Cleared, Reaction

\* The memory of a change and the history of the residents go together.
LEMMA ExternalIsTouch ==
    ASSUME LightingTypeOK, ~recovery, NEW managed \in BOOLEAN, NEW state \in {"on", "off"},
           reaction' = External(reaction, state, managed), touched' = Touched(state, managed)
    PROVE  /\ \/ (reaction'.override <=> reaction.override) /\ ("off" \in touched' <=> "off" \in touched)
              \/ reaction'.override /\ "off" \in touched'
           /\ \/ (reaction'.hold <=> reaction.hold) /\ ("on" \in touched' <=> "on" \in touched)
              \/ reaction'.hold /\ "on" \in touched'
<1>1. CASE state = "on"
  <2>1. /\ reaction'.override = reaction.override
        /\ reaction'.hold = (reaction.hold \/ (reaction.occupied /\ reaction.gate))
    BY <1>1, ExternalKeeps
  <2>2. touched' = IF reaction.occupied /\ reaction.gate THEN touched \cup {"on"} ELSE touched
    BY <1>1 DEF Touched
  <2>3. "off" \in touched' <=> "off" \in touched
    BY <2>2
  <2>4. CASE reaction.occupied /\ reaction.gate
    <3>1. "on" \in touched'
      BY <2>2, <2>4
    <3>2. reaction'.hold
      BY <2>1, <2>4, Zenon
    <3> QED
      BY <2>1, <2>3, <3>1, <3>2, Zenon
  <2>5. CASE ~(reaction.occupied /\ reaction.gate)
    <3>1. touched' = touched
      BY <2>2, <2>5
    <3>2. reaction'.hold <=> reaction.hold
      BY <2>1, <2>5, Zenon
    <3> QED
      BY <2>1, <3>1, <3>2, Zenon
  <2> QED
    BY <2>4, <2>5
<1>2. CASE state = "off"
  <2>1. reaction'.override = (reaction.override \/ managed) /\ reaction'.hold = reaction.hold
    BY <1>2, ExternalKeeps
  <2>2. touched' = IF managed THEN touched \cup {"off"} ELSE touched
    BY <1>2 DEF Touched
  <2>3. "on" \in touched' <=> "on" \in touched
    BY <2>2
  <2>4. CASE managed
    <3>1. "off" \in touched'
      BY <2>2, <2>4
    <3>2. reaction'.override
      BY <2>1, <2>4, Zenon
    <3> QED
      BY <2>1, <2>3, <3>1, <3>2, Zenon
  <2>5. CASE ~managed
    <3>1. touched' = touched
      BY <2>2, <2>5
    <3>2. reaction'.override <=> reaction.override
      BY <2>1, <2>5, Zenon
    <3> QED
      BY <2>1, <3>1, <3>2, Zenon
  <2> QED
    BY <2>4, <2>5
<1> QED
  BY <1>1, <1>2

\* What a resident's use of the light does: Heima owns it only if it is as a pending apply expects.
LEMMA SwitchKept ==
    ASSUME LightingTypeOK, HumanSwitches, ~recovery
    PROVE  LET level == IF light = "off" THEN "on" ELSE "off" IN
           /\ reaction' = IF pending = level THEN reaction
                          ELSE External(reaction, level, Managed(reaction))
           /\ touched' = Touched(level, Managed(reaction))
<1> DEFINE level == IF light = "off" THEN "on" ELSE "off"
<1>1. State(level) # State(light) /\ State(level) = level /\ Changes(level, TRUE)
  BY DEF HumanSwitches, State
<1> QED
  BY <1>1 DEF HumanSwitches, Changes

LEMMA NextTouches ==
    LightingTypeOK /\ PendingTold /\ TouchesKept /\ [LightingNext]_lightingVars => TouchesKept'
<1> SUFFICES ASSUME LightingTypeOK, PendingTold, TouchesKept, [LightingNext]_lightingVars,
                    mishaps' \cap {"overtaken", "crossed", "late", "failed", "recovery"} = {}
             PROVE  /\ "off" \in touched' => reaction'.override
                    /\ "on" \in touched' => reaction'.hold
  BY DEF TouchesKept
<1>0. /\ mishaps \cap {"overtaken", "crossed", "late", "recovery"} = {} /\ "failed" \notin mishaps
      /\ ~recovery
      /\ "off" \in touched => reaction.override
      /\ "on" \in touched => reaction.hold
  BY MishapsStay DEF PendingTold, TouchesKept
<1>1. CASE Evaluates
  <2>1. PICK profile \in Profile, gate \in BOOLEAN, others \in BOOLEAN, blocker \in Blocker :
           EvaluateRoom(profile, gate, others, blocker)
    BY <1>1 DEF Evaluates
  <2>2. /\ reaction' = React(profile, gate, others).memory
        /\ touched' = IF present /\ ~reaction.occupied THEN {} ELSE touched
    BY <2>1 DEF EvaluateRoom
  <2> QED
    BY <1>0, <2>2, ReactKeeps
<1>2. ASSUME NEW matches \in BOOLEAN, CallReaches(matches)
      PROVE  /\ "off" \in touched' => reaction'.override
             /\ "on" \in touched' => reaction'.hold
  <2>1. Head(calls) \in Step
    BY <1>0, <1>2, LastCall DEF CallReaches
  <2>2. /\ touched' = touched
        /\ reaction' \in {reaction, External(reaction, State(Head(calls)), Managed(reaction))}
    BY <1>2 DEF CallReaches, Changes
  <2>3. State(Head(calls)) \in {"on", "off"} /\ Managed(reaction) \in BOOLEAN
    BY DEF State, Managed
  <2> QED
    BY <1>0, <2>2, <2>3, ExternalKeeps
<1>3. CASE HumanSwitches
  <2> DEFINE level == IF light = "off" THEN "on" ELSE "off"
  <2>1. calls = <<>>
    BY <1>3 DEF HumanSwitches, Suffers
  <2>2. pending # level
    <3>1. level # State(light) /\ level # "none"
      BY DEF State
    <3> QED
      BY <1>0, <2>1, <3>1 DEF PendingTold
  <2>3. /\ reaction' = External(reaction, level, Managed(reaction))
        /\ touched' = Touched(level, Managed(reaction))
    BY <1>0, <1>3, <2>2, SwitchKept
  <2>4. level \in {"on", "off"} /\ Managed(reaction) \in BOOLEAN
    BY DEF Managed
  <2> HIDE DEF level
  <2> QED
    BY <1>0, <2>3, <2>4, ExternalIsTouch
<1>4. CASE OverrideExpires
  BY <1>0, <1>4 DEF OverrideExpires, LightingTypeOK, Reaction
<1>5. CASE DeadlinePasses
  BY <1>0, <1>5 DEF DeadlinePasses, LightingTypeOK, Reaction
<1>6. CASE Forget
  BY <1>6 DEF Forget
<1>7. CASE \/ \E step \in Step : Execute(step)
           \/ CallFails \/ PresenceChanges \/ PendingExpires \/ RecoveryChanges \/ MuteChanges
           \/ UNCHANGED lightingVars
  <2>1. UNCHANGED <<reaction, touched>>
    BY <1>7 DEF Execute, CallFails, PresenceChanges, PendingExpires, RecoveryChanges, MuteChanges,
                lightingVars
  <2> QED
    BY <1>0, <2>1
<1>8. ASSUME NEW state \in {"on", "off"}, NEW managed \in BOOLEAN, HumanSwitchesOther(state, managed)
      PROVE  /\ "off" \in touched' => reaction'.override
             /\ "on" \in touched' => reaction'.hold
  BY <1>0, <1>8, ExternalIsTouch DEF HumanSwitchesOther
<1> QED
  BY <1>1, <1>2, <1>3, <1>4, <1>5, <1>6, <1>7, <1>8 DEF LightingNext

LEMMA NextNotClaimed ==
    LightingTypeOK /\ PendingTold /\ OwnChangesNotClaimed /\ [LightingNext]_lightingVars
        => OwnChangesNotClaimed'
<1> SUFFICES ASSUME LightingTypeOK, PendingTold, OwnChangesNotClaimed, [LightingNext]_lightingVars,
                    mishaps' \cap {"overtaken", "crossed", "late", "ramp", "recovery"} = {}
             PROVE  /\ reaction'.override => "off" \in touched'
                    /\ reaction'.hold => "on" \in touched'
  BY DEF OwnChangesNotClaimed
<1>0. /\ mishaps \cap {"overtaken", "crossed", "late", "recovery"} = {}
      /\ ~recovery
      /\ reaction.override => "off" \in touched
      /\ reaction.hold => "on" \in touched
  BY MishapsStay DEF PendingTold, OwnChangesNotClaimed
<1>1. CASE Evaluates
  <2>1. PICK profile \in Profile, gate \in BOOLEAN, others \in BOOLEAN, blocker \in Blocker :
           EvaluateRoom(profile, gate, others, blocker)
    BY <1>1 DEF Evaluates
  <2>2. /\ reaction' = React(profile, gate, others).memory
        /\ touched' = IF present /\ ~reaction.occupied THEN {} ELSE touched
    BY <2>1 DEF EvaluateRoom
  <2> QED
    BY <1>0, <2>2, ReactKeeps
<1>2. ASSUME NEW matches \in BOOLEAN, CallReaches(matches) PROVE UNCHANGED <<reaction, touched>>
  <2>1. matches /\ pending = State(Head(calls))
    BY <1>0, <1>2, LastCall DEF CallReaches, Suffers
  <2> QED
    BY <1>2, <2>1 DEF CallReaches, Changes
<1>3. CASE HumanSwitches
  <2> DEFINE level == IF light = "off" THEN "on" ELSE "off"
  <2>1. /\ reaction' \in {reaction, External(reaction, level, Managed(reaction))}
        /\ touched' = Touched(level, Managed(reaction))
    BY <1>0, <1>3, SwitchKept
  <2>2. level \in {"on", "off"} /\ Managed(reaction) \in BOOLEAN /\ touched \subseteq touched'
    BY <2>1 DEF Managed, Touched
  <2> HIDE DEF level
  <2>3. CASE reaction' = reaction
    BY <1>0, <2>2, <2>3
  <2>4. CASE reaction' = External(reaction, level, Managed(reaction))
    BY <1>0, <2>1, <2>2, <2>4, ExternalIsTouch
  <2> QED
    BY <2>1, <2>3, <2>4
<1>4. CASE OverrideExpires
  BY <1>0, <1>4 DEF OverrideExpires, LightingTypeOK, Reaction
<1>5. CASE DeadlinePasses
  BY <1>0, <1>5 DEF DeadlinePasses, LightingTypeOK, Reaction
<1>6. CASE Forget
  BY <1>6 DEF Forget, Forgetful
<1>7. CASE \/ \E step \in Step : Execute(step)
           \/ CallFails \/ PresenceChanges \/ PendingExpires \/ RecoveryChanges \/ MuteChanges
           \/ UNCHANGED lightingVars
  <2>1. UNCHANGED <<reaction, touched>>
    BY <1>7 DEF Execute, CallFails, PresenceChanges, PendingExpires, RecoveryChanges, MuteChanges,
                lightingVars
  <2> QED
    BY <1>0, <2>1
<1>8. ASSUME NEW state \in {"on", "off"}, NEW managed \in BOOLEAN, HumanSwitchesOther(state, managed)
      PROVE  /\ reaction'.override => "off" \in touched'
             /\ reaction'.hold => "on" \in touched'
  BY <1>0, <1>8, ExternalIsTouch DEF HumanSwitchesOther
<1> QED
  BY <1>0, <1>1, <1>2, <1>3, <1>4, <1>5, <1>6, <1>7, <1>8 DEF LightingNext

LEMMA InitToldAndTouches == LightingInit => PendingTold /\ TouchesKept /\ OwnChangesNotClaimed
BY DEF LightingInit, PendingTold, TouchesKept, OwnChangesNotClaimed, Forgetful

\* Heima does not take its own service calls for a resident's, for any profiles and any number
\* of plans and calls, unless changes crossed at the light, the light was late or dimmed up, or
\* the runtime recovered.
THEOREM OwnChangesStayOwn == LightingSpec => []OwnChangesNotClaimed
BY LightingInitTyped, LightingNextTyped, InitToldAndTouches, NextTold, NextNotClaimed, PTL
DEF LightingSpec

\* The only steps that plan to turn the light on, in an occupied room, respect the resident.
LEMMA PlansRespect ==
    ASSUME LightingTypeOK, PendingTold, TouchesKept, [LightingNext]_lightingVars,
           mishaps \cap {"overtaken", "crossed", "late", "failed", "recovery"} = {},
           present, reaction.occupied, plans'["on"] > plans["on"]
    PROVE  "off" \notin touched /\ ("on" \in touched => reaction.applied = NoProfile)
<1>1. plans \in [Step -> 0..MaxPlans] /\ MaxPlans \in Nat
  BY LightingAssumption DEF LightingTypeOK
<1>2. ASSUME ~Evaluates PROVE FALSE
  <2>1. plans' # plans
    BY <1>1 DEF Step
  <2>2. PICK step \in Step : Execute(step)
    BY <1>2, <2>1 DEF LightingNext, CallReaches, CallFails, HumanSwitches, HumanSwitchesOther,
       PresenceChanges, DeadlinePasses, OverrideExpires, PendingExpires, RecoveryChanges, MuteChanges,
       Forget, lightingVars
  <2>3. plans' = [plans EXCEPT ![step] = @ - 1]
    BY <2>2 DEF Execute
  <2> QED
    BY <1>1, <2>3 DEF Step
<1>3. PICK profile \in Profile, gate \in BOOLEAN, others \in BOOLEAN, blocker \in Blocker :
         EvaluateRoom(profile, gate, others, blocker)
  BY <1>2 DEF Evaluates
<1>4. React(profile, gate, others).step = "on"
  <2> DEFINE step == Filtered(React(profile, gate, others).step, blocker)
  <2>1. \/ UNCHANGED plans
        \/ plans' = [plans EXCEPT ![step] = @ + 1]
    BY <1>3 DEF EvaluateRoom
  <2>2. step = "on" \/ plans'["on"] = plans["on"]
    BY <1>1, <2>1 DEF Step
  <2> QED
    BY <1>1, <2>2 DEF Filtered, Step
<1> DEFINE r == [Occupied(reaction) EXCEPT !.gate = gate]
<1>5. Fires(r, profile, others)
  BY <1>4 DEF React, EvaluateOccupied
<1>6. r.override = reaction.override /\ r.hold = reaction.hold /\ r.applied = reaction.applied
  BY DEF LightingTypeOK, Occupied, Cleared, Reaction
<1> HIDE DEF r
<1> QED
  BY <1>5, <1>6 DEF Fires, TouchesKept

\* While the room is occupied, a resident who turned a light of the active profile off keeps the
\* light off until the override ends, and one who turned a light on keeps it as it is: for any
\* profiles, whatever they do with the light, and any number of plans and calls.
THEOREM ResidentsStayRespected == LightingSpec => HumanRespected
<1>1. LightingTypeOK /\ PendingTold /\ TouchesKept /\ [LightingNext]_lightingVars =>
         [ /\ mishaps \cap {"overtaken", "crossed", "late", "failed", "recovery"} = {}
           /\ present /\ reaction.occupied
           /\ plans'["on"] > plans["on"]
           => /\ "off" \notin touched
              /\ "on" \in touched => reaction.applied = NoProfile ]_lightingVars
  BY PlansRespect
<1> QED
  BY LightingInitTyped, LightingNextTyped, InitToldAndTouches, NextTold, NextTouches, <1>1, PTL
  DEF LightingSpec, HumanRespected

=============================================================================
