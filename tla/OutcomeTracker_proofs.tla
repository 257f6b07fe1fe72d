----------------------- MODULE OutcomeTracker_proofs -----------------------
(***************************************************************************)
(* Theorems about OutcomeTracker, for any number of reactions and          *)
(* evaluations: the types, that nothing is blamed for an arrival that was  *)
(* seen, and that degradations and boosts are earned by what was recorded. *)
(***************************************************************************)
EXTENDS OutcomeTracker, FiniteSetTheorems, WellFoundedInduction, SequenceTheorems, TLAPS

Outcome == {"positive", "negative", "boost"}
Streaks == [Reaction -> Nat]
Logs    == [Reaction -> Seq(Outcome)]

\* A loop that has something to do has a first reaction to do it for.
LEMMA FirstIsOne == ASSUME NEW S \in SUBSET Reaction, S # {} PROVE First(S) \in S
<1> DEFINE Below(r) == {q \in S : q < r}
           Belows   == {Below(r) : r \in S}
<1>1. S \in SUBSET Nat /\ IsFiniteSet(S)
  <2>1. Reactions \in Nat /\ \A r \in S : r \in Nat /\ r <= Reactions
    BY OutcomeAssumption DEF Reaction
  <2> QED
    BY <2>1, FS_BoundedSetOfNaturals
<1>2. Belows \subseteq FiniteSubsetsOf(S) /\ Belows # {}
  <2>1. \A r \in S : Below(r) \in SUBSET S
    OBVIOUS
  <2>2. FiniteSubsetsOf(S) = SUBSET S
    BY <1>1, FS_FiniteSubsetsOfFinite
  <2>3. Belows \subseteq SUBSET S
    BY <2>1
  <2>4. PICK x \in S : TRUE
    OBVIOUS
  <2>5. Below(x) \in Belows
    OBVIOUS
  <2> HIDE DEF Belows
  <2> QED
    BY <2>2, <2>3, <2>5
<1>3. IsWellFoundedOn(StrictSubsetOrdering(S), FiniteSubsetsOf(S))
  BY FS_StrictSubsetOrderingWellFounded
<1>4. \E B \in Belows : \A C \in Belows : <<C, B>> \notin StrictSubsetOrdering(S)
  <2> HIDE DEF Belows
  <2> QED
    BY <1>2, <1>3, WFMin
<1>5. PICK r \in S : \A q \in S : <<Below(q), Below(r)>> \notin StrictSubsetOrdering(S)
  BY <1>4
<1>6. ASSUME NEW q \in S, q < r PROVE FALSE
  <2>1. \A x \in S : x < q => x < r /\ x # q
    BY <1>1, <1>6
  <2>2. q \in Below(r) /\ q \notin Below(q) /\ Below(q) \subseteq Below(r)
    BY <2>1, <1>6
  <2>3. <<Below(q), Below(r)>> \in StrictSubsetOrdering(S)
    BY <2>2 DEF StrictSubsetOrdering
  <2> QED
    BY <1>5, <2>3
<1>7. \A q \in S : r <= q
  BY <1>1, <1>6
<1> QED
  BY <1>7 DEF First

-----------------------------------------------------------------------------
(* Types *)

\* What check_pending records and counts is well typed.
LEMMA CheckTyped ==
    TypeOK => Recorded \in Logs /\ Negatives \in Streaks /\ Positives \in Streaks
<1> SUFFICES ASSUME TypeOK PROVE Recorded \in Logs /\ Negatives \in Streaks /\ Positives \in Streaks
  OBVIOUS
<1>1. \A r \in Reaction : outcomes[r] \in Seq(Outcome)
  BY DEF TypeOK, Outcome
<1>2. \A r \in Reaction : Append(outcomes[r], "positive") \in Seq(Outcome)
                       /\ Append(outcomes[r], "negative") \in Seq(Outcome)
  BY <1>1, AppendProperties DEF Outcome
<1>3. Recorded \in Logs
  BY <1>1, <1>2 DEF Recorded, Logs
<1>4. Negatives \in Streaks /\ Positives \in Streaks
  BY DEF TypeOK, Negatives, Positives, Streaks
<1> QED
  BY <1>3, <1>4

\* The loop of the boosts leaves everything well typed, and adds at most a boost to a log.
LEMMA BoostsTyped ==
    ASSUME TypeOK, NEW e \in Evaluation, NEW rest \in SUBSET Reaction,
           NEW streak \in Streaks, NEW log \in Logs,
           Boosts(e, rest, streak, log)
    PROVE  /\ pc' \in [Evaluation -> Step] /\ \A d \in Evaluation : d # e => pc'[d] = pc[d]
           /\ target' \in [Evaluation -> Reaction \cup {0}]
           /\ todo' \in [Evaluation -> SUBSET Reaction]
           /\ positive' \in Streaks /\ outcomes' \in Logs
           /\ \A r \in Reaction : outcomes'[r] \in {log[r], Append(log[r], "boost")}
<1> DEFINE ready   == {r \in rest : streak[r] >= BoostAt}
           boosted == ready \cap Boostable
<1>1. \A r \in Reaction : log[r] \in Seq(Outcome) /\ Append(log[r], "boost") \in Seq(Outcome)
  BY AppendProperties DEF Logs, Outcome
<1>2. CASE boosted = {}
  <2>1. /\ Ends(e) /\ outcomes' = log
        /\ positive' = [r \in Reaction |-> IF r \in ready THEN 0 ELSE streak[r]]
    BY <1>2 DEF Boosts
  <2> QED
    BY <2>1 DEF Ends, TypeOK, Streaks, Logs, Step
<1>3. CASE boosted # {}
  <2> DEFINE first == First(boosted)
  <2>1. first \in boosted /\ first \in Reaction
    BY <1>3, FirstIsOne
  <2>2. /\ Suspends(e, "boosting", first, After(rest, first))
        /\ positive' = [q \in Reaction |-> IF q \in ready /\ q < first THEN 0 ELSE streak[q]]
        /\ outcomes' = [log EXCEPT ![first] = Append(@, "boost")]
    BY <1>3 DEF Boosts
  <2> HIDE DEF first, boosted, ready
  <2>3. positive' \in Streaks
    BY <2>2 DEF Streaks
  <2>4. outcomes' \in Logs /\ \A r \in Reaction : outcomes'[r] \in {log[r], Append(log[r], "boost")}
    BY <1>1, <2>1, <2>2 DEF Logs
  <2> QED
    BY <2>1, <2>2, <2>3, <2>4 DEF Suspends, After, TypeOK, Step
<1> QED
  BY <1>2, <1>3

\* So does the loop of the degradations, from which the boosts follow.
LEMMA SubmitsTyped ==
    ASSUME TypeOK, NEW e \in Evaluation, NEW rest \in SUBSET Reaction,
           NEW failures \in Streaks, NEW streak \in Streaks, NEW log \in Logs,
           Submits(e, rest, failures, streak, log)
    PROVE  /\ pc' \in [Evaluation -> Step] /\ \A d \in Evaluation : d # e => pc'[d] = pc[d]
           /\ target' \in [Evaluation -> Reaction \cup {0}]
           /\ todo' \in [Evaluation -> SUBSET Reaction]
           /\ proposal' \in [Reaction -> {"none", "pending", "accepted", "rejected"}]
           /\ positive' \in Streaks /\ outcomes' \in Logs
           /\ \A r \in Reaction : outcomes'[r] \in {log[r], Append(log[r], "boost")}
<1> DEFINE failing == {r \in rest : /\ failures[r] >= DegradeAt
                                    /\ proposal[r] \notin {"accepted", "rejected"}}
<1>1. CASE failing # {}
  <2>1. First(failing) \in Reaction
    BY <1>1, FirstIsOne
  <2>2. /\ proposal' = [proposal EXCEPT ![First(failing)] = "pending"]
        /\ Suspends(e, "submitting", First(failing), After(rest, First(failing)))
        /\ positive' = streak /\ outcomes' = log
    BY <1>1 DEF Submits
  <2> HIDE DEF failing
  <2> QED
    BY <2>1, <2>2 DEF Suspends, After, TypeOK, Step
<1>2. CASE failing = {}
  <2>1. Boosts(e, enabled, streak, log) /\ UNCHANGED proposal
    BY <1>2 DEF Submits
  <2>2. enabled \in SUBSET Reaction
    BY DEF TypeOK
  <2> QED
    BY <2>1, <2>2, BoostsTyped DEF TypeOK
<1> QED
  BY <1>1, <1>2

LEMMA InitType == Init => TypeOK
<1> SUFFICES ASSUME Init PROVE TypeOK
  OBVIOUS
<1>1. /\ now \in Time /\ home \in BOOLEAN /\ arrivals \in 0..MaxArrivals /\ faults \in 0..MaxFaults
  BY OutcomeAssumption DEF Init, Time
<1>2. outcomes \in [Reaction -> Seq({"positive", "negative", "boost"})]
  BY DEF Init
<1> QED
  BY <1>1, <1>2 DEF Init, TypeOK, Step

LEMMA NextType == TypeOK /\ [Next]_vars => TypeOK'
<1> SUFFICES ASSUME TypeOK, [Next]_vars PROVE TypeOK'
  OBVIOUS
<1> USE OutcomeAssumption
<1>1. ASSUME NEW e \in Evaluation, Compute(e) PROVE TypeOK'
  BY <1>1 DEF Compute, TypeOK, worldVars, observedVars, trackerVars, Step
<1>2. ASSUME NEW e \in Evaluation, Dispatch(e) PROVE TypeOK'
  <2>1. PICK fired \in SUBSET Due(snap[e]) :
           /\ pending' = Registered(fired)
           /\ seen' = [r \in Reaction |-> r \notin fired /\ (seen[r] \/ snap[e])]
    BY <1>2 DEF Dispatch
  <2>2. pending' \in [Reaction -> Time \cup {NoTime}] /\ seen' \in [Reaction -> BOOLEAN]
    BY <2>1 DEF Registered, TypeOK
  <2>3. arrived' \in BOOLEAN /\ previous' \in {"none", "home", "away"}
    BY <1>2 DEF Dispatch, OnSnapshot, TypeOK
  <2> QED
    BY <1>2, <2>2, <2>3 DEF Dispatch, TypeOK, worldVars, Step
<1>3. ASSUME NEW e \in Evaluation, Check(e) PROVE TypeOK'
  <2>1. Submits(e, enabled, Negatives, Positives, Recorded) /\ enabled \in SUBSET Reaction
    BY <1>3 DEF Check, TypeOK
  <2>2. /\ pc' \in [Evaluation -> Step] /\ target' \in [Evaluation -> Reaction \cup {0}]
        /\ todo' \in [Evaluation -> SUBSET Reaction]
        /\ proposal' \in [Reaction -> {"none", "pending", "accepted", "rejected"}]
        /\ positive' \in Streaks /\ outcomes' \in Logs
    BY <2>1, CheckTyped, SubmitsTyped
  <2>3. negative' \in Streaks
    BY <1>3, CheckTyped DEF Check
  <2> QED
    BY <1>3, <2>2, <2>3 DEF Check, TypeOK, Streaks, Logs, Outcome, worldVars, observedVars
<1>4. ASSUME NEW e \in Evaluation, Submitted(e) PROVE TypeOK'
  <2>1. /\ Submits(e, todo[e], negative, positive, outcomes)
        /\ todo[e] \in SUBSET Reaction /\ negative \in Streaks /\ positive \in Streaks
        /\ outcomes \in Logs
    BY <1>4 DEF Submitted, TypeOK, Streaks, Logs, Outcome
  <2>2. /\ pc' \in [Evaluation -> Step] /\ target' \in [Evaluation -> Reaction \cup {0}]
        /\ todo' \in [Evaluation -> SUBSET Reaction]
        /\ proposal' \in [Reaction -> {"none", "pending", "accepted", "rejected"}]
        /\ positive' \in Streaks /\ outcomes' \in Logs
    BY <2>1, SubmitsTyped
  <2> QED
    BY <1>4, <2>2 DEF Submitted, TypeOK, Streaks, Logs, Outcome, worldVars, observedVars
<1>5. ASSUME NEW e \in Evaluation, Boosted(e) PROVE TypeOK'
  <2> DEFINE streak == [positive EXCEPT ![target[e]] = 0]
  <2>1. /\ Boosts(e, todo[e], streak, outcomes)
        /\ todo[e] \in SUBSET Reaction /\ streak \in Streaks /\ outcomes \in Logs
    BY <1>5 DEF Boosted, TypeOK, Streaks, Logs, Outcome
  <2> HIDE DEF streak
  <2>2. /\ pc' \in [Evaluation -> Step] /\ target' \in [Evaluation -> Reaction \cup {0}]
        /\ todo' \in [Evaluation -> SUBSET Reaction]
        /\ positive' \in Streaks /\ outcomes' \in Logs
    BY <2>1, BoostsTyped
  <2> QED
    BY <1>5, <2>2 DEF Boosted, TypeOK, Streaks, Logs, Outcome, worldVars, observedVars
<1>6. ASSUME NEW r \in Reaction, Reconfigure(r) PROVE TypeOK'
  BY <1>6 DEF Reconfigure, TypeOK, observedVars, trackerVars, loopVars
<1>7. ASSUME NEW r \in Reaction, NEW v \in {"accepted", "rejected"}, Decide(r, v) PROVE TypeOK'
  BY <1>7 DEF Decide, TypeOK, worldVars, observedVars, trackerVars, loopVars
<1>8. CASE ResetStarts
  BY <1>8 DEF ResetStarts, TypeOK, observedVars, trackerVars, loopVars
<1>9. CASE ResetEnds
  BY <1>9 DEF ResetEnds, TypeOK, worldVars, trackerVars, loopVars
<1>10. CASE Restart
  <2>1. proposal' \in [Reaction -> {"none", "pending", "accepted", "rejected"}]
    BY <1>10 DEF Restart, TypeOK
  <2>2. outcomes' \in [Reaction -> Seq({"positive", "negative", "boost"})]
    BY <1>10 DEF Restart
  <2>3. now' \in Time /\ home' \in BOOLEAN /\ arrivals' \in 0..MaxArrivals /\ faults' \in 0..MaxFaults
    BY <1>10 DEF Restart, TypeOK
  <2>4. /\ pc' \in [Evaluation -> Step] /\ snap' \in [Evaluation -> BOOLEAN]
        /\ target' \in [Evaluation -> Reaction \cup {0}] /\ todo' \in [Evaluation -> SUBSET Reaction]
    BY <1>10 DEF Restart, Step
  <2>5. /\ pending' \in [Reaction -> Time \cup {NoTime}] /\ seen' \in [Reaction -> BOOLEAN]
        /\ negative' \in [Reaction -> Nat] /\ positive' \in [Reaction -> Nat]
    BY <1>10 DEF Restart
  <2>6. /\ previous' \in {"none", "home", "away"} /\ arrived' \in BOOLEAN /\ resetting' \in BOOLEAN
        /\ enabled' \subseteq Reaction /\ backed' \subseteq Reaction /\ disturbed' \in BOOLEAN
    BY <1>10 DEF Restart, TypeOK
  <2> QED
    BY <2>1, <2>2, <2>3, <2>4, <2>5, <2>6 DEF TypeOK
<1>11. CASE ComeOrGo
  BY <1>11 DEF ComeOrGo, TypeOK, observedVars, trackerVars, loopVars
<1>12. CASE Tick
  BY <1>12 DEF Tick, TypeOK, observedVars, trackerVars, loopVars, Time
<1>13. CASE UNCHANGED vars
  BY <1>13 DEF vars, TypeOK, worldVars, observedVars, trackerVars, loopVars
<1> QED
  BY <1>1, <1>2, <1>3, <1>4, <1>5, <1>6, <1>7, <1>8, <1>9, <1>10, <1>11, <1>12, <1>13
  DEF Next, Continue

\* The records of OutcomeTracker, of the event recorder and of the loops are well typed, for
\* any number of reactions and evaluations, with resets, reconfigurations and restarts.
THEOREM TypeCorrect == Spec => []TypeOK
BY InitType, NextType, PTL DEF Spec

-----------------------------------------------------------------------------
(* Nothing is blamed for an arrival that was seen *)

\* As long as no evaluations have overlapped and nothing was reset: an arrival since the
\* firing is still in the events, and the evaluation that saw it has yet to check; without
\* one, the last dispatch saw an empty home, so that the next arrival will be an event.
Blameless ==
    ~disturbed =>
        /\ ~resetting
        /\ \A d, e \in Evaluation : pc[d] # "idle" /\ pc[e] # "idle" => d = e
        /\ \A r \in Awaited : IF seen[r] THEN arrived /\ \E e \in Evaluation : pc[e] = "applying"
                                         ELSE previous = "away"

\* The loops of an evaluation leave what Blameless speaks of alone.
LEMMA LoopsBlameless ==
    ASSUME NEW e \in Evaluation, pc[e] # "idle", Blameless,
           \A d \in Evaluation : d # e => pc'[d] = pc[d],
           UNCHANGED <<resetting, seen, arrived, previous, disturbed>>,
           Awaited' \subseteq Awaited,
           \A r \in Awaited' : ~disturbed => ~seen[r]
    PROVE  Blameless'
BY DEF Blameless

LEMMA NextBlameless == TypeOK /\ Blameless /\ [Next]_vars => Blameless'
<1> SUFFICES ASSUME TypeOK, Blameless, [Next]_vars PROVE Blameless'
  OBVIOUS
<1>0. /\ pc \in [Evaluation -> Step] /\ seen \in [Reaction -> BOOLEAN]
      /\ pending \in [Reaction -> Time \cup {NoTime}] /\ disturbed \in BOOLEAN
  BY DEF TypeOK
<1>1. ASSUME NEW e \in Evaluation, Compute(e) PROVE Blameless'
  <2>1. ASSUME ~disturbed' PROVE ~disturbed /\ \A d \in Evaluation : pc[d] = "idle"
    BY <1>1, <2>1, <1>0 DEF Compute
  <2>2. UNCHANGED <<pending, seen, previous, arrived, resetting>> /\ pc' = [pc EXCEPT ![e] = "computed"]
    BY <1>1 DEF Compute, observedVars, trackerVars
  <2> QED
    BY <1>0, <2>1, <2>2 DEF Blameless, Awaited
<1>2. ASSUME NEW e \in Evaluation, Dispatch(e) PROVE Blameless'
  <2> SUFFICES ASSUME ~disturbed' PROVE Blameless'
    BY DEF Blameless
  <2>1. /\ pc[e] = "computed" /\ pc' = [pc EXCEPT ![e] = "applying"]
        /\ arrived' = (previous = "away" /\ snap[e])
        /\ previous' = IF snap[e] THEN "home" ELSE "away"
        /\ UNCHANGED <<resetting, disturbed>>
    BY <1>2 DEF Dispatch, OnSnapshot
  <2>2. PICK fired \in SUBSET Due(snap[e]) :
           /\ pending' = Registered(fired)
           /\ seen' = [r \in Reaction |-> r \notin fired /\ (seen[r] \/ snap[e])]
    BY <1>2 DEF Dispatch
  <2>3. snap[e] => fired = {}
    BY <2>2 DEF Due
  <2>4. \A d \in Evaluation : pc[d] # "idle" => d = e
    BY <2>1 DEF Blameless
  <2>5. \A r \in Awaited' : r \in fired \/ r \in Awaited
    BY <2>2 DEF Awaited, Registered
  <2>6. \A r \in Awaited : ~seen[r] /\ previous = "away"
    BY <1>0, <2>1, <2>4 DEF Blameless
  <2>7. \A r \in Awaited' : IF seen'[r] THEN snap[e] /\ previous = "away" ELSE ~snap[e]
    BY <1>0, <2>2, <2>3, <2>5, <2>6 DEF Awaited
  <2> QED
    BY <1>0, <2>1, <2>4, <2>7 DEF Blameless
<1>3. ASSUME NEW e \in Evaluation, Check(e) PROVE Blameless'
  <2>1. /\ pc[e] = "applying" /\ UNCHANGED <<resetting, seen, arrived, previous, disturbed>>
        /\ pending' = [r \in Reaction |->
                          IF r \in Matched \cup Expired THEN NoTime ELSE pending[r]]
    BY <1>3 DEF Check, observedVars
  <2>2. \A d \in Evaluation : d # e => pc'[d] = pc[d]
    BY <1>3, CheckTyped, SubmitsTyped DEF Check, TypeOK
  <2>3. Awaited' \subseteq Awaited /\ \A r \in Awaited' : r \notin Matched
    BY <2>1 DEF Awaited
  <2>4. \A r \in Awaited' : ~disturbed => ~seen[r]
    BY <2>3 DEF Matched, Blameless
  <2> QED
    BY <2>1, <2>2, <2>3, <2>4, LoopsBlameless
<1>4. ASSUME NEW e \in Evaluation, Submitted(e) \/ Boosted(e) PROVE Blameless'
  <2>1. /\ pc[e] \in {"submitting", "boosting"}
        /\ UNCHANGED <<resetting, seen, arrived, previous, disturbed, pending>>
    BY <1>4 DEF Submitted, Boosted, observedVars
  <2>2. \A d \in Evaluation : d # e => pc'[d] = pc[d]
    <3>1. CASE Submitted(e)
      BY <3>1, SubmitsTyped DEF Submitted, TypeOK, Streaks, Logs, Outcome
    <3>2. CASE Boosted(e)
      <4> DEFINE streak == [positive EXCEPT ![target[e]] = 0]
      <4>1. /\ Boosts(e, todo[e], streak, outcomes)
            /\ todo[e] \in SUBSET Reaction /\ streak \in Streaks /\ outcomes \in Logs
        BY <3>2 DEF Boosted, TypeOK, Streaks, Logs, Outcome
      <4> HIDE DEF streak
      <4> QED
        BY <4>1, BoostsTyped
    <3> QED
      BY <1>4, <3>1, <3>2
  <2>3. \A r \in Awaited : ~disturbed => ~seen[r]
    BY <2>1 DEF Blameless
  <2>4. Awaited' = Awaited
    BY <2>1 DEF Awaited
  <2> QED
    BY <2>1, <2>2, <2>3, <2>4, LoopsBlameless
<1>5. CASE ResetStarts
  BY <1>5 DEF ResetStarts, Blameless
<1>6. CASE ResetEnds
  BY <1>6 DEF ResetEnds, Blameless
<1>7. CASE Restart
  <2>1. ~resetting' /\ Awaited' = {} /\ \A d \in Evaluation : pc'[d] = "idle"
    BY <1>7 DEF Restart, Awaited
  <2> QED
    BY <2>1 DEF Blameless
<1>8. CASE \/ \E r \in Reaction : Reconfigure(r) \/ \E v \in {"accepted", "rejected"} : Decide(r, v)
           \/ ComeOrGo \/ Tick \/ UNCHANGED vars
  <2>1. UNCHANGED <<pc, pending, seen, arrived, previous, resetting, disturbed>>
    BY <1>8 DEF Reconfigure, Decide, ComeOrGo, Tick, vars, observedVars, trackerVars, loopVars
  <2> QED
    BY <2>1 DEF Blameless, Awaited
<1> QED
  BY <1>1, <1>2, <1>3, <1>4, <1>5, <1>6, <1>7, <1>8 DEF Next, Continue

\* A log grows by a failure only when the check found the reaction's firing expired.
LEMMA OnlyExpiredBlamed ==
    ASSUME TypeOK, [Next]_vars, NEW r \in Reaction,
           outcomes'[r] = Append(outcomes[r], "negative")
    PROVE  r \in Expired
<1>1. outcomes[r] \in Seq(Outcome)
  BY DEF TypeOK, Outcome
<1>2. \A log \in Seq(Outcome), k \in {"positive", "boost"} :
          Append(log, k) # Append(outcomes[r], "negative")
  BY <1>1, AppendInjective, "positive" # "negative", "boost" # "negative" DEF Outcome
<1>3. outcomes[r] # Append(outcomes[r], "negative") /\ <<>> # Append(outcomes[r], "negative")
  <2>1. Len(Append(outcomes[r], "negative")) = Len(outcomes[r]) + 1
    BY <1>1, AppendProperties DEF Outcome
  <2>2. Len(outcomes[r]) \in Nat
    BY <1>1
  <2>3. Append(outcomes[r], "negative") # <<>>
    BY <1>1, AppendProperties DEF Outcome
  <2> QED
    BY <2>1, <2>2, <2>3
<1>4. ASSUME NEW e \in Evaluation, Check(e) PROVE r \in Expired
  <2>1. outcomes'[r] \in {Recorded[r], Append(Recorded[r], "boost")} /\ Recorded[r] \in Seq(Outcome)
    <3>1. Submits(e, enabled, Negatives, Positives, Recorded) /\ enabled \in SUBSET Reaction
      BY <1>4 DEF Check, TypeOK
    <3>2. Recorded \in Logs /\ Negatives \in Streaks /\ Positives \in Streaks
      BY CheckTyped
    <3>3. \A q \in Reaction : outcomes'[q] \in {Recorded[q], Append(Recorded[q], "boost")}
      BY <3>1, <3>2, SubmitsTyped
    <3> QED
      BY <3>2, <3>3 DEF Logs
  <2>2. Recorded[r] = Append(outcomes[r], "negative")
    BY <2>1, <1>2
  <2>3. CASE r \in Matched
    BY <2>2, <2>3, <1>1, <1>2 DEF Recorded
  <2>4. CASE r \notin Matched /\ r \notin Expired
    BY <2>2, <2>4, <1>3 DEF Recorded
  <2> QED
    BY <2>3, <2>4
<1>5. ASSUME NEW e \in Evaluation, Submitted(e) PROVE FALSE
  <2>1. outcomes'[r] \in {outcomes[r], Append(outcomes[r], "boost")}
    <3>1. /\ Submits(e, todo[e], negative, positive, outcomes)
          /\ todo[e] \in SUBSET Reaction /\ negative \in Streaks /\ positive \in Streaks
          /\ outcomes \in Logs
      BY <1>5 DEF Submitted, TypeOK, Streaks, Logs, Outcome
    <3> QED
      BY <3>1, SubmitsTyped
  <2> QED
    BY <2>1, <1>1, <1>2, <1>3
<1>6. ASSUME NEW e \in Evaluation, Boosted(e) PROVE FALSE
  <2>1. outcomes'[r] \in {outcomes[r], Append(outcomes[r], "boost")}
    <3> DEFINE streak == [positive EXCEPT ![target[e]] = 0]
    <3>1. /\ Boosts(e, todo[e], streak, outcomes)
          /\ todo[e] \in SUBSET Reaction /\ streak \in Streaks /\ outcomes \in Logs
      BY <1>6 DEF Boosted, TypeOK, Streaks, Logs, Outcome
    <3> HIDE DEF streak
    <3> QED
      BY <3>1, BoostsTyped
  <2> QED
    BY <2>1, <1>1, <1>2, <1>3
<1>7. CASE Restart
  <2>1. outcomes'[r] = <<>>
    BY <1>7 DEF Restart
  <2> QED
    BY <2>1, <1>3
<1>8. CASE \/ \E e \in Evaluation : Compute(e) \/ Dispatch(e)
           \/ \E q \in Reaction : Reconfigure(q) \/ \E v \in {"accepted", "rejected"} : Decide(q, v)
           \/ ResetStarts \/ ResetEnds \/ ComeOrGo \/ Tick \/ UNCHANGED vars
  <2>1. outcomes' = outcomes
    BY <1>8 DEF Compute, Dispatch, Reconfigure, Decide, ResetStarts, ResetEnds, ComeOrGo, Tick, vars
  <2> QED
    BY <2>1, <1>3
<1> QED
  BY <1>4, <1>5, <1>6, <1>7, <1>8 DEF Next, Continue

\* A reaction is not blamed when the arrival it prepared for was seen after it fired, for any
\* number of reactions, any windows and timeouts, and through restarts and reconfigurations.
THEOREM BlameIsTrue == Spec => BlamedTruthfully
<1> DEFINE Truthful == ~disturbed => \A r \in Reaction :
                           outcomes'[r] = Append(outcomes[r], "negative") => ~seen[r]
<1>1. Init => Blameless
  BY DEF Init, Blameless, Awaited
<1>2. TypeOK /\ Blameless /\ [Next]_vars => [Truthful]_vars
  <2> SUFFICES ASSUME TypeOK, Blameless, [Next]_vars, ~disturbed, NEW r \in Reaction,
                      outcomes'[r] = Append(outcomes[r], "negative"), seen[r]
               PROVE  FALSE
    OBVIOUS
  <2>1. r \in Expired
    BY OnlyExpiredBlamed
  <2>2. r \in Awaited /\ r \notin Matched
    BY <2>1 DEF Expired
  <2> QED
    BY <2>2 DEF Blameless, Matched
<1> QED
  BY InitType, NextType, NextBlameless, <1>1, <1>2, PTL DEF Spec, BlamedTruthfully

-----------------------------------------------------------------------------
(* Degradations and boosts are earned *)

\* A log ends with any number of outcomes less than one that it ends with, and with none.
LEMMA EndsWithFewer ==
    ASSUME NEW log \in Seq(Outcome), NEW kind, NEW m \in Nat, NEW n \in Nat, m <= n,
           EndsWith(log, kind, n)
    PROVE  EndsWith(log, kind, m)
<1>1. Len(log) \in Nat
  OBVIOUS
<1> QED
  BY <1>1 DEF EndsWith

LEMMA EndsWithNone == ASSUME NEW log \in Seq(Outcome), NEW kind PROVE EndsWith(log, kind, 0)
<1>1. Len(log) \in Nat
  OBVIOUS
<1> QED
  BY <1>1 DEF EndsWith

\* One more of the same kind makes the end longer.
LEMMA EndsWithMore ==
    ASSUME NEW log \in Seq(Outcome), NEW kind \in Outcome, NEW n \in Nat, EndsWith(log, kind, n)
    PROVE  EndsWith(Append(log, kind), kind, n + 1)
<1>1. /\ Len(log) \in Nat /\ Len(Append(log, kind)) = Len(log) + 1
      /\ \A i \in 1..Len(log) : Append(log, kind)[i] = log[i]
      /\ Append(log, kind)[Len(log) + 1] = kind
  BY AppendProperties
<1>2. ASSUME NEW i \in (Len(log) + 1 - (n + 1) + 1)..(Len(log) + 1) PROVE Append(log, kind)[i] = kind
  <2>1. CASE i = Len(log) + 1
    BY <1>1, <2>1
  <2>2. CASE i # Len(log) + 1
    <3>1. i \in (Len(log) - n + 1)..Len(log) /\ i \in 1..Len(log)
      BY <1>1, <2>2 DEF EndsWith
    <3> QED
      BY <1>1, <3>1 DEF EndsWith
  <2> QED
    BY <2>1, <2>2
<1>3. n + 1 <= Len(log) + 1
  BY <1>1 DEF EndsWith
<1> QED
  BY <1>1, <1>2, <1>3 DEF EndsWith

\* Without its last entry a log that grew by one is what it was.
LEMMA WithoutLast ==
    ASSUME NEW log \in Seq(Outcome), NEW kind \in Outcome
    PROVE  LET longer == Append(log, kind)
           IN /\ longer[Len(longer)] = kind /\ Len(longer) = Len(log) + 1
              /\ SubSeq(longer, 1, Len(longer) - 1) = log
<1>1. /\ Len(log) \in Nat /\ Len(Append(log, kind)) = Len(log) + 1
      /\ Append(log, kind)[Len(log) + 1] = kind
  BY AppendProperties
<1>2. SubSeq(Append(log, kind), 1, Len(log)) = log
  BY <1>1, AppendProperties, SubSeqProperties
<1>3. Len(log) + 1 - 1 = Len(log)
  BY <1>1
<1> QED
  BY <1>1, <1>2, <1>3

\* A streak of failures is in the log, and a reaction has no two streaks at once.
Failing(failures, streak, log) ==
    \A r \in Reaction : /\ EndsWith(log[r], "negative", failures[r])
                        /\ failures[r] = 0 \/ streak[r] = 0

\* So is a streak of successes.
Succeeding(streak, log) == \A r \in Reaction : EndsWith(log[r], "positive", streak[r])

\* What the loops of e add to a log: nothing, or the boost that e goes on to save, after as
\* many successes as it takes.
BoostsEarned(e, log) ==
    \A r \in Reaction :
       \/ outcomes'[r] = log[r] /\ EndsWith(log[r], "positive", positive'[r])
       \/ /\ outcomes'[r] = Append(log[r], "boost")
          /\ EndsWith(log[r], "positive", BoostAt)
          /\ pc'[e] = "boosting" /\ target'[e] = r

\* Once a boost is recorded its streak is out of date, until the boost is saved.
StreaksInLog ==
    /\ Failing(negative, positive, outcomes)
    /\ ~disturbed => \A r \in Reaction :
          \/ EndsWith(outcomes[r], "positive", positive[r])
          \/ \E e \in Evaluation : pc[e] = "boosting" /\ target[e] = r

\* What check_pending counts is what it records.
LEMMA CheckInLog ==
    ASSUME TypeOK, StreaksInLog
    PROVE  /\ Failing(Negatives, Positives, Recorded)
           /\ Succeeding(positive, outcomes) => Succeeding(Positives, Recorded)
<1>1. ASSUME NEW r \in Reaction
      PROVE  /\ outcomes[r] \in Seq(Outcome) /\ negative[r] \in Nat /\ positive[r] \in Nat
             /\ EndsWith(outcomes[r], "negative", negative[r])
             /\ negative[r] = 0 \/ positive[r] = 0
  BY DEF TypeOK, StreaksInLog, Failing, Outcome
<1>2. ASSUME NEW r \in Reaction
      PROVE  /\ Append(outcomes[r], "positive") \in Seq(Outcome)
             /\ Append(outcomes[r], "negative") \in Seq(Outcome)
             /\ EndsWith(Append(outcomes[r], "negative"), "negative", negative[r] + 1)
             /\ EndsWith(outcomes[r], "positive", positive[r])
                   => EndsWith(Append(outcomes[r], "positive"), "positive", positive[r] + 1)
  <2>1. /\ Append(outcomes[r], "positive") \in Seq(Outcome)
        /\ Append(outcomes[r], "negative") \in Seq(Outcome)
    BY <1>1, AppendProperties DEF Outcome
  <2>2. "positive" \in Outcome /\ "negative" \in Outcome
    BY DEF Outcome
  <2> QED
    BY <1>1, <2>1, <2>2, EndsWithMore
<1>3. ASSUME NEW r \in Reaction
      PROVE  /\ EndsWith(Recorded[r], "negative", Negatives[r])
             /\ Negatives[r] = 0 \/ Positives[r] = 0
             /\ EndsWith(outcomes[r], "positive", positive[r])
                   => EndsWith(Recorded[r], "positive", Positives[r])
  <2>1. CASE r \in Matched
    <3>0. r \notin Expired
      BY <2>1 DEF Expired
    <3>1. /\ Recorded[r] = Append(outcomes[r], "positive")
          /\ Negatives[r] = 0 /\ Positives[r] = positive[r] + 1
      BY <2>1, <3>0 DEF Recorded, Negatives, Positives
    <3> QED
      BY <1>2, <3>1, EndsWithNone
  <2>2. CASE r \notin Matched /\ r \in Expired
    <3>1. /\ Recorded[r] = Append(outcomes[r], "negative")
          /\ Negatives[r] = negative[r] + 1 /\ Positives[r] = 0
      BY <2>2 DEF Recorded, Negatives, Positives
    <3> QED
      BY <1>2, <3>1, EndsWithNone
  <2>3. CASE r \notin Matched /\ r \notin Expired
    BY <1>1, <2>3 DEF Recorded, Negatives, Positives
  <2> QED
    BY <2>1, <2>2, <2>3
<1> QED
  BY <1>3 DEF Failing, Succeeding

\* The loop of the boosts keeps the streaks in the log, and boosts only where the log ends
\* with as many successes as a boost takes.
LEMMA BoostsInLog ==
    ASSUME TypeOK, NEW e \in Evaluation, NEW rest \in SUBSET Reaction, NEW failures \in Streaks,
           NEW streak \in Streaks, NEW log \in Logs,
           Boosts(e, rest, streak, log), Failing(failures, streak, log)
    PROVE  /\ Failing(failures, positive', outcomes')
           /\ Succeeding(streak, log) => BoostsEarned(e, log)
<1> DEFINE ready   == {r \in rest : streak[r] >= BoostAt}
           boosted == ready \cap Boostable
<1>1. ASSUME NEW r \in Reaction
      PROVE  /\ log[r] \in Seq(Outcome) /\ Append(log[r], "boost") \in Seq(Outcome)
             /\ streak[r] \in Nat /\ failures[r] \in Nat
             /\ \A kind \in Outcome : EndsWith(log[r], kind, 0)
             /\ EndsWith(Append(log[r], "boost"), "negative", 0)
  <2>1. log[r] \in Seq(Outcome) /\ streak[r] \in Nat /\ failures[r] \in Nat
    BY DEF Logs, Streaks
  <2>2. Append(log[r], "boost") \in Seq(Outcome)
    BY <2>1, AppendProperties DEF Outcome
  <2> QED
    BY <2>1, <2>2, EndsWithNone
<1>2. BoostAt \in Nat \ {0}
  BY OutcomeAssumption
<1>3. CASE boosted = {}
  <2>1. /\ outcomes' = log
        /\ positive' = [r \in Reaction |-> IF r \in ready THEN 0 ELSE streak[r]]
    BY <1>3 DEF Boosts
  <2> HIDE DEF ready
  <2>2. "positive" \in Outcome
    BY DEF Outcome
  <2> QED
    BY <1>1, <2>1, <2>2 DEF Failing, Succeeding, BoostsEarned
<1>4. CASE boosted # {}
  <2> DEFINE first == First(boosted)
  <2>1. first \in boosted /\ first \in Reaction /\ streak[first] >= BoostAt
    <3>1. boosted \in SUBSET Reaction
      OBVIOUS
    <3>2. first \in boosted
      BY <1>4, <3>1, FirstIsOne
    <3> QED
      BY <3>2
  <2>2. /\ Suspends(e, "boosting", first, After(rest, first))
        /\ positive' = [q \in Reaction |-> IF q \in ready /\ q < first THEN 0 ELSE streak[q]]
        /\ outcomes' = [log EXCEPT ![first] = Append(@, "boost")]
    BY <1>4 DEF Boosts
  <2> HIDE DEF first, boosted, ready
  <2>3. pc'[e] = "boosting" /\ target'[e] = first
    BY <2>2 DEF Suspends, TypeOK
  <2>4. failures[first] = 0 /\ outcomes'[first] = Append(log[first], "boost")
    <3>1. streak[first] # 0
      BY <1>1, <1>2, <2>1
    <3>2. DOMAIN log = Reaction
      BY DEF Logs
    <3> QED
      BY <2>1, <2>2, <3>1, <3>2 DEF Failing
  <2>5. \A r \in Reaction : r # first => outcomes'[r] = log[r]
    BY <2>1, <2>2 DEF Logs
  <2>6. \A r \in Reaction : positive'[r] \in {0, streak[r]}
    BY <2>2
  <2>7. Failing(failures, positive', outcomes')
    BY <1>1, <2>4, <2>5, <2>6 DEF Failing
  <2>8. Succeeding(streak, log) => EndsWith(log[first], "positive", BoostAt)
    BY <1>1, <1>2, <2>1, EndsWithFewer DEF Succeeding
  <2>9. "positive" \in Outcome
    BY DEF Outcome
  <2>10. ASSUME Succeeding(streak, log), NEW r \in Reaction, r # first
         PROVE  EndsWith(log[r], "positive", positive'[r])
    BY <1>1, <2>6, <2>9, <2>10 DEF Succeeding
  <2> QED
    BY <2>3, <2>4, <2>5, <2>7, <2>8, <2>10 DEF BoostsEarned
<1> QED
  BY <1>3, <1>4

\* So does the loop of the degradations, and proposes only what failed often enough.
LEMMA SubmitsInLog ==
    ASSUME TypeOK, NEW e \in Evaluation, NEW rest \in SUBSET Reaction, NEW failures \in Streaks,
           NEW streak \in Streaks, NEW log \in Logs,
           Submits(e, rest, failures, streak, log), Failing(failures, streak, log)
    PROVE  /\ Failing(failures, positive', outcomes')
           /\ Succeeding(streak, log) => BoostsEarned(e, log)
           /\ \A r \in Reaction : proposal[r] = "none" /\ proposal'[r] = "pending" =>
                 EndsWith(outcomes'[r], "negative", DegradeAt)
<1> DEFINE failing == {r \in rest : /\ failures[r] >= DegradeAt
                                    /\ proposal[r] \notin {"accepted", "rejected"}}
<1>1. CASE failing # {}
  <2> DEFINE first == First(failing)
  <2>1. first \in Reaction /\ failures[first] >= DegradeAt
    <3>1. failing \in SUBSET Reaction
      OBVIOUS
    <3>2. first \in failing
      BY <1>1, <3>1, FirstIsOne
    <3> QED
      BY <3>2
  <2>2. /\ proposal' = [proposal EXCEPT ![first] = "pending"]
        /\ positive' = streak /\ outcomes' = log
    BY <1>1 DEF Submits
  <2> HIDE DEF first, failing
  <2>3. \A r \in Reaction : proposal'[r] # proposal[r] => r = first
    BY <2>1, <2>2 DEF TypeOK
  <2>4. EndsWith(log[first], "negative", DegradeAt)
    <3>1. /\ log[first] \in Seq(Outcome) /\ failures[first] \in Nat /\ DegradeAt \in Nat
          /\ EndsWith(log[first], "negative", failures[first])
      BY <2>1, OutcomeAssumption DEF Logs, Streaks, Failing
    <3>2. DegradeAt <= failures[first]
      BY <2>1, <3>1
    <3> QED
      BY <3>1, <3>2, EndsWithFewer
  <2> QED
    BY <2>2, <2>3, <2>4 DEF Succeeding, BoostsEarned
<1>2. CASE failing = {}
  <2>1. Boosts(e, enabled, streak, log) /\ UNCHANGED proposal /\ enabled \in SUBSET Reaction
    BY <1>2 DEF Submits, TypeOK
  <2> HIDE DEF failing
  <2>2. \A r \in Reaction : ~(proposal[r] = "none" /\ proposal'[r] = "pending")
    BY <2>1
  <2>3. /\ Failing(failures, positive', outcomes')
        /\ Succeeding(streak, log) => BoostsEarned(e, log)
    BY <2>1, BoostsInLog
  <2> QED
    BY <2>2, <2>3
<1> QED
  BY <1>1, <1>2

\* An evaluation that is alone, and is not saving a boost, finds all its successes in the
\* logs; one that is saving a boost finds the others'.
LEMMA AloneInLog ==
    ASSUME Blameless, StreaksInLog, ~disturbed, NEW e \in Evaluation, pc[e] # "idle"
    PROVE  /\ pc[e] # "boosting" => Succeeding(positive, outcomes)
           /\ \A r \in Reaction : r # target[e] => EndsWith(outcomes[r], "positive", positive[r])
BY DEF Blameless, StreaksInLog, Succeeding

\* The steps that run the loops: what is recorded keeps the streaks in the logs.
LEMMA CheckKeepsLog ==
    ASSUME TypeOK, Blameless, StreaksInLog, NEW e \in Evaluation, Check(e)
    PROVE  /\ Failing(negative', positive', outcomes') /\ UNCHANGED disturbed
           /\ ~disturbed => BoostsEarned(e, Recorded)
           /\ \A r \in Reaction : proposal[r] = "none" /\ proposal'[r] = "pending" =>
                 EndsWith(outcomes'[r], "negative", DegradeAt)
<1>1. /\ Submits(e, enabled, Negatives, Positives, Recorded) /\ enabled \in SUBSET Reaction
      /\ pc[e] = "applying" /\ negative' = Negatives /\ UNCHANGED disturbed
  BY DEF Check, TypeOK
<1>2. Recorded \in Logs /\ Negatives \in Streaks /\ Positives \in Streaks
  BY CheckTyped
<1>3. Failing(Negatives, Positives, Recorded)
  BY CheckInLog
<1>4. ~disturbed => Succeeding(Positives, Recorded)
  BY <1>1, CheckInLog, AloneInLog
<1> QED
  BY <1>1, <1>2, <1>3, <1>4, SubmitsInLog

LEMMA SubmittedKeepsLog ==
    ASSUME TypeOK, Blameless, StreaksInLog, NEW e \in Evaluation, Submitted(e)
    PROVE  /\ Failing(negative', positive', outcomes') /\ UNCHANGED disturbed
           /\ ~disturbed => BoostsEarned(e, outcomes)
           /\ \A r \in Reaction : proposal[r] = "none" /\ proposal'[r] = "pending" =>
                 EndsWith(outcomes'[r], "negative", DegradeAt)
<1>1. /\ Submits(e, todo[e], negative, positive, outcomes) /\ todo[e] \in SUBSET Reaction
      /\ pc[e] = "submitting" /\ negative' = negative /\ UNCHANGED disturbed
      /\ outcomes \in Logs /\ negative \in Streaks /\ positive \in Streaks
  BY DEF Submitted, TypeOK, Logs, Streaks, Outcome
<1>2. Failing(negative, positive, outcomes)
  BY DEF StreaksInLog
<1>3. ~disturbed => Succeeding(positive, outcomes)
  BY <1>1, AloneInLog
<1> QED
  BY <1>1, <1>2, <1>3, SubmitsInLog

LEMMA BoostedKeepsLog ==
    ASSUME TypeOK, Blameless, StreaksInLog, NEW e \in Evaluation, Boosted(e)
    PROVE  /\ Failing(negative', positive', outcomes') /\ UNCHANGED <<disturbed, proposal>>
           /\ ~disturbed => BoostsEarned(e, outcomes)
<1> DEFINE streak == [positive EXCEPT ![target[e]] = 0]
<1>1. /\ Boosts(e, todo[e], streak, outcomes) /\ todo[e] \in SUBSET Reaction
      /\ pc[e] = "boosting" /\ negative' = negative /\ UNCHANGED <<disturbed, proposal>>
      /\ outcomes \in Logs /\ negative \in Streaks /\ streak \in Streaks
  BY DEF Boosted, TypeOK, Logs, Streaks, Outcome
<1>2. \A r \in Reaction : streak[r] = IF r = target[e] THEN 0 ELSE positive[r]
  BY DEF TypeOK
<1> HIDE DEF streak
<1>3. Failing(negative, streak, outcomes)
  BY <1>2 DEF StreaksInLog, Failing
<1>4. ASSUME ~disturbed PROVE Succeeding(streak, outcomes)
  <2>1. \A r \in Reaction : EndsWith(outcomes[r], "positive", 0)
    BY <1>1, EndsWithNone DEF Logs
  <2>2. \A r \in Reaction : r # target[e] => EndsWith(outcomes[r], "positive", positive[r])
    BY <1>1, <1>4, AloneInLog
  <2> QED
    BY <1>2, <2>1, <2>2 DEF Succeeding
<1> QED
  BY <1>1, <1>3, <1>4, BoostsInLog

LEMMA NextInLog == TypeOK /\ Blameless /\ StreaksInLog /\ [Next]_vars => StreaksInLog'
<1> SUFFICES ASSUME TypeOK, Blameless, StreaksInLog, [Next]_vars PROVE StreaksInLog'
  OBVIOUS
<1>1. ASSUME NEW e \in Evaluation, Compute(e) PROVE StreaksInLog'
  <2>1. /\ UNCHANGED <<positive, negative, outcomes, target>> /\ (disturbed => disturbed')
        /\ pc[e] = "idle" /\ pc' = [pc EXCEPT ![e] = "computed"]
    BY <1>1 DEF Compute, trackerVars
  <2>2. \A d \in Evaluation : pc[d] = "boosting" => pc'[d] = "boosting"
    BY <2>1 DEF TypeOK
  <2> QED
    BY <2>1, <2>2 DEF StreaksInLog
<1>2. ASSUME NEW e \in Evaluation, Dispatch(e) PROVE StreaksInLog'
  <2>1. /\ UNCHANGED <<positive, negative, outcomes, target, disturbed>>
        /\ pc[e] = "computed" /\ pc' = [pc EXCEPT ![e] = "applying"]
    BY <1>2 DEF Dispatch
  <2>2. \A d \in Evaluation : pc[d] = "boosting" => pc'[d] = "boosting"
    BY <2>1 DEF TypeOK
  <2> QED
    BY <2>1, <2>2 DEF StreaksInLog
<1>3. ASSUME NEW e \in Evaluation, Check(e) \/ Submitted(e) \/ Boosted(e) PROVE StreaksInLog'
  <2>1. PICK log : /\ Failing(negative', positive', outcomes') /\ UNCHANGED disturbed
                   /\ ~disturbed => BoostsEarned(e, log)
    BY <1>3, CheckKeepsLog, SubmittedKeepsLog, BoostedKeepsLog
  <2>2. ASSUME ~disturbed', NEW r \in Reaction
        PROVE  \/ EndsWith(outcomes'[r], "positive", positive'[r])
               \/ pc'[e] = "boosting" /\ target'[e] = r
    BY <2>1, <2>2 DEF BoostsEarned
  <2> QED
    BY <2>1, <2>2 DEF StreaksInLog
<1>4. CASE Restart
  <2>1. \A r \in Reaction : positive'[r] = 0 /\ negative'[r] = 0 /\ outcomes'[r] = <<>>
    BY <1>4 DEF Restart
  <2>2. <<>> \in Seq(Outcome)
    OBVIOUS
  <2>3. \A r \in Reaction : /\ EndsWith(outcomes'[r], "negative", negative'[r])
                            /\ EndsWith(outcomes'[r], "positive", positive'[r])
    BY <2>1, <2>2, EndsWithNone
  <2> QED
    BY <2>1, <2>3 DEF StreaksInLog, Failing
<1>5. CASE \/ \E r \in Reaction : Reconfigure(r) \/ \E v \in {"accepted", "rejected"} : Decide(r, v)
           \/ ResetStarts \/ ResetEnds \/ ComeOrGo \/ Tick \/ UNCHANGED vars
  <2>1. UNCHANGED <<pc, target, positive, negative, outcomes>> /\ (disturbed => disturbed')
    BY <1>5 DEF Reconfigure, Decide, ResetStarts, ResetEnds, ComeOrGo, Tick, vars, trackerVars,
                loopVars
  <2> QED
    BY <2>1 DEF StreaksInLog
<1> QED
  BY <1>1, <1>2, <1>3, <1>4, <1>5 DEF Next, Continue

LEMMA InitInLog == Init => StreaksInLog
<1> SUFFICES ASSUME Init PROVE StreaksInLog
  OBVIOUS
<1>1. \A r \in Reaction : positive[r] = 0 /\ negative[r] = 0 /\ outcomes[r] \in Seq(Outcome)
  BY DEF Init
<1>2. \A r \in Reaction : /\ EndsWith(outcomes[r], "negative", negative[r])
                          /\ EndsWith(outcomes[r], "positive", positive[r])
  BY <1>1, EndsWithNone
<1> QED
  BY <1>1, <1>2 DEF StreaksInLog, Failing

\* A boost that is the last entry of a longer log was added by this step, after the
\* successes it takes.
LEMMA BoostEarned ==
    ASSUME TypeOK, NEW e \in Evaluation, NEW r \in Reaction, NEW log \in Logs, BoostsEarned(e, log),
           log[r] = outcomes[r] \/ \E k \in {"positive", "negative"} : log[r] = Append(outcomes[r], k),
           Len(outcomes'[r]) > Len(outcomes[r]), outcomes'[r][Len(outcomes'[r])] = "boost"
    PROVE  EndsWith(SubSeq(outcomes'[r], 1, Len(outcomes'[r]) - 1), "positive", BoostAt)
<1>1. outcomes[r] \in Seq(Outcome) /\ log[r] \in Seq(Outcome)
  BY DEF TypeOK, Logs, Outcome
<1>2. outcomes'[r] # log[r]
  <2>1. CASE log[r] = outcomes[r]
    <3>1. Len(outcomes[r]) \in Nat
      BY <1>1
    <3> QED
      BY <2>1, <3>1
  <2>2. ASSUME NEW k \in {"positive", "negative"}, log[r] = Append(outcomes[r], k)
        PROVE  outcomes'[r] # log[r]
    <3>1. log[r][Len(log[r])] = k
      BY <1>1, <2>2, WithoutLast DEF Outcome
    <3> QED
      BY <3>1
  <2> QED
    BY <2>1, <2>2
<1>3. outcomes'[r] = Append(log[r], "boost") /\ EndsWith(log[r], "positive", BoostAt)
  BY <1>2 DEF BoostsEarned
<1>4. SubSeq(outcomes'[r], 1, Len(outcomes'[r]) - 1) = log[r]
  BY <1>1, <1>3, WithoutLast DEF Outcome
<1> QED
  BY <1>3, <1>4

\* A degradation is proposed only after DegradeAt failures in a row, whatever was reset,
\* disabled or decided in between, and, unless evaluations overlap, confidence is boosted once
\* for BoostAt successes in a row: for any number of reactions and any thresholds.
THEOREM FeedbackStaysEarned == Spec => FeedbackEarned
<1> DEFINE Proposed(r) == proposal[r] = "none" /\ proposal'[r] = "pending" =>
                              EndsWith(outcomes'[r], "negative", DegradeAt)
           Raised(r)   == /\ ~disturbed /\ Len(outcomes'[r]) > Len(outcomes[r])
                          /\ outcomes'[r][Len(outcomes'[r])] = "boost"
           Earned(r)   == Raised(r) =>
                              EndsWith(SubSeq(outcomes'[r], 1, Len(outcomes'[r]) - 1), "positive", BoostAt)
<1>1. TypeOK /\ Blameless /\ StreaksInLog /\ [Next]_vars => \A r \in Reaction : Proposed(r) /\ Earned(r)
  <2> SUFFICES ASSUME TypeOK, Blameless, StreaksInLog, [Next]_vars, NEW r \in Reaction
               PROVE  Proposed(r) /\ Earned(r)
    OBVIOUS
  <2>0. outcomes[r] \in Seq(Outcome) /\ outcomes \in Logs /\ Len(outcomes[r]) \in Nat
    BY DEF TypeOK, Logs, Outcome
  <2>1. ASSUME NEW e \in Evaluation, Check(e) PROVE Proposed(r) /\ Earned(r)
    <3>1. Recorded \in Logs /\ (~disturbed => BoostsEarned(e, Recorded)) /\ Proposed(r)
      BY <2>1, CheckKeepsLog, CheckTyped
    <3>2. \/ Recorded[r] = outcomes[r]
          \/ \E k \in {"positive", "negative"} : Recorded[r] = Append(outcomes[r], k)
      BY DEF Recorded
    <3> QED
      BY <3>1, <3>2, BoostEarned
  <2>2. ASSUME NEW e \in Evaluation, Submitted(e) \/ Boosted(e) PROVE Proposed(r) /\ Earned(r)
    <3>1. (~disturbed => BoostsEarned(e, outcomes)) /\ Proposed(r)
      BY <2>2, SubmittedKeepsLog, BoostedKeepsLog
    <3> QED
      BY <2>0, <3>1, BoostEarned
  <2>3. CASE Restart
    <3>1. outcomes'[r] = <<>>
      BY <2>3 DEF Restart
    <3>2. ~(Len(outcomes'[r]) > Len(outcomes[r]))
      BY <2>0, <3>1
    <3>3. proposal'[r] \in {"none", proposal[r]}
      BY <2>3 DEF Restart
    <3> QED
      BY <3>2, <3>3
  <2>4. CASE \/ \E e \in Evaluation : Compute(e) \/ Dispatch(e)
             \/ \E q \in Reaction : Reconfigure(q) \/ \E v \in {"accepted", "rejected"} : Decide(q, v)
             \/ ResetStarts \/ ResetEnds \/ ComeOrGo \/ Tick \/ UNCHANGED vars
    <3>1. outcomes' = outcomes
      BY <2>4 DEF Compute, Dispatch, Reconfigure, Decide, ResetStarts, ResetEnds, ComeOrGo, Tick, vars
    <3>2. ~(Len(outcomes'[r]) > Len(outcomes[r]))
      BY <2>0, <3>1
    <3>3. ~(proposal[r] = "none" /\ proposal'[r] = "pending")
      BY <2>4 DEF Compute, Dispatch, Reconfigure, Decide, ResetStarts, ResetEnds, ComeOrGo, Tick, vars,
                  TypeOK
    <3> QED
      BY <3>2, <3>3
  <2> QED
    BY <2>1, <2>2, <2>3, <2>4 DEF Next, Continue
<1>2. TypeOK /\ Blameless /\ StreaksInLog /\ [Next]_vars =>
         [\A r \in Reaction :
             LET log == outcomes'[r] IN
             /\ proposal[r] = "none" /\ proposal'[r] = "pending" =>
                   EndsWith(log, "negative", DegradeAt)
             /\ ~disturbed /\ Len(log) > Len(outcomes[r]) /\ log[Len(log)] = "boost" =>
                   EndsWith(SubSeq(log, 1, Len(log) - 1), "positive", BoostAt)]_vars
  BY <1>1
<1>3. Init => Blameless
  BY DEF Init, Blameless, Awaited
<1> QED
  BY InitType, InitInLog, NextType, NextBlameless, NextInLog, <1>2, <1>3, PTL DEF Spec, FeedbackEarned

=============================================================================
