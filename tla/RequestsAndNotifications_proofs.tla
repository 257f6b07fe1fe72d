------------------ MODULE RequestsAndNotifications_proofs -------------------
(***************************************************************************)
(* Proofs about RuntimeConfirmation, for any set of requests and of        *)
(* reactions, any calendar and any mix of policies, and about              *)
(* NotificationPipeline, for any coroutines, routes and windows: the       *)
(* types, that a deferred delivery waits in one place until it is made,    *)
(* handled or dropped, and that only a delivery silences a mismatch.       *)
(***************************************************************************)
EXTENDS RuntimeConfirmation, NotificationPipeline, FiniteSetTheorems, SequenceTheorems, TLAPS

-----------------------------------------------------------------------------
(* The helpers keep the types of what they change. *)

\* Counting an outcome of a reaction keeps the statistics' type.
LEMMA RecordTypes ==
    ASSUME TypeOK, NEW a, NEW s, Record(a, s)
    PROVE  /\ stats' \in Counters
           /\ reloadDue' \in BOOLEAN
<1>1. CASE cfg[a] # "absent" /\ s \in Counter
  <2>1. stats' \in Counters
    <3> DEFINE counted == [stats[a] EXCEPT ![s] = @ + 1]
    <3>1. stats' = [stats EXCEPT ![a] = counted] /\ stats \in Counters
      BY <1>1 DEF TypeOK, Record
    <3>2. ASSUME a \in Reaction PROVE counted \in [Counter -> Nat]
      <4>1. stats[a] \in [Counter -> Nat] /\ s \in Counter
        BY <3>1, <3>2, <1>1 DEF Counters
      <4>2. stats[a][s] + 1 \in Nat
        BY <4>1
      <4> QED
        BY <4>1, <4>2
    <3> HIDE DEF counted
    <3> QED
      BY <3>1, <3>2 DEF Counters
  <2>2. reloadDue' = (reloadDue \/ up)
    BY <1>1 DEF Record
  <2>3. reloadDue' \in BOOLEAN
    BY <2>2, Zenon
  <2> QED
    BY <2>1, <2>3
<1>2. CASE ~(cfg[a] # "absent" /\ s \in Counter)
  BY <1>2 DEF TypeOK, Record
<1> QED
  BY <1>1, <1>2

\* _remove_pending leaves the pending set and the index well typed.
LEMMA RemovePendingTypes ==
    ASSUME TypeOK, NEW r, RemovePending(r)
    PROVE  /\ pending' \subseteq Request
           /\ index' \in [Occurrence -> Request \cup {NoRequest}]
BY DEF TypeOK, RemovePending

\* Completing a request, which may start a reload, keeps every type.
LEMMA CompleteTypes ==
    ASSUME TypeOK, NEW r, NEW s \in Status, Complete(r, s)
    PROVE  /\ pending' \subseteq Request
           /\ index' \in [Occurrence -> Request \cup {NoRequest}]
           /\ status' \in [Request -> Status]
           /\ stats' \in Counters
           /\ reloadDue' \in BOOLEAN
<1>1. status' \in [Request -> Status]
  BY DEF Complete, TypeOK
<1> QED
  BY <1>1, RecordTypes, RemovePendingTypes DEF Complete

\* A response that finds no pending request leaves the typed state alone.
LEMMA IgnoreTypes ==
    ASSUME TypeOK, Ignore
    PROVE  /\ pending' \subseteq Request
           /\ index' \in [Occurrence -> Request \cup {NoRequest}]
           /\ status' \in [Request -> Status]
           /\ stats' \in Counters
           /\ reloadDue' \in BOOLEAN
BY DEF TypeOK, Ignore

\* What an answer or a deadline may change of a request.
LEMMA ApplyTriggerTypes ==
    ASSUME TypeOK, NEW r \in Request, NEW trigger \in Trigger, ApplyTrigger(r, trigger)
    PROVE  TypeOK'
<1>1. Trigger \subseteq Status /\ {"cancelled", "failed"} \subseteq Status
  BY DEF Trigger, Status, Terminal
<1>2. /\ pending' \subseteq Request
      /\ index' \in [Occurrence -> Request \cup {NoRequest}]
      /\ status' \in [Request -> Status]
      /\ stats' \in Counters
      /\ reloadDue' \in BOOLEAN
      /\ runs' \in [Request -> Nat]
      /\ applying' \in [Request -> Trigger \cup {"no"}]
  <2>1. CASE r \notin pending
    BY <2>1, IgnoreTypes DEF ApplyTrigger, TypeOK
  <2>2. CASE r \in pending
    <3>1. ApplyClaimed(r, trigger)
      BY <2>2 DEF ApplyTrigger
    <3>2. CASE (Complete(r, "cancelled") \/ Complete(r, "failed")) /\ UNCHANGED <<runs, applying>>
      BY <3>2, <1>1, CompleteTypes DEF TypeOK
    <3>3. CASE /\ runs' = [runs EXCEPT ![r] = @ + 1]
               /\ applying' = [applying EXCEPT ![r] = trigger]
               /\ RemovePending(r)
               /\ UNCHANGED <<status, stats, reloadDue>>
      BY <3>3, RemovePendingTypes DEF TypeOK
    <3>4. CASE /\ runs' = [runs EXCEPT ![r] = @ + 1]
               /\ \E s \in {trigger, "failed"} : Complete(r, s)
               /\ UNCHANGED applying
      <4>1. PICK s \in {trigger, "failed"} : Complete(r, s)
        BY <3>4
      <4> QED
        BY <3>4, <4>1, <1>1, CompleteTypes DEF TypeOK
    <3> QED
      BY <3>1, <3>2, <3>3, <3>4 DEF ApplyClaimed
  <2> QED
    BY <2>1, <2>2
<1> QED
  BY <1>2 DEF ApplyTrigger, TypeOK, engineVars, flowVars

-----------------------------------------------------------------------------
(* Type correctness *)

\* Storing a section puts its two parts in place and may start a reload.
LEMMA WriteSectionTypes ==
    ASSUME TypeOK, NEW section \in Section, NEW changed, WriteSection(section, changed)
    PROVE  /\ cfg' \in Configured /\ stats' \in Counters /\ intact' \subseteq Reaction
           /\ reloadDue' \in BOOLEAN
           /\ UNCHANGED <<registryVars, engineVars, up, today>>
<1>1. reloadDue' = (reloadDue \/ (up /\ (changed \/ section # Entry)))
  BY DEF WriteSection
<1>2. reloadDue' \in BOOLEAN
  BY <1>1, Zenon
<1>3. section.configured \in Configured /\ section.stats \in Counters
  BY DEF Section
<1> QED
  BY <1>2, <1>3 DEF WriteSection, TypeOK

\* The entry's section, and it with the counters of one reaction dropped or one reaction
\* configured, are sections again.
LEMMA SectionTypes ==
    /\ TypeOK => Entry \in Section
    /\ \A section \in Section, a \in Reaction :
           /\ [section EXCEPT !.stats[a] = Zero] \in Section
           /\ \A setting \in {"on", "off", "absent"} :
                  [section EXCEPT !.configured[a] = setting] \in Section
    /\ \A section \in Section : [section EXCEPT !.stats = [a \in Reaction |-> Zero]] \in Section
<1>1. TypeOK => Entry \in Section
  BY DEF TypeOK, Entry, Section
<1>2. Zero \in [Counter -> Nat]
  BY DEF Zero
<1>3. ASSUME NEW section \in Section, NEW a \in Reaction
      PROVE  /\ [section EXCEPT !.stats[a] = Zero] \in Section
             /\ \A setting \in {"on", "off", "absent"} :
                    [section EXCEPT !.configured[a] = setting] \in Section
  BY <1>2, <1>3 DEF Section, Counters, Configured
<1>4. ASSUME NEW section \in Section
      PROVE  [section EXCEPT !.stats = [a \in Reaction |-> Zero]] \in Section
  BY <1>2, <1>4 DEF Section, Counters
<1> QED
  BY <1>1, <1>3, <1>4

\* What is stored in or opened by an options flow, or written beside it, is well typed.
LEMMA WritersType ==
    ASSUME TypeOK, NEW section \in Section, NEW changed, WriteSection(section, changed),
           flow' \in Section \cup {Closed}, visits' \in Nat
    PROVE  TypeOK'
<1>1. /\ cfg' \in Configured /\ stats' \in Counters /\ intact' \subseteq Reaction
      /\ reloadDue' \in BOOLEAN
      /\ UNCHANGED <<registryVars, engineVars, up, today>>
  BY WriteSectionTypes
<1> QED
  BY <1>1 DEF TypeOK, registryVars, engineVars

\* So is what a step of the options flow leaves when it stores its copy.
LEMMA StoreReactionsType ==
    ASSUME TypeOK, NEW section \in Section, NEW changed, StoreReactions(section, changed)
    PROVE  TypeOK'
BY WritersType DEF StoreReactions, TypeOK

\* The state after loading is well typed.
LEMMA InitType == Init => TypeOK
<1> SUFFICES ASSUME Init PROVE TypeOK
  OBVIOUS
<1>1. 1 \in Day /\ 0 \in Nat
  BY ConfirmationAssumption DEF Day
<1>2. "unborn" \in Status
  BY DEF Status
<1> QED
  BY <1>1, <1>2 DEF Init, TypeOK, Counters, Configured, Zero

\* No step of one request (delivery, answer, deadline, end of its plan) breaks a type.
LEMMA RequestStepType ==
    ASSUME TypeOK, NEW r \in Request, RequestStep(r)
    PROVE  TypeOK'
<1>1. {"failed", "dismissed", "timeout_skipped"} \subseteq Status /\ Trigger \subseteq Status
  BY DEF Status, Terminal, Trigger
<1>2. CASE DeviceReached(r)
  BY <1>2 DEF DeviceReached, TypeOK, engineVars, entryVars, flowVars
<1>3. CASE DeliveryEnds(r)
  <2>1. Complete(r, "failed") \/ Ignore
    BY <1>3 DEF DeliveryEnds
  <2> QED
    BY <1>1, <1>3, <2>1, CompleteTypes, IgnoreTypes DEF DeliveryEnds, TypeOK, engineVars, flowVars
<1>4. CASE Approve(r)
  BY <1>4, ApplyTriggerTypes DEF Approve, Trigger
<1>5. CASE Dismiss(r)
  BY <1>1, <1>5, CompleteTypes, IgnoreTypes DEF Dismiss, TypeOK, engineVars, flowVars
<1>6. CASE SkipDeadline(r)
  BY <1>1, <1>6, CompleteTypes, IgnoreTypes DEF SkipDeadline, TypeOK, engineVars, flowVars
<1>7. CASE ApplyDeadline(r)
  BY <1>7, ApplyTriggerTypes DEF ApplyDeadline, Trigger
<1>8. CASE ApplyEnds(r)
  <2>1. PICK s \in {applying[r], "failed"} : Complete(r, s)
    BY <1>8 DEF ApplyEnds
  <2>2. s \in Status
    BY <1>1, <1>8 DEF ApplyEnds, TypeOK
  <2> QED
    BY <1>8, <2>1, <2>2, CompleteTypes DEF ApplyEnds, TypeOK, engineVars, flowVars
<1> QED
  BY <1>2, <1>3, <1>4, <1>5, <1>6, <1>7, <1>8 DEF RequestStep

\* No step about one reaction (asking, editing, muting) breaks a type.
LEMMA ReactionStepType ==
    ASSUME TypeOK, NEW a \in Reaction, ReactionStep(a)
    PROVE  TypeOK'
<1>1. CASE AskAgain(a)
  BY <1>1 DEF AskAgain, Fires, TypeOK, registryVars, flowVars
<1>2. CASE \E r \in Request : Ask(a, r)
  <2>1. PICK r \in Request : Ask(a, r)
    BY <1>2
  <2>2. <<a, today>> \in Occurrence /\ "pending" \in Status
    BY DEF TypeOK, Occurrence, Status
  <2>3. stats' \in Counters /\ reloadDue' \in BOOLEAN
    BY <2>1, RecordTypes DEF Ask
  <2> QED
    BY <2>1, <2>2, <2>3 DEF Ask, Fires, TypeOK, flowVars
<1>3. CASE \E setting \in {"on", "off", "absent"} : EditReaction(a, setting)
  <2>1. PICK setting \in {"on", "off", "absent"} : EditReaction(a, setting)
    BY <1>3
  <2>2. flow \in Section
    BY <2>1 DEF EditReaction, TypeOK
  <2> QED
    BY <2>1, <2>2, SectionTypes, StoreReactionsType DEF EditReaction
<1>4. CASE \E on \in BOOLEAN : SetMute(a, on)
  BY <1>4 DEF SetMute, TypeOK, registryVars, entryVars, flowVars
<1>5. CASE TakeBack(a)
  <2>1. flow \in Section
    BY <1>5 DEF TakeBack, TypeOK
  <2> QED
    BY <1>5, <2>1, SectionTypes, StoreReactionsType DEF TakeBack
<1>6. CASE ResetCounters(a)
  <2>1. flow' \in Section \cup {Closed} /\ visits' \in Nat
    BY <1>6 DEF ResetCounters, TypeOK
  <2> QED
    BY <1>6, <2>1, SectionTypes, WritersType DEF ResetCounters
<1>7. CASE \E setting \in {"on", "off"} : Upsert(a, setting)
  <2>1. flow' \in Section \cup {Closed} /\ visits' \in Nat
    BY <1>7 DEF Upsert, TypeOK
  <2> QED
    BY <1>7, <2>1, SectionTypes, WritersType DEF Upsert
<1> QED
  BY <1>1, <1>2, <1>3, <1>4, <1>5, <1>6, <1>7 DEF ReactionStep

\* Nor does a step of the options flow.
LEMMA FlowStepType ==
    ASSUME TypeOK, FlowStep
    PROVE  TypeOK'
<1>1. CASE OpenFlow \/ Abandon
  BY <1>1, SectionTypes DEF OpenFlow, Abandon, TypeOK, registryVars, engineVars, entryVars
<1>2. CASE StoreOther
  <2>1. reloadDue' = (reloadDue \/ up)
    BY <1>2 DEF StoreOther
  <2>2. reloadDue' \in BOOLEAN
    BY <2>1, Zenon
  <2> QED
    BY <1>2, <2>2, SectionTypes DEF StoreOther, TypeOK, registryVars, engineVars
<1>3. CASE \E changed \in BOOLEAN : EditSection(changed)
  <2>1. flow \in Section
    BY <1>3 DEF EditSection, StoreReactions, TypeOK
  <2> QED
    BY <1>3, <2>1, StoreReactionsType DEF EditSection
<1>4. CASE \E changed \in BOOLEAN : Save(changed)
  <2>1. flow \in Section /\ flow' \in Section \cup {Closed} /\ visits' \in Nat
    BY <1>4 DEF Save, TypeOK
  <2> QED
    BY <1>4, <2>1, SectionTypes, WritersType DEF Save
<1> QED
  BY <1>1, <1>2, <1>3, <1>4 DEF FlowStep

\* The types are inductive on their own.
LEMMA NextType == TypeOK /\ [Next]_vars => TypeOK'
<1> SUFFICES ASSUME TypeOK, [Next]_vars PROVE TypeOK'
  OBVIOUS
<1>1. CASE \E r \in Request : RequestStep(r)
  BY <1>1, RequestStepType
<1>2. CASE \E a \in Reaction : ReactionStep(a)
  BY <1>2, ReactionStepType
<1>3. CASE StartEvaluation \/ EndEvaluation
  BY <1>3 DEF StartEvaluation, EndEvaluation, TypeOK, registryVars, entryVars, flowVars
<1>4. CASE Reload
  BY <1>4 DEF Reload, TypeOK, registryVars, Configured, flowVars
<1>5. CASE Shutdown
  BY <1>5 DEF Shutdown, TypeOK, engineVars, entryVars, flowVars
<1>6. CASE NextDay
  BY <1>6, ConfirmationAssumption DEF NextDay, TypeOK, Day, registryVars, engineVars, entryVars, flowVars
<1>7. CASE UNCHANGED vars
  BY <1>7 DEF vars, registryVars, engineVars, entryVars, flowVars, TypeOK
<1> QED
  BY <1>1, <1>2, <1>3, <1>4, <1>5, <1>6, <1>7, FlowStepType DEF Next

\* Whatever residents answer, whenever timers fire and options change, every variable
\* keeps its type.
THEOREM TypeCorrect == Spec => []TypeOK
BY InitType, NextType, PTL DEF Spec

-----------------------------------------------------------------------------
(* What a step does to the registry: one of seven effects, on which the    *)
(* proofs below rest instead of on the handlers.                           *)

Outcome == Trigger \cup {"failed"}

Leaves(r, s) ==
    /\ RemovePending(r)
    /\ status' = [status EXCEPT ![r] = s]
    /\ UNCHANGED <<occurrence, up>>

\* Declined, skipped, failed or cancelled with nothing executed.
Closes(r) ==
    /\ r \in pending
    /\ \E s \in Terminal \ Trigger : Leaves(r, s)
    /\ timers' = timers \ {r}
    /\ UNCHANGED <<applying, runs>>

\* A plan without a blocking step is executed.
Executes(r) ==
    /\ r \in pending
    /\ \E s \in Outcome : Leaves(r, s)
    /\ timers' = timers \ {r}
    /\ runs' = [runs EXCEPT ![r] = @ + 1]
    /\ UNCHANGED applying

\* A plan with a blocking step is started.
Claims(r) ==
    /\ r \in pending
    /\ RemovePending(r)
    /\ \E t \in Trigger : applying' = [applying EXCEPT ![r] = t]
    /\ timers' = timers \ {r}
    /\ runs' = [runs EXCEPT ![r] = @ + 1]
    /\ UNCHANGED <<status, occurrence, up>>

\* A started plan ends.
Finishes(r) ==
    /\ applying[r] # "no"
    /\ \E s \in Outcome : Leaves(r, s)
    /\ applying' = [applying EXCEPT ![r] = "no"]
    /\ UNCHANGED <<timers, runs>>

registry == <<status, occurrence, pending, index, applying, runs>>

\* At most the timer of a request that is not pending is cancelled.
Quiet ==
    /\ UNCHANGED <<registry, up>>
    /\ timers' = timers \/ \E r \in Request \ pending : timers' = timers \ {r}

Stops == UNCHANGED registry /\ timers' = {} /\ up' = FALSE

RequestEffect(r) == Closes(r) \/ Executes(r) \/ Claims(r) \/ Finishes(r)

Effect ==
    \/ \E r \in Request : RequestEffect(r)
    \/ \E a \in Reaction, r \in Request : Ask(a, r)
    \/ Quiet \/ Stops

\* An answer or a deadline of `on_timeout: apply`.
LEMMA ApplyTriggerEffect ==
    ASSUME NEW r \in Request, NEW trigger \in Trigger, ApplyTrigger(r, trigger)
    PROVE  Closes(r) \/ Executes(r) \/ Claims(r) \/ Quiet
<1>1. timers' = timers \ {r} /\ UNCHANGED <<occurrence, up>>
  BY DEF ApplyTrigger
<1>2. CASE r \notin pending
  BY <1>1, <1>2 DEF ApplyTrigger, Ignore, Quiet, registry
<1>3. CASE r \in pending
  <2>1. ApplyClaimed(r, trigger)
    BY <1>3 DEF ApplyTrigger
  <2>2. CASE (Complete(r, "cancelled") \/ Complete(r, "failed")) /\ UNCHANGED <<runs, applying>>
    BY <1>1, <1>3, <2>2 DEF Complete, Closes, Leaves, Terminal, Trigger
  <2>3. CASE /\ runs' = [runs EXCEPT ![r] = @ + 1]
             /\ applying' = [applying EXCEPT ![r] = trigger]
             /\ RemovePending(r)
             /\ UNCHANGED <<status, stats, reloadDue>>
    BY <1>1, <1>3, <2>3 DEF Claims
  <2>4. CASE /\ runs' = [runs EXCEPT ![r] = @ + 1]
             /\ \E s \in {trigger, "failed"} : Complete(r, s)
             /\ UNCHANGED applying
    BY <1>1, <1>3, <2>4 DEF Complete, Executes, Leaves, Outcome
  <2> QED
    BY <2>1, <2>2, <2>3, <2>4 DEF ApplyClaimed
<1> QED
  BY <1>2, <1>3

\* A decision without an execution, if the request is still pending.
LEMMA DeclineEffect ==
    ASSUME NEW r \in Request, NEW s \in Terminal \ Trigger,
           timers' = timers \ {r},
           IF r \in pending THEN Complete(r, s) ELSE Ignore,
           UNCHANGED <<occurrence, applying, runs, up>>
    PROVE  Closes(r) \/ Quiet
<1>1. CASE r \in pending
  BY <1>1 DEF Complete, Closes, Leaves
<1>2. CASE r \notin pending
  BY <1>2 DEF Ignore, Quiet, registry
<1> QED
  BY <1>1, <1>2

\* Each step of a request has one of the effects above.
LEMMA RequestStepEffect ==
    ASSUME TypeOK, NEW r \in Request, RequestStep(r)
    PROVE  RequestEffect(r) \/ Quiet
<1>1. {"failed", "dismissed", "timeout_skipped"} \subseteq Terminal \ Trigger
  BY DEF Terminal, Trigger
<1>2. CASE DeviceReached(r)
  BY <1>2 DEF DeviceReached, Quiet, registry
<1>3. CASE DeliveryEnds(r)
  <2>1. CASE r \in notified
    BY <1>3, <2>1 DEF DeliveryEnds, Ignore, Quiet, registry
  <2>2. CASE r \notin notified
    BY <1>1, <1>3, <2>2, DeclineEffect DEF DeliveryEnds, RequestEffect
  <2> QED
    BY <2>1, <2>2
<1>4. CASE Approve(r)
  BY <1>4, ApplyTriggerEffect DEF Approve, Trigger, RequestEffect
<1>5. CASE Dismiss(r)
  BY <1>1, <1>5, DeclineEffect DEF Dismiss, RequestEffect
<1>6. CASE SkipDeadline(r)
  BY <1>1, <1>6, DeclineEffect DEF SkipDeadline, RequestEffect
<1>7. CASE ApplyDeadline(r)
  BY <1>7, ApplyTriggerEffect DEF ApplyDeadline, Trigger, RequestEffect
<1>8. CASE ApplyEnds(r)
  BY <1>8 DEF ApplyEnds, Complete, Finishes, Leaves, Outcome, TypeOK, RequestEffect
<1> QED
  BY <1>2, <1>3, <1>4, <1>5, <1>6, <1>7, <1>8 DEF RequestStep

\* No writer of the options touches the registry.
LEMMA WritersQuiet ==
    /\ FlowStep => UNCHANGED <<registryVars, up>>
    /\ \A a \in Reaction :
           (\/ \E setting \in {"on", "off", "absent"} : EditReaction(a, setting)
            \/ TakeBack(a) \/ ResetCounters(a)
            \/ \E setting \in {"on", "off"} : Upsert(a, setting))
           => UNCHANGED <<registryVars, up>>
BY DEF FlowStep, OpenFlow, StoreOther, Abandon, EditSection, Save, EditReaction, TakeBack,
       ResetCounters, Upsert, StoreReactions, WriteSection

\* So has every step of the component: the rest of the proofs only look at effects.
LEMMA StepEffect == TypeOK /\ [Next]_vars => Effect
<1> SUFFICES ASSUME TypeOK, [Next]_vars PROVE Effect
  OBVIOUS
<1>1. CASE \E r \in Request : RequestStep(r)
  BY <1>1, RequestStepEffect DEF Effect
<1>2. ASSUME NEW a \in Reaction, ReactionStep(a) PROVE Effect
  <2>1. CASE AskAgain(a)
    BY <2>1 DEF AskAgain, Fires, Quiet, registry, registryVars, Effect
  <2>2. CASE \E r \in Request : Ask(a, r)
    BY <2>2 DEF Effect
  <2>3. CASE UNCHANGED <<registryVars, up>>
    BY <2>3 DEF Quiet, registry, registryVars, Effect
  <2>4. CASE \E on \in BOOLEAN : SetMute(a, on)
    BY <2>4 DEF SetMute, Quiet, registry, registryVars, Effect
  <2> QED
    BY <1>2, <2>1, <2>2, <2>3, <2>4, WritersQuiet DEF ReactionStep
<1>3. CASE FlowStep
  BY <1>3, WritersQuiet DEF Quiet, registry, registryVars, Effect
<1>4. CASE StartEvaluation \/ EndEvaluation \/ Reload \/ NextDay
  BY <1>4
  DEF StartEvaluation, EndEvaluation, Reload, NextDay, Quiet, registry, registryVars, Effect
<1>5. CASE Shutdown
  BY <1>5 DEF Shutdown, Stops, registry, Effect
<1>6. CASE UNCHANGED vars
  BY <1>6 DEF vars, Quiet, registry, registryVars, Effect
<1> QED
  BY <1>1, <1>2, <1>3, <1>4, <1>5, <1>6 DEF Next

-----------------------------------------------------------------------------
(* The registry.  Its four properties are inductive together and not       *)
(* alone: that an undecided request is in one place is what makes a claim  *)
(* happen once, and a key of the index that pointed at a finished request  *)
(* would survive the removal of another.                                   *)

Safe == UndecidedAccounted /\ IndexSound /\ TimersMatchPending /\ RunsMatchStatus

\* Closing, executing, claiming or finishing a request keeps the four invariants; they
\* need each other, since a request is found through what another of them says of it.
LEMMA SafeRequest ==
    ASSUME TypeOK, Safe, NEW r \in Request, RequestEffect(r)
    PROVE  Safe'
<1>1. CASE Closes(r)
  <2>1. UndecidedAccounted'
    BY <1>1 DEF Closes, Leaves, UndecidedAccounted, Safe, TypeOK, RemovePending, Terminal, Trigger
  <2>2. IndexSound'
    BY <1>1 DEF Closes, Leaves, IndexSound, Safe, TypeOK, RemovePending
  <2>3. TimersMatchPending'
    BY <1>1 DEF Closes, Leaves, TimersMatchPending, Safe, RemovePending
  <2>4. RunsMatchStatus'
    BY <1>1 DEF Closes, Leaves, RunsMatchStatus, Safe, UndecidedAccounted, TypeOK,
                RemovePending, Terminal, Trigger
  <2> QED
    BY <2>1, <2>2, <2>3, <2>4 DEF Safe
<1>2. CASE Executes(r)
  <2>1. UndecidedAccounted'
    BY <1>2 DEF Executes, Leaves, Outcome, UndecidedAccounted, Safe, TypeOK, RemovePending, Trigger
  <2>2. IndexSound'
    BY <1>2 DEF Executes, Leaves, IndexSound, Safe, TypeOK, RemovePending
  <2>3. TimersMatchPending'
    BY <1>2 DEF Executes, Leaves, TimersMatchPending, Safe, RemovePending
  <2>4. RunsMatchStatus'
    BY <1>2 DEF Executes, Leaves, Outcome, RunsMatchStatus, Safe, UndecidedAccounted, TypeOK,
                RemovePending, Trigger
  <2> QED
    BY <2>1, <2>2, <2>3, <2>4 DEF Safe
<1>3. CASE Claims(r)
  <2>1. UndecidedAccounted'
    BY <1>3 DEF Claims, UndecidedAccounted, Safe, TypeOK, RemovePending, Trigger
  <2>2. IndexSound'
    BY <1>3 DEF Claims, IndexSound, Safe, TypeOK, RemovePending
  <2>3. TimersMatchPending'
    BY <1>3 DEF Claims, TimersMatchPending, Safe, RemovePending
  <2>4. RunsMatchStatus'
    BY <1>3 DEF Claims, RunsMatchStatus, Safe, UndecidedAccounted, TypeOK, RemovePending, Trigger
  <2> QED
    BY <2>1, <2>2, <2>3, <2>4 DEF Safe
<1>4. CASE Finishes(r)
  <2>0. r \notin pending
    BY <1>4 DEF Finishes, Safe, UndecidedAccounted
  <2>1. UndecidedAccounted'
    BY <1>4, <2>0 DEF Finishes, Leaves, Outcome, UndecidedAccounted, Safe, TypeOK,
                      RemovePending, Trigger
  <2>2. IndexSound'
    BY <1>4, <2>0 DEF Finishes, Leaves, IndexSound, Safe, TypeOK, RemovePending
  <2>3. TimersMatchPending'
    BY <1>4, <2>0 DEF Finishes, Leaves, TimersMatchPending, Safe, RemovePending
  <2>4. RunsMatchStatus'
    BY <1>4, <2>0 DEF Finishes, Leaves, Outcome, RunsMatchStatus, Safe, UndecidedAccounted,
                      TypeOK, RemovePending, Trigger
  <2> QED
    BY <2>1, <2>2, <2>3, <2>4 DEF Safe
<1> QED
  BY <1>1, <1>2, <1>3, <1>4 DEF RequestEffect

\* A new request keeps them: it was in no set, in no index entry and had no timer.
LEMMA SafeAsk ==
    ASSUME TypeOK, Safe, NEW a \in Reaction, NEW r \in Request, Ask(a, r)
    PROVE  Safe'
<1>0. /\ <<a, today>> \in Occurrence
      /\ status[r] = "unborn"
      /\ r \notin pending /\ applying[r] = "no" /\ runs[r] = 0
  BY DEF Ask, Safe, UndecidedAccounted, RunsMatchStatus, TypeOK, Occurrence
<1>1. UndecidedAccounted'
  BY <1>0 DEF Ask, UndecidedAccounted, Safe, TypeOK
<1>2. IndexSound'
  BY <1>0 DEF Ask, IndexSound, Safe, TypeOK
<1>3. TimersMatchPending'
  BY DEF Ask, Fires, TimersMatchPending, Safe
<1>4. RunsMatchStatus'
  BY <1>0 DEF Ask, RunsMatchStatus, Safe, TypeOK, Trigger
<1> QED
  BY <1>1, <1>2, <1>3, <1>4 DEF Safe

\* Together the four invariants are inductive.
LEMMA NextSafe == TypeOK /\ Safe /\ [Next]_vars => Safe'
<1> SUFFICES ASSUME TypeOK, Safe, Effect PROVE Safe'
  BY StepEffect
<1>1. CASE Quiet
  BY <1>1 DEF Quiet, registry, Safe, UndecidedAccounted, IndexSound, TimersMatchPending,
              RunsMatchStatus
<1>2. CASE Stops
  BY <1>2 DEF Stops, registry, Safe, UndecidedAccounted, IndexSound, TimersMatchPending,
              RunsMatchStatus
<1> QED
  BY <1>1, <1>2, SafeRequest, SafeAsk DEF Effect

\* No request exists at first.
LEMMA InitSafe == Init => Safe
BY DEF Init, Safe, UndecidedAccounted, IndexSound, TimersMatchPending,
       RunsMatchStatus, Trigger, Occurrence

\* Whatever the interleaving of answers, deadlines, deliveries, reloads and edits: no
\* undecided request is lost, no key of the registry dangles, and timers and requests
\* come and go together.
THEOREM RegistrySafe == Spec => [](UndecidedAccounted /\ IndexSound /\ TimersMatchPending)
<1>1. Safe => UndecidedAccounted /\ IndexSound /\ TimersMatchPending
  BY DEF Safe
<1> QED
  BY <1>1, InitType, NextType, InitSafe, NextSafe, PTL DEF Spec

\* A plan is executed at most once, and never for a request that was declined, skipped
\* or cancelled.
THEOREM RunAtMostOnce == Spec => []RunsMatchStatus
<1>1. Safe => RunsMatchStatus
  BY DEF Safe
<1> QED
  BY <1>1, InitType, NextType, InitSafe, NextSafe, PTL DEF Spec

\* No key of the registry dangles: what the index returns is pending, for that occurrence.
THEOREM IndexStaysSound == Spec => []IndexSound
<1>1. Safe => IndexSound
  BY DEF Safe
<1> QED
  BY <1>1, InitType, NextType, InitSafe, NextSafe, PTL DEF Spec

\* Timers and pending requests come and go together, across answers, reloads and unloads.
THEOREM TimersStayMatched == Spec => []TimersMatchPending
<1>1. Safe => TimersMatchPending
  BY DEF Safe
<1> QED
  BY <1>1, InitType, NextType, InitSafe, NextSafe, PTL DEF Spec

-----------------------------------------------------------------------------
(* The statistics.  A step counts one request in one counter, or it writes *)
(* counters that an older state had or that are zero.                       *)

Truthful ==
    /\ \A a \in Reaction, c \in Counter : IsFiniteSet(Happened(a, c))
    /\ StatsTruthful
    /\ flow # Closed => \A a \in Reaction, c \in Counter :
                            flow.stats[a][c] <= Cardinality(Happened(a, c))
    /\ \A a \in intact : cfg[a] # "absent"

\* One more request of the reaction counts for s, and its counter is told.
Tallies(r, a, s) ==
    /\ \A b \in Reaction, c \in Counter :
           Happened(b, c)' = IF b = a /\ c = s THEN Happened(b, c) \cup {r} ELSE Happened(b, c)
    /\ a \in Reaction /\ s \in Counter => r \notin Happened(a, s)
    /\ Record(a, s)
    /\ UNCHANGED <<cfg, flow, intact>>

\* Counters that are zero, the entry's or those of the open flow's copy.
Older(counters) ==
    \A a \in Reaction, c \in Counter :
        \/ counters[a][c] = 0 \/ counters[a][c] = stats[a][c]
        \/ flow # Closed /\ counters[a][c] = flow.stats[a][c]

Rewrites ==
    /\ UNCHANGED <<status, occurrence>>
    /\ Older(stats') /\ (flow' # Closed => Older(flow'.stats))
    /\ \A a \in intact' : a \in intact /\ stats'[a] = stats[a] /\ cfg'[a] # "absent"

Tally ==
    \/ \E r \in Request : \E a, s : Tallies(r, a, s)
    \/ Rewrites

\* A step that touches neither requests nor options writes the counters it found.
LEMMA NothingTallied ==
    ASSUME Truthful, UNCHANGED <<status, occurrence, stats, cfg, flow, intact>>
    PROVE  Tally
BY DEF Truthful, Tally, Rewrites, Older

\* Settling a request adds it to those with its outcome, and to that counter.
LEMMA SettledTallied ==
    ASSUME TypeOK, NEW r \in Request, NEW s \in Terminal, status[r] = "pending",
           Complete(r, s), UNCHANGED <<occurrence, cfg, flow, intact>>
    PROVE  Tally
<1>1. status \in [Request -> Status] /\ status' = [status EXCEPT ![r] = s]
      /\ s # "unborn" /\ s # "requested" /\ s # "pending"
  BY DEF TypeOK, Complete, Terminal, Trigger
<1>2. ASSUME NEW b \in Reaction, NEW c \in Counter
      PROVE  Happened(b, c)' = IF b = ReactionOf(r) /\ c = s THEN Happened(b, c) \cup {r}
                               ELSE Happened(b, c)
  <2>1. c # "pending" /\ c # "unborn"
    BY DEF Counter, Terminal, Trigger
  <2>2. Born(b)' = Born(b) /\ (r \in Born(b) <=> b = ReactionOf(r))
    BY <1>1 DEF Born, ReactionOf
  <2>3. ASSUME NEW q \in Request
        PROVE  q \in Happened(b, c)' <=> (\/ q \in Happened(b, c)
                                          \/ q = r /\ b = ReactionOf(r) /\ c = s)
    BY <1>1, <2>1, <2>2 DEF Happened, Born
  <2>4. Happened(b, c)' \subseteq Request /\ Happened(b, c) \subseteq Request
    BY DEF Happened, Born
  <2> QED
    BY <2>3, <2>4
<1>3. r \notin Happened(ReactionOf(r), s)
  BY <1>1 DEF Happened
<1>4. Tallies(r, ReactionOf(r), s)
  BY <1>2, <1>3 DEF Tallies, Complete
<1> QED
  BY <1>4 DEF Tally

\* A new request is one more of its reaction, with no outcome yet.
LEMMA AskTallied ==
    ASSUME TypeOK, NEW a \in Reaction, NEW r \in Request, Ask(a, r)
    PROVE  Tally
<1>1. /\ status \in [Request -> Status]
      /\ occurrence \in [Request -> Occurrence \cup {NoOccurrence}]
      /\ status[r] = "unborn" /\ status' = [status EXCEPT ![r] = "pending"]
      /\ occurrence' = [occurrence EXCEPT ![r] = <<a, today>>]
      /\ Record(a, "requested") /\ UNCHANGED <<cfg, flow, intact>>
  BY DEF TypeOK, Ask, Fires, flowVars
<1>2. \A b \in Reaction : Born(b)' = IF b = a THEN Born(a) \cup {r} ELSE Born(b)
  BY <1>1 DEF Born, ReactionOf
<1>3. \A b \in Reaction, c \in Counter : r \notin Happened(b, c)
  BY <1>1 DEF Happened, Born
<1>4. ASSUME NEW b \in Reaction, NEW c \in Counter
      PROVE  Happened(b, c)' = IF b = a /\ c = "requested" THEN Happened(b, c) \cup {r}
                               ELSE Happened(b, c)
  <2>1. c # "pending"
    BY DEF Counter, Terminal, Trigger
  <2>2. ASSUME NEW q \in Request
        PROVE  q \in Happened(b, c)' <=> (\/ q \in Happened(b, c)
                                          \/ q = r /\ b = a /\ c = "requested")
    BY <1>1, <1>2, <2>1 DEF Happened, Born
  <2>3. Happened(b, c)' \subseteq Request /\ Happened(b, c) \subseteq Request
    BY DEF Happened, Born
  <2> QED
    BY <2>2, <2>3
<1>5. Tallies(r, a, "requested")
  BY <1>1, <1>3, <1>4 DEF Tallies
<1> QED
  BY <1>5 DEF Tally

\* Every way a claimed plan ends settles its request, which is undecided until then.
LEMMA ApplyTallied ==
    ASSUME TypeOK, Safe, Truthful, NEW r \in Request, NEW trigger \in Trigger,
           ApplyTrigger(r, trigger)
    PROVE  Tally
<1>0. UNCHANGED <<occurrence, cfg, flow, intact>>
  BY DEF ApplyTrigger, flowVars
<1>1. CASE r \notin pending
  BY <1>0, <1>1, NothingTallied DEF ApplyTrigger, Ignore
<1>2. CASE r \in pending
  <2>1. ApplyClaimed(r, trigger)
    BY <1>2 DEF ApplyTrigger
  <2>2. status[r] = "pending"
    BY <1>2 DEF Safe, UndecidedAccounted
  <2>3. ASSUME NEW s \in Terminal, Complete(r, s) PROVE Tally
    BY <1>0, <2>2, <2>3, SettledTallied
  <2>4. CASE UNCHANGED <<status, stats, reloadDue>>
    BY <1>0, <2>4, NothingTallied
  <2> QED
    BY <2>1, <2>3, <2>4 DEF ApplyClaimed, Terminal, Trigger
<1> QED
  BY <1>1, <1>2

\* A pending request that is declined, skipped or failed is settled; any other is left.
LEMMA CompleteTallied ==
    ASSUME TypeOK, Safe, Truthful, NEW r \in Request, NEW s \in Terminal,
           IF r \in pending THEN Complete(r, s) ELSE Ignore,
           UNCHANGED <<occurrence, cfg, flow, intact>>
    PROVE  Tally
<1>1. CASE r \in pending
  BY <1>1, SettledTallied DEF Safe, UndecidedAccounted
<1>2. CASE r \notin pending
  BY <1>2, NothingTallied DEF Ignore
<1> QED
  BY <1>1, <1>2

\* Storing the flow's copy, or the entry's section with some counters dropped, writes
\* nothing new.
LEMMA SectionTallied ==
    ASSUME TypeOK, NEW section \in Section, NEW changed, WriteSection(section, changed),
           Older(section.stats), flow' \in {flow, section, Closed}
    PROVE  Tally
<1>1. stats' = section.stats /\ cfg' = section.configured /\ UNCHANGED <<status, occurrence>>
  BY DEF WriteSection, registryVars
<1>2. flow' # Closed => Older(flow'.stats)
  BY DEF Older
<1>3. \A a \in intact' : a \in intact /\ stats'[a] = stats[a] /\ cfg'[a] # "absent"
  BY DEF WriteSection
<1> QED
  BY <1>1, <1>2, <1>3 DEF Tally, Rewrites

\* What the writers store is in the options already, or zero.
LEMMA OlderSections ==
    ASSUME TypeOK
    PROVE  /\ \A section \in Section, a \in Reaction :
                  Older(section.stats) => Older([section EXCEPT !.stats[a] = Zero].stats)
           /\ \A section \in Section :
                  Older([section EXCEPT !.stats = [a \in Reaction |-> Zero]].stats)
           /\ \A section \in Section, a \in Reaction : \A setting :
                  [section EXCEPT !.configured[a] = setting].stats = section.stats
           /\ Older(Entry.stats)
           /\ flow # Closed => Older(flow.stats)
<1>1. \A c \in Counter : Zero[c] = 0
  BY DEF Zero
<1>2. ASSUME NEW section \in Section, NEW a \in Reaction, Older(section.stats)
      PROVE  Older([section EXCEPT !.stats[a] = Zero].stats)
  BY <1>1, <1>2 DEF Older, Section, Counters
<1>3. ASSUME NEW section \in Section
      PROVE  Older([section EXCEPT !.stats = [a \in Reaction |-> Zero]].stats)
  BY <1>1, <1>3 DEF Older, Section
<1>4. ASSUME NEW section \in Section, NEW a \in Reaction, NEW setting
      PROVE  [section EXCEPT !.configured[a] = setting].stats = section.stats
  BY <1>4 DEF Section
<1>5. Older(Entry.stats) /\ (flow # Closed => Older(flow.stats))
  BY DEF Older, Entry
<1> QED
  BY <1>2, <1>3, <1>4, <1>5

\* So every step of a request counts what it does, or counts nothing.
LEMMA RequestStepTally ==
    ASSUME TypeOK, Safe, Truthful, NEW r \in Request, RequestStep(r)
    PROVE  Tally
<1>0. {"failed", "dismissed", "timeout_skipped"} \subseteq Terminal /\ Trigger \subseteq Terminal
  BY DEF Terminal
<1>1. CASE DeviceReached(r)
  BY <1>1, NothingTallied DEF DeviceReached, entryVars, flowVars
<1>2. CASE DeliveryEnds(r)
  <2>0. UNCHANGED <<occurrence, cfg, flow, intact>>
    BY <1>2 DEF DeliveryEnds, flowVars
  <2>1. CASE r \in notified
    BY <1>2, <2>0, <2>1, NothingTallied DEF DeliveryEnds, Ignore
  <2>2. CASE r \notin notified
    BY <1>0, <1>2, <2>0, <2>2, CompleteTallied DEF DeliveryEnds
  <2> QED
    BY <2>1, <2>2
<1>3. CASE Approve(r)
  BY <1>3, ApplyTallied DEF Approve, Trigger
<1>4. CASE Dismiss(r)
  BY <1>0, <1>4, CompleteTallied DEF Dismiss, flowVars
<1>5. CASE SkipDeadline(r)
  BY <1>0, <1>5, CompleteTallied DEF SkipDeadline, flowVars
<1>6. CASE ApplyDeadline(r)
  BY <1>6, ApplyTallied DEF ApplyDeadline, Trigger
<1>7. CASE ApplyEnds(r)
  <2>1. status[r] = "pending" /\ applying[r] \in Trigger
    BY <1>7 DEF ApplyEnds, Safe, UndecidedAccounted, TypeOK
  <2>2. PICK s \in {applying[r], "failed"} : Complete(r, s)
    BY <1>7 DEF ApplyEnds
  <2>3. s \in Terminal
    BY <1>0, <2>1
  <2> QED
    BY <1>7, <2>1, <2>2, <2>3, SettledTallied DEF ApplyEnds, flowVars
<1> QED
  BY <1>1, <1>2, <1>3, <1>4, <1>5, <1>6, <1>7 DEF RequestStep

\* A step of the options flow writes nothing that was not counted.
LEMMA FlowStepTally ==
    ASSUME TypeOK, Truthful, FlowStep
    PROVE  Tally
<1>1. CASE OpenFlow \/ StoreOther \/ Abandon
  <2>1. UNCHANGED <<status, occurrence, stats, cfg, intact>>
    BY <1>1 DEF OpenFlow, StoreOther, Abandon, registryVars, entryVars
  <2>2. flow' \in {Entry, Closed}
    BY <1>1 DEF OpenFlow, StoreOther, Abandon
  <2>3. Older(stats) /\ (flow' # Closed => Older(flow'.stats))
    BY <2>2 DEF Older, Entry
  <2> QED
    BY <2>1, <2>3 DEF Truthful, Tally, Rewrites, Older
<1>2. CASE \E changed \in BOOLEAN : EditSection(changed)
  <2>1. flow \in Section
    BY <1>2 DEF EditSection, StoreReactions, TypeOK
  <2> QED
    BY <1>2, <2>1, SectionTallied, OlderSections DEF EditSection, StoreReactions
<1>3. CASE \E changed \in BOOLEAN : Save(changed)
  <2>1. flow \in Section
    BY <1>3 DEF Save, TypeOK
  <2> QED
    BY <1>3, <2>1, SectionTypes, SectionTallied, OlderSections DEF Save
<1> QED
  BY <1>1, <1>2, <1>3 DEF FlowStep

\* Nor does any other step about a reaction, except that a new request is counted.
LEMMA ReactionStepTally ==
    ASSUME TypeOK, Truthful, NEW a \in Reaction, ReactionStep(a)
    PROVE  Tally
<1>1. CASE AskAgain(a)
  BY <1>1, NothingTallied DEF AskAgain, Fires, registryVars, flowVars
<1>2. CASE \E r \in Request : Ask(a, r)
  BY <1>2, AskTallied
<1>3. CASE \E setting \in {"on", "off", "absent"} : EditReaction(a, setting)
  <2>1. PICK setting \in {"on", "off", "absent"} : EditReaction(a, setting)
    BY <1>3
  <2>2. flow \in Section /\ flow # Closed
    BY <2>1 DEF EditReaction, TypeOK
  <2> DEFINE new == [flow EXCEPT !.configured[a] = setting]
  <2>3. new \in Section /\ Older(new.stats) /\ flow' = new /\ WriteSection(new, TRUE)
    BY <2>1, <2>2, SectionTypes, OlderSections DEF EditReaction, StoreReactions
  <2> HIDE DEF new
  <2> QED
    BY <2>3, SectionTallied
<1>4. CASE \E on \in BOOLEAN : SetMute(a, on)
  BY <1>4, NothingTallied DEF SetMute, registryVars, entryVars, flowVars
<1>5. CASE TakeBack(a)
  <2>1. flow \in Section /\ flow # Closed
    BY <1>5 DEF TakeBack, TypeOK
  <2> QED
    BY <1>5, <2>1, SectionTypes, SectionTallied, OlderSections DEF TakeBack, StoreReactions
<1>6. CASE ResetCounters(a)
  BY <1>6, SectionTypes, SectionTallied, OlderSections DEF ResetCounters
<1>7. CASE \E setting \in {"on", "off"} : Upsert(a, setting)
  <2>1. PICK setting \in {"on", "off"} : Upsert(a, setting)
    BY <1>7
  <2> DEFINE new == [Entry EXCEPT !.configured[a] = setting]
  <2>2. new \in Section /\ Older(new.stats) /\ flow' = flow /\ WriteSection(new, TRUE)
    BY <2>1, SectionTypes, OlderSections DEF Upsert
  <2> HIDE DEF new
  <2> QED
    BY <2>2, SectionTallied
<1> QED
  BY <1>1, <1>2, <1>3, <1>4, <1>5, <1>6, <1>7 DEF ReactionStep

\* So every step of the component counts a request, or writes counters known before.
LEMMA StepTally == TypeOK /\ Safe /\ Truthful /\ [Next]_vars => Tally
<1> SUFFICES ASSUME TypeOK, Safe, Truthful, [Next]_vars PROVE Tally
  OBVIOUS
<1>1. CASE StartEvaluation \/ EndEvaluation \/ Reload \/ Shutdown \/ NextDay \/ UNCHANGED vars
  BY <1>1, NothingTallied
  DEF StartEvaluation, EndEvaluation, Reload, Shutdown, NextDay, vars, registryVars,
      entryVars, flowVars
<1> QED
  BY <1>1, RequestStepTally, ReactionStepTally, FlowStepTally DEF Next

\* Counting a request raises its counter by no more than the truth, and by as much when
\* the reaction is configured, as every reaction with intact counters is.
LEMMA TalliesTruthful ==
    ASSUME TypeOK, Truthful, NEW r \in Request, NEW a, NEW s, Tallies(r, a, s)
    PROVE  Truthful'
<1>1. ASSUME NEW b \in Reaction, NEW c \in Counter
      PROVE  /\ IsFiniteSet(Happened(b, c)') /\ Cardinality(Happened(b, c)) \in Nat
             /\ Cardinality(Happened(b, c)') = IF b = a /\ c = s
                                               THEN Cardinality(Happened(b, c)) + 1
                                               ELSE Cardinality(Happened(b, c))
  <2>1. IsFiniteSet(Happened(b, c)) /\ Cardinality(Happened(b, c)) \in Nat
    BY FS_CardinalityType DEF Truthful
  <2>2. CASE b = a /\ c = s
    <3>1. Happened(b, c)' = Happened(b, c) \cup {r} /\ r \notin Happened(b, c)
      BY <2>2 DEF Tallies
    <3> QED
      BY <2>1, <2>2, <3>1, FS_AddElement
  <2>3. CASE ~(b = a /\ c = s)
    BY <2>1, <2>3 DEF Tallies
  <2> QED
    BY <2>2, <2>3
<1>2. ASSUME NEW b \in Reaction, NEW c \in Counter
      PROVE  /\ stats[b][c] \in Nat
             /\ stats'[b][c] = IF b = a /\ c = s /\ cfg[a] # "absent"
                               THEN stats[b][c] + 1 ELSE stats[b][c]
  BY <1>2 DEF TypeOK, Counters, Tallies, Record
<1>3. UNCHANGED <<cfg, flow, intact>>
  BY DEF Tallies
<1>4. StatsTruthful'
  BY <1>1, <1>2, <1>3 DEF StatsTruthful, Truthful
<1>5. ASSUME flow # Closed, NEW b \in Reaction, NEW c \in Counter
      PROVE  flow.stats[b][c] <= Cardinality(Happened(b, c)')
  <2>1. flow.stats[b][c] \in Nat /\ flow.stats[b][c] <= Cardinality(Happened(b, c))
    BY <1>5 DEF TypeOK, Section, Counters, Truthful
  <2> QED
    BY <1>1, <2>1
<1> QED
  BY <1>1, <1>3, <1>4, <1>5 DEF Truthful

\* Older counters claim no more than newer ones, and intact ones are the newest.
LEMMA RewritesTruthful ==
    ASSUME TypeOK, Truthful, Rewrites
    PROVE  Truthful'
<1>1. \A a \in Reaction, c \in Counter : Happened(a, c)' = Happened(a, c)
  BY DEF Rewrites, Happened, Born, ReactionOf
<1>2. \A a \in Reaction, c \in Counter : Cardinality(Happened(a, c)) \in Nat
  BY FS_CardinalityType DEF Truthful
<1>3. ASSUME NEW counters, Older(counters), NEW a \in Reaction, NEW c \in Counter
      PROVE  counters[a][c] <= Cardinality(Happened(a, c))
  BY <1>2, <1>3 DEF Older, Truthful, StatsTruthful
<1>4. \A a \in Reaction, c \in Counter : stats'[a][c] <= Cardinality(Happened(a, c))
  BY <1>3 DEF Rewrites
<1>5. flow' # Closed => \A a \in Reaction, c \in Counter :
                            flow'.stats[a][c] <= Cardinality(Happened(a, c))
  BY <1>3 DEF Rewrites
<1>6. StatsTruthful'
  BY <1>1, <1>4 DEF StatsTruthful, Truthful, Rewrites
<1> QED
  BY <1>1, <1>5, <1>6 DEF Truthful, Rewrites

\* Nothing was requested and nothing is counted at first.
LEMMA InitTruthful == Init => Truthful
<1> SUFFICES ASSUME Init PROVE Truthful
  OBVIOUS
<1>1. \A a \in Reaction, c \in Counter : Happened(a, c) = {} /\ stats[a][c] = 0
  BY DEF Init, Happened, Born, Zero
<1>2. IsFiniteSet({}) /\ Cardinality({}) = 0
  BY FS_EmptySet
<1>3. flow = Closed /\ \A a \in Reaction : cfg[a] # "absent"
  BY DEF Init
<1>4. intact = Reaction
  BY DEF Init
<1> QED
  BY <1>1, <1>2, <1>3, <1>4 DEF Truthful, StatsTruthful

\* The counters that promotion rests on never claim an answer that was not given, however
\* old the copy an options flow stores over them, and count every request and every
\* outcome of a reaction once as long as no stored copy, Save, reset or deletion changed
\* its counters, whatever raced.
THEOREM StatsStayTruthful == Spec => []StatsTruthful
<1>1. Truthful => StatsTruthful
  BY DEF Truthful
<1>2. TypeOK /\ Safe /\ Truthful /\ [Next]_vars => Truthful'
  BY StepTally, TalliesTruthful, RewritesTruthful DEF Tally
<1> QED
  BY <1>1, <1>2, InitType, NextType, InitSafe, NextSafe, InitTruthful, PTL DEF Spec

-----------------------------------------------------------------------------
(* At most one pending request per occurrence, when no plan suspends: then *)
(* nothing is removed from the registry twice, and the index holds every   *)
(* pending request.                                                        *)

Indexed ==
    /\ \A r \in Request : applying[r] = "no"
    /\ \A r \in pending : occurrence[r] \in Occurrence /\ index[occurrence[r]] = r

\* Only the plan of a reaction with a blocking step is claimed before it is decided.
LEMMA NoClaims ==
    ASSUME TypeOK, Blocking = {}, Indexed, NEW r \in Request, RequestStep(r)
    PROVE  ~Finishes(r) /\ UNCHANGED applying
<1>1. applying[r] = "no"
  BY DEF Indexed
<1>2. ASSUME NEW t, ApplyTrigger(r, t) PROVE UNCHANGED applying
  BY <1>2 DEF ApplyTrigger, ApplyClaimed
<1> QED
  BY <1>1, <1>2
  DEF Finishes, RequestStep, DeviceReached, DeliveryEnds, Approve, Dismiss, SkipDeadline,
      ApplyDeadline, ApplyEnds

\* With no plan to wait for, a request that leaves takes only its own index entry along.
LEMMA IndexedRequest ==
    ASSUME TypeOK, Blocking = {}, Indexed, NEW r \in Request, RequestStep(r)
    PROVE  Indexed'
<1>1. (\A q \in Request : applying[q] = "no")'
  BY NoClaims DEF Indexed
<1>2. CASE Closes(r) \/ Executes(r) \/ Claims(r)
  <2>1. r \in pending /\ RemovePending(r) /\ UNCHANGED occurrence
    BY <1>2 DEF Closes, Executes, Claims, Leaves
  <2> QED
    BY <1>1, <2>1 DEF Indexed, RemovePending, TypeOK
<1>3. CASE Quiet
  BY <1>3 DEF Indexed, Quiet, registry
<1> QED
  BY <1>2, <1>3, NoClaims, RequestStepEffect DEF RequestEffect

\* A new request overwrites no index entry of a pending one: Ask has looked it up.
LEMMA NextIndexed ==
    ASSUME Blocking = {}
    PROVE  TypeOK /\ Safe /\ Indexed /\ [Next]_vars => Indexed'
<1> SUFFICES ASSUME TypeOK, Safe, Indexed, [Next]_vars PROVE Indexed'
  OBVIOUS
<1>1. CASE \E r \in Request : RequestStep(r)
  BY <1>1, IndexedRequest
<1>2. ASSUME NEW a \in Reaction, NEW r \in Request, Ask(a, r) PROVE Indexed'
  <2>1. <<a, today>> \in Occurrence /\ index[<<a, today>>] \notin pending
    BY <1>2 DEF Ask, TypeOK, Occurrence
  <2>2. status[r] = "unborn" /\ r \notin pending
    BY <1>2 DEF Ask, Safe, UndecidedAccounted
  <2> DEFINE key == <<a, today>>
  <2>3. /\ pending' = pending \cup {r} /\ UNCHANGED applying
        /\ occurrence' = [occurrence EXCEPT ![r] = key]
        /\ index' = [index EXCEPT ![key] = r]
    BY <1>2 DEF Ask
  <2> HIDE DEF key
  <2>4. ASSUME NEW q \in pending
        PROVE  occurrence'[q] \in Occurrence /\ index'[occurrence'[q]] = q
    <3>1. q # r /\ occurrence[q] \in Occurrence /\ index[occurrence[q]] = q
      BY <2>2 DEF Indexed
    <3>2. occurrence[q] # key
      BY <2>1, <2>4, <3>1 DEF key
    <3> QED
      BY <2>3, <3>1, <3>2 DEF TypeOK
  <2>5. occurrence'[r] = key /\ index'[key] = r /\ key \in Occurrence
    BY <2>1, <2>3 DEF TypeOK, key
  <2>6. \A q \in Request : applying'[q] = "no"
    BY <2>3 DEF Indexed
  <2> QED
    BY <2>3, <2>4, <2>5, <2>6 DEF Indexed
<1>3. CASE UNCHANGED registry
  BY <1>3 DEF Indexed, registry
<1>4. CASE ~\E r \in Request : RequestStep(r)
  <2>1. ASSUME NEW a \in Reaction, ReactionStep(a), ~\E r \in Request : Ask(a, r)
        PROVE  UNCHANGED registry
    BY <2>1, WritersQuiet DEF ReactionStep, AskAgain, SetMute, registry, registryVars
  <2>2. CASE StartEvaluation \/ EndEvaluation \/ Reload \/ Shutdown \/ NextDay \/ UNCHANGED vars
    BY <1>3, <2>2 DEF StartEvaluation, EndEvaluation, Reload, Shutdown, NextDay, vars,
                      registry, registryVars
  <2>3. CASE FlowStep
    BY <1>3, <2>3, WritersQuiet DEF registry, registryVars
  <2> QED
    BY <1>2, <1>3, <1>4, <2>1, <2>2, <2>3 DEF Next
<1> QED
  BY <1>1, <1>4

\* "At most one pending request may exist for the same (reaction_id, occurrence_key)"
\* as long as no step of any plan is awaited: a claimed plan removes its request from the
\* registry a second time when it ends, and with it the key of a newer one.
THEOREM OnePending ==
    ASSUME Blocking = {}
    PROVE  Spec => []OnePendingPerOccurrence
<1>1. Init => Indexed
  BY DEF Init, Indexed
<1>2. Indexed => OnePendingPerOccurrence
  BY DEF Indexed, OnePendingPerOccurrence
<1> QED
  BY <1>1, <1>2, InitType, NextType, InitSafe, NextSafe, NextIndexed, PTL DEF Spec

-----------------------------------------------------------------------------
(* The registry implements the lifecycle that residents are promised.      *)

phaseBar == [r \in Request |-> IF applying[r] # "no" THEN "running" ELSE status[r]]

\* Each effect of a step of a request is a step of its lifecycle.
LEMMA LifecycleRequest ==
    ASSUME TypeOK, Safe, NEW r \in Request, RequestEffect(r)
    PROVE  Lifecycle!Next
<1>0. "no" \notin Trigger /\ Lifecycle!Trigger = Trigger /\ Lifecycle!Terminal = Terminal
  BY DEF Trigger, Terminal, Lifecycle!Trigger, Lifecycle!Terminal
<1>1. CASE Closes(r)
  <2>1. applying[r] = "no" /\ status[r] = "pending"
    BY <1>1 DEF Closes, Safe, UndecidedAccounted
  <2>2. PICK s \in Terminal \ Trigger : Leaves(r, s)
    BY <1>1 DEF Closes
  <2>3. status' = [status EXCEPT ![r] = s] /\ UNCHANGED applying
    BY <1>1, <2>2 DEF Closes, Leaves
  <2>4. phaseBar[r] = "pending" /\ phaseBar' = [phaseBar EXCEPT ![r] = s]
    BY <2>1, <2>3 DEF phaseBar, TypeOK
  <2>5. Lifecycle!Close(r)
    BY <1>0, <1>1, <2>2, <2>4 DEF Closes, phaseBar, Lifecycle!Close, Lifecycle!Move
  <2> QED
    BY <2>5 DEF Lifecycle!Next
<1>2. CASE Executes(r)
  <2>1. applying[r] = "no" /\ status[r] = "pending"
    BY <1>2 DEF Executes, Safe, UndecidedAccounted
  <2>2. PICK s \in Outcome : Leaves(r, s)
    BY <1>2 DEF Executes
  <2>3. phaseBar[r] = "pending" /\ phaseBar' = [phaseBar EXCEPT ![r] = s]
    BY <1>2, <2>1, <2>2 DEF Executes, Leaves, phaseBar, TypeOK
  <2>4. Lifecycle!Run(r)
    BY <1>0, <1>2, <2>2, <2>3 DEF Executes, Outcome, phaseBar, Lifecycle!Run, Lifecycle!Move
  <2> QED
    BY <2>4 DEF Lifecycle!Next
<1>3. CASE Claims(r)
  <2>1. applying[r] = "no" /\ status[r] = "pending"
    BY <1>3 DEF Claims, Safe, UndecidedAccounted
  <2>2. phaseBar[r] = "pending" /\ phaseBar' = [phaseBar EXCEPT ![r] = "running"]
    BY <1>0, <1>3, <2>1 DEF Claims, phaseBar, TypeOK
  <2>3. Lifecycle!Run(r)
    BY <1>3, <2>2 DEF Claims, phaseBar, Lifecycle!Run, Lifecycle!Move
  <2> QED
    BY <2>3 DEF Lifecycle!Next
<1>4. CASE Finishes(r)
  <2>1. PICK s \in Outcome : Leaves(r, s)
    BY <1>4 DEF Finishes
  <2>2. phaseBar[r] = "running" /\ phaseBar' = [phaseBar EXCEPT ![r] = s]
    BY <1>4, <2>1 DEF Finishes, Leaves, phaseBar, TypeOK
  <2>3. Lifecycle!Finish(r)
    BY <1>0, <1>4, <2>1, <2>2 DEF Finishes, Outcome, phaseBar, Lifecycle!Finish, Lifecycle!Move
  <2> QED
    BY <2>3 DEF Lifecycle!Next
<1> QED
  BY <1>1, <1>2, <1>3, <1>4 DEF RequestEffect

\* Every step of the component maps to a step of the lifecycle or to none.
LEMMA LifecycleStep == TypeOK /\ Safe /\ [Next]_vars => [Lifecycle!Next]_(Lifecycle!vars)
<1> SUFFICES ASSUME TypeOK, Safe, Effect PROVE [Lifecycle!Next]_(Lifecycle!vars)
  BY StepEffect
<1>1. ASSUME NEW a \in Reaction, NEW r \in Request, Ask(a, r) PROVE Lifecycle!Next
  <2>1. status[r] = "unborn" /\ applying[r] = "no"
    BY <1>1 DEF Ask, Safe, UndecidedAccounted, RunsMatchStatus
  <2>2. phaseBar[r] = "unborn" /\ phaseBar' = [phaseBar EXCEPT ![r] = "pending"]
    BY <1>1, <2>1 DEF Ask, phaseBar, TypeOK
  <2>3. Lifecycle!Create(r)
    BY <1>1, <2>2 DEF Ask, phaseBar, Lifecycle!Create, Lifecycle!Move
  <2> QED
    BY <2>3 DEF Lifecycle!Next
<1>2. CASE Quiet \/ Stops
  BY <1>2 DEF Quiet, Stops, registry, Lifecycle!vars
<1> QED
  BY <1>1, <1>2, LifecycleRequest DEF Effect

\* At first no request exists, in either specification.
LEMMA LifecycleInit == Init => Lifecycle!Init
BY DEF Init, Lifecycle!Init

\* The registry, its timers and its tasks implement the lifecycle of a request.
THEOREM Implements == Spec => ImplementsLifecycle
BY InitType, NextType, InitSafe, NextSafe, LifecycleInit, LifecycleStep, PTL
DEF Spec, ImplementsLifecycle, Lifecycle!Spec

-----------------------------------------------------------------------------
(* Sequences without repetition *)

Elements(q) == {q[i] : i \in DOMAIN q}
Once(q)     == \A i, j \in DOMAIN q : q[i] = q[j] => i = j
Ids(q)      == {q[i].id : i \in DOMAIN q}
Distinct(q) == \A i, j \in DOMAIN q : q[i].id = q[j].id => i = j

LEMMA AppendAdds ==
    ASSUME NEW S, NEW q \in Seq(S), NEW x \in S
    PROVE  /\ Append(q, x) \in Seq(S) /\ Len(Append(q, x)) = Len(q) + 1
           /\ Elements(Append(q, x)) = Elements(q) \cup {x}
           /\ Once(q) /\ x \notin Elements(q) => Once(Append(q, x))
<1> DEFINE r == Append(q, x)
<1>1. /\ r \in Seq(S) /\ Len(r) = Len(q) + 1 /\ DOMAIN r = 1..(Len(q) + 1)
      /\ \A i \in 1..Len(q) : r[i] = q[i]
      /\ r[Len(q) + 1] = x /\ DOMAIN q = 1..Len(q) /\ Len(q) \in Nat
  BY AppendProperties, LenProperties
<1> HIDE DEF r
<1>2. Elements(r) = Elements(q) \cup {x}
  BY <1>1 DEF Elements
<1>3. Once(q) /\ x \notin Elements(q) => Once(r)
  BY <1>1 DEF Elements, Once
<1> QED
  BY <1>1, <1>2, <1>3 DEF r

LEMMA TailTakes ==
    ASSUME NEW S, NEW q \in Seq(S), q # <<>>
    PROVE  /\ Head(q) \in S /\ Tail(q) \in Seq(S) /\ Len(Tail(q)) = Len(q) - 1
           /\ Len(q) \in Nat \ {0} /\ Head(q) = q[1] /\ 1 \in DOMAIN q
           /\ DOMAIN Tail(q) = 1..(Len(q) - 1) /\ DOMAIN q = 1..Len(q)
           /\ \A i \in DOMAIN Tail(q) : Tail(q)[i] = q[i + 1]
<1>1. Len(q) \in Nat /\ Len(q) # 0
  BY EmptySeq, LenProperties
<1>2. Head(q) \in S /\ Tail(q) \in Seq(S) /\ Len(Tail(q)) = Len(q) - 1
      /\ \A i \in 1..Len(Tail(q)) : Tail(q)[i] = q[i + 1]
  BY HeadTailProperties
<1>3. DOMAIN q = 1..Len(q) /\ DOMAIN Tail(q) = 1..(Len(q) - 1)
  BY <1>1, <1>2, LenProperties
<1> QED
  BY <1>1, <1>2, <1>3

LEMMA TailEmpty ==
    ASSUME NEW S, NEW q \in Seq(S), q # <<>>
    PROVE  Tail(q) = <<>> <=> Len(q) = 1
<1>1. Tail(q) \in Seq(S) /\ Len(Tail(q)) = Len(q) - 1 /\ Len(q) \in Nat \ {0}
  BY TailTakes
<1>2. Tail(q) = <<>> <=> Len(Tail(q)) = 0
  BY <1>1, EmptySeq
<1> QED
  BY <1>1, <1>2

LEMMA TailElements ==
    ASSUME NEW S, NEW q \in Seq(S), q # <<>>
    PROVE  /\ Elements(q) = {Head(q)} \cup Elements(Tail(q))
           /\ Once(q) => Once(Tail(q)) /\ Head(q) \notin Elements(Tail(q))
<1> DEFINE r == Tail(q)
<1>1. /\ Len(q) \in Nat \ {0} /\ Head(q) = q[1] /\ 1 \in DOMAIN q
      /\ DOMAIN r = 1..(Len(q) - 1) /\ DOMAIN q = 1..Len(q)
      /\ \A i \in DOMAIN r : r[i] = q[i + 1]
  BY TailTakes
<1> HIDE DEF r
<1>2. Elements(q) \subseteq {Head(q)} \cup Elements(r)
  <2> SUFFICES ASSUME NEW i \in DOMAIN q PROVE q[i] \in {Head(q)} \cup Elements(r)
    BY DEF Elements
  <2>1. CASE i = 1
    BY <2>1, <1>1
  <2>2. CASE i # 1
    <3>1. i - 1 \in DOMAIN r /\ r[i - 1] = q[i]
      BY <1>1, <2>2
    <3> QED
      BY <3>1 DEF Elements
  <2> QED
    BY <2>1, <2>2
<1>3. {Head(q)} \cup Elements(r) \subseteq Elements(q)
  BY <1>1 DEF Elements
<1>4. Once(q) => Once(r) /\ Head(q) \notin Elements(r)
  BY <1>1 DEF Elements, Once
<1> QED
  BY <1>2, <1>3, <1>4 DEF r

LEMMA TailIds ==
    ASSUME NEW S, NEW q \in Seq(S), q # <<>>
    PROVE  /\ Ids(q) = {Head(q).id} \cup Ids(Tail(q))
           /\ Distinct(q) => Distinct(Tail(q)) /\ Head(q).id \notin Ids(Tail(q))
<1> DEFINE r == Tail(q)
<1>1. /\ Len(q) \in Nat \ {0} /\ Head(q) = q[1] /\ 1 \in DOMAIN q
      /\ DOMAIN r = 1..(Len(q) - 1) /\ DOMAIN q = 1..Len(q)
      /\ \A i \in DOMAIN r : r[i] = q[i + 1]
  BY TailTakes
<1> HIDE DEF r
<1>2. Ids(q) \subseteq {Head(q).id} \cup Ids(r)
  <2> SUFFICES ASSUME NEW i \in DOMAIN q PROVE q[i].id \in {Head(q).id} \cup Ids(r)
    BY DEF Ids
  <2>1. CASE i = 1
    BY <2>1, <1>1
  <2>2. CASE i # 1
    <3>1. i - 1 \in DOMAIN r /\ r[i - 1] = q[i]
      BY <1>1, <2>2
    <3> QED
      BY <3>1 DEF Ids
  <2> QED
    BY <2>1, <2>2
<1>3. {Head(q).id} \cup Ids(r) \subseteq Ids(q)
  BY <1>1 DEF Ids
<1>4. Distinct(q) => Distinct(r) /\ Head(q).id \notin Ids(r)
  BY <1>1 DEF Ids, Distinct
<1> QED
  BY <1>2, <1>3, <1>4 DEF r

LEMMA Nothing ==
    /\ Elements(<<>>) = {} /\ Once(<<>>) /\ Ids(<<>>) = {} /\ Distinct(<<>>)
    /\ \A S : <<>> \in Seq(S)
    /\ Len(<<>>) = 0
BY DEF Elements, Once, Ids, Distinct

LEMMA Single ==
    ASSUME NEW S, NEW x \in S
    PROVE  /\ <<x>> \in Seq(S) /\ <<x>> # <<>>
           /\ Elements(<<x>>) = {x} /\ Ids(<<x>>) = {x.id} /\ Distinct(<<x>>)
BY DEF Elements, Ids, Distinct

-----------------------------------------------------------------------------
(* Coroutines: types *)

\* A coroutine has events until it is idle, collects items only while it flushes, and calls
\* the first route it has left for its first event while it sends.
WellFormed(s) ==
    /\ Len(s.remaining) <= QueueMax
    /\ s.stage = "idle" <=> s.events = <<>>
    /\ s.stage # "flush" => s.remaining = <<>>
    /\ s.stage \notin {"flush", "send"} => s.calling = NoItem
    /\ s.stage = "send" /\ s.calling # NoItem =>
          s.todo # <<>> /\ s.calling = <<Head(s.events).id, Head(s.todo)>>
    /\ Once(s.todo)

\* The memory of the delivery policy, whatever its burst.
PolicyForm(p) ==
    \E burst : p \in [first : Times, last : Times, notified : BOOLEAN, pushed : Times,
                      burst : {burst}]

Shaped ==
    /\ StoresTyped
    /\ task \in [Task -> Coroutine]
    /\ \A t \in Task : WellFormed(task[t])
    /\ PolicyForm(policy)

\* What the accounts of the deferred deliveries see of a coroutine.
Same(r, s) ==
    /\ r.stage = s.stage /\ r.events = s.events /\ r.todo = s.todo
    /\ r.remaining = s.remaining /\ r.calling = s.calling

\* A step in which coroutine t becomes s, and no other changes in that respect.
Moved(t, s) ==
    /\ task' \in [Task -> Coroutine]
    /\ Same(task'[t], s)
    /\ \A u \in Task \ {t} : Same(task'[u], task[u])

LEMMA IdleTyped == Idle \in Coroutine /\ WellFormed(Idle)
BY Nothing, PipelineAssumption DEF Idle, Coroutine, WellFormed

\* One coroutine is replaced.
LEMMA OneMoves ==
    ASSUME Shaped, NEW t \in Task, NEW s \in Coroutine, task' = [task EXCEPT ![t] = s]
    PROVE  Moved(t, s)
BY DEF Shaped, Moved, Same

LEMMA NoneMoves ==
    ASSUME Shaped, NEW t \in Task, UNCHANGED task
    PROVE  Moved(t, task[t])
BY DEF Shaped, Moved, Same

LEMMA CallMoves ==
    ASSUME Shaped, NEW t \in Task, NEW item \in Item, Call(t, item)
    PROVE  Moved(t, [task[t] EXCEPT !.calling = item])
<1>1. task \in [Task -> Coroutine] /\ \A u \in Task : task[u] \in Coroutine
  BY DEF Shaped
<1>2. \A b \in BOOLEAN :
         /\ [task[t] EXCEPT !.calling = item, !.bumped = FALSE, !.crossed = @ \/ b] \in Coroutine
         /\ Same([task[t] EXCEPT !.calling = item, !.bumped = FALSE, !.crossed = @ \/ b],
                 [task[t] EXCEPT !.calling = item])
  BY <1>1 DEF Coroutine, Same
<1>3. \A u \in Task : \A b \in BOOLEAN :
         /\ [task[u] EXCEPT !.crossed = @ \/ b] \in Coroutine
         /\ Same([task[u] EXCEPT !.crossed = @ \/ b], task[u])
  BY <1>1 DEF Coroutine, Same
<1>4. \A u \in Task : task'[u] = IF u = t
         THEN [task[t] EXCEPT !.calling = item, !.bumped = FALSE,
                              !.crossed = @ \/ (InFlight # {})]
         ELSE [task[u] EXCEPT !.crossed = @ \/ (u \in InFlight)]
  BY DEF Call
<1>5. \A u \in Task : task'[u] \in Coroutine
  BY <1>2, <1>3, <1>4
<1>6. task' \in [Task -> Coroutine]
  BY <1>5 DEF Call
<1>7. Same(task'[t], [task[t] EXCEPT !.calling = item])
  BY <1>2, <1>4
<1>8. \A u \in Task \ {t} : Same(task'[u], task[u])
  BY <1>3, <1>4
<1> QED
  BY <1>6, <1>7, <1>8 DEF Moved

\* A delivery touches nothing of another coroutine but its mark.
LEMMA BumpedTyped ==
    ASSUME Shaped, NEW t \in Task
    PROVE  /\ Bumped(t) \in [Task -> Coroutine]
           /\ \A u \in Task : /\ Same(Bumped(t)[u], task[u])
                              /\ Bumped(t)[u].got = task[u].got
                              /\ Bumped(t)[u].own = task[u].own
                              /\ Bumped(t)[u].crossed = task[u].crossed
                              /\ Bumped(t)[u].bumped =
                                   (task[u].bumped \/ (u # t /\ u \in InFlight /\ task[u].stage = "send"))
<1>1. task \in [Task -> Coroutine] /\ \A u \in Task : task[u] \in Coroutine
  BY DEF Shaped
<1>2. \A u \in Task : Bumped(t)[u] = [task[u] EXCEPT
        !.bumped = @ \/ (u # t /\ u \in InFlight /\ task[u].stage = "send")]
  BY DEF Bumped
<1>3. \A u \in Task : \A b \in BOOLEAN : [task[u] EXCEPT !.bumped = @ \/ b] \in Coroutine
  BY <1>1 DEF Coroutine
<1>4. \A u \in Task : Bumped(t)[u] \in Coroutine
  BY <1>2, <1>3
<1>5. Bumped(t) \in [Task -> Coroutine]
  BY <1>4 DEF Bumped
<1> QED
  BY <1>1, <1>2, <1>5 DEF Same, Coroutine

LEMMA SameForm ==
    ASSUME NEW r, NEW s, Same(r, s), WellFormed(s)
    PROVE  WellFormed(r)
BY DEF Same, WellFormed

LEMMA MovedForm ==
    ASSUME Shaped, NEW t \in Task, NEW s, Moved(t, s), WellFormed(s)
    PROVE  task' \in [Task -> Coroutine] /\ \A u \in Task : WellFormed(task'[u])
<1>1. WellFormed(task'[t])
  BY SameForm DEF Moved
<1>2. \A u \in Task \ {t} : WellFormed(task'[u])
  BY SameForm DEF Moved, Shaped
<1> QED
  BY <1>1, <1>2 DEF Moved

\* The end of an emission.
LEMMA RestTyped ==
    ASSUME NEW s \in Coroutine, s.events # <<>>
    PROVE  /\ Rest(s) \in Coroutine /\ WellFormed(Rest(s))
           /\ Rest(s).stage \in {"idle", "next"} /\ Rest(s).events = Tail(s.events)
           /\ Rest(s).todo = <<>> /\ Rest(s).remaining = <<>> /\ Rest(s).calling = NoItem
           /\ ~Rest(s).own /\ ~Rest(s).crossed /\ ~Rest(s).got /\ ~Rest(s).bumped
<1>1. s.events \in Seq(Event)
  BY DEF Coroutine
<1>2. Tail(s.events) \in Seq(Event) /\ (Tail(s.events) = <<>> <=> Len(s.events) = 1)
  BY <1>1, TailTakes, TailEmpty
<1>3. CASE Len(s.events) = 1
  <2>1. Tail(s.events) = <<>>
    BY <1>2, <1>3
  <2> QED
    BY <2>1, <1>3, IdleTyped DEF Rest, Idle
<1>4. CASE Len(s.events) # 1
  <2> DEFINE r == [Idle EXCEPT !.stage = "next", !.events = Tail(s.events)]
  <2>1. Rest(s) = r
    BY <1>4 DEF Rest
  <2>2. r \in Coroutine
    BY <1>2, IdleTyped DEF Coroutine
  <2>3. Tail(s.events) # <<>>
    BY <1>2, <1>4
  <2>4. WellFormed(r)
    BY <2>3, Nothing, PipelineAssumption DEF WellFormed, Idle
  <2> QED
    BY <2>1, <2>2, <2>4 DEF Idle
<1> QED
  BY <1>3, <1>4

LEMMA RetainedTyped ==
    ASSUME NEW s \in Coroutine, Len(s.remaining) <= QueueMax, NEW item \in Item
    PROVE  Retained(s, item) \in Seq(Item) /\ Len(Retained(s, item)) <= QueueMax
<1>1. s.remaining \in Seq(Item)
  BY DEF Coroutine
<1>2. /\ Append(s.remaining, item) \in Seq(Item)
      /\ Len(Append(s.remaining, item)) = Len(s.remaining) + 1 /\ Len(s.remaining) \in Nat
  BY <1>1, AppendAdds, LenProperties
<1> QED
  BY <1>1, <1>2, PipelineAssumption DEF Retained

-----------------------------------------------------------------------------
(* What each action makes of the coroutines *)

LEMMA TakeMoves ==
    ASSUME Shaped, NEW t \in Task, TakeQueued(t)
    PROVE  /\ Moved(t, [Idle EXCEPT !.stage = "next", !.events = queued])
           /\ WellFormed([Idle EXCEPT !.stage = "next", !.events = queued])
<1> DEFINE s == [Idle EXCEPT !.stage = "next", !.events = queued]
<1>1. s \in Coroutine
  BY IdleTyped DEF Coroutine, Shaped, StoresTyped
<1>2. WellFormed(s)
  BY Nothing, PipelineAssumption DEF WellFormed, Idle, TakeQueued
<1>3. task' = [task EXCEPT ![t] = s]
  BY DEF TakeQueued
<1> QED
  BY <1>1, <1>2, <1>3, OneMoves

LEMMA ExternalMoves ==
    ASSUME Shaped, NEW t \in Task, NEW kind \in Kind, External(t, kind)
    PROVE  LET s == [Idle EXCEPT !.stage = "next", !.events = <<[kind |-> kind, id |-> count + 1]>>]
           IN  Moved(t, s) /\ WellFormed(s)
<1> DEFINE s == [Idle EXCEPT !.stage = "next", !.events = <<[kind |-> kind, id |-> count + 1]>>]
<1>1. [kind |-> kind, id |-> count + 1] \in Event
  <2>1. count \in 0..MaxEvents /\ count < MaxEvents /\ MaxEvents \in Nat
    BY PipelineAssumption DEF External, Shaped, StoresTyped
  <2> QED
    BY <2>1 DEF Event
<1>2. <<[kind |-> kind, id |-> count + 1]>> \in Seq(Event)
  BY <1>1, Single
<1>3. <<[kind |-> kind, id |-> count + 1]>> # <<>> /\ s \in Coroutine
  BY <1>2, IdleTyped DEF Coroutine
<1>4. WellFormed(s)
  BY <1>3, Nothing, PipelineAssumption DEF WellFormed, Idle
<1>5. task' = [task EXCEPT ![t] = s]
  BY DEF External
<1> QED
  BY <1>3, <1>4, <1>5, OneMoves

LEMMA EmitMoves ==
    ASSUME Shaped, NEW t \in Task, Emit(t)
    PROVE  \E s \in Coroutine :
              /\ Moved(t, s) /\ WellFormed(s) /\ task' = [task EXCEPT ![t] = s]
              /\ \/ s.events = task[t].events /\ s.stage = "flush" /\ s.remaining = <<>>
                    /\ s.own = task[t].own /\ s.got = task[t].got
                    /\ s.crossed = task[t].crossed /\ s.bumped = task[t].bumped
                 \/ s = Rest(task[t])
              /\ s.calling = NoItem /\ s.remaining = <<>>
<1> DEFINE r(todo) == [task[t] EXCEPT !.stage = "flush", !.todo = todo]
<1>1. task[t] \in Coroutine /\ WellFormed(task[t]) /\ task[t].stage = "next"
  BY DEF Emit, Shaped
<1>2. task[t].events # <<>> /\ task[t].remaining = <<>> /\ task[t].calling = NoItem
  BY <1>1 DEF WellFormed
<1>3. Routes \in Seq(Route) /\ Once(Routes)
  BY PipelineAssumption DEF Once
<1>4. \A todo \in {Routes, <<>>} :
         /\ r(todo) \in Coroutine /\ WellFormed(r(todo))
         /\ r(todo).events = task[t].events /\ r(todo).stage = "flush" /\ r(todo).remaining = <<>>
         /\ r(todo).calling = NoItem /\ r(todo).own = task[t].own /\ r(todo).got = task[t].got
         /\ r(todo).crossed = task[t].crossed /\ r(todo).bumped = task[t].bumped
  <2> SUFFICES ASSUME NEW todo \in {Routes, <<>>}
               PROVE  /\ r(todo) \in Coroutine /\ WellFormed(r(todo))
                      /\ r(todo).events = task[t].events /\ r(todo).stage = "flush"
                      /\ r(todo).remaining = <<>> /\ r(todo).calling = NoItem
                      /\ r(todo).own = task[t].own /\ r(todo).got = task[t].got
                      /\ r(todo).crossed = task[t].crossed /\ r(todo).bumped = task[t].bumped
    OBVIOUS
  <2>1. todo \in Seq(Route) /\ Once(todo)
    BY <1>3, Nothing
  <2>2. r(todo) \in Coroutine
    BY <1>1, <2>1 DEF Coroutine
  <2>3. /\ r(todo).events = task[t].events /\ r(todo).stage = "flush"
        /\ r(todo).remaining = <<>> /\ r(todo).calling = NoItem /\ r(todo).todo = todo
        /\ r(todo).own = task[t].own /\ r(todo).got = task[t].got
        /\ r(todo).crossed = task[t].crossed /\ r(todo).bumped = task[t].bumped
    BY <1>1, <1>2 DEF Coroutine
  <2> HIDE DEF r
  <2>4. WellFormed(r(todo))
    BY <1>2, <2>1, <2>3, Nothing, PipelineAssumption DEF WellFormed
  <2> QED
    BY <2>2, <2>3, <2>4
<1>5. \E todo \in {Routes, <<>>} : task' = [task EXCEPT ![t] = r(todo)]
                                   \/ task' = [task EXCEPT ![t] = Rest(task[t])]
  BY Zenon DEF Emit
<1>6. CASE \E todo \in {Routes, <<>>} : task' = [task EXCEPT ![t] = r(todo)]
  <2> HIDE DEF r
  <2> QED
    BY <1>4, <1>6, OneMoves
<1>7. CASE task' = [task EXCEPT ![t] = Rest(task[t])]
  BY <1>1, <1>2, <1>7, RestTyped, OneMoves
<1> HIDE DEF r
<1> QED
  BY <1>5, <1>6, <1>7

LEMMA FlushEndsMoves ==
    ASSUME Shaped, NEW t \in Task, FlushEnds(t)
    PROVE  LET s == [task[t] EXCEPT !.stage = "send", !.remaining = <<>>]
           IN  Moved(t, s) /\ WellFormed(s) /\ task' = [task EXCEPT ![t] = s]
<1> DEFINE s == [task[t] EXCEPT !.stage = "send", !.remaining = <<>>]
<1>1. /\ task[t] \in Coroutine /\ WellFormed(task[t]) /\ task[t].stage = "flush"
      /\ task[t].calling = NoItem /\ task \in [Task -> Coroutine]
  BY DEF FlushEnds, Shaped
<1>2. s \in Coroutine
  BY <1>1, Nothing DEF Coroutine
<1>3. WellFormed(s)
  BY <1>1, Nothing, PipelineAssumption DEF WellFormed, Coroutine
<1>4. task' = [task EXCEPT ![t] = s]
  BY <1>1 DEF FlushEnds, Coroutine
<1> QED
  BY <1>2, <1>3, <1>4, OneMoves

LEMMA HeadDeferred ==
    ASSUME Shaped, deferred # <<>>
    PROVE  /\ Head(deferred) \in Item /\ Tail(deferred) \in Seq(Item)
           /\ Len(Tail(deferred)) = Len(deferred) - 1 /\ Len(Tail(deferred)) <= QueueMax
           /\ Len(deferred) \in Nat \ {0}
<1>1. deferred \in Seq(Item) /\ Len(deferred) <= QueueMax /\ QueueMax \in Nat
  BY PipelineAssumption DEF Shaped, StoresTyped
<1> QED
  BY <1>1, TailTakes

\* The flush: the item is called, or is handled, or is kept.
LEMMA FlushNextMoves ==
    ASSUME Shaped, NEW t \in Task, FlushNext(t)
    PROVE  LET item == Head(deferred)
               c    == [task[t] EXCEPT !.calling = item]
               r    == [task[t] EXCEPT !.remaining = Retained(task[t], item)]
           IN  \/ Call(t, item) /\ UNCHANGED owed /\ Moved(t, c) /\ WellFormed(c)
               \/ UNCHANGED task /\ owed' = owed \ {item} /\ Moved(t, task[t])
               \/ task' = [task EXCEPT ![t] = r] /\ owed' = Kept(task[t], item)
                  /\ Moved(t, r) /\ WellFormed(r)
<1> DEFINE item == Head(deferred)
           c    == [task[t] EXCEPT !.calling = item]
           r    == [task[t] EXCEPT !.remaining = Retained(task[t], item)]
<1>1. /\ task[t] \in Coroutine /\ WellFormed(task[t]) /\ task[t].stage = "flush"
      /\ task[t].calling = NoItem /\ task \in [Task -> Coroutine]
  BY DEF FlushNext, Shaped
<1>2. item \in Item
  BY HeadDeferred DEF FlushNext
<1>3. CASE Call(t, item) /\ UNCHANGED owed
  <2>1. Moved(t, c)
    BY <1>2, <1>3, CallMoves
  <2>2. WellFormed(c)
    BY <1>1 DEF WellFormed, Coroutine
  <2> QED
    BY <1>3, <2>1, <2>2
<1>4. CASE UNCHANGED task /\ owed' = owed \ {item}
  BY <1>4, NoneMoves
<1>5. CASE task' = [task EXCEPT ![t].remaining = Retained(task[t], item)]
           /\ owed' = Kept(task[t], item)
  <2>1. Retained(task[t], item) \in Seq(Item) /\ Len(Retained(task[t], item)) <= QueueMax
    BY <1>1, <1>2, RetainedTyped DEF WellFormed
  <2>2. r \in Coroutine
    BY <1>1, <2>1 DEF Coroutine
  <2>3. WellFormed(r)
    BY <1>1, <2>1 DEF WellFormed, Coroutine
  <2>4. task' = [task EXCEPT ![t] = r]
    BY <1>1, <1>5 DEF Coroutine
  <2> QED
    BY <1>5, <2>2, <2>3, <2>4, OneMoves
<1> HIDE DEF c, r
<1>6. \/ Call(t, item) /\ UNCHANGED owed
      \/ UNCHANGED task /\ owed' = owed \ {item}
      \/ task' = [task EXCEPT ![t].remaining = Retained(task[t], item)]
         /\ owed' = Kept(task[t], item)
  BY Zenon DEF FlushNext
<1> QED
  BY <1>3, <1>4, <1>5, <1>6 DEF c, r

\* The end of a call, whether or not it bumps the others.
LEMMA ReturnMoves ==
    ASSUME Shaped, NEW t \in Task, NEW base \in [Task -> Coroutine], base \in {task, Bumped(t)},
           NEW s \in Coroutine, task' = [base EXCEPT ![t] = s]
    PROVE  Moved(t, s)
<1>1. \A u \in Task : Same(base[u], task[u])
  BY BumpedTyped DEF Same
<1> QED
  BY <1>1 DEF Moved, Same

LEMMA FlushReturnsMoves ==
    ASSUME Shaped, NEW t \in Task, NEW outcome \in CallOutcome, FlushReturns(t, outcome)
    PROVE  LET r == IF outcome = "missing" THEN Retained(task[t], task[t].calling)
                    ELSE task[t].remaining
               s == [task[t] EXCEPT !.calling = NoItem, !.remaining = r]
           IN  Moved(t, s) /\ WellFormed(s)
<1> DEFINE r == IF outcome = "missing" THEN Retained(task[t], task[t].calling)
                ELSE task[t].remaining
           base == IF outcome = "delivered" THEN Bumped(t) ELSE task
           s == [base[t] EXCEPT !.calling = NoItem, !.remaining = r]
           p == [task[t] EXCEPT !.calling = NoItem, !.remaining = r]
<1>1. /\ task[t] \in Coroutine /\ WellFormed(task[t]) /\ task[t].stage = "flush"
      /\ task[t].calling # NoItem /\ task \in [Task -> Coroutine]
  BY DEF FlushReturns, Shaped
<1>2. task[t].calling \in Item /\ task[t].remaining \in Seq(Item)
  BY <1>1 DEF Coroutine
<1>3. r \in Seq(Item) /\ Len(r) <= QueueMax
  BY <1>1, <1>2, RetainedTyped DEF WellFormed
<1>4. base \in [Task -> Coroutine] /\ base \in {task, Bumped(t)} /\ Same(base[t], task[t])
      /\ base[t].remaining = task[t].remaining
  BY <1>1, BumpedTyped DEF Same
<1>5. task' = [base EXCEPT ![t] = s]
  <2>1. task' = [base EXCEPT ![t].calling = NoItem,
                             ![t].remaining = IF outcome = "missing"
                                  THEN Retained(task[t], task[t].calling) ELSE @]
    BY Zenon DEF FlushReturns
  <2> HIDE DEF base
  <2>2. base[t] \in Coroutine
    BY <1>4
  <2> QED
    BY <1>4, <2>1, <2>2 DEF Coroutine
<1> HIDE DEF base, r
<1>6. s \in Coroutine /\ p \in Coroutine /\ Same(s, p)
  BY <1>1, <1>3, <1>4 DEF Coroutine, Same
<1>7. WellFormed(p)
  BY <1>1, <1>3 DEF WellFormed, Coroutine
<1>8. Moved(t, s)
  BY <1>4, <1>5, <1>6, ReturnMoves
<1>9. Moved(t, p)
  BY <1>6, <1>8 DEF Moved, Same
<1> QED
  BY <1>7, <1>9 DEF r

\* The first route of the emission, and those after it.
LEMMA FirstRoute ==
    ASSUME NEW s \in Coroutine, WellFormed(s), s.todo # <<>>
    PROVE  /\ Head(s.todo) \in Route /\ Tail(s.todo) \in Seq(Route)
           /\ Once(Tail(s.todo)) /\ Head(s.todo) \notin Elements(Tail(s.todo))
           /\ Elements(s.todo) = {Head(s.todo)} \cup Elements(Tail(s.todo))
           /\ s.events # <<>> => <<Head(s.events).id, Head(s.todo)>> \in Item
<1>1. s.todo \in Seq(Route) /\ s.events \in Seq(Event) /\ Once(s.todo)
  BY DEF Coroutine, WellFormed
<1>2. /\ Head(s.todo) \in Route /\ Tail(s.todo) \in Seq(Route)
      /\ Once(Tail(s.todo)) /\ Head(s.todo) \notin Elements(Tail(s.todo))
      /\ Elements(s.todo) = {Head(s.todo)} \cup Elements(Tail(s.todo))
  BY <1>1, TailTakes, TailElements
<1>3. s.events # <<>> => Head(s.events) \in Event
  BY <1>1, TailTakes
<1> QED
  BY <1>2, <1>3 DEF Event, Item

\* The emission: the route is called, or skipped and perhaps deferred.
LEMMA SendNextMoves ==
    ASSUME Shaped, NEW t \in Task, SendNext(t)
    PROVE  LET item == <<Head(task[t].events).id, Head(task[t].todo)>>
               c    == [task[t] EXCEPT !.calling = item]
               r    == [task[t] EXCEPT !.todo = Tail(task[t].todo)]
           IN  /\ item \in Item
               /\ \/ Call(t, item) /\ UNCHANGED <<deferred, owed>> /\ Moved(t, c) /\ WellFormed(c)
                  \/ /\ task' = [task EXCEPT ![t] = r] /\ Moved(t, r) /\ WellFormed(r)
                     /\ UNCHANGED <<deferred, owed>> \/ Defer(item)
<1> DEFINE item == <<Head(task[t].events).id, Head(task[t].todo)>>
           c    == [task[t] EXCEPT !.calling = item]
           r    == [task[t] EXCEPT !.todo = Tail(task[t].todo)]
<1>1. /\ task[t] \in Coroutine /\ WellFormed(task[t]) /\ task[t].stage = "send"
      /\ task[t].calling = NoItem /\ task \in [Task -> Coroutine] /\ task[t].todo # <<>>
  BY DEF SendNext, Shaped
<1>2. /\ item \in Item /\ Tail(task[t].todo) \in Seq(Route) /\ Once(Tail(task[t].todo))
  BY <1>1, FirstRoute DEF WellFormed
<1>3. Call(t, item) => Moved(t, c) /\ WellFormed(c)
  <2>1. Call(t, item) => Moved(t, c)
    BY <1>2, CallMoves
  <2>2. WellFormed(c)
    BY <1>1 DEF WellFormed, Coroutine
  <2> QED
    BY <2>1, <2>2
<1>4. task' = [task EXCEPT ![t].todo = Tail(task[t].todo)] =>
         task' = [task EXCEPT ![t] = r] /\ Moved(t, r) /\ WellFormed(r)
  <2>1. r \in Coroutine
    BY <1>1, <1>2 DEF Coroutine
  <2>2. WellFormed(r)
    BY <1>1, <1>2 DEF WellFormed, Coroutine
  <2>3. task' = [task EXCEPT ![t].todo = Tail(task[t].todo)] => task' = [task EXCEPT ![t] = r]
    BY <1>1 DEF Coroutine
  <2> QED
    BY <2>1, <2>2, <2>3, OneMoves
<1>5. \/ Call(t, item) /\ UNCHANGED <<deferred, owed>>
      \/ /\ task' = [task EXCEPT ![t].todo = Tail(task[t].todo)]
         /\ UNCHANGED <<deferred, owed>> \/ Defer(item)
  BY Zenon DEF SendNext
<1> HIDE DEF c, r
<1> QED
  BY <1>2, <1>3, <1>4, <1>5 DEF c, r

LEMMA SendReturnsMoves ==
    ASSUME Shaped, NEW t \in Task, NEW outcome \in CallOutcome, SendReturns(t, outcome)
    PROVE  LET s == [task[t] EXCEPT !.calling = NoItem, !.todo = Tail(task[t].todo)]
               base == IF outcome = "delivered" THEN Bumped(t) ELSE task
           IN  /\ Moved(t, s) /\ WellFormed(s)
               /\ task'[t].got = (task[t].got \/ task[t].bumped \/ outcome = "delivered")
               /\ task'[t].own = (task[t].own \/ outcome = "delivered")
               /\ task'[t].crossed = task[t].crossed /\ task'[t].bumped = task[t].bumped
               /\ \A u \in Task \ {t} : task'[u] = base[u]
<1> DEFINE base == IF outcome = "delivered" THEN Bumped(t) ELSE task
           got  == task[t].got \/ task[t].bumped \/ outcome = "delivered"
           own  == task[t].own \/ outcome = "delivered"
           s == [base[t] EXCEPT !.calling = NoItem, !.todo = Tail(task[t].todo),
                                !.got = got, !.own = own]
           p == [task[t] EXCEPT !.calling = NoItem, !.todo = Tail(task[t].todo)]
<1>1. /\ task[t] \in Coroutine /\ WellFormed(task[t]) /\ task[t].stage = "send"
      /\ task[t].calling # NoItem /\ task \in [Task -> Coroutine]
  BY DEF SendReturns, Shaped
<1>2. Tail(task[t].todo) \in Seq(Route) /\ Once(Tail(task[t].todo))
  BY <1>1, FirstRoute DEF WellFormed
<1>3. base \in [Task -> Coroutine] /\ base \in {task, Bumped(t)} /\ Same(base[t], task[t])
      /\ base[t].crossed = task[t].crossed /\ base[t].bumped = task[t].bumped
  <2>1. CASE outcome = "delivered"
    <3>1. Bumped(t)[t].bumped = task[t].bumped
      BY <1>1, BumpedTyped DEF Coroutine
    <3> QED
      BY <2>1, <3>1, BumpedTyped
  <2>2. CASE outcome # "delivered"
    BY <1>1, <2>2 DEF Same
  <2> QED
    BY <2>1, <2>2
<1>4. got \in BOOLEAN /\ own \in BOOLEAN
  BY <1>1 DEF Coroutine
<1>5. task' = [base EXCEPT ![t] = s]
  <2>1. task' = [base EXCEPT ![t].calling = NoItem, ![t].todo = Tail(task[t].todo),
                             ![t].got = got, ![t].own = own]
    BY Zenon DEF SendReturns
  <2> HIDE DEF base, got, own
  <2>2. base[t] \in Coroutine
    BY <1>3
  <2> QED
    BY <1>3, <2>1, <2>2 DEF Coroutine
<1> HIDE DEF base, got, own
<1>6. s \in Coroutine /\ p \in Coroutine /\ Same(s, p) /\ s.got = got /\ s.own = own
      /\ s.crossed = task[t].crossed /\ s.bumped = task[t].bumped
  BY <1>1, <1>2, <1>3, <1>4 DEF Coroutine, Same
<1>7. WellFormed(p)
  BY <1>1, <1>2 DEF WellFormed, Coroutine
<1> HIDE DEF s, p
<1>8. Moved(t, s)
  BY <1>3, <1>5, <1>6, ReturnMoves
<1>9. Moved(t, p)
  BY <1>6, <1>8 DEF Moved, Same
<1>10. task'[t] = s /\ \A u \in Task \ {t} : task'[u] = base[u]
  BY <1>3, <1>5
<1> QED
  BY <1>6, <1>7, <1>9, <1>10 DEF p, got, own, base

LEMMA RecordMoves ==
    ASSUME Shaped, NEW t \in Task, RecordDecision(t)
    PROVE  /\ task[t].events # <<>> /\ task[t] \in Coroutine
           /\ Moved(t, Rest(task[t])) /\ WellFormed(Rest(task[t]))
           /\ task' = [task EXCEPT ![t] = Rest(task[t])]
<1>1. task[t] \in Coroutine /\ WellFormed(task[t]) /\ task[t].stage = "send"
  BY DEF RecordDecision, Shaped
<1>2. task[t].events # <<>>
  BY <1>1 DEF WellFormed
<1>3. task' = [task EXCEPT ![t] = Rest(task[t])]
  BY DEF RecordDecision
<1> QED
  BY <1>1, <1>2, <1>3, RestTyped, OneMoves

-----------------------------------------------------------------------------
(* Type correctness *)

\* A decision keeps the form of the policy and notifies nothing.
LEMMA DecidedForm ==
    ASSUME Shaped, NEW kind \in Kind
    PROVE  PolicyForm(Decided(kind)) /\ (Decided(kind).notified => policy.notified)
<1>1. now \in Times /\ Never \in Times
  BY DEF Shaped, StoresTyped, Times
<1>2. PICK burst : policy \in [first : Times, last : Times, notified : BOOLEAN, pushed : Times,
                               burst : {burst}]
  BY DEF Shaped, PolicyForm
<1> DEFINE P == [first : Times, last : Times, notified : BOOLEAN, pushed : Times, burst : {burst}]
<1>3. Renewed(policy) \in P /\ (Renewed(policy).notified => policy.notified)
  BY <1>1, <1>2 DEF Renewed
<1>4. \A r \in P, first \in Times :
         LET o == [r EXCEPT !.last = now, !.first = first] IN o \in P /\ o.notified = r.notified
  BY <1>1
<1>5. Observed(policy) \in P /\ Observed(policy).notified = Renewed(policy).notified
  <2> DEFINE r == Renewed(policy)
             first == IF r.first = Never THEN now ELSE r.first
  <2>1. first \in Times
    BY <1>1, <1>3
  <2>2. Observed(policy) = [r EXCEPT !.last = now, !.first = first]
    BY <1>3 DEF Observed
  <2> HIDE DEF r, first
  <2>3. r \in P
    BY <1>3 DEF r
  <2> QED
    BY <1>4, <2>1, <2>2, <2>3 DEF r
<1>6. Decided(kind) \in P /\ (Decided(kind).notified => policy.notified)
  BY <1>2, <1>3, <1>5 DEF Decided
<1> QED
  BY <1>6 DEF PolicyForm

\* Recording keeps the form too, and notifies only a mismatch whose emission was delivered.
LEMMA RecordedForm ==
    ASSUME Shaped, NEW kind \in Kind, NEW got \in BOOLEAN
    PROVE  /\ PolicyForm(Recorded(kind, got))
           /\ Recorded(kind, got).notified /\ ~policy.notified => got /\ kind = "mismatch"
<1>1. now \in Times /\ Never \in Times
  BY DEF Shaped, StoresTyped, Times
<1>2. PICK burst : policy \in [first : Times, last : Times, notified : BOOLEAN, pushed : Times,
                               burst : {burst}]
  BY DEF Shaped, PolicyForm
<1> DEFINE P(b) == [first : Times, last : Times, notified : BOOLEAN, pushed : Times, burst : {b}]
           new == IF kind # "alarm" /\ BurstMax > 0 THEN Append(Recent(policy), now)
                  ELSE policy.burst
           p == [policy EXCEPT !.burst = new]
<1>3. p \in P(new) /\ p.notified = policy.notified /\ p.first = policy.first
  <2> HIDE DEF new
  <2> QED
    BY <1>2
<1>4. CASE ~got
  BY <1>4, <1>2 DEF Recorded, PolicyForm
<1>5. CASE got /\ kind # "mismatch"
  <2>1. Recorded(kind, got) = p
    BY <1>2, <1>5 DEF Recorded
  <2> HIDE DEF p, new
  <2> QED
    BY <1>3, <1>5, <2>1 DEF PolicyForm
<1>6. CASE got /\ kind = "mismatch"
  <2> DEFINE last == IF p.first # Never THEN now ELSE p.last
             silenced == p.notified \/ p.first # Never
  <2>1. Recorded(kind, got) = [p EXCEPT !.pushed = now, !.notified = silenced, !.last = last]
    BY <1>2, <1>3, <1>6 DEF Recorded
  <2> HIDE DEF p, new
  <2>2. last \in Times /\ silenced \in BOOLEAN
    BY <1>1, <1>3
  <2> HIDE DEF last, silenced
  <2>3. Recorded(kind, got) \in P(new)
    BY <1>1, <1>3, <2>1, <2>2
  <2> QED
    BY <1>6, <2>3 DEF PolicyForm
<1> QED
  BY <1>4, <1>5, <1>6

\* The events of an evaluation get the next numbers.
LEMMA EvaluateQueues ==
    ASSUME Shaped, NEW others \in {<<>>, <<"config">>, <<"alarm">>}, Evaluate(others)
    PROVE  /\ queued' \in Seq(Event) /\ count' \in 0..MaxEvents /\ count <= count'
           /\ \A i \in Ids(queued') : i \in Ids(queued) \/ (count < i /\ i <= count')
           /\ Distinct(queued) /\ (\A i \in Ids(queued) : i <= count) => Distinct(queued')
           /\ Ids(queued) \subseteq Ids(queued')
<1> DEFINE since == IF domain.since = Never THEN now ELSE domain.since
           ready == mismatch /\ ~domain.emitted /\ now - since >= PersistS
           kinds == (IF ready THEN <<"mismatch">> ELSE <<>>) \o others
           n     == Len(kinds)
           new   == [i \in 1..n |-> [kind |-> kinds[i], id |-> count + i]]
<1>1. queued \in Seq(Event) /\ count \in 0..MaxEvents /\ MaxEvents \in Nat
  BY PipelineAssumption DEF Shaped, StoresTyped
<1>2. count + n <= MaxEvents /\ count' = count + n /\ queued' = queued \o new
  BY Zenon DEF Evaluate
<1>3. kinds \in Seq(Kind) /\ n \in Nat /\ \A i \in 1..n : kinds[i] \in Kind
  <2>1. others \in Seq(Kind)
    <3>1. \A k \in Kind : <<k>> \in Seq(Kind)
      BY Single
    <3>2. <<>> \in Seq(Kind)
      BY Nothing
    <3> QED
      BY <3>1, <3>2 DEF Kind
  <2>2. (IF ready THEN <<"mismatch">> ELSE <<>>) \in Seq(Kind)
    <3>1. "mismatch" \in Kind
      BY DEF Kind
    <3>2. <<"mismatch">> \in Seq(Kind)
      BY <3>1, Single
    <3> QED
      BY <3>2, Nothing
  <2> HIDE DEF ready
  <2>3. kinds \in Seq(Kind)
    BY <2>1, <2>2, ConcatProperties
  <2> HIDE DEF kinds
  <2> QED
    BY <2>3, LenProperties, ElementOfSeq
<1> HIDE DEF kinds
<1>4. \A i \in 1..n : [kind |-> kinds[i], id |-> count + i] \in Event
  BY <1>1, <1>2, <1>3 DEF Event
<1>5. new \in Seq(Event) /\ Len(new) = n /\ \A i \in 1..n : new[i].id = count + i
  BY <1>3, <1>4
<1> HIDE DEF n, new
<1>6. /\ queued' \in Seq(Event) /\ Len(queued') = Len(queued) + n /\ Len(queued) \in Nat
      /\ DOMAIN queued = 1..Len(queued) /\ DOMAIN queued' = 1..(Len(queued) + n)
      /\ \A i \in 1..Len(queued) : queued'[i] = queued[i]
      /\ \A i \in (Len(queued) + 1)..(Len(queued) + n) : queued'[i] = new[i - Len(queued)]
  <2>1. /\ queued \o new \in Seq(Event) /\ Len(queued \o new) = Len(queued) + n
        /\ \A i \in 1..(Len(queued) + n) : (queued \o new)[i] =
              IF i <= Len(queued) THEN queued[i] ELSE new[i - Len(queued)]
    BY <1>1, <1>5, ConcatProperties
  <2>2. Len(queued) \in Nat /\ DOMAIN queued = 1..Len(queued)
        /\ DOMAIN (queued \o new) = 1..(Len(queued) + n)
    BY <1>1, <2>1, LenProperties
  <2> DEFINE q == queued \o new
  <2>3. queued' = q
    BY <1>2
  <2> HIDE DEF q
  <2> QED
    BY <1>3, <2>1, <2>2, <2>3 DEF q
<1>7. \A i \in (Len(queued) + 1)..(Len(queued) + n) :
         queued'[i].id = count + i - Len(queued) /\ i - Len(queued) \in 1..n
  BY <1>1, <1>3, <1>5, <1>6
<1>8. \A i \in DOMAIN queued' : \/ i \in DOMAIN queued /\ queued'[i].id = queued[i].id
                                \/ i \in (Len(queued) + 1)..(Len(queued) + n)
  BY <1>3, <1>6
<1>9. \A i \in Ids(queued') : i \in Ids(queued) \/ (count < i /\ i <= count')
  BY <1>1, <1>2, <1>3, <1>6, <1>7, <1>8 DEF Ids
<1>10. Ids(queued) \subseteq Ids(queued')
  BY <1>3, <1>6 DEF Ids
<1>11. ASSUME Distinct(queued), \A i \in Ids(queued) : i <= count
       PROVE  Distinct(queued')
  <2>1. \A i \in DOMAIN queued : queued[i].id \in Nat
    <3>1. \A i \in DOMAIN queued : queued[i] \in Event
      BY <1>1, <1>6, ElementOfSeq
    <3> QED
      BY <3>1, <1>1 DEF Event
  <2>2. \A i \in DOMAIN queued : queued[i].id <= count
    BY <1>11 DEF Ids
  <2> SUFFICES ASSUME NEW i \in DOMAIN queued', NEW j \in DOMAIN queued',
                      queued'[i].id = queued'[j].id
               PROVE  i = j
    BY DEF Distinct
  <2>3. CASE i \in DOMAIN queued /\ j \in DOMAIN queued
    BY <2>3, <1>6, <1>11 DEF Distinct
  <2>4. CASE i \in (Len(queued) + 1)..(Len(queued) + n) /\ j \in (Len(queued) + 1)..(Len(queued) + n)
    BY <2>4, <1>1, <1>6, <1>7
  <2>5. CASE i \in DOMAIN queued /\ j \in (Len(queued) + 1)..(Len(queued) + n)
    BY <2>5, <2>1, <2>2, <1>1, <1>6, <1>7
  <2>6. CASE j \in DOMAIN queued /\ i \in (Len(queued) + 1)..(Len(queued) + n)
    BY <2>6, <2>1, <2>2, <1>1, <1>6, <1>7
  <2> QED
    BY <1>8, <2>3, <2>4, <2>5, <2>6
<1> QED
  BY <1>1, <1>2, <1>3, <1>6, <1>9, <1>10, <1>11

\* A deferred delivery joins the queue, whose oldest one leaves if it was full.
LEMMA DeferTyped ==
    ASSUME Shaped, NEW item \in Item, Defer(item)
    PROVE  deferred' \in Seq(Item) /\ Len(deferred') <= QueueMax /\ owed' \subseteq Item
<1>1. deferred \in Seq(Item) /\ Len(deferred) <= QueueMax /\ owed \subseteq Item /\ Len(deferred) \in Nat
      /\ QueueMax \in Nat \ {0}
  BY PipelineAssumption, LenProperties DEF Shaped, StoresTyped
<1>2. CASE Len(deferred) = QueueMax
  <2>1. deferred # <<>>
    BY <1>1, <1>2, Nothing
  <2>2. Tail(deferred) \in Seq(Item) /\ Len(Tail(deferred)) = QueueMax - 1
    BY <1>2, <2>1, HeadDeferred
  <2>3. /\ Append(Tail(deferred), item) \in Seq(Item)
        /\ Len(Append(Tail(deferred), item)) = Len(Tail(deferred)) + 1
    BY <2>2, AppendAdds
  <2>4. deferred' = Append(Tail(deferred), item) /\ owed' \subseteq owed \cup {item}
    BY <1>2 DEF Defer
  <2> QED
    BY <1>1, <2>2, <2>3, <2>4
<1>3. CASE Len(deferred) # QueueMax
  <2>1. Append(deferred, item) \in Seq(Item) /\ Len(Append(deferred, item)) = Len(deferred) + 1
    BY <1>1, AppendAdds
  <2>2. deferred' = Append(deferred, item) /\ owed' = owed \cup {item}
    BY <1>3 DEF Defer
  <2> QED
    BY <1>1, <1>3, <2>1, <2>2
<1> QED
  BY <1>2, <1>3

LEMMA InitShaped == PipelineInit => Shaped
<1> SUFFICES ASSUME PipelineInit PROVE Shaped
  OBVIOUS
<1>1. \A t \in Task : task[t] = Idle
  BY DEF PipelineInit
<1>2. task \in [Task -> Coroutine] /\ \A t \in Task : WellFormed(task[t])
  BY <1>1, IdleTyped DEF PipelineInit
<1>3. PolicyForm(policy)
  BY DEF PipelineInit, PolicyForm, Times
<1>4. MaxTime \in Nat /\ MaxEvents \in Nat /\ QueueMax \in Nat
  BY PipelineAssumption
<1>5. /\ queued \in Seq(Event) /\ deferred \in Seq(Item) /\ Len(deferred) <= QueueMax
      /\ domain \in [since : Times, emitted : BOOLEAN]
  BY <1>4, Nothing DEF PipelineInit, Times
<1>6. /\ seen \in [Kind -> Times] /\ emitted \in [Kind -> Times]
      /\ now \in 0..MaxTime /\ count \in 0..MaxEvents
  BY <1>4 DEF PipelineInit, Times
<1>7. StoresTyped
  BY <1>5, <1>6 DEF PipelineInit, StoresTyped
<1> QED
  BY <1>2, <1>3, <1>7 DEF Shaped

LEMMA NextShaped == Shaped /\ [PipelineNext]_notificationVars => Shaped'
<1> SUFFICES ASSUME Shaped, [PipelineNext]_notificationVars PROVE Shaped'
  OBVIOUS
<1>0. /\ StoresTyped /\ PolicyForm(policy) /\ task \in [Task -> Coroutine]
      /\ \A t \in Task : WellFormed(task[t]) /\ task[t] \in Coroutine
  BY DEF Shaped
<1>1. ASSUME NEW others \in {<<>>, <<"config">>, <<"alarm">>}, Evaluate(others)
      PROVE  Shaped'
  <2>1. queued' \in Seq(Event) /\ count' \in 0..MaxEvents
    BY <1>1, EvaluateQueues
  <2>2. domain' \in [since : Times, emitted : BOOLEAN]
    <3> DEFINE since == IF domain.since = Never THEN now ELSE domain.since
               told  == domain.emitted \/ (mismatch /\ ~domain.emitted /\ now - since >= PersistS)
    <3>1. domain' = [since |-> since, emitted |-> told]
          \/ domain' = [since |-> Never, emitted |-> FALSE]
      BY <1>1 DEF Evaluate
    <3>2. now \in 0..MaxTime /\ domain.since \in Times /\ domain.emitted \in BOOLEAN
          /\ mismatch \in BOOLEAN
      BY <1>0 DEF StoresTyped
    <3>3. since \in Times /\ told \in BOOLEAN /\ Never \in Times
      BY <3>2 DEF Times
    <3>4. \A a \in Times, b \in BOOLEAN :
             [since |-> a, emitted |-> b] \in [since : Times, emitted : BOOLEAN]
      OBVIOUS
    <3>5. [since |-> since, emitted |-> told] \in [since : Times, emitted : BOOLEAN]
      BY Zenon, <3>3, <3>4
    <3> HIDE DEF since, told
    <3> QED
      BY <3>1, <3>3, <3>4, <3>5
  <2>3. UNCHANGED <<now, mismatch, policy, seen, emitted, task, deferred, disabled, owed>>
    BY <1>1 DEF Evaluate, pipelineVars
  <2> QED
    BY <2>1, <2>2, <2>3, <1>0 DEF Shaped, StoresTyped
<1>2. CASE Tick
  <2>1. now' \in 0..MaxTime
    BY <1>2, <1>0, PipelineAssumption DEF Tick, StoresTyped
  <2> QED
    BY <2>1, <1>2, <1>0 DEF Tick, Shaped, StoresTyped, pipelineVars
<1>3. CASE MismatchChanges
  BY <1>3, <1>0 DEF MismatchChanges, Shaped, StoresTyped, pipelineVars
<1>4. ASSUME NEW t \in Task, TakeQueued(t) PROVE Shaped'
  <2>1. task' \in [Task -> Coroutine] /\ \A u \in Task : WellFormed(task'[u])
    BY <1>4, TakeMoves, MovedForm
  <2>2. queued' = <<>> /\ UNCHANGED <<now, mismatch, domain, policy, seen, emitted, count,
                                      deferred, disabled, owed>>
    BY <1>4 DEF TakeQueued, clockVars, pipelineVars
  <2> QED
    BY <2>1, <2>2, <1>0, Nothing DEF Shaped, StoresTyped
<1>5. ASSUME NEW t \in Task, NEW kind \in {"config", "alarm"}, External(t, kind) PROVE Shaped'
  <2>0. kind \in Kind
    BY DEF Kind
  <2>1. task' \in [Task -> Coroutine] /\ \A u \in Task : WellFormed(task'[u])
    BY <2>0, <1>5, ExternalMoves, MovedForm
  <2>2. UNCHANGED <<now, mismatch, domain, queued, policy, seen, emitted, deferred, disabled, owed>>
        /\ count < MaxEvents /\ count' = count + 1
    BY <1>5 DEF External, clockVars, pipelineVars
  <2>3. count' \in 0..MaxEvents
    BY <2>2, <1>0, PipelineAssumption DEF StoresTyped
  <2> QED
    BY <2>1, <2>2, <2>3, <1>0 DEF Shaped, StoresTyped
<1>6. ASSUME NEW t \in Task, Emit(t) PROVE Shaped'
  <2> DEFINE kind == Head(task[t].events).kind
  <2>1. task' \in [Task -> Coroutine] /\ \A u \in Task : WellFormed(task'[u])
    BY <1>6, EmitMoves, MovedForm
  <2>2. kind \in Kind
    <3>1. task[t].events # <<>> /\ task[t].events \in Seq(Event)
      BY <1>0, <1>6 DEF Emit, WellFormed, Coroutine
    <3>2. Head(task[t].events) \in Event
      BY <3>1, TailTakes
    <3> QED
      BY <3>2 DEF Event
  <2>3. policy' = Decided(kind)
        /\ seen' \in {seen, [seen EXCEPT ![kind] = now]}
        /\ emitted' \in {emitted, [emitted EXCEPT ![kind] = now]}
        /\ UNCHANGED <<now, mismatch, domain, queued, count, deferred, disabled, owed>>
    BY <1>6 DEF Emit, clockVars
  <2> HIDE DEF kind
  <2>4. PolicyForm(policy')
    BY <2>2, <2>3, DecidedForm
  <2>5. seen' \in [Kind -> Times] /\ emitted' \in [Kind -> Times]
    <3>1. now \in Times /\ seen \in [Kind -> Times] /\ emitted \in [Kind -> Times]
      BY <1>0 DEF StoresTyped, Times
    <3> QED
      BY <2>2, <2>3, <3>1
  <2> QED
    BY <2>1, <2>3, <2>4, <2>5, <1>0 DEF Shaped, StoresTyped
<1>7. ASSUME NEW t \in Task, FlushEnds(t) PROVE Shaped'
  <2>1. task' \in [Task -> Coroutine] /\ \A u \in Task : WellFormed(task'[u])
    BY <1>7, FlushEndsMoves, MovedForm
  <2>2. deferred' = task[t].remaining
        /\ UNCHANGED <<now, mismatch, domain, queued, policy, seen, emitted, count, disabled, owed>>
    BY <1>7 DEF FlushEnds, clockVars, pipelineVars
  <2>3. deferred' \in Seq(Item) /\ Len(deferred') <= QueueMax
    BY <2>2, <1>0 DEF Coroutine, WellFormed
  <2> QED
    BY <2>1, <2>2, <2>3, <1>0 DEF Shaped, StoresTyped
<1>8. ASSUME NEW t \in Task, FlushNext(t) PROVE Shaped'
  <2>1. task' \in [Task -> Coroutine] /\ \A u \in Task : WellFormed(task'[u])
    BY <1>8, <1>0, FlushNextMoves, MovedForm
  <2>2. deferred # <<>> /\ deferred' = Tail(deferred)
        /\ UNCHANGED <<now, mismatch, domain, queued, policy, seen, emitted, count, disabled>>
    BY <1>8 DEF FlushNext, clockVars, pipelineVars
  <2>3. deferred' \in Seq(Item) /\ Len(deferred') <= QueueMax
    BY <2>2, HeadDeferred
  <2>4. owed' \subseteq Item
    <3>1. owed' \subseteq owed
      BY <1>8, FlushNextMoves DEF Kept
    <3> QED
      BY <3>1, <1>0 DEF StoresTyped
  <2> QED
    BY <2>1, <2>2, <2>3, <2>4, <1>0 DEF Shaped, StoresTyped
<1>9. ASSUME NEW t \in Task, NEW outcome \in CallOutcome, FlushReturns(t, outcome) PROVE Shaped'
  <2>1. task' \in [Task -> Coroutine] /\ \A u \in Task : WellFormed(task'[u])
    BY <1>9, FlushReturnsMoves, MovedForm
  <2>2. owed' \subseteq owed /\ disabled' \subseteq disabled \cup {task[t].calling[2]}
        /\ UNCHANGED <<now, mismatch, domain, queued, policy, seen, emitted, count, deferred>>
        /\ task[t].calling # NoItem
    BY <1>9 DEF FlushReturns, clockVars, pipelineVars, Kept
  <2>3. task[t].calling[2] \in Route
    BY <2>2, <1>0 DEF Coroutine, Item
  <2> QED
    BY <2>1, <2>2, <2>3, <1>0 DEF Shaped, StoresTyped
<1>10. ASSUME NEW t \in Task, SendNext(t) PROVE Shaped'
  <2> DEFINE item == <<Head(task[t].events).id, Head(task[t].todo)>>
  <2>1. task' \in [Task -> Coroutine] /\ \A u \in Task : WellFormed(task'[u])
    BY <1>10, SendNextMoves, MovedForm
  <2>2. item \in Item /\ (UNCHANGED <<deferred, owed>> \/ Defer(item))
    BY <1>10, SendNextMoves
  <2>3. UNCHANGED <<now, mismatch, domain, queued, policy, seen, emitted, count, disabled>>
    BY <1>10 DEF SendNext, clockVars, pipelineVars
  <2> HIDE DEF item
  <2>4. deferred' \in Seq(Item) /\ Len(deferred') <= QueueMax /\ owed' \subseteq Item
    BY <2>2, DeferTyped, <1>0 DEF StoresTyped
  <2> QED
    BY <2>1, <2>3, <2>4, <1>0 DEF Shaped, StoresTyped
<1>11. ASSUME NEW t \in Task, NEW outcome \in CallOutcome, SendReturns(t, outcome) PROVE Shaped'
  <2> DEFINE item == task[t].calling
  <2>1. task' \in [Task -> Coroutine] /\ \A u \in Task : WellFormed(task'[u])
    BY <1>11, SendReturnsMoves, MovedForm
  <2>2. /\ UNCHANGED <<deferred, owed>> \/ Defer(item)
        /\ disabled' \subseteq disabled \cup {item[2]} /\ item # NoItem
        /\ UNCHANGED <<now, mismatch, domain, queued, policy, seen, emitted, count>>
    BY <1>11 DEF SendReturns, clockVars, pipelineVars
  <2>3. item \in Item /\ item[2] \in Route
    BY <2>2, <1>0 DEF Coroutine, Item
  <2> HIDE DEF item
  <2>4. deferred' \in Seq(Item) /\ Len(deferred') <= QueueMax /\ owed' \subseteq Item
    BY <2>2, <2>3, DeferTyped, <1>0 DEF StoresTyped
  <2> QED
    BY <2>1, <2>2, <2>3, <2>4, <1>0 DEF Shaped, StoresTyped
<1>12. ASSUME NEW t \in Task, RecordDecision(t) PROVE Shaped'
  <2>1. task' \in [Task -> Coroutine] /\ \A u \in Task : WellFormed(task'[u])
    BY <1>12, RecordMoves, MovedForm
  <2>2. policy' = Recorded(Head(task[t].events).kind, task[t].got)
        /\ UNCHANGED <<now, mismatch, domain, queued, seen, emitted, count, deferred, disabled, owed>>
    BY <1>12 DEF RecordDecision, clockVars
  <2>3. Head(task[t].events).kind \in Kind /\ task[t].got \in BOOLEAN
    <3>1. task[t].events # <<>> /\ task[t].events \in Seq(Event) /\ task[t].got \in BOOLEAN
      BY <1>12, RecordMoves DEF Coroutine
    <3>2. Head(task[t].events) \in Event
      BY <3>1, TailTakes
    <3> QED
      BY <3>1, <3>2 DEF Event
  <2>4. PolicyForm(policy')
    BY <2>2, <2>3, RecordedForm
  <2> QED
    BY <2>1, <2>2, <2>4, <1>0 DEF Shaped, StoresTyped
<1>13. CASE UNCHANGED notificationVars
  BY <1>13, <1>0 DEF notificationVars, pipelineVars, Shaped, StoresTyped
<1> QED
  BY <1>1, <1>2, <1>3, <1>4, <1>5, <1>6, <1>7, <1>8, <1>9, <1>10, <1>11, <1>12, <1>13
     DEF PipelineNext, Step

\* The memory of the pipeline, of its policy and of its coroutines keeps its types.
THEOREM PipelineTypeCorrect == PipelineSpec => []PipelineTypeOK
<1>1. Shaped => PipelineTypeOK
  <2> SUFFICES ASSUME Shaped PROVE PipelineTypeOK
    OBVIOUS
  <2>1. PICK burst : policy \in [first : Times, last : Times, notified : BOOLEAN,
                                 pushed : Times, burst : {burst}]
    BY DEF Shaped, PolicyForm
  <2>2. policy.burst = burst
    BY <2>1
  <2> QED
    BY <2>1, <2>2 DEF Shaped, PipelineTypeOK
<1> QED
  BY <1>1, InitShaped, NextShaped, PTL DEF PipelineSpec

-----------------------------------------------------------------------------
(* The numbers of the events *)

\* An event is in one place, the queue or one coroutine, and has its number alone.
Numbered ==
    /\ Distinct(queued) /\ \A i \in Ids(queued) : i <= count
    /\ \A t \in Task : /\ Distinct(task[t].events) /\ \A i \in Ids(task[t].events) : i <= count
                       /\ Ids(task[t].events) \cap Ids(queued) = {}
    /\ \A t, u \in Task : t # u => Ids(task[t].events) \cap Ids(task[u].events) = {}

\* An item is deferred once, by the coroutine that sends its event, after which the route
\* is not on its list.
Passed(item, s) ==
    item[1] \in Ids(s.events) => /\ s.stage = "send" /\ item[1] = Head(s.events).id
                                 /\ item[2] \notin Elements(s.todo)

NotYet ==
    \A item \in owed : /\ item[1] <= count /\ item[1] \notin Ids(queued)
                       /\ \A t \in Task : Passed(item, task[t])

LEMMA IdsTyped ==
    ASSUME NEW q \in Seq(Event)
    PROVE  Ids(q) \subseteq 1..MaxEvents
<1>1. \A i \in DOMAIN q : q[i] \in Event
  BY ElementOfSeq, LenProperties
<1> QED
  BY <1>1 DEF Ids, Event

LEMMA InitNumbered == PipelineInit => Numbered /\ NotYet
BY Nothing DEF PipelineInit, Numbered, NotYet, Idle

\* The coroutine's events are those it had or some of them.
LEMMA FewerNumbered ==
    ASSUME Shaped, Numbered, NEW t \in Task, NEW s, Moved(t, s), UNCHANGED <<queued, count>>,
           Distinct(s.events), Ids(s.events) \subseteq Ids(task[t].events)
    PROVE  Numbered'
BY DEF Numbered, Moved, Same

LEMMA RestNumbered ==
    ASSUME Shaped, Numbered, NEW t \in Task, task[t].events # <<>>
    PROVE  /\ Distinct(Rest(task[t]).events)
           /\ Ids(Rest(task[t]).events) = Ids(task[t].events) \ {Head(task[t].events).id}
           /\ Head(task[t].events).id \in Ids(task[t].events)
<1>1. task[t] \in Coroutine /\ task[t].events \in Seq(Event)
  BY DEF Shaped, Coroutine
<1>2. Distinct(task[t].events)
  BY DEF Numbered
<1> QED
  BY <1>1, <1>2, RestTyped, TailIds

\* A flush disturbs no emission, and a step of an emission at most takes its first route.
LEMMA FlushKeeps ==
    ASSUME Shaped, NEW t \in Task, FlushNext(t) \/ \E outcome \in CallOutcome : FlushReturns(t, outcome)
    PROVE  \A u \in Task : /\ task'[u].stage = task[u].stage /\ task'[u].events = task[u].events
                           /\ task'[u].todo = task[u].todo
<1>1. task[t] \in Coroutine
  BY DEF Shaped
<1>2. ASSUME NEW s, Moved(t, s), s.stage = task[t].stage, s.events = task[t].events, s.todo = task[t].todo
      PROVE  \A u \in Task : /\ task'[u].stage = task[u].stage /\ task'[u].events = task[u].events
                             /\ task'[u].todo = task[u].todo
  BY <1>2 DEF Moved, Same
<1>3. \A item, r : LET s == [task[t] EXCEPT !.calling = item, !.remaining = r] IN
         s.stage = task[t].stage /\ s.events = task[t].events /\ s.todo = task[t].todo
  BY <1>1 DEF Coroutine
<1>4. \A item : LET s == [task[t] EXCEPT !.calling = item] IN
         s.stage = task[t].stage /\ s.events = task[t].events /\ s.todo = task[t].todo
  BY <1>1 DEF Coroutine
<1>5. \A r : LET s == [task[t] EXCEPT !.remaining = r] IN
         s.stage = task[t].stage /\ s.events = task[t].events /\ s.todo = task[t].todo
  BY <1>1 DEF Coroutine
<1>6. CASE FlushNext(t)
  <2>1. \/ \E item : Moved(t, [task[t] EXCEPT !.calling = item])
        \/ Moved(t, task[t])
        \/ \E r : Moved(t, [task[t] EXCEPT !.remaining = r])
    BY <1>6, FlushNextMoves, Zenon
  <2> QED
    BY <1>2, <1>4, <1>5, <2>1
<1>7. ASSUME NEW outcome \in CallOutcome, FlushReturns(t, outcome)
      PROVE  \A u \in Task : /\ task'[u].stage = task[u].stage /\ task'[u].events = task[u].events
                             /\ task'[u].todo = task[u].todo
  <2>1. \E r : Moved(t, [task[t] EXCEPT !.calling = NoItem, !.remaining = r])
    BY <1>7, FlushReturnsMoves, Zenon
  <2> QED
    BY <1>2, <1>3, <2>1
<1> QED
  BY <1>6, <1>7

LEMMA SendKeeps ==
    ASSUME Shaped, NEW t \in Task, SendNext(t) \/ \E outcome \in CallOutcome : SendReturns(t, outcome)
    PROVE  /\ \A u \in Task : task'[u].stage = task[u].stage /\ task'[u].events = task[u].events
           /\ \A u \in Task \ {t} : task'[u].todo = task[u].todo
           /\ task'[t].todo \in {task[t].todo, Tail(task[t].todo)}
<1>1. task[t] \in Coroutine
  BY DEF Shaped
<1> DEFINE Goal == /\ \A u \in Task : task'[u].stage = task[u].stage /\ task'[u].events = task[u].events
                   /\ \A u \in Task \ {t} : task'[u].todo = task[u].todo
                   /\ task'[t].todo \in {task[t].todo, Tail(task[t].todo)}
<1>2. ASSUME NEW s, Moved(t, s), s.stage = task[t].stage, s.events = task[t].events,
             s.todo \in {task[t].todo, Tail(task[t].todo)}
      PROVE  Goal
  BY <1>2 DEF Moved, Same
<1>3. \A item : LET s == [task[t] EXCEPT !.calling = item] IN
         s.stage = task[t].stage /\ s.events = task[t].events /\ s.todo = task[t].todo
  BY <1>1 DEF Coroutine
<1>4. LET s == [task[t] EXCEPT !.todo = Tail(task[t].todo)] IN
         s.stage = task[t].stage /\ s.events = task[t].events /\ s.todo = Tail(task[t].todo)
  BY <1>1 DEF Coroutine
<1>5. LET s == [task[t] EXCEPT !.calling = NoItem, !.todo = Tail(task[t].todo)] IN
         s.stage = task[t].stage /\ s.events = task[t].events /\ s.todo = Tail(task[t].todo)
  BY <1>1 DEF Coroutine
<1> HIDE DEF Goal
<1>6. ASSUME SendNext(t) PROVE Goal
  <2>1. \/ \E item : Moved(t, [task[t] EXCEPT !.calling = item])
        \/ Moved(t, [task[t] EXCEPT !.todo = Tail(task[t].todo)])
    BY <1>6, SendNextMoves, Zenon
  <2>2. ASSUME NEW item, Moved(t, [task[t] EXCEPT !.calling = item]) PROVE Goal
    BY <1>2, <1>3, <2>2
  <2>3. CASE Moved(t, [task[t] EXCEPT !.todo = Tail(task[t].todo)])
    BY <1>2, <1>4, <2>3
  <2> QED
    BY <2>1, <2>2, <2>3
<1>7. ASSUME NEW outcome \in CallOutcome, SendReturns(t, outcome)
      PROVE  Goal
  <2>1. Moved(t, [task[t] EXCEPT !.calling = NoItem, !.todo = Tail(task[t].todo)])
    BY <1>7, SendReturnsMoves, Zenon
  <2> QED
    BY <1>2, <1>5, <2>1
<1> QED
  BY <1>6, <1>7 DEF Goal

LEMMA NextNumbered ==
    Shaped /\ Numbered /\ NotYet /\ [PipelineNext]_notificationVars => Numbered'
<1> SUFFICES ASSUME Shaped, Numbered, NotYet, [PipelineNext]_notificationVars PROVE Numbered'
  OBVIOUS
<1>0. /\ \A t \in Task : WellFormed(task[t]) /\ task[t] \in Coroutine /\ Distinct(task[t].events)
      /\ count \in 0..MaxEvents /\ MaxEvents \in Nat /\ queued \in Seq(Event)
      /\ \A t \in Task : task[t].events \in Seq(Event)
  BY PipelineAssumption DEF Shaped, Numbered, StoresTyped, Coroutine
<1>i. Ids(queued) \subseteq 1..MaxEvents /\ \A t \in Task : Ids(task[t].events) \subseteq 1..MaxEvents
  BY <1>0, IdsTyped
<1>1. ASSUME NEW others \in {<<>>, <<"config">>, <<"alarm">>}, Evaluate(others)
      PROVE  Numbered'
  <2>1. /\ count' \in 0..MaxEvents /\ count <= count'
        /\ \A i \in Ids(queued') : i \in Ids(queued) \/ (count < i /\ i <= count')
        /\ Distinct(queued')
        /\ UNCHANGED task
    BY <1>1, EvaluateQueues DEF Evaluate, Numbered
  <2>2. \A i \in Ids(queued') : i <= count'
    BY <2>1, <1>0, <1>i DEF Numbered
  <2>3. \A t \in Task : /\ \A i \in Ids(task[t].events) : i <= count'
                        /\ Ids(task[t].events) \cap Ids(queued') = {}
    <3> SUFFICES ASSUME NEW t \in Task, NEW i \in Ids(task[t].events)
                 PROVE  i <= count' /\ i \notin Ids(queued')
      OBVIOUS
    <3>1. i \in 1..MaxEvents /\ i <= count /\ i \notin Ids(queued)
      BY <1>i DEF Numbered
    <3> QED
      BY <2>1, <3>1, <1>0
  <2> QED
    BY <2>1, <2>2, <2>3 DEF Numbered
<1>2. CASE Tick \/ MismatchChanges \/ UNCHANGED notificationVars
  BY <1>2 DEF Tick, MismatchChanges, notificationVars, Numbered
<1>4. ASSUME NEW t \in Task, TakeQueued(t) PROVE Numbered'
  <2> DEFINE s == [Idle EXCEPT !.stage = "next", !.events = queued]
  <2>1. Moved(t, s) /\ s.events = queued
    BY <1>4, TakeMoves DEF Idle
  <2>2. queued' = <<>> /\ UNCHANGED count
    BY <1>4 DEF TakeQueued
  <2> HIDE DEF s
  <2>3. task'[t].events = queued /\ \A u \in Task \ {t} : task'[u].events = task[u].events
    BY <2>1 DEF Moved, Same
  <2> QED
    BY <2>2, <2>3, Nothing DEF Numbered
<1>5. ASSUME NEW t \in Task, NEW kind \in {"config", "alarm"}, External(t, kind) PROVE Numbered'
  <2> DEFINE e == [kind |-> kind, id |-> count + 1]
             s == [Idle EXCEPT !.stage = "next", !.events = <<e>>]
  <2>0. kind \in Kind
    BY DEF Kind
  <2>1. Moved(t, s) /\ s.events = <<e>>
    BY <2>0, <1>5, ExternalMoves DEF Idle
  <2>2. Ids(<<e>>) = {count + 1} /\ Distinct(<<e>>)
    BY Single
  <2>3. UNCHANGED queued /\ count' = count + 1
    BY <1>5 DEF External
  <2> HIDE DEF s, e
  <2>4. task'[t].events = <<e>> /\ \A u \in Task \ {t} : task'[u].events = task[u].events
    BY <2>1 DEF Moved, Same
  <2>5. Ids(task'[t].events) = {count + 1} /\ Distinct(task'[t].events)
    BY <2>2, <2>4
  <2>6. \A u \in Task \ {t} : /\ Distinct(task'[u].events)
                              /\ \A i \in Ids(task'[u].events) : i <= count /\ i <= count + 1 /\ i # count + 1
                              /\ Ids(task'[u].events) \cap Ids(queued) = {}
    <3> SUFFICES ASSUME NEW u \in Task \ {t}
                 PROVE  /\ Distinct(task[u].events)
                        /\ \A i \in Ids(task[u].events) : i <= count /\ i <= count + 1 /\ i # count + 1
                        /\ Ids(task[u].events) \cap Ids(queued) = {}
      BY <2>4
    <3>1. \A i \in Ids(task[u].events) : i \in 1..MaxEvents /\ i <= count
      BY <1>i DEF Numbered
    <3>2. Distinct(task[u].events) /\ Ids(task[u].events) \cap Ids(queued) = {}
      BY DEF Numbered
    <3> QED
      BY <3>1, <3>2, <1>0
  <2>7. \A i \in Ids(queued) : i <= count /\ i <= count + 1 /\ i # count + 1
    BY <1>0, <1>i DEF Numbered
  <2>8. \A u, v \in Task : u # v => Ids(task'[u].events) \cap Ids(task'[v].events) = {}
    BY <2>4, <2>5, <2>6 DEF Numbered
  <2>9. count + 1 <= count + 1
    BY <1>0
  <2> QED
    BY <2>3, <2>5, <2>6, <2>7, <2>8, <2>9 DEF Numbered
<1>6. ASSUME NEW t \in Task, Emit(t) PROVE Numbered'
  <2>0. task[t].events # <<>>
    BY <1>6, <1>0 DEF Emit, WellFormed
  <2>1. PICK s \in Coroutine : Moved(t, s) /\ (s.events = task[t].events \/ s = Rest(task[t]))
    BY <1>6, EmitMoves
  <2>2. UNCHANGED <<queued, count>>
    BY <1>6 DEF Emit
  <2>3. Distinct(s.events) /\ Ids(s.events) \subseteq Ids(task[t].events)
    BY <2>0, <2>1, <1>0, RestNumbered
  <2> QED
    BY <2>1, <2>2, <2>3, FewerNumbered
<1>7. ASSUME \A u \in Task : task'[u].events = task[u].events, UNCHANGED <<queued, count>>
      PROVE  Numbered'
  BY <1>7 DEF Numbered
<1>8. ASSUME NEW t \in Task, FlushEnds(t) PROVE Numbered'
  <2>1. Moved(t, [task[t] EXCEPT !.stage = "send", !.remaining = <<>>])
    BY <1>8, FlushEndsMoves
  <2>2. \A u \in Task : task'[u].events = task[u].events
    BY <2>1, <1>0 DEF Moved, Same, Coroutine
  <2> QED
    BY <1>7, <1>8, <2>2 DEF FlushEnds
<1>10. ASSUME NEW t \in Task, FlushNext(t) PROVE Numbered'
  BY <1>7, <1>10, FlushKeeps DEF FlushNext
<1>11. ASSUME NEW t \in Task, NEW outcome \in CallOutcome, FlushReturns(t, outcome) PROVE Numbered'
  BY <1>7, <1>11, FlushKeeps DEF FlushReturns
<1>12. ASSUME NEW t \in Task, SendNext(t) PROVE Numbered'
  BY <1>7, <1>12, SendKeeps DEF SendNext
<1>13. ASSUME NEW t \in Task, NEW outcome \in CallOutcome, SendReturns(t, outcome) PROVE Numbered'
  BY <1>7, <1>13, SendKeeps DEF SendReturns
<1>9. ASSUME NEW t \in Task, RecordDecision(t) PROVE Numbered'
  <2>1. Moved(t, Rest(task[t])) /\ task[t].events # <<>>
    BY <1>9, RecordMoves
  <2>2. UNCHANGED <<queued, count>>
    BY <1>9 DEF RecordDecision
  <2> QED
    BY <2>1, <2>2, RestNumbered, FewerNumbered
<1> QED
  BY <1>1, <1>2, <1>4, <1>5, <1>6, <1>8, <1>9, <1>10, <1>11, <1>12, <1>13 DEF PipelineNext, Step

\* The delivery of the first route is not owed before the coroutine has passed it.
LEMMA NewItem ==
    ASSUME Shaped, Numbered, NotYet, NEW t \in Task, task[t].stage = "send", task[t].todo # <<>>
    PROVE  LET item == <<Head(task[t].events).id, Head(task[t].todo)>>
           IN  /\ item \in Item /\ item \notin owed
               /\ item[1] <= count /\ item[1] \notin Ids(queued)
               /\ \A u \in Task \ {t} : item[1] \notin Ids(task[u].events)
               /\ item[1] = Head(task[t].events).id /\ item[2] \notin Elements(Tail(task[t].todo))
<1> DEFINE item == <<Head(task[t].events).id, Head(task[t].todo)>>
<1>1. task[t] \in Coroutine /\ WellFormed(task[t]) /\ task[t].events # <<>>
  BY DEF Shaped, WellFormed
<1>2. /\ item \in Item /\ Head(task[t].todo) \notin Elements(Tail(task[t].todo))
      /\ Head(task[t].todo) \in Elements(task[t].todo)
  BY <1>1, FirstRoute
<1>3. Head(task[t].events).id \in Ids(task[t].events)
  BY <1>1, RestNumbered
<1>4. item[1] = Head(task[t].events).id /\ item[2] = Head(task[t].todo)
  OBVIOUS
<1> HIDE DEF item
<1>5. item \notin owed
  BY <1>2, <1>3, <1>4 DEF NotYet, Passed
<1>6. /\ item[1] <= count /\ item[1] \notin Ids(queued)
      /\ \A u \in Task \ {t} : item[1] \notin Ids(task[u].events)
  BY <1>3, <1>4 DEF Numbered
<1> QED
  BY <1>2, <1>4, <1>5, <1>6 DEF item

\* What is owed is still past when nothing new is: events stay, and lists only shrink.
LEMMA NotYetKept ==
    ASSUME NotYet, owed' \subseteq owed, UNCHANGED <<queued, count>>,
           \A item \in owed : \A u \in Task : Passed(item, task'[u])
    PROVE  NotYet'
BY DEF NotYet, Passed

LEMMA NotYetAdded ==
    ASSUME Shaped, Numbered, NotYet, NEW t \in Task, task[t].stage = "send", task[t].todo # <<>>,
           UNCHANGED <<queued, count>>,
           \A u \in Task : task'[u].stage = task[u].stage /\ task'[u].events = task[u].events,
           \A u \in Task \ {t} : task'[u].todo = task[u].todo,
           task'[t].todo = Tail(task[t].todo),
           owed' \subseteq owed \cup {<<Head(task[t].events).id, Head(task[t].todo)>>}
    PROVE  NotYet'
<1> DEFINE new == <<Head(task[t].events).id, Head(task[t].todo)>>
<1>1. /\ new[1] <= count /\ new[1] \notin Ids(queued)
      /\ \A u \in Task \ {t} : new[1] \notin Ids(task[u].events)
      /\ new[1] = Head(task[t].events).id /\ new[2] \notin Elements(Tail(task[t].todo))
  BY NewItem
<1>2. owed' \subseteq owed \cup {new}
  OBVIOUS
<1> HIDE DEF new
<1>3. Elements(Tail(task[t].todo)) \subseteq Elements(task[t].todo)
  BY FirstRoute DEF Shaped
<1>4. \A u \in Task : Passed(new, task'[u])
  BY <1>1 DEF Passed
<1>5. \A item \in owed, u \in Task : Passed(item, task'[u])
  BY <1>3 DEF NotYet, Passed
<1>6. \A item \in owed' : /\ item[1] <= count /\ item[1] \notin Ids(queued)
                          /\ \A u \in Task : Passed(item, task'[u])
  BY <1>1, <1>2, <1>4, <1>5 DEF NotYet
<1> QED
  BY <1>6 DEF NotYet, Passed

LEMMA NextNotYet ==
    Shaped /\ Numbered /\ NotYet /\ [PipelineNext]_notificationVars => NotYet'
<1> SUFFICES ASSUME Shaped, Numbered, NotYet, [PipelineNext]_notificationVars PROVE NotYet'
  OBVIOUS
<1>0. /\ \A t \in Task : WellFormed(task[t]) /\ task[t] \in Coroutine
      /\ count \in 0..MaxEvents /\ MaxEvents \in Nat /\ queued \in Seq(Event) /\ owed \subseteq Item
      /\ \A item \in owed : item[1] \in 1..MaxEvents
  BY PipelineAssumption DEF Shaped, StoresTyped, Item
<1>1. ASSUME NEW others \in {<<>>, <<"config">>, <<"alarm">>}, Evaluate(others)
      PROVE  NotYet'
  <2>1. /\ count' \in 0..MaxEvents /\ count <= count'
        /\ \A i \in Ids(queued') : i \in Ids(queued) \/ (count < i /\ i <= count')
        /\ UNCHANGED <<task, owed>>
    BY <1>1, EvaluateQueues DEF Evaluate
  <2>2. \A item \in owed : item[1] <= count' /\ item[1] \notin Ids(queued')
    <3> SUFFICES ASSUME NEW item \in owed PROVE item[1] <= count' /\ item[1] \notin Ids(queued')
      OBVIOUS
    <3>1. item[1] \in 1..MaxEvents /\ item[1] <= count /\ item[1] \notin Ids(queued)
      BY <1>0 DEF NotYet
    <3> QED
      BY <2>1, <3>1, <1>0
  <2> QED
    BY <2>1, <2>2 DEF NotYet, Passed
<1>2. CASE Tick \/ MismatchChanges \/ UNCHANGED notificationVars
  BY <1>2 DEF Tick, MismatchChanges, notificationVars, NotYet, Passed
<1>4. ASSUME NEW t \in Task, TakeQueued(t) PROVE NotYet'
  <2> DEFINE s == [Idle EXCEPT !.stage = "next", !.events = queued]
  <2>1. Moved(t, s) /\ s.events = queued
    BY <1>4, TakeMoves DEF Idle
  <2>2. queued' = <<>> /\ UNCHANGED <<count, owed>>
    BY <1>4 DEF TakeQueued
  <2> HIDE DEF s
  <2>3. task'[t].events = queued /\ \A u \in Task \ {t} : Same(task'[u], task[u])
    BY <2>1 DEF Moved, Same
  <2>4. \A item \in owed : \A u \in Task : Passed(item, task'[u])
    BY <2>3 DEF NotYet, Passed, Same
  <2> QED
    BY <2>2, <2>4, Nothing DEF NotYet, Passed
<1>5. ASSUME NEW t \in Task, NEW kind \in {"config", "alarm"}, External(t, kind) PROVE NotYet'
  <2> DEFINE e == [kind |-> kind, id |-> count + 1]
             s == [Idle EXCEPT !.stage = "next", !.events = <<e>>]
  <2>0. kind \in Kind
    BY DEF Kind
  <2>1. Moved(t, s) /\ s.events = <<e>>
    BY <2>0, <1>5, ExternalMoves DEF Idle
  <2>2. Ids(<<e>>) = {count + 1}
    BY Single
  <2>3. UNCHANGED <<queued, owed>> /\ count' = count + 1
    BY <1>5 DEF External
  <2> HIDE DEF s, e
  <2>4. Ids(task'[t].events) = {count + 1} /\ \A u \in Task \ {t} : Same(task'[u], task[u])
    BY <2>1, <2>2 DEF Moved, Same
  <2>5. \A item \in owed : item[1] <= count + 1 /\ item[1] # count + 1
    <3> SUFFICES ASSUME NEW item \in owed PROVE item[1] <= count + 1 /\ item[1] # count + 1
      OBVIOUS
    <3>1. item[1] \in 1..MaxEvents /\ item[1] <= count
      BY <1>0 DEF NotYet
    <3> QED
      BY <3>1, <1>0
  <2>6. \A item \in owed : \A u \in Task : Passed(item, task'[u])
    BY <2>4, <2>5 DEF NotYet, Passed, Same
  <2> QED
    BY <2>3, <2>5, <2>6 DEF NotYet, Passed
<1>6. ASSUME NEW t \in Task, Emit(t) PROVE NotYet'
  <2>0. task[t].events # <<>> /\ task[t].stage = "next"
    BY <1>6, <1>0 DEF Emit, WellFormed
  <2>1. PICK s \in Coroutine : Moved(t, s) /\ (s.events = task[t].events \/ s = Rest(task[t]))
    BY <1>6, EmitMoves
  <2>2. UNCHANGED <<queued, count, owed>>
    BY <1>6 DEF Emit
  <2>3. Ids(s.events) \subseteq Ids(task[t].events)
    BY <2>0, <2>1, <1>0, RestNumbered
  <2>4. \A item \in owed : item[1] \notin Ids(task[t].events)
    BY <2>0 DEF NotYet, Passed
  <2>5. \A item \in owed : \A u \in Task : Passed(item, task'[u])
    BY <2>1, <2>3, <2>4 DEF NotYet, Passed, Moved, Same
  <2> QED
    BY <2>2, <2>5, NotYetKept
<1>7. ASSUME NEW t \in Task, FlushEnds(t) PROVE NotYet'
  <2>1. Moved(t, [task[t] EXCEPT !.stage = "send", !.remaining = <<>>])
    BY <1>7, FlushEndsMoves
  <2>2. task'[t].events = task[t].events /\ \A u \in Task \ {t} : Same(task'[u], task[u])
    BY <2>1, <1>0 DEF Moved, Same, Coroutine
  <2>3. \A item \in owed : item[1] \notin Ids(task[t].events)
    BY <1>7 DEF NotYet, Passed, FlushEnds
  <2>4. \A item \in owed : \A u \in Task : Passed(item, task'[u])
    BY <2>2, <2>3 DEF NotYet, Passed, Same
  <2>5. UNCHANGED <<queued, count, owed>>
    BY <1>7 DEF FlushEnds
  <2> QED
    BY <2>4, <2>5, NotYetKept
<1>8. ASSUME NEW t \in Task, FlushNext(t) \/ \E outcome \in CallOutcome : FlushReturns(t, outcome)
      PROVE  NotYet'
  <2>1. \A item \in owed : \A u \in Task : Passed(item, task'[u])
    BY <1>8, FlushKeeps DEF NotYet, Passed
  <2>2. UNCHANGED <<queued, count>>
    BY <1>8 DEF FlushNext, FlushReturns
  <2>3. owed' \subseteq owed
    BY <1>8, FlushNextMoves DEF FlushReturns, Kept
  <2> QED
    BY <2>1, <2>2, <2>3, NotYetKept
<1>9. ASSUME NEW t \in Task, SendNext(t) PROVE NotYet'
  <2> DEFINE item == <<Head(task[t].events).id, Head(task[t].todo)>>
  <2>1. task[t].stage = "send" /\ task[t].todo # <<>> /\ UNCHANGED <<queued, count>>
    BY <1>9 DEF SendNext
  <2>2. \/ UNCHANGED owed
        \/ task' = [task EXCEPT ![t] = [task[t] EXCEPT !.todo = Tail(task[t].todo)]] /\ Defer(item)
    BY <1>9, SendNextMoves, Zenon
  <2>3. /\ \A u \in Task : task'[u].stage = task[u].stage /\ task'[u].events = task[u].events
        /\ \A u \in Task \ {t} : task'[u].todo = task[u].todo
        /\ task'[t].todo \in {task[t].todo, Tail(task[t].todo)}
    BY <1>9, SendKeeps
  <2>4. CASE UNCHANGED owed
    <3>1. Elements(task'[t].todo) \subseteq Elements(task[t].todo)
      BY <2>1, <2>3, FirstRoute, <1>0
    <3>2. \A i \in owed : \A u \in Task : Passed(i, task'[u])
      BY <2>3, <3>1 DEF NotYet, Passed
    <3> QED
      BY <2>1, <2>4, <3>2, NotYetKept
  <2>5. CASE task' = [task EXCEPT ![t] = [task[t] EXCEPT !.todo = Tail(task[t].todo)]] /\ Defer(item)
    <3>1. owed' \subseteq owed \cup {item}
      BY <2>5 DEF Defer
    <3>2. task'[t].todo = Tail(task[t].todo)
      BY <2>5, <1>0 DEF Coroutine, Shaped
    <3> QED
      BY <2>1, <2>3, <3>1, <3>2, NotYetAdded
  <2> QED
    BY <2>2, <2>4, <2>5
<1>10. ASSUME NEW t \in Task, NEW outcome \in CallOutcome, SendReturns(t, outcome) PROVE NotYet'
  <2>1. task[t].stage = "send" /\ task[t].calling # NoItem /\ UNCHANGED <<queued, count>>
        /\ (UNCHANGED owed \/ Defer(task[t].calling))
    BY <1>10 DEF SendReturns
  <2>2. task[t].todo # <<>> /\ task[t].calling = <<Head(task[t].events).id, Head(task[t].todo)>>
    BY <2>1, <1>0 DEF WellFormed
  <2>3. /\ \A u \in Task : task'[u].stage = task[u].stage /\ task'[u].events = task[u].events
        /\ \A u \in Task \ {t} : task'[u].todo = task[u].todo
    BY <1>10, SendKeeps
  <2>4. task'[t].todo = Tail(task[t].todo)
    <3>1. Moved(t, [task[t] EXCEPT !.calling = NoItem, !.todo = Tail(task[t].todo)])
      BY <1>10, SendReturnsMoves, Zenon
    <3> QED
      BY <3>1, <1>0 DEF Moved, Same, Coroutine
  <2>5. owed' \subseteq owed \cup {<<Head(task[t].events).id, Head(task[t].todo)>>}
    BY <2>1, <2>2 DEF Defer
  <2> QED
    BY <2>1, <2>2, <2>3, <2>4, <2>5, NotYetAdded
<1>11. ASSUME NEW t \in Task, RecordDecision(t) PROVE NotYet'
  <2>1. Moved(t, Rest(task[t])) /\ task[t].events # <<>>
    BY <1>11, RecordMoves
  <2>2. UNCHANGED <<queued, count, owed>>
    BY <1>11 DEF RecordDecision
  <2>3. Ids(Rest(task[t]).events) = Ids(task[t].events) \ {Head(task[t].events).id}
    BY <2>1, RestNumbered
  <2>4. \A item \in owed : item[1] \notin Ids(Rest(task[t]).events)
    BY <2>3 DEF NotYet, Passed
  <2>5. task'[t].events = Rest(task[t]).events /\ \A u \in Task \ {t} : Same(task'[u], task[u])
    BY <2>1 DEF Moved, Same
  <2>6. \A item \in owed : \A u \in Task : Passed(item, task'[u])
    BY <2>4, <2>5 DEF NotYet, Passed, Same
  <2> QED
    BY <2>2, <2>6, NotYetKept
<1> QED
  BY <1>1, <1>2, <1>4, <1>5, <1>6, <1>7, <1>8, <1>9, <1>10, <1>11 DEF PipelineNext, Step

-----------------------------------------------------------------------------
(* The accounts of the deferred deliveries *)

\* What a coroutine that flushes has taken from the queue: the items it could not deliver
\* and the one whose call is under way.
Held(s) ==
    Elements(s.remaining) \cup (IF s.stage = "flush" THEN {s.calling} \ {NoItem} ELSE {})

\* Every owed item is in the queue or with one coroutine, once, and nothing else is.
Accounted ==
    /\ Once(deferred)
    /\ \A t \in Task : /\ Once(task[t].remaining)
                       /\ task[t].stage = "flush" => task[t].calling \notin Elements(task[t].remaining)
                       /\ Elements(deferred) \cap Held(task[t]) = {}
    /\ \A t, u \in Task : t # u => Held(task[t]) \cap Held(task[u]) = {}
    /\ \A item \in Item : item \in owed <=> \/ item \in Elements(deferred)
                                            \/ \E t \in Task : item \in Held(task[t])

LEMMA InitAccounted == PipelineInit => Accounted
BY Nothing DEF PipelineInit, Accounted, Held, Idle

\* In a step of coroutine t, the queue and what t holds lose the items "out", which are no
\* longer owed, and gain the items "new", which were not.
LEMMA AccountsBalance ==
    ASSUME Shaped, Accounted, NEW t \in Task, NEW s, Moved(t, s), NEW out, NEW new,
           out \subseteq Elements(deferred) \cup Held(task[t]),
           new \subseteq Item, new \cap owed = {},
           Elements(deferred') \cup Held(s)
              = ((Elements(deferred) \cup Held(task[t])) \ out) \cup new,
           owed' = (owed \ out) \cup new,
           Once(deferred'), Once(s.remaining),
           s.stage = "flush" => s.calling \notin Elements(s.remaining),
           Elements(deferred') \cap Held(s) = {}
    PROVE  Accounted'
<1>1. Held(task'[t]) = Held(s) /\ \A u \in Task \ {t} : Held(task'[u]) = Held(task[u])
  BY DEF Moved, Same, Held
<1>2. Once(task'[t].remaining)
      /\ (task'[t].stage = "flush" => task'[t].calling \notin Elements(task'[t].remaining))
  BY DEF Moved, Same
<1>3. \A u \in Task \ {t} : /\ Once(task'[u].remaining)
                            /\ task'[u].stage = "flush" => task'[u].calling \notin Elements(task'[u].remaining)
  BY DEF Moved, Same, Accounted
<1> DEFINE A == Elements(deferred) \cup Held(task[t])
           B == Elements(deferred') \cup Held(s)
<1>4. \A u \in Task \ {t} : A \cap Held(task[u]) = {}
  BY DEF Accounted
<1>5. \A u \in Task \ {t} : new \cap Held(task[u]) = {}
  BY DEF Accounted
<1>6. B = (A \ out) \cup new /\ out \subseteq A
  OBVIOUS
<1>7. \A item \in Item : item \in owed <=> item \in A \/ \E u \in Task \ {t} : item \in Held(task[u])
  BY DEF Accounted
<1> HIDE DEF A
<1>8. \A u \in Task \ {t} : B \cap Held(task[u]) = {}
  BY <1>4, <1>5, <1>6
<1>9. \A item \in Item : item \in owed' <=> item \in B \/ \E u \in Task \ {t} : item \in Held(task[u])
  <2> SUFFICES ASSUME NEW item \in Item
               PROVE  item \in owed' <=> item \in B \/ \E u \in Task \ {t} : item \in Held(task[u])
    OBVIOUS
  <2> HIDE DEF B
  <2>1. item \in owed' <=> (item \in owed /\ item \notin out) \/ item \in new
    OBVIOUS
  <2>2. item \in B <=> (item \in A /\ item \notin out) \/ item \in new
    BY <1>6
  <2>3. item \in out => ~\E u \in Task \ {t} : item \in Held(task[u])
    BY <1>4, <1>6
  <2> QED
    BY <1>7, <2>1, <2>2, <2>3
<1>10. \A item \in Item : item \in owed' <=> \/ item \in Elements(deferred')
                                             \/ \E u \in Task : item \in Held(task'[u])
  BY <1>1, <1>9
<1>11. \A u, v \in Task : u # v => Held(task'[u]) \cap Held(task'[v]) = {}
  <2>1. \A u \in Task \ {t} : Held(task'[t]) \cap Held(task'[u]) = {}
    BY <1>1, <1>8
  <2>2. \A u, v \in Task \ {t} : u # v => Held(task'[u]) \cap Held(task'[v]) = {}
    BY <1>1 DEF Accounted
  <2> QED
    BY <2>1, <2>2
<1>12. \A u \in Task : Elements(deferred') \cap Held(task'[u]) = {}
  BY <1>1, <1>8
<1> QED
  BY <1>2, <1>3, <1>10, <1>11, <1>12 DEF Accounted

\* A step that moves no item.
LEMMA AccountsStay ==
    ASSUME Shaped, Accounted, NEW t \in Task, NEW s, Moved(t, s), UNCHANGED <<deferred, owed>>,
           Held(s) = Held(task[t]), s.remaining = task[t].remaining,
           s.stage = "flush" => s.calling = NoItem
    PROVE  Accounted'
<1>1. NoItem \notin Elements(s.remaining)
  <2>1. s.remaining \in Seq(Item)
    BY DEF Shaped, Coroutine
  <2>2. Elements(s.remaining) \subseteq Item
    BY <2>1, ElementOfSeq, LenProperties DEF Elements
  <2> QED
    BY <2>2, PipelineAssumption
<1>2. Once(deferred') /\ Once(s.remaining) /\ Elements(deferred') \cap Held(s) = {}
      /\ (s.stage = "flush" => s.calling \notin Elements(s.remaining))
  BY <1>1 DEF Accounted
<1>3. {} \subseteq Elements(deferred) \cup Held(task[t]) /\ {} \subseteq Item /\ {} \cap owed = {}
      /\ Elements(deferred') \cup Held(s) = ((Elements(deferred) \cup Held(task[t])) \ {}) \cup {}
      /\ owed' = (owed \ {}) \cup {}
  OBVIOUS
<1> QED
  BY <1>2, <1>3, AccountsBalance

\* What the flush adds to its own queue, unless that is full.
LEMMA RetainedKeeps ==
    ASSUME NEW s \in Coroutine, NEW item \in Item, Once(s.remaining), item \notin Elements(s.remaining)
    PROVE  /\ Once(Retained(s, item))
           /\ \/ Kept(s, item) = owed /\ Elements(Retained(s, item)) = Elements(s.remaining) \cup {item}
              \/ Kept(s, item) = owed \ {item} /\ Retained(s, item) = s.remaining
<1>1. s.remaining \in Seq(Item)
  BY DEF Coroutine
<1>2. /\ Once(Append(s.remaining, item))
      /\ Elements(Append(s.remaining, item)) = Elements(s.remaining) \cup {item}
  BY <1>1, AppendAdds
<1> QED
  BY <1>2 DEF Retained, Kept

\* The head of the queue, as the flush takes it.
LEMMA TakenHead ==
    ASSUME Shaped, Accounted, deferred # <<>>
    PROVE  /\ Head(deferred) \in Item /\ Once(Tail(deferred))
           /\ Elements(deferred) = {Head(deferred)} \cup Elements(Tail(deferred))
           /\ Head(deferred) \notin Elements(Tail(deferred))
           /\ \A t \in Task : Head(deferred) \notin Held(task[t])
<1>1. deferred \in Seq(Item) /\ Once(deferred)
  BY DEF Shaped, StoresTyped, Accounted
<1>2. /\ Head(deferred) \in Item /\ Once(Tail(deferred))
      /\ Elements(deferred) = {Head(deferred)} \cup Elements(Tail(deferred))
      /\ Head(deferred) \notin Elements(Tail(deferred))
  BY <1>1, TailTakes, TailElements
<1> QED
  BY <1>2 DEF Accounted

LEMMA FlushNextAccounted ==
    ASSUME Shaped, Accounted, NEW t \in Task, FlushNext(t)
    PROVE  Accounted'
<1> DEFINE item == Head(deferred)
           c    == [task[t] EXCEPT !.calling = item]
           r    == [task[t] EXCEPT !.remaining = Retained(task[t], item)]
<1>0. /\ deferred # <<>> /\ deferred' = Tail(deferred) /\ task[t] \in Coroutine
      /\ task[t].stage = "flush" /\ task[t].calling = NoItem
  BY DEF FlushNext, Shaped
<1>1. /\ item \in Item /\ Once(deferred')
      /\ Elements(deferred) = {item} \cup Elements(deferred') /\ item \notin Elements(deferred')
      /\ item \notin Held(task[t]) /\ item # NoItem
  BY <1>0, TakenHead, PipelineAssumption
<1>2. /\ Held(task[t]) = Elements(task[t].remaining) /\ Once(task[t].remaining)
      /\ Elements(deferred) \cap Elements(task[t].remaining) = {}
      /\ NoItem \notin Elements(task[t].remaining)
  BY <1>0 DEF Held, Accounted
<1>3. \/ UNCHANGED owed /\ Moved(t, c)
      \/ owed' = owed \ {item} /\ Moved(t, task[t])
      \/ owed' = Kept(task[t], item) /\ Moved(t, r)
  BY FlushNextMoves, Zenon
<1>4. CASE UNCHANGED owed /\ Moved(t, c)
  <2>1. c.stage = "flush" /\ c.calling = item /\ c.remaining = task[t].remaining
    BY <1>0 DEF Coroutine
  <2> HIDE DEF c, item
  <2>2. Held(c) = Elements(task[t].remaining) \cup {item}
    BY <2>1, <1>1 DEF Held
  <2>3. /\ Elements(deferred') \cup Held(c) = ((Elements(deferred) \cup Held(task[t])) \ {}) \cup {}
        /\ owed' = (owed \ {}) \cup {} /\ {} \subseteq Item /\ {} \cap owed = {}
        /\ {} \subseteq Elements(deferred) \cup Held(task[t])
        /\ Elements(deferred') \cap Held(c) = {} /\ Once(c.remaining)
        /\ c.calling \notin Elements(c.remaining)
    BY <1>1, <1>2, <1>4, <2>1, <2>2
  <2> QED
    BY <1>1, <1>4, <2>3, AccountsBalance
<1>5. CASE owed' = owed \ {item} /\ Moved(t, task[t])
  <2> HIDE DEF item
  <2>1. /\ Elements(deferred') \cup Held(task[t]) = ((Elements(deferred) \cup Held(task[t])) \ {item}) \cup {}
        /\ owed' = (owed \ {item}) \cup {} /\ {} \subseteq Item /\ {} \cap owed = {}
        /\ {item} \subseteq Elements(deferred) \cup Held(task[t])
        /\ Elements(deferred') \cap Held(task[t]) = {}
        /\ task[t].calling \notin Elements(task[t].remaining)
    BY <1>0, <1>1, <1>2, <1>5
  <2> QED
    BY <1>1, <1>2, <1>5, <2>1, AccountsBalance
<1>6. CASE owed' = Kept(task[t], item) /\ Moved(t, r)
  <2>1. r.stage = "flush" /\ r.calling = NoItem /\ r.remaining = Retained(task[t], item)
    BY <1>0 DEF Coroutine
  <2> HIDE DEF r, item
  <2>2. /\ Once(r.remaining)
        /\ \/ owed' = owed /\ Elements(r.remaining) = Elements(task[t].remaining) \cup {item}
           \/ owed' = owed \ {item} /\ Elements(r.remaining) = Elements(task[t].remaining)
    BY <1>0, <1>1, <1>2, <1>6, <2>1, RetainedKeeps
  <2>3. Held(r) = Elements(r.remaining)
    BY <2>1 DEF Held
  <2>4. NoItem \notin Elements(r.remaining)
    BY <1>1, <1>2, <2>2
  <2>5. CASE owed' = owed /\ Elements(r.remaining) = Elements(task[t].remaining) \cup {item}
    <3>1. /\ Elements(deferred') \cup Held(r) = ((Elements(deferred) \cup Held(task[t])) \ {}) \cup {}
          /\ owed' = (owed \ {}) \cup {} /\ {} \subseteq Item /\ {} \cap owed = {}
          /\ {} \subseteq Elements(deferred) \cup Held(task[t])
          /\ Elements(deferred') \cap Held(r) = {}
      BY <1>1, <1>2, <2>3, <2>5
    <3> QED
      BY <1>1, <1>6, <2>1, <2>2, <2>4, <3>1, AccountsBalance
  <2>6. CASE owed' = owed \ {item} /\ Elements(r.remaining) = Elements(task[t].remaining)
    <3>1. /\ Elements(deferred') \cup Held(r) = ((Elements(deferred) \cup Held(task[t])) \ {item}) \cup {}
          /\ owed' = (owed \ {item}) \cup {} /\ {} \subseteq Item /\ {} \cap owed = {}
          /\ {item} \subseteq Elements(deferred) \cup Held(task[t])
          /\ Elements(deferred') \cap Held(r) = {}
      BY <1>1, <1>2, <2>3, <2>6
    <3> QED
      BY <1>1, <1>6, <2>1, <2>2, <2>4, <3>1, AccountsBalance
  <2> QED
    BY <2>2, <2>5, <2>6
<1> HIDE DEF item, c, r
<1> QED
  BY <1>3, <1>4, <1>5, <1>6

LEMMA FlushReturnsAccounted ==
    ASSUME Shaped, Accounted, NEW t \in Task, NEW outcome \in CallOutcome, FlushReturns(t, outcome)
    PROVE  Accounted'
<1> DEFINE item == task[t].calling
           rem  == IF outcome = "missing" THEN Retained(task[t], item) ELSE task[t].remaining
           s    == [task[t] EXCEPT !.calling = NoItem, !.remaining = rem]
<1>0. /\ UNCHANGED deferred /\ task[t] \in Coroutine /\ task[t].stage = "flush" /\ item # NoItem
      /\ owed' = IF outcome = "missing" THEN Kept(task[t], item) ELSE owed \ {item}
  BY DEF FlushReturns, Shaped
<1>1. item \in Item
  BY <1>0 DEF Coroutine
<1>2. /\ Held(task[t]) = Elements(task[t].remaining) \cup {item} /\ Once(task[t].remaining)
      /\ item \notin Elements(task[t].remaining) /\ Once(deferred)
      /\ Elements(deferred) \cap Held(task[t]) = {}
  BY <1>0 DEF Held, Accounted
<1>3. NoItem \notin Held(task[t])
  <2>1. task[t].remaining \in Seq(Item)
    BY <1>0 DEF Coroutine
  <2>2. Elements(task[t].remaining) \subseteq Item
    BY <2>1, ElementOfSeq, LenProperties DEF Elements
  <2> QED
    BY <1>1, <1>2, <2>2, PipelineAssumption
<1>4. Moved(t, s)
  BY FlushReturnsMoves, Zenon
<1> HIDE DEF item
<1>5. /\ Once(rem)
      /\ \/ owed' = owed /\ Elements(rem) = Elements(task[t].remaining) \cup {item}
         \/ owed' = owed \ {item} /\ Elements(rem) = Elements(task[t].remaining)
  <2>1. CASE outcome = "missing"
    BY <1>0, <1>1, <1>2, <2>1, RetainedKeeps
  <2>2. CASE outcome # "missing"
    BY <1>0, <1>2, <2>2
  <2> QED
    BY <2>1, <2>2
<1> HIDE DEF rem
<1>6. s.stage = "flush" /\ s.calling = NoItem /\ s.remaining = rem
  BY <1>0 DEF Coroutine
<1> HIDE DEF s
<1>7. Held(s) = Elements(rem) /\ NoItem \notin Elements(rem)
  BY <1>2, <1>3, <1>5, <1>6 DEF Held
<1>8. CASE owed' = owed /\ Elements(rem) = Elements(task[t].remaining) \cup {item}
  <2>1. /\ Elements(deferred') \cup Held(s) = ((Elements(deferred) \cup Held(task[t])) \ {}) \cup {}
        /\ owed' = (owed \ {}) \cup {} /\ {} \subseteq Item /\ {} \cap owed = {}
        /\ {} \subseteq Elements(deferred) \cup Held(task[t])
        /\ Elements(deferred') \cap Held(s) = {} /\ Once(deferred')
    BY <1>0, <1>2, <1>7, <1>8
  <2> QED
    BY <1>4, <1>5, <1>6, <1>7, <2>1, AccountsBalance
<1>9. CASE owed' = owed \ {item} /\ Elements(rem) = Elements(task[t].remaining)
  <2>1. /\ Elements(deferred') \cup Held(s) = ((Elements(deferred) \cup Held(task[t])) \ {item}) \cup {}
        /\ owed' = (owed \ {item}) \cup {} /\ {} \subseteq Item /\ {} \cap owed = {}
        /\ {item} \subseteq Elements(deferred) \cup Held(task[t])
        /\ Elements(deferred') \cap Held(s) = {} /\ Once(deferred')
    BY <1>0, <1>2, <1>7, <1>9
  <2> QED
    BY <1>4, <1>5, <1>6, <1>7, <2>1, AccountsBalance
<1> QED
  BY <1>5, <1>8, <1>9

\* A coroutine that sends holds nothing, and defers what was not owed.
LEMMA DeferAccounted ==
    ASSUME Shaped, Accounted, NEW t \in Task, NEW s, Moved(t, s), NEW item \in Item, item \notin owed,
           task[t].stage = "send", s.stage = "send", s.remaining = task[t].remaining, Defer(item)
    PROVE  Accounted'
<1>1. task[t].remaining = <<>> /\ Held(task[t]) = {} /\ Held(s) = {} /\ Once(s.remaining)
  BY Nothing DEF Shaped, WellFormed, Held
<1>2. deferred \in Seq(Item) /\ Once(deferred) /\ item \notin Elements(deferred)
      /\ Len(deferred) \in Nat /\ QueueMax \in Nat \ {0}
  BY PipelineAssumption, LenProperties DEF Shaped, StoresTyped, Accounted
<1>3. CASE Len(deferred) = QueueMax
  <2>1. deferred # <<>>
    BY <1>2, <1>3, Nothing
  <2>2. /\ Tail(deferred) \in Seq(Item) /\ Once(Tail(deferred))
        /\ Elements(deferred) = {Head(deferred)} \cup Elements(Tail(deferred))
        /\ Head(deferred) \notin Elements(Tail(deferred))
    BY <2>1, TakenHead, HeadDeferred
  <2>3. /\ Once(Append(Tail(deferred), item))
        /\ Elements(Append(Tail(deferred), item)) = Elements(Tail(deferred)) \cup {item}
    <3> DEFINE q == Tail(deferred)
    <3>1. q \in Seq(Item) /\ Once(q) /\ item \notin Elements(q)
      BY <1>2, <2>2
    <3> HIDE DEF q
    <3>2. Once(Append(q, item)) /\ Elements(Append(q, item)) = Elements(q) \cup {item}
      BY <3>1, AppendAdds
    <3> QED
      BY <3>2 DEF q
  <2>4. deferred' = Append(Tail(deferred), item) /\ owed' = (owed \ {Head(deferred)}) \cup {item}
    BY <1>3 DEF Defer
  <2>5. /\ Elements(deferred') \cup Held(s)
              = ((Elements(deferred) \cup Held(task[t])) \ {Head(deferred)}) \cup {item}
        /\ {Head(deferred)} \subseteq Elements(deferred) \cup Held(task[t])
        /\ {item} \subseteq Item /\ {item} \cap owed = {} /\ Once(deferred')
        /\ Elements(deferred') \cap Held(s) = {}
    BY <1>1, <2>2, <2>3, <2>4
  <2> QED
    BY <1>1, <2>4, <2>5, AccountsBalance
<1>4. CASE Len(deferred) # QueueMax
  <2>1. Once(Append(deferred, item)) /\ Elements(Append(deferred, item)) = Elements(deferred) \cup {item}
    BY <1>2, AppendAdds
  <2>2. deferred' = Append(deferred, item) /\ owed' = (owed \ {}) \cup {item}
    BY <1>4 DEF Defer
  <2>3. /\ Elements(deferred') \cup Held(s) = ((Elements(deferred) \cup Held(task[t])) \ {}) \cup {item}
        /\ {} \subseteq Elements(deferred) \cup Held(task[t])
        /\ {item} \subseteq Item /\ {item} \cap owed = {} /\ Once(deferred')
        /\ Elements(deferred') \cap Held(s) = {}
    BY <1>1, <2>1, <2>2
  <2> QED
    BY <1>1, <2>2, <2>3, AccountsBalance
<1> QED
  BY <1>3, <1>4

LEMMA NextAccounted ==
    Shaped /\ Numbered /\ NotYet /\ Accounted /\ [PipelineNext]_notificationVars => Accounted'
<1> SUFFICES ASSUME Shaped, Numbered, NotYet, Accounted, [PipelineNext]_notificationVars PROVE Accounted'
  OBVIOUS
<1>0. \A t \in Task : WellFormed(task[t]) /\ task[t] \in Coroutine
  BY DEF Shaped
<1>1. CASE \/ \E others \in {<<>>, <<"config">>, <<"alarm">>} : Evaluate(others)
           \/ Tick \/ MismatchChanges \/ UNCHANGED notificationVars
  <2>1. UNCHANGED <<task, deferred, owed>>
    BY <1>1 DEF Evaluate, Tick, MismatchChanges, notificationVars
  <2> QED
    BY <2>1 DEF Accounted, Held
<1>2. ASSUME NEW t \in Task, TakeQueued(t) PROVE Accounted'
  <2> DEFINE s == [Idle EXCEPT !.stage = "next", !.events = queued]
  <2>1. Moved(t, s) /\ s.stage = "next" /\ s.remaining = <<>>
    BY <1>2, TakeMoves DEF Idle
  <2> HIDE DEF s
  <2>2. task[t].stage = "idle" /\ UNCHANGED <<deferred, owed>>
    BY <1>2 DEF TakeQueued
  <2>3. task[t].remaining = <<>> /\ Held(task[t]) = Held(s)
    BY <2>1, <2>2, <1>0 DEF WellFormed, Held
  <2> QED
    BY <2>1, <2>2, <2>3, AccountsStay
<1>3. ASSUME NEW t \in Task, NEW kind \in {"config", "alarm"}, External(t, kind) PROVE Accounted'
  <2> DEFINE s == [Idle EXCEPT !.stage = "next", !.events = <<[kind |-> kind, id |-> count + 1]>>]
  <2>0. kind \in Kind
    BY DEF Kind
  <2>1. Moved(t, s) /\ s.stage = "next" /\ s.remaining = <<>>
    BY <2>0, <1>3, ExternalMoves DEF Idle
  <2> HIDE DEF s
  <2>2. task[t].stage = "idle" /\ UNCHANGED <<deferred, owed>>
    BY <1>3 DEF External
  <2>3. task[t].remaining = <<>> /\ Held(task[t]) = Held(s)
    BY <2>1, <2>2, <1>0 DEF WellFormed, Held
  <2> QED
    BY <2>1, <2>2, <2>3, AccountsStay
<1>4. ASSUME NEW t \in Task, Emit(t) PROVE Accounted'
  <2>1. PICK s \in Coroutine : Moved(t, s) /\ s.calling = NoItem /\ s.remaining = <<>>
    BY <1>4, EmitMoves
  <2>2. task[t].stage = "next" /\ UNCHANGED <<deferred, owed>>
    BY <1>4 DEF Emit
  <2>3. task[t].remaining = <<>> /\ Held(task[t]) = Held(s)
    BY <2>1, <2>2, <1>0 DEF WellFormed, Held
  <2> QED
    BY <2>1, <2>2, <2>3, AccountsStay
<1>5. ASSUME NEW t \in Task, FlushEnds(t) PROVE Accounted'
  <2> DEFINE s == [task[t] EXCEPT !.stage = "send", !.remaining = <<>>]
  <2>1. Moved(t, s) /\ s.stage = "send" /\ s.remaining = <<>>
    BY <1>5, FlushEndsMoves, <1>0 DEF Coroutine
  <2> HIDE DEF s
  <2>2. /\ task[t].stage = "flush" /\ task[t].calling = NoItem /\ deferred = <<>>
        /\ deferred' = task[t].remaining /\ UNCHANGED owed
    BY <1>5 DEF FlushEnds
  <2>3. /\ Held(task[t]) = Elements(task[t].remaining) /\ Held(s) = {} /\ Elements(deferred) = {}
        /\ Once(s.remaining) /\ Once(deferred')
    BY <2>1, <2>2, Nothing DEF Held, Accounted
  <2>4. /\ Elements(deferred') \cup Held(s) = ((Elements(deferred) \cup Held(task[t])) \ {}) \cup {}
        /\ owed' = (owed \ {}) \cup {} /\ {} \subseteq Item /\ {} \cap owed = {}
        /\ {} \subseteq Elements(deferred) \cup Held(task[t])
        /\ Elements(deferred') \cap Held(s) = {}
    BY <2>2, <2>3
  <2> QED
    BY <2>1, <2>3, <2>4, AccountsBalance
<1>6. ASSUME NEW t \in Task, SendNext(t) PROVE Accounted'
  <2> DEFINE item == <<Head(task[t].events).id, Head(task[t].todo)>>
             c    == [task[t] EXCEPT !.calling = item]
             r    == [task[t] EXCEPT !.todo = Tail(task[t].todo)]
  <2>1. task[t].stage = "send" /\ task[t].todo # <<>>
    BY <1>6 DEF SendNext
  <2>2. item \in Item /\ item \notin owed
    BY <2>1, NewItem
  <2>3. \/ UNCHANGED <<deferred, owed>> /\ Moved(t, c)
        \/ Moved(t, r) /\ (UNCHANGED <<deferred, owed>> \/ Defer(item))
    BY <1>6, SendNextMoves, Zenon
  <2>4. /\ c.stage = "send" /\ c.remaining = task[t].remaining
        /\ r.stage = "send" /\ r.remaining = task[t].remaining
    BY <2>1, <1>0 DEF Coroutine
  <2> HIDE DEF item, c, r
  <2>5. Held(c) = Held(task[t]) /\ Held(r) = Held(task[t])
    BY <2>1, <2>4 DEF Held
  <2>6. CASE UNCHANGED <<deferred, owed>> /\ Moved(t, c)
    BY <2>4, <2>5, <2>6, AccountsStay
  <2>7. CASE Moved(t, r) /\ UNCHANGED <<deferred, owed>>
    BY <2>4, <2>5, <2>7, AccountsStay
  <2>8. CASE Moved(t, r) /\ Defer(item)
    BY <2>1, <2>2, <2>4, <2>8, DeferAccounted
  <2> QED
    BY <2>3, <2>6, <2>7, <2>8
<1>7. ASSUME NEW t \in Task, NEW outcome \in CallOutcome, SendReturns(t, outcome) PROVE Accounted'
  <2> DEFINE s == [task[t] EXCEPT !.calling = NoItem, !.todo = Tail(task[t].todo)]
             item == task[t].calling
  <2>1. task[t].stage = "send" /\ item # NoItem /\ (UNCHANGED <<deferred, owed>> \/ Defer(item))
    BY <1>7 DEF SendReturns
  <2>2. task[t].todo # <<>> /\ item = <<Head(task[t].events).id, Head(task[t].todo)>>
    BY <2>1, <1>0 DEF WellFormed
  <2>3. item \in Item /\ item \notin owed
    BY <2>1, <2>2, NewItem
  <2>4. Moved(t, s)
    BY <1>7, SendReturnsMoves, Zenon
  <2>5. s.stage = "send" /\ s.remaining = task[t].remaining
    BY <2>1, <1>0 DEF Coroutine
  <2> HIDE DEF item, s
  <2>6. Held(s) = Held(task[t])
    BY <2>1, <2>5 DEF Held
  <2>7. CASE UNCHANGED <<deferred, owed>>
    BY <2>4, <2>5, <2>6, <2>7, AccountsStay
  <2>8. CASE Defer(item)
    BY <2>1, <2>3, <2>4, <2>5, <2>8, DeferAccounted
  <2> QED
    BY <2>1, <2>7, <2>8
<1>8. ASSUME NEW t \in Task, RecordDecision(t) PROVE Accounted'
  <2>1. /\ Moved(t, Rest(task[t])) /\ task[t].stage = "send" /\ UNCHANGED <<deferred, owed>>
        /\ Rest(task[t]).remaining = <<>> /\ Rest(task[t]).calling = NoItem
    BY <1>8, RecordMoves, RestTyped DEF RecordDecision
  <2>2. task[t].remaining = <<>> /\ Held(task[t]) = Held(Rest(task[t]))
    BY <2>1, <1>0 DEF WellFormed, Held
  <2> QED
    BY <2>1, <2>2, AccountsStay
<1> QED
  BY <1>1, <1>2, <1>3, <1>4, <1>5, <1>6, <1>7, <1>8, FlushNextAccounted, FlushReturnsAccounted
     DEF PipelineNext, Step

\* Where an item is in a queue.
LEMMA AtQueue ==
    ASSUME NEW q, NEW item
    PROVE  /\ item \notin Elements(q) => At(q, item) = {}
           /\ Once(q) /\ item \in Elements(q) => \E i \in DOMAIN q : At(q, item) = {i}
BY DEF At, Elements, Once

LEMMA AccountedCounts == Shaped /\ Accounted => DeferredAccounted
<1> SUFFICES ASSUME Shaped, Accounted, NEW item \in Item
             PROVE  Cardinality(Waiting(item)) = IF item \in owed THEN 1 ELSE 0
  BY DEF DeferredAccounted
<1> DEFINE D == {<<NoItem, i>> : i \in At(deferred, item)}
           R(t) == {<<t, i>> : i \in At(task[t].remaining, item)}
           Rs == UNION {R(t) : t \in Task}
           C == {<<t, 0>> : t \in {u \in Task : task[u].stage = "flush" /\ task[u].calling = item}}
<1>1. Waiting(item) = (D \cup Rs) \cup C
  BY Zenon DEF Waiting
<1>2. item # NoItem
  BY PipelineAssumption
<1>3. \A t \in Task : item \notin Held(task[t]) =>
         /\ At(task[t].remaining, item) = {}
         /\ ~(task[t].stage = "flush" /\ task[t].calling = item)
  <2> SUFFICES ASSUME NEW t \in Task, item \notin Held(task[t])
               PROVE  /\ At(task[t].remaining, item) = {}
                      /\ ~(task[t].stage = "flush" /\ task[t].calling = item)
    OBVIOUS
  <2>1. item \notin Elements(task[t].remaining)
    BY DEF Held
  <2> QED
    BY <1>2, <2>1, AtQueue DEF Held
<1>4. CASE item \notin owed
  <2>1. item \notin Elements(deferred) /\ \A t \in Task : item \notin Held(task[t])
    BY <1>4 DEF Accounted
  <2>2. D = {}
    BY <2>1, AtQueue
  <2>3. Rs = {} /\ C = {}
    BY <1>3, <2>1
  <2>4. Waiting(item) = {}
    BY <1>1, <2>2, <2>3
  <2> QED
    BY <1>4, <2>4, FS_EmptySet
<1>5. CASE item \in owed /\ item \in Elements(deferred)
  <2>1. \A t \in Task : item \notin Held(task[t])
    BY <1>5 DEF Accounted
  <2>2. PICK i : At(deferred, item) = {i}
    BY <1>5, AtQueue DEF Accounted
  <2>3. D = {<<NoItem, i>>}
    BY <2>2
  <2>4. Rs = {} /\ C = {}
    BY <1>3, <2>1
  <2>5. Waiting(item) = {<<NoItem, i>>}
    BY <1>1, <2>3, <2>4
  <2> QED
    BY <1>5, <2>5, FS_Singleton
<1>6. CASE item \in owed /\ item \notin Elements(deferred)
  <2>1. PICK t \in Task : item \in Held(task[t])
    BY <1>6 DEF Accounted
  <2>2. \A u \in Task \ {t} : item \notin Held(task[u])
    BY <2>1 DEF Accounted
  <2>3. D = {}
    BY <1>6, AtQueue
  <2>4. Rs = R(t)
    BY <1>3, <2>2
  <2>5. C \subseteq {<<t, 0>>}
    BY <1>3, <2>2
  <2>6. CASE item \in Elements(task[t].remaining)
    <3>1. PICK i : At(task[t].remaining, item) = {i}
      BY <2>6, AtQueue DEF Accounted
    <3>2. R(t) = {<<t, i>>}
      BY <3>1
    <3>3. ~(task[t].stage = "flush" /\ task[t].calling = item)
      BY <2>6 DEF Accounted
    <3>4. C = {}
      BY <1>3, <2>2, <3>3
    <3>5. Waiting(item) = {<<t, i>>}
      BY <1>1, <2>3, <2>4, <3>2, <3>4
    <3> QED
      BY <1>6, <3>5, FS_Singleton
  <2>7. CASE item \notin Elements(task[t].remaining)
    <3>1. R(t) = {}
      BY <2>7, AtQueue
    <3>2. task[t].stage = "flush" /\ task[t].calling = item
      BY <2>1, <2>7 DEF Held
    <3>3. <<t, 0>> \in C
      BY <3>2
    <3>4. Waiting(item) = {<<t, 0>>}
      BY <1>1, <2>3, <2>4, <2>5, <3>1, <3>3
    <3> QED
      BY <1>6, <3>4, FS_Singleton
  <2> QED
    BY <2>6, <2>7
<1> QED
  BY <1>4, <1>5, <1>6

\* Coroutines that flush at the same time lose no deferred delivery and make none twice.
THEOREM DeferredStaysAccounted == PipelineSpec => []DeferredAccounted
<1> DEFINE Accounts == Shaped /\ Numbered /\ NotYet /\ Accounted
<1>1. PipelineInit => Accounts
  BY InitShaped, InitNumbered, InitAccounted
<1>2. Accounts /\ [PipelineNext]_notificationVars => Accounts'
  BY NextShaped, NextNumbered, NextNotYet, NextAccounted
<1>3. Accounts => DeferredAccounted
  BY AccountedCounts
<1> HIDE DEF Accounts
<1> QED
  BY <1>1, <1>2, <1>3, PTL DEF PipelineSpec

-----------------------------------------------------------------------------
(* Notified means delivered *)

\* The counter moves during a call of one coroutine only when another's call overlaps it.
Flagged(s) == /\ s.bumped => s.crossed
              /\ s.got => s.own \/ s.crossed

Flags ==
    /\ \A t \in Task : Flagged(task[t])
    /\ \A t, u \in Task : t # u /\ t \in InFlight /\ u \in InFlight => task[t].crossed

LEMMA InitFlags == PipelineInit => Flags
BY DEF PipelineInit, Flags, Flagged, Idle, InFlight

\* A coroutine that has no call under way after the step.
LEMMA LandedFlags ==
    ASSUME Shaped, Flags, NEW t \in Task, NEW s \in Coroutine, task' = [task EXCEPT ![t] = s],
           Flagged(s), s.calling = NoItem
    PROVE  Flags'
<1>1. task'[t] = s /\ \A u \in Task \ {t} : task'[u] = task[u]
  BY DEF Shaped
<1>2. InFlight' = InFlight \ {t}
  BY <1>1 DEF InFlight
<1> QED
  BY <1>1, <1>2 DEF Flags, Flagged

LEMMA CallFlags ==
    ASSUME Shaped, Flags, NEW t \in Task, NEW item \in Item, Call(t, item)
    PROVE  Flags'
<1>0. \A u \in Task : task[u] \in Coroutine
  BY DEF Shaped
<1>1. /\ task'[t].bumped = FALSE /\ task'[t].got = task[t].got /\ task'[t].own = task[t].own
      /\ task'[t].crossed = (task[t].crossed \/ InFlight # {})
  BY <1>0 DEF Call, Coroutine
<1>2. \A u \in Task \ {t} :
         /\ task'[u].bumped = task[u].bumped /\ task'[u].got = task[u].got
         /\ task'[u].own = task[u].own /\ task'[u].calling = task[u].calling
         /\ task'[u].crossed = (task[u].crossed \/ u \in InFlight)
  BY <1>0 DEF Call, Coroutine
<1>3. \A u \in Task \ {t} : u \in InFlight' <=> u \in InFlight
  BY <1>2 DEF InFlight
<1>4. \A u \in Task : Flagged(task'[u])
  BY <1>1, <1>2 DEF Flags, Flagged
<1>5. \A u, v \in Task : u # v /\ u \in InFlight' /\ v \in InFlight' => task'[u].crossed
  <2> SUFFICES ASSUME NEW u \in Task, NEW v \in Task, u # v, u \in InFlight', v \in InFlight'
               PROVE  task'[u].crossed
    OBVIOUS
  <2>1. CASE u = t
    BY <1>1, <1>3, <2>1
  <2>2. CASE u # t
    BY <1>2, <1>3, <2>2
  <2> QED
    BY <2>1, <2>2
<1> QED
  BY <1>4, <1>5 DEF Flags

\* The end of a call bumps only coroutines whose own call overlaps it.
LEMMA ReturnFlags ==
    ASSUME Shaped, Flags, NEW t \in Task, t \in InFlight, NEW base \in {task, Bumped(t)},
           \A u \in Task \ {t} : task'[u] = base[u],
           task'[t].calling = NoItem, Flagged(task'[t])
    PROVE  Flags'
<1>1. \A u \in Task \ {t} :
         /\ task'[u].calling = task[u].calling /\ task'[u].got = task[u].got
         /\ task'[u].own = task[u].own /\ task'[u].crossed = task[u].crossed
         /\ task'[u].bumped => task[u].bumped \/ u \in InFlight
  <2>1. CASE base = task
    BY <2>1
  <2>2. CASE base = Bumped(t)
    <3> SUFFICES ASSUME NEW u \in Task \ {t}
                 PROVE  /\ task'[u].calling = task[u].calling /\ task'[u].got = task[u].got
                        /\ task'[u].own = task[u].own /\ task'[u].crossed = task[u].crossed
                        /\ task'[u].bumped => task[u].bumped \/ u \in InFlight
      OBVIOUS
    <3>1. task'[u] = Bumped(t)[u]
      BY <2>2
    <3>2. task'[u].calling = task[u].calling /\ task'[u].got = task[u].got
          /\ task'[u].own = task[u].own /\ task'[u].crossed = task[u].crossed
      BY <3>1, BumpedTyped DEF Same
    <3>3. task'[u].bumped = (task[u].bumped \/ (u # t /\ u \in InFlight /\ task[u].stage = "send"))
      BY <3>1, BumpedTyped
    <3> QED
      BY <3>2, <3>3, Zenon
  <2> QED
    BY <2>1, <2>2
<1>2. InFlight' = InFlight \ {t}
  BY <1>1 DEF InFlight
<1>3. \A u \in Task \ {t} : u \in InFlight => task[u].crossed
  BY DEF Flags
<1>4. \A u \in Task : Flagged(task'[u])
  BY <1>1, <1>3 DEF Flags, Flagged
<1>5. \A u, v \in Task : u # v /\ u \in InFlight' /\ v \in InFlight' => task'[u].crossed
  BY <1>1, <1>2 DEF Flags
<1> QED
  BY <1>4, <1>5 DEF Flags

LEMMA NextFlags == Shaped /\ Flags /\ [PipelineNext]_notificationVars => Flags'
<1> SUFFICES ASSUME Shaped, Flags, [PipelineNext]_notificationVars PROVE Flags'
  OBVIOUS
<1>0. \A t \in Task : WellFormed(task[t]) /\ task[t] \in Coroutine /\ Flagged(task[t])
  BY DEF Shaped, Flags
<1>1. CASE UNCHANGED task
  BY <1>1 DEF Flags, Flagged, InFlight
<1>2. CASE \/ \E others \in {<<>>, <<"config">>, <<"alarm">>} : Evaluate(others)
           \/ Tick \/ MismatchChanges \/ UNCHANGED notificationVars
  BY <1>1, <1>2 DEF Evaluate, Tick, MismatchChanges, notificationVars
<1>3. ASSUME NEW t \in Task, TakeQueued(t) PROVE Flags'
  <2> DEFINE s == [Idle EXCEPT !.stage = "next", !.events = queued]
  <2>1. s \in Coroutine /\ Flagged(s) /\ s.calling = NoItem
    BY IdleTyped DEF Coroutine, Shaped, StoresTyped, Flagged, Idle
  <2>2. task' = [task EXCEPT ![t] = s]
    BY <1>3 DEF TakeQueued
  <2> HIDE DEF s
  <2> QED
    BY <2>1, <2>2, LandedFlags
<1>4. ASSUME NEW t \in Task, NEW kind \in {"config", "alarm"}, External(t, kind) PROVE Flags'
  <2> DEFINE s == [Idle EXCEPT !.stage = "next", !.events = <<[kind |-> kind, id |-> count + 1]>>]
  <2>1. Flagged(s) /\ s.calling = NoItem
    BY DEF Flagged, Idle
  <2>2. task' = [task EXCEPT ![t] = s]
    BY <1>4 DEF External
  <2>3. s = task'[t] /\ task'[t] \in Coroutine
    <3>1. kind \in Kind
      BY DEF Kind
    <3>2. task' \in [Task -> Coroutine]
      BY <3>1, <1>4, ExternalMoves DEF Moved
    <3> QED
      BY <2>2, <3>2 DEF Shaped
  <2> HIDE DEF s
  <2> QED
    BY <2>1, <2>2, <2>3, LandedFlags
<1>5. ASSUME NEW t \in Task, Emit(t) PROVE Flags'
  <2>0. task[t].events # <<>>
    BY <1>5, <1>0 DEF Emit, WellFormed
  <2>1. PICK s \in Coroutine :
           /\ task' = [task EXCEPT ![t] = s] /\ s.calling = NoItem
           /\ \/ /\ s.own = task[t].own /\ s.got = task[t].got
                 /\ s.crossed = task[t].crossed /\ s.bumped = task[t].bumped
              \/ s = Rest(task[t])
    BY <1>5, EmitMoves
  <2>2. Flagged(s)
    BY <2>0, <2>1, <1>0, RestTyped DEF Flagged
  <2> QED
    BY <2>1, <2>2, LandedFlags
<1>6. ASSUME NEW t \in Task, FlushEnds(t) PROVE Flags'
  <2> DEFINE s == [task[t] EXCEPT !.stage = "send", !.remaining = <<>>]
  <2>1. task' = [task EXCEPT ![t] = s]
    BY <1>6, FlushEndsMoves
  <2>2. s \in Coroutine /\ Flagged(s) /\ s.calling = NoItem
    BY <1>0, <1>6, Nothing DEF Coroutine, Flagged, FlushEnds
  <2> HIDE DEF s
  <2> QED
    BY <2>1, <2>2, LandedFlags
<1>7. ASSUME NEW t \in Task, FlushNext(t) PROVE Flags'
  <2> DEFINE item == Head(deferred)
             r    == [task[t] EXCEPT !.remaining = Retained(task[t], item)]
  <2>1. item \in Item /\ task[t].calling = NoItem
    BY <1>7, HeadDeferred DEF FlushNext
  <2>2. \/ Call(t, item) \/ UNCHANGED task \/ task' = [task EXCEPT ![t] = r]
    BY <1>7, FlushNextMoves, Zenon
  <2>3. r \in Coroutine
    BY <2>1, <1>0, RetainedTyped DEF WellFormed, Coroutine
  <2>4. Flagged(r) /\ r.calling = NoItem
    BY <2>1, <1>0 DEF Coroutine, Flagged
  <2> HIDE DEF r, item
  <2> QED
    BY <2>1, <2>2, <2>3, <2>4, <1>1, CallFlags, LandedFlags
<1>8. ASSUME NEW t \in Task, NEW outcome \in CallOutcome, FlushReturns(t, outcome) PROVE Flags'
  <2> DEFINE base == IF outcome = "delivered" THEN Bumped(t) ELSE task
             r == IF outcome = "missing" THEN Retained(task[t], task[t].calling)
                  ELSE base[t].remaining
  <2>1. base \in {task, Bumped(t)} /\ base \in [Task -> Coroutine]
    BY BumpedTyped DEF Shaped
  <2>2. /\ base[t].got = task[t].got /\ base[t].own = task[t].own
        /\ base[t].crossed = task[t].crossed /\ (base[t].bumped <=> task[t].bumped)
    BY BumpedTyped
  <2>3. task' = [base EXCEPT ![t].calling = NoItem, ![t].remaining =
                    IF outcome = "missing" THEN Retained(task[t], task[t].calling) ELSE @]
        /\ task[t].calling # NoItem
    BY <1>8, Zenon DEF FlushReturns
  <2> HIDE DEF base
  <2>4. base[t] \in Coroutine
    BY <2>1
  <2>5. /\ \A u \in Task \ {t} : task'[u] = base[u]
        /\ task'[t].calling = NoItem /\ task'[t].got = base[t].got /\ task'[t].own = base[t].own
        /\ task'[t].crossed = base[t].crossed /\ task'[t].bumped = base[t].bumped
    BY <2>1, <2>3, <2>4 DEF Coroutine
  <2>6. Flagged(task'[t])
    BY <2>2, <2>5, <1>0 DEF Flagged
  <2>7. t \in InFlight
    BY <2>3 DEF InFlight
  <2> QED
    BY <2>1, <2>5, <2>6, <2>7, ReturnFlags
<1>9. ASSUME NEW t \in Task, SendNext(t) PROVE Flags'
  <2> DEFINE item == <<Head(task[t].events).id, Head(task[t].todo)>>
             r    == [task[t] EXCEPT !.todo = Tail(task[t].todo)]
  <2>1. item \in Item /\ (Call(t, item) \/ task' = [task EXCEPT ![t] = r])
    BY <1>9, SendNextMoves, Zenon
  <2>2. r \in Coroutine
    BY <1>9, <1>0, FirstRoute DEF SendNext, Coroutine
  <2>3. Flagged(r) /\ r.calling = NoItem
    BY <1>9, <1>0 DEF SendNext, Coroutine, Flagged
  <2> HIDE DEF item, r
  <2> QED
    BY <2>1, <2>2, <2>3, CallFlags, LandedFlags
<1>10. ASSUME NEW t \in Task, NEW outcome \in CallOutcome, SendReturns(t, outcome) PROVE Flags'
  <2> DEFINE base == IF outcome = "delivered" THEN Bumped(t) ELSE task
  <2>1. /\ task'[t].got = (task[t].got \/ task[t].bumped \/ outcome = "delivered")
        /\ task'[t].own = (task[t].own \/ outcome = "delivered")
        /\ task'[t].crossed = task[t].crossed /\ task'[t].bumped = task[t].bumped
        /\ \A u \in Task \ {t} : task'[u] = base[u]
        /\ Moved(t, [task[t] EXCEPT !.calling = NoItem, !.todo = Tail(task[t].todo)])
    BY <1>10, SendReturnsMoves, Zenon
  <2>2. base \in {task, Bumped(t)}
    OBVIOUS
  <2> HIDE DEF base
  <2>3. Flagged(task'[t])
    BY <2>1, <1>0 DEF Flagged
  <2>4. task'[t].calling = NoItem
    BY <2>1, <1>0 DEF Moved, Same, Coroutine
  <2>5. t \in InFlight
    BY <1>10 DEF InFlight, SendReturns
  <2> QED
    BY <2>1, <2>2, <2>3, <2>4, <2>5, ReturnFlags
<1>11. ASSUME NEW t \in Task, RecordDecision(t) PROVE Flags'
  <2>1. task[t].events # <<>> /\ task' = [task EXCEPT ![t] = Rest(task[t])]
    BY <1>11, RecordMoves
  <2>2. Rest(task[t]) \in Coroutine /\ Flagged(Rest(task[t])) /\ Rest(task[t]).calling = NoItem
    BY <2>1, <1>0, RestTyped DEF Flagged
  <2> QED
    BY <2>1, <2>2, LandedFlags
<1> QED
  BY <1>2, <1>3, <1>4, <1>5, <1>6, <1>7, <1>8, <1>9, <1>10, <1>11 DEF PipelineNext, Step

\* Only the end of a delivered mismatch silences the mismatch.
LEMMA StepNotifies ==
    ASSUME Shaped, Flags, [PipelineNext]_notificationVars, policy'.notified, ~policy.notified
    PROVE  \E t \in Task : /\ task[t].stage = "send" /\ Head(task[t].events).kind = "mismatch"
                           /\ task[t].own \/ task[t].crossed
<1>0. \A t \in Task : /\ WellFormed(task[t]) /\ task[t] \in Coroutine
                      /\ task[t].events # <<>> => Head(task[t].events).kind \in Kind
  <2> SUFFICES ASSUME NEW t \in Task, task[t].events # <<>> PROVE Head(task[t].events).kind \in Kind
    BY DEF Shaped
  <2>1. task[t].events \in Seq(Event)
    BY DEF Shaped, Coroutine
  <2>2. Head(task[t].events) \in Event
    BY <2>1, TailTakes
  <2> QED
    BY <2>2 DEF Event
<1>1. policy' # policy
  OBVIOUS
<1>2. ASSUME NEW t \in Task, Emit(t) PROVE FALSE
  <2>1. task[t].events # <<>> /\ policy' = Decided(Head(task[t].events).kind)
    BY <1>2, <1>0 DEF Emit, WellFormed
  <2> QED
    BY <2>1, <1>0, DecidedForm
<1>3. PICK t \in Task : RecordDecision(t)
  <2>1. \A others : ~Evaluate(others)
    BY <1>1 DEF Evaluate, pipelineVars
  <2>2. ~Tick /\ ~MismatchChanges /\ ~UNCHANGED notificationVars
    BY <1>1 DEF Tick, MismatchChanges, pipelineVars, notificationVars
  <2>3. \A t \in Task : ~TakeQueued(t) /\ \A kind : ~External(t, kind)
    BY <1>1 DEF TakeQueued, External, pipelineVars
  <2>4. \A t \in Task : ~FlushNext(t) /\ ~FlushEnds(t) /\ ~SendNext(t)
    BY <1>1 DEF FlushNext, FlushEnds, SendNext, pipelineVars
  <2>5. \A t \in Task : \A outcome : ~FlushReturns(t, outcome) /\ ~SendReturns(t, outcome)
    BY <1>1 DEF FlushReturns, SendReturns, pipelineVars
  <2> QED
    BY <1>2, <2>1, <2>2, <2>3, <2>4, <2>5 DEF PipelineNext, Step
<1>4. task[t].stage = "send" /\ policy' = Recorded(Head(task[t].events).kind, task[t].got)
  BY <1>3 DEF RecordDecision
<1>5. task[t].events # <<>> /\ task[t].got \in BOOLEAN
  BY <1>0, <1>4 DEF WellFormed, Coroutine
<1>6. task[t].got /\ Head(task[t].events).kind = "mismatch"
  BY <1>0, <1>4, <1>5, RecordedForm
<1>7. task[t].own \/ task[t].crossed
  BY <1>6 DEF Flags, Flagged
<1> QED
  BY <1>4, <1>6, <1>7

\* A mismatch is silenced as notified only if a route delivered it, or another call was
\* under way during its own.
THEOREM NotifiedStaysTrue == PipelineSpec => NotifiedMeansDelivered
<1> DEFINE Inv == Shaped /\ Flags
           Means == policy'.notified /\ ~policy.notified =>
               \E t \in Task : /\ task[t].stage = "send" /\ Head(task[t].events).kind = "mismatch"
                               /\ task[t].own \/ task[t].crossed
<1>1. PipelineInit => Inv
  BY InitShaped, InitFlags
<1>2. Inv /\ [PipelineNext]_notificationVars => Inv'
  BY NextShaped, NextFlags
<1>3. Inv /\ [PipelineNext]_notificationVars => [Means]_notificationVars
  BY StepNotifies
<1>4. NotifiedMeansDelivered <=> [][Means]_notificationVars
  BY PTL DEF NotifiedMeansDelivered
<1> HIDE DEF Inv, Means
<1> QED
  BY <1>1, <1>2, <1>3, <1>4, PTL DEF PipelineSpec

=============================================================================
