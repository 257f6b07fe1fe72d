---------------------- MODULE StepDependencies_proofs ----------------------
(***************************************************************************)
(* Theorems about StepDependencies, for plans of any length: the steps     *)
(* that run are those no chain of dependencies condemns, no cycle of them  *)
(* is executed, and the reasons that are shown are true.                   *)
(***************************************************************************)
EXTENDS StepDependencies, FiniteSetTheorems, SequenceTheorems, TLAPS

-----------------------------------------------------------------------------
(* Types *)

Frame == [step : Step, todo : SUBSET Step]

Typed ==
    /\ named \subseteq Step /\ blocked \subseteq Step
    /\ dependsOn \in [Step -> SUBSET (named \cup {Absent})]
    /\ unavailable \in [Step -> Reason \cup {"none"}]
    /\ phase \in {"propagate", "cycles", "done"}
    /\ cursor \in 1..(Length + 1)
    /\ changed \in BOOLEAN
    /\ visited \subseteq Step /\ cyclic \subseteq Step
    /\ stack \in Seq(Frame)
    /\ phase # "cycles" => stack = <<>>
    /\ phase = "propagate" => visited = {} /\ cyclic = {}
    /\ phase = "done" => cursor = Length + 1
    /\ \A s \in Step : unavailable[s] = "cycle" => phase = "done" /\ s \in cyclic
    /\ phase = "done" => \A s \in cyclic : Unavailable(s)

\* The dependency that VisitDependency takes is done with.
Rest(d) == [stack EXCEPT ![Len(stack)].todo = @ \ {d}]

\* The three things that can happen to it.
Passes(d) ==
    /\ Unavailable(d) \/ d \in visited
    /\ stack' = Rest(d) /\ cyclic' = cyclic
Meets(d) ==
    /\ ~Unavailable(d) /\ d \notin visited /\ d \in Visiting
    /\ stack' = Rest(d) /\ cyclic' = cyclic \cup Visiting
Enters(d) ==
    /\ ~Unavailable(d) /\ d \notin visited /\ d \notin Visiting
    /\ stack' = Append(Rest(d), Call(d)) /\ cyclic' = cyclic

LEMMA RestFacts ==
    ASSUME Typed, stack # <<>>, NEW d
    PROVE  /\ Len(stack) \in Nat \ {0} /\ DOMAIN stack = 1..Len(stack)
           /\ Rest(d) \in Seq(Frame) /\ Len(Rest(d)) = Len(stack)
           /\ \A i \in DOMAIN stack : Rest(d)[i].step = stack[i].step
           /\ \A i \in DOMAIN stack : i # Len(stack) => Rest(d)[i] = stack[i]
           /\ Rest(d)[Len(stack)].todo = stack[Len(stack)].todo \ {d}
<1>1. stack \in Seq(Frame) /\ Len(stack) \in Nat \ {0} /\ DOMAIN stack = 1..Len(stack)
  BY EmptySeq DEF Typed
<1>2. Len(stack) \in DOMAIN stack /\ stack[Len(stack)] \in Frame
  BY <1>1
<1> DEFINE f == [stack[Len(stack)] EXCEPT !.todo = @ \ {d}]
<1>3. f \in Frame /\ f.step = stack[Len(stack)].step /\ f.todo = stack[Len(stack)].todo \ {d}
  BY <1>2 DEF Frame
<1>4. Rest(d) = [stack EXCEPT ![Len(stack)] = f]
  BY <1>1, <1>2 DEF Rest
<1> HIDE DEF f
<1>5. /\ Rest(d) \in Seq(Frame) /\ Len(Rest(d)) = Len(stack)
      /\ \A i \in DOMAIN stack : i # Len(stack) => Rest(d)[i] = stack[i]
      /\ Rest(d)[Len(stack)] = f
  BY <1>1, <1>2, <1>3, <1>4, ExceptSeq
<1> QED
  BY <1>1, <1>3, <1>5

LEMMA DependencyEffect ==
    ASSUME Typed, VisitDependency
    PROVE  /\ phase = "cycles" /\ stack # <<>>
           /\ UNCHANGED <<plan, unavailable, phase, cursor, changed, visited>>
           /\ \E d \in stack[Len(stack)].todo : Passes(d) \/ Meets(d) \/ Enters(d)
  BY DEF VisitDependency, Passes, Meets, Enters, Rest, MarkCyclic

\* The steps on the stack are steps of the plan, and so is what is left to do of them.
LEMMA StackTyped ==
    ASSUME Typed
    PROVE  /\ Visiting \subseteq Step
           /\ \A i \in DOMAIN stack : /\ stack[i] \in Frame /\ stack[i].step \in Step
                                      /\ stack[i].todo \subseteq Step
           /\ \A s : Call(s).step = s /\ Call(s).todo = dependsOn[s] \cap named
           /\ \A s \in Step : Call(s) \in Frame
<1>1. \A i \in DOMAIN stack : stack[i] \in Frame
  BY DEF Typed
<1>2. \A r \in Frame : r.step \in Step /\ r.todo \subseteq Step
  BY DEF Frame
<1>3. \A s : Call(s).step = s /\ Call(s).todo = dependsOn[s] \cap named
  BY DEF Call
<1>4. \A s \in Step : Call(s) \in Frame
  BY DEF Call, Frame, Typed
<1> QED
  BY <1>1, <1>2, <1>3, <1>4 DEF Visiting

LEMMA ReasonsTyped ==
    ASSUME Typed, NEW s \in Step
    PROVE  SkipReasons(s) \subseteq {"missing", "blocked", "skipped"}
  BY DEF SkipReasons

LEMMA InitTyped == Init => Typed
<1> SUFFICES ASSUME Init PROVE Typed
  OBVIOUS
<1>1. Length \in Nat \ {0} /\ 1 \in 1..(Length + 1)
  BY LengthAssumption
<1>2. <<>> \in Seq(Frame)
  OBVIOUS
<1> QED
  BY <1>1, <1>2 DEF Init, Typed, Reason

LEMMA NextTyped == Typed /\ [Next]_vars => Typed'
<1> SUFFICES ASSUME Typed, [Next]_vars PROVE Typed'
  OBVIOUS
<1>0. Length \in Nat \ {0} /\ Step = 1..Length /\ cursor \in 1..(Length + 1)
  BY LengthAssumption DEF Step, Typed
<1>1. CASE Propagate
  <2>1. /\ phase = "propagate" /\ cursor \in Step /\ cursor' = cursor + 1
        /\ UNCHANGED <<plan, phase, stack, visited, cyclic>>
    BY <1>0, <1>1 DEF Propagate
  <2>2. \/ unavailable' = unavailable /\ changed' = changed
        \/ \E why \in {"missing", "blocked", "skipped"} :
              unavailable' = [unavailable EXCEPT ![cursor] = why] /\ changed' = TRUE
    BY <1>1, <2>1, ReasonsTyped DEF Propagate
  <2>3. /\ unavailable' \in [Step -> Reason \cup {"none"}] /\ changed' \in BOOLEAN
        /\ \A s \in Step : unavailable'[s] = "cycle" => unavailable[s] = "cycle"
    BY <2>1, <2>2 DEF Typed, Reason
  <2> QED
    BY <1>0, <2>1, <2>3 DEF Typed, plan
<1>2. CASE EndRound
  <2>1. /\ phase = "propagate" /\ cursor' = 1 /\ changed' = FALSE
        /\ phase' \in {"propagate", "cycles"}
        /\ UNCHANGED <<named, blocked, dependsOn, unavailable, stack, visited, cyclic>>
    BY <1>2 DEF EndRound, plan
  <2>2. /\ stack = <<>> /\ visited = {} /\ cyclic = {}
        /\ \A s \in Step : unavailable[s] # "cycle"
    BY <2>1 DEF Typed
  <2>3. cursor' \in 1..(Length + 1)
    BY <1>0, <2>1
  <2> QED
    BY <2>1, <2>2, <2>3 DEF Typed
<1>3. CASE VisitNext
  <2>1. stack' \in Seq(Frame)
    <3>1. cursor \in Step => <<Call(cursor)>> \in Seq(Frame)
      BY StackTyped
    <3> QED
      BY <1>0, <1>3, <3>1 DEF VisitNext, Typed
  <2> QED
    BY <1>0, <1>3, <2>1 DEF VisitNext, Typed, plan, Unavailable
<1>4. CASE VisitDependency
  <2>1. /\ phase = "cycles" /\ stack # <<>>
        /\ UNCHANGED <<named, blocked, dependsOn, unavailable, phase, cursor, changed, visited>>
    BY <1>4, DependencyEffect DEF plan
  <2>2. PICK d \in stack[Len(stack)].todo : Passes(d) \/ Meets(d) \/ Enters(d)
    BY <1>4, DependencyEffect
  <2>3. d \in Step /\ Visiting \subseteq Step
    BY <2>1, RestFacts, StackTyped
  <2>4. Call(d) \in Frame /\ Rest(d) \in Seq(Frame)
    <3>1. Call(d) \in Frame
      BY <2>3, StackTyped
    <3>2. Rest(d) \in Seq(Frame)
      BY <2>1, RestFacts
    <3> QED
      BY <3>1, <3>2
  <2>5. stack' \in Seq(Frame) /\ cyclic' \subseteq Step
    <3>1. /\ stack' = Rest(d) \/ stack' = Append(Rest(d), Call(d))
          /\ cyclic' = cyclic \/ cyclic' = cyclic \cup Visiting
      BY <2>2 DEF Passes, Meets, Enters
    <3>2. Append(Rest(d), Call(d)) \in Seq(Frame)
      BY <2>4, AppendProperties
    <3> QED
      BY <2>3, <2>4, <3>1, <3>2 DEF Typed
  <2> QED
    BY <2>1, <2>5 DEF Typed
<1>5. CASE VisitReturns
  <2>1. /\ phase = "cycles" /\ stack # <<>>
        /\ visited' = visited \cup {stack[Len(stack)].step}
        /\ stack' = SubSeq(stack, 1, Len(stack) - 1)
        /\ UNCHANGED <<named, blocked, dependsOn, unavailable, phase, cursor, changed, cyclic>>
    BY <1>5 DEF VisitReturns, plan
  <2>2. stack[Len(stack)].step \in Step
    BY <2>1, RestFacts, StackTyped
  <2>3. stack' \in Seq(Frame)
    <3>1. stack \in Seq(Frame) /\ Len(stack) \in Nat \ {0}
      BY <2>1, RestFacts DEF Typed
    <3>2. \A i \in 1..(Len(stack) - 1) : stack[i] \in Frame
      BY <3>1
    <3> QED
      BY <2>1, <3>1, <3>2, SubSeqProperties
  <2> QED
    BY <2>1, <2>2, <2>3 DEF Typed
<1>6. CASE AddCyclic
  <2>1. /\ phase' = "done" /\ stack = <<>> /\ cursor > Length
        /\ UNCHANGED <<named, blocked, dependsOn, cursor, changed, stack, visited, cyclic>>
        /\ unavailable' = [s \in Step |-> IF s \in cyclic /\ ~Unavailable(s)
                                          THEN "cycle" ELSE unavailable[s]]
    BY <1>6 DEF AddCyclic, plan
  <2>2. /\ unavailable' \in [Step -> Reason \cup {"none"}]
        /\ \A s \in Step : unavailable'[s] = "cycle" => s \in cyclic
        /\ \A s \in cyclic : Unavailable(s)'
    BY <1>6, <2>1 DEF AddCyclic, Typed, Reason, Unavailable
  <2>3. cursor' = Length + 1
    BY <1>0, <2>1
  <2> QED
    BY <2>1, <2>2, <2>3 DEF Typed
<1>7. CASE UNCHANGED vars
  BY <1>7 DEF vars, plan, Typed, Unavailable
<1> QED
  BY <1>1, <1>2, <1>3, <1>4, <1>5, <1>6, <1>7 DEF Next

-----------------------------------------------------------------------------
(* The fixpoint of the first loop *)

\* The named steps that nothing but a cycle keeps from running.
Kept == {s \in named : unavailable[s] \in {"none", "cycle"}}

BlockedMarked == \A s \in named \cap blocked : unavailable[s] = "blocked"

\* No step is condemned that belongs to a set that could run.
NoneLost == \A S \in SUBSET named : Sound(S) => S \subseteq Kept

\* A round that has changed nothing has found no reason; after the last one the kept steps
\* could run.
Settled ==
    /\ phase = "propagate" /\ ~changed =>
          \A s \in named : s < cursor /\ ~Unavailable(s) => SkipReasons(s) = {}
    /\ phase # "propagate" => Sound(Kept)

Filtered == BlockedMarked /\ NoneLost /\ Settled

\* The steps of the search leave the reasons and the kept steps alone.
LEMMA SearchKeeps ==
    ASSUME Typed, VisitNext \/ VisitDependency \/ VisitReturns
    PROVE  /\ phase = "cycles"
           /\ UNCHANGED <<named, blocked, dependsOn, unavailable, phase, changed>>
           /\ Kept' = Kept
<1>1. /\ phase = "cycles"
      /\ UNCHANGED <<named, blocked, dependsOn, unavailable, phase, changed>>
  BY DEF VisitNext, VisitDependency, VisitReturns, plan
<1> QED
  BY <1>1 DEF Kept

\* The cycles are added to the reasons of steps that have none, which stay kept.
LEMMA CyclesKept ==
    ASSUME Typed, AddCyclic
    PROVE  /\ phase = "cycles" /\ phase' = "done"
           /\ UNCHANGED <<named, blocked, dependsOn, stack, visited, cyclic, cursor>>
           /\ \A s \in Step : \/ unavailable'[s] = unavailable[s]
                              \/ unavailable[s] = "none" /\ unavailable'[s] = "cycle"
           /\ Kept' = Kept
<1>1. /\ phase = "cycles" /\ phase' = "done"
      /\ UNCHANGED <<named, blocked, dependsOn, stack, visited, cyclic, cursor>>
      /\ unavailable' = [s \in Step |-> IF s \in cyclic /\ ~Unavailable(s)
                                        THEN "cycle" ELSE unavailable[s]]
  BY DEF AddCyclic, plan
<1>2. \A s \in Step : \/ unavailable'[s] = unavailable[s]
                      \/ unavailable[s] = "none" /\ unavailable'[s] = "cycle"
  BY <1>1 DEF Unavailable
<1>3. named' = named /\ named \subseteq Step
  BY <1>1 DEF Typed
<1> QED
  BY <1>1, <1>2, <1>3 DEF Kept

\* A step is marked for a dependency that is not named or is marked itself.
LEMMA MarkedFor ==
    ASSUME Typed, Propagate
    PROVE  /\ phase = "propagate" /\ cursor \in Step /\ cursor' = cursor + 1
           /\ UNCHANGED <<named, blocked, dependsOn, phase, stack, visited, cyclic>>
           /\ \/ /\ UNCHANGED <<unavailable, changed>>
                 /\ cursor \in named /\ ~Unavailable(cursor) => SkipReasons(cursor) = {}
              \/ /\ cursor \in named /\ unavailable[cursor] = "none" /\ changed' = TRUE
                 /\ \E why \in {"missing", "blocked", "skipped"} :
                       /\ unavailable' = [unavailable EXCEPT ![cursor] = why]
                       /\ \/ why = "missing" /\ \E d \in dependsOn[cursor] : d \notin named
                          \/ /\ why = "blocked"
                             /\ \E d \in dependsOn[cursor] \cap named : unavailable[d] = "blocked"
                          \/ /\ why = "skipped"
                             /\ \E d \in dependsOn[cursor] \cap named :
                                   unavailable[d] \in {"missing", "skipped"}
<1>1. /\ phase = "propagate" /\ cursor \in Step /\ cursor' = cursor + 1
      /\ UNCHANGED <<named, blocked, dependsOn, phase, stack, visited, cyclic>>
  BY LengthAssumption DEF Propagate, plan, Typed, Step
<1>2. CASE cursor \in named /\ ~Unavailable(cursor) /\ SkipReasons(cursor) # {}
  <2>1. PICK why \in SkipReasons(cursor) : unavailable' = [unavailable EXCEPT ![cursor] = why]
    BY <1>2 DEF Propagate
  <2>2. changed' = TRUE
    BY <1>2 DEF Propagate
  <2>3. \/ why = "missing" /\ \E d \in dependsOn[cursor] : d \notin named
        \/ \E d \in dependsOn[cursor] \cap named :
              Unavailable(d) /\ why = IF unavailable[d] = "blocked" THEN "blocked" ELSE "skipped"
    BY DEF SkipReasons
  <2>4. \A d \in named : Unavailable(d) => unavailable[d] \in {"missing", "blocked", "skipped"}
    BY <1>1 DEF Unavailable, Typed, Reason
  <2>5. unavailable[cursor] = "none"
    BY <1>2 DEF Unavailable
  <2> QED
    BY <1>1, <1>2, <2>1, <2>2, <2>3, <2>4, <2>5
<1>3. CASE ~(cursor \in named /\ ~Unavailable(cursor) /\ SkipReasons(cursor) # {})
  BY <1>1, <1>3 DEF Propagate
<1> QED
  BY <1>2, <1>3

LEMMA NextFiltered == Typed /\ Filtered /\ [Next]_vars => Filtered'
<1> SUFFICES ASSUME Typed, Filtered, [Next]_vars PROVE Filtered'
  OBVIOUS
<1>0. named \subseteq Step /\ unavailable \in [Step -> Reason \cup {"none"}]
  BY DEF Typed
<1>1. CASE Propagate
  <2>1. /\ phase = "propagate" /\ phase' = phase /\ cursor \in Step /\ cursor' = cursor + 1
        /\ UNCHANGED <<named, blocked, dependsOn>>
    BY <1>1, MarkedFor
  <2>2. CASE /\ UNCHANGED <<unavailable, changed>>
             /\ cursor \in named /\ ~Unavailable(cursor) => SkipReasons(cursor) = {}
    <3>1. BlockedMarked' /\ NoneLost'
      BY <2>1, <2>2 DEF Filtered, BlockedMarked, NoneLost, Sound, Kept
    <3>2. \A s : SkipReasons(s)' = SkipReasons(s) /\ (Unavailable(s)' <=> Unavailable(s))
      BY <2>1, <2>2 DEF SkipReasons, Unavailable
    <3>3. \A s \in named : s < cursor' => s < cursor \/ s = cursor
      BY <1>0, <2>1, LengthAssumption DEF Step
    <3>4. Settled'
      BY <2>1, <2>2, <3>2, <3>3 DEF Filtered, Settled
    <3> QED
      BY <3>1, <3>4 DEF Filtered
  <2>3. ASSUME NEW why \in {"missing", "blocked", "skipped"},
               cursor \in named, unavailable[cursor] = "none", changed' = TRUE,
               unavailable' = [unavailable EXCEPT ![cursor] = why],
               \/ \E d \in dependsOn[cursor] : d \notin named
               \/ \E d \in dependsOn[cursor] \cap named :
                     unavailable[d] \in {"blocked", "missing", "skipped"}
        PROVE  Filtered'
    <3>1. /\ \A s \in Step \ {cursor} : unavailable'[s] = unavailable[s]
          /\ unavailable'[cursor] = why
      BY <1>0, <2>1, <2>3
    <3>2. BlockedMarked'
      BY <1>0, <2>1, <2>3, <3>1 DEF Filtered, BlockedMarked
    <3>3. ASSUME NEW S \in SUBSET named, Sound(S)
          PROVE  cursor \notin S
      <4>1. S \subseteq Kept
        BY <3>3 DEF Filtered, NoneLost
      <4> QED
        BY <2>3, <3>3, <4>1 DEF Sound, Kept
    <3>4. NoneLost'
      <4> SUFFICES ASSUME NEW S \in SUBSET named, Sound(S)
                   PROVE  S \subseteq Kept'
        BY <2>1 DEF NoneLost, Sound
      <4>1. S \subseteq Kept /\ cursor \notin S
        BY <3>3 DEF Filtered, NoneLost
      <4> QED
        BY <1>0, <2>1, <3>1, <4>1 DEF Kept
    <3> QED
      BY <2>1, <2>3, <3>2, <3>4 DEF Filtered, Settled
  <2> QED
    BY <1>1, <2>2, <2>3, MarkedFor
<1>2. CASE EndRound
  <2>1. /\ phase = "propagate" /\ cursor > Length /\ cursor' = 1
        /\ phase' = IF changed THEN "propagate" ELSE "cycles"
        /\ UNCHANGED <<named, blocked, dependsOn, unavailable>>
    BY <1>2 DEF EndRound, plan
  <2>2. BlockedMarked' /\ NoneLost'
    BY <2>1 DEF Filtered, BlockedMarked, NoneLost, Sound, Kept
  <2>3. CASE changed
    <3>1. \A s \in named : ~(s < 1)
      BY <1>0, LengthAssumption DEF Step
    <3> QED
      BY <2>1, <2>2, <2>3, <3>1 DEF Filtered, Settled
  <2>4. CASE ~changed
    <3>1. \A s \in named : s < cursor
      BY <1>0, <2>1, LengthAssumption DEF Step, Typed
    <3>2. \A s \in Kept : s \in named /\ ~Unavailable(s)
      BY <1>0, <2>1 DEF Kept, Unavailable, Typed
    <3>3. \A s \in Kept : SkipReasons(s) = {} /\ s \notin blocked
      BY <2>1, <2>4, <3>1, <3>2 DEF Filtered, Settled, BlockedMarked, Kept
    <3>4. \A s \in Kept : dependsOn[s] \subseteq Kept
      <4> SUFFICES ASSUME NEW s \in Kept, NEW d \in dependsOn[s] PROVE d \in Kept
        OBVIOUS
      <4>1. SkipReasons(s) = {}
        BY <3>3
      <4>2. d \in named /\ ~Unavailable(d)
        BY <4>1 DEF SkipReasons
      <4> QED
        BY <4>2 DEF Kept, Unavailable
    <3>5. Sound(Kept)'
      BY <2>1, <3>3, <3>4 DEF Sound, Kept
    <3> QED
      BY <2>1, <2>2, <2>4, <3>5 DEF Filtered, Settled
  <2> QED
    BY <2>3, <2>4 DEF Typed
<1>3. CASE VisitNext \/ VisitDependency \/ VisitReturns
  <2>1. /\ phase = "cycles" /\ Kept' = Kept
        /\ UNCHANGED <<named, blocked, dependsOn, unavailable, phase>>
    BY <1>3, SearchKeeps
  <2> QED
    BY <2>1 DEF Filtered, BlockedMarked, NoneLost, Settled, Sound
<1>4. CASE AddCyclic
  <2>1. /\ phase = "cycles" /\ phase' = "done" /\ Kept' = Kept
        /\ UNCHANGED <<named, blocked, dependsOn>>
        /\ \A s \in Step : \/ unavailable'[s] = unavailable[s]
                           \/ unavailable[s] = "none" /\ unavailable'[s] = "cycle"
    BY <1>4, CyclesKept
  <2>2. BlockedMarked'
    BY <1>0, <2>1 DEF Filtered, BlockedMarked
  <2>3. NoneLost' /\ Settled'
    BY <2>1 DEF Filtered, NoneLost, Settled, Sound
  <2> QED
    BY <2>2, <2>3 DEF Filtered
<1>5. CASE UNCHANGED vars
  BY <1>5 DEF vars, plan, Filtered, BlockedMarked, NoneLost, Settled, Sound, Kept, Unavailable,
              SkipReasons
<1> QED
  BY <1>1, <1>2, <1>3, <1>4, <1>5 DEF Next

\* After the first loop the kept steps are the runnable ones.
LEMMA KeptIsRunnable ==
    ASSUME Typed, Filtered, phase # "propagate"
    PROVE  Kept = Runnable
<1>1. Kept \in SUBSET named /\ Sound(Kept)
  BY DEF Filtered, Settled, Kept
<1>2. \A S \in SUBSET named : Sound(S) => S \subseteq Kept
  BY DEF Filtered, NoneLost
<1> QED
  BY <1>1, <1>2 DEF Runnable

-----------------------------------------------------------------------------
(* Chains of dependencies, and the reasons of the first loop *)

\* A set that holds the dependencies of s and of its own steps.
ClosedFrom(S, s) == \A u \in S \cup {s} : dependsOn[u] \cap Step \subseteq S

LEMMA ReachIsClosed ==
    ASSUME NEW s \in Step
    PROVE  /\ Reach(s) \subseteq Step
           /\ \A t \in Reach(s), S \in SUBSET Step : ClosedFrom(S, s) => t \in S
           /\ \A t \in Step : (\A S \in SUBSET Step : ClosedFrom(S, s) => t \in S) => t \in Reach(s)
           /\ dependsOn[s] \cap Step \subseteq Reach(s)
           /\ \A t \in Reach(s) : dependsOn[t] \cap Step \subseteq Reach(s)
           /\ \A t \in Reach(s) : Reach(t) \subseteq Reach(s)
<1>1. /\ Reach(s) \subseteq Step
      /\ \A t \in Reach(s), S \in SUBSET Step : ClosedFrom(S, s) => t \in S
      /\ \A t \in Step : (\A S \in SUBSET Step : ClosedFrom(S, s) => t \in S) => t \in Reach(s)
  BY DEF Reach, ClosedFrom
<1>2. dependsOn[s] \cap Step \subseteq Reach(s)
  <2>1. \A S \in SUBSET Step : ClosedFrom(S, s) => dependsOn[s] \cap Step \subseteq S
    BY DEF ClosedFrom
  <2> QED
    BY <1>1, <2>1
<1>3. \A t \in Reach(s) : dependsOn[t] \cap Step \subseteq Reach(s)
  <2> SUFFICES ASSUME NEW t \in Reach(s), NEW d \in dependsOn[t] \cap Step,
                      NEW S \in SUBSET Step, ClosedFrom(S, s)
               PROVE  d \in S
    BY <1>1
  <2>1. t \in S
    BY <1>1
  <2> QED
    BY <2>1 DEF ClosedFrom
<1>4. \A t \in Reach(s) : Reach(t) \subseteq Reach(s)
  <2> SUFFICES ASSUME NEW t \in Reach(s), NEW r \in Reach(t),
                      NEW S \in SUBSET Step, ClosedFrom(S, s)
               PROVE  r \in S
    BY <1>1 DEF Reach
  <2>1. t \in S /\ t \in Step
    BY <1>1
  <2>2. ClosedFrom(S, t)
    BY <2>1 DEF ClosedFrom
  <2> QED
    BY <2>1, <2>2 DEF Reach, ClosedFrom
<1> QED
  BY <1>1, <1>2, <1>3, <1>4

LEMMA CycleInMore ==
    ASSUME NEW S, NEW T, S \subseteq T, HasCycle(S)
    PROVE  HasCycle(T)
  BY DEF HasCycle

\* A blocked step, or a missing dependency, is the cause of what is not a cycle.
Caused ==
    \A s \in named :
        /\ unavailable[s] = "blocked" => (Reach(s) \cup {s}) \cap blocked # {}
        /\ unavailable[s] = "skipped" => \E t \in Reach(s) : unavailable[t] = "missing"

LEMMA NextCaused == Typed /\ Caused /\ [Next]_vars => Caused'
<1> SUFFICES ASSUME Typed, Caused, [Next]_vars PROVE Caused'
  OBVIOUS
<1>0. named \subseteq Step /\ unavailable \in [Step -> Reason \cup {"none"}]
  BY DEF Typed
<1>1. ASSUME UNCHANGED <<named, blocked, dependsOn>>,
             \A s \in Step : \/ unavailable'[s] = unavailable[s]
                             \/ unavailable[s] = "none" /\ unavailable'[s] = "cycle"
      PROVE  Caused'
  <2>1. \A s : Reach(s)' = Reach(s)
    BY <1>1 DEF Reach
  <2>2. \A s \in named : Reach(s) \subseteq Step
    BY DEF Reach
  <2>3. \A s \in Step : /\ unavailable'[s] \in {"blocked", "skipped"} => unavailable'[s] = unavailable[s]
                        /\ unavailable[s] = "missing" => unavailable'[s] = "missing"
    BY <1>1
  <2> QED
    BY <1>0, <1>1, <2>1, <2>2, <2>3 DEF Caused
<1>2. CASE Propagate
  <2>1. /\ cursor \in Step /\ phase = "propagate" /\ UNCHANGED <<named, blocked, dependsOn>>
    BY <1>2, MarkedFor
  <2>2. CASE unavailable' = unavailable
    BY <1>1, <2>1, <2>2
  <2>3. ASSUME NEW why \in {"missing", "blocked", "skipped"},
               cursor \in named, unavailable[cursor] = "none",
               unavailable' = [unavailable EXCEPT ![cursor] = why],
               why = "blocked" =>
                   \E d \in dependsOn[cursor] \cap named : unavailable[d] = "blocked",
               why = "skipped" =>
                   \E d \in dependsOn[cursor] \cap named : unavailable[d] \in {"missing", "skipped"}
        PROVE  Caused'
    <3>1. /\ \A s \in Step \ {cursor} : unavailable'[s] = unavailable[s]
          /\ unavailable'[cursor] = why
      BY <1>0, <2>1, <2>3
    <3>2. \A s : Reach(s)' = Reach(s)
      BY <2>1 DEF Reach
    <3>3. \A t \in Step : unavailable[t] = "missing" => unavailable'[t] = "missing"
      BY <2>3, <3>1
    <3>4. ASSUME NEW d \in dependsOn[cursor] \cap named
          PROVE  d \in Reach(cursor) /\ Reach(d) \subseteq Reach(cursor)
      BY <1>0, <2>1, ReachIsClosed
    <3>5. why = "blocked" => Reach(cursor) \cap blocked # {}
      <4> SUFFICES ASSUME why = "blocked" PROVE Reach(cursor) \cap blocked # {}
        OBVIOUS
      <4>1. PICK d \in dependsOn[cursor] \cap named : unavailable[d] = "blocked"
        BY <2>3
      <4>2. (Reach(d) \cup {d}) \cap blocked # {}
        BY <4>1 DEF Caused
      <4> QED
        BY <3>4, <4>2
    <3>6. why = "skipped" => \E t \in Reach(cursor) : unavailable[t] = "missing"
      <4> SUFFICES ASSUME why = "skipped"
                   PROVE  \E t \in Reach(cursor) : unavailable[t] = "missing"
        OBVIOUS
      <4>1. PICK d \in dependsOn[cursor] \cap named : unavailable[d] \in {"missing", "skipped"}
        BY <2>3
      <4>2. unavailable[d] = "skipped" => \E t \in Reach(d) : unavailable[t] = "missing"
        BY DEF Caused
      <4> QED
        BY <3>4, <4>1, <4>2
    <3> SUFFICES ASSUME NEW s \in named
                 PROVE  /\ unavailable'[s] = "blocked" => (Reach(s) \cup {s}) \cap blocked # {}
                        /\ unavailable'[s] = "skipped" => \E t \in Reach(s) : unavailable'[t] = "missing"
      BY <2>1, <3>2 DEF Caused
    <3>7. Reach(s) \subseteq Step
      BY DEF Reach
    <3>8. CASE s = cursor
      BY <3>1, <3>3, <3>5, <3>6, <3>7, <3>8
    <3>9. CASE s # cursor
      BY <1>0, <3>1, <3>3, <3>7, <3>9 DEF Caused
    <3> QED
      BY <3>8, <3>9
  <2> QED
    BY <1>2, <2>2, <2>3, MarkedFor
<1>3. CASE EndRound
  BY <1>1, <1>3 DEF EndRound, plan
<1>4. CASE VisitNext \/ VisitDependency \/ VisitReturns
  BY <1>1, <1>4, SearchKeeps
<1>5. CASE AddCyclic
  BY <1>1, <1>5, CyclesKept
<1>6. CASE UNCHANGED vars
  BY <1>1, <1>6 DEF vars, plan
<1> QED
  BY <1>2, <1>3, <1>4, <1>5, <1>6 DEF Next

-----------------------------------------------------------------------------
(* The search for cycles *)

\* Every call leads to the calls above it, and no step is called twice.
Chain ==
    \A i, j \in DOMAIN stack : i < j =>
        stack[i].step # stack[j].step /\ stack[j].step \in Reach(stack[i].step)

\* A call is for a kept step; the dependencies it is done with are visited, or called, or
\* have closed a cycle.
Calls ==
    \A i \in DOMAIN stack :
        /\ stack[i].step \in Kept \ visited
        /\ stack[i].todo \subseteq dependsOn[stack[i].step]
        /\ i + 1 \in DOMAIN stack => stack[i + 1].step \in dependsOn[stack[i].step]
        /\ \A d \in dependsOn[stack[i].step] \ stack[i].todo :
              \/ d \in visited
              \/ stack[i].step \in cyclic
              \/ i + 1 \in DOMAIN stack /\ d = stack[i + 1].step

Finished ==
    /\ visited \subseteq Kept
    /\ \A s \in visited : s \in cyclic \/ dependsOn[s] \subseteq visited

Sought == phase # "propagate" => \A s \in Kept : s < cursor => s \in visited \cup Visiting

\* The visited steps that were not found cyclic hold no cycle.
Cut == ~HasCycle(visited \ cyclic)

OnCycle ==
    /\ cyclic \subseteq Kept
    /\ \A s \in cyclic : HasCycle(Reach(s) \cup {s})
    /\ cyclic # {} => HasCycle(Kept)

Search == Chain /\ Calls /\ Finished /\ Sought /\ Cut /\ OnCycle

\* During the search a kept step is available, and so are its dependencies.
LEMMA KeptAvailable ==
    ASSUME Typed, Filtered, phase = "cycles"
    PROVE  /\ Kept \subseteq named /\ named \subseteq Step
           /\ \A s \in Kept : ~Unavailable(s) /\ dependsOn[s] \subseteq Kept
           /\ \A s \in named : ~Unavailable(s) => s \in Kept
  BY DEF Filtered, Settled, Sound, Kept, Unavailable, Typed

LEMMA SearchBegins ==
    ASSUME Typed, Filtered, Search, VisitNext
    PROVE  Search'
<1>1. /\ phase = "cycles" /\ stack = <<>> /\ cursor \in Step /\ cursor' = cursor + 1
      /\ UNCHANGED <<named, blocked, dependsOn, unavailable, phase, visited, cyclic>>
      /\ stack' = IF cursor \in named /\ ~Unavailable(cursor) /\ cursor \notin visited
                  THEN <<Call(cursor)>> ELSE stack
  BY LengthAssumption DEF VisitNext, plan, Typed, Step
<1>2. Kept' = Kept /\ \A s : Reach(s)' = Reach(s)
  BY <1>1 DEF Kept, Reach
<1>3. Finished' /\ Cut' /\ OnCycle'
  BY <1>1, <1>2 DEF Search, Finished, Cut, HasCycle, OnCycle
<1>4. Visiting = {}
  BY <1>1 DEF Visiting
<1>5. \A s \in Kept : s < cursor' => s \in visited \/ s = cursor
  BY <1>1, <1>4, KeptAvailable, LengthAssumption DEF Search, Sought, Step
<1>6. CASE cursor \in named /\ ~Unavailable(cursor) /\ cursor \notin visited
  <2>1. stack' = <<Call(cursor)>>
    BY <1>1, <1>6
  <2>2. /\ DOMAIN stack' = {1} /\ stack'[1].step = cursor
        /\ stack'[1].todo = dependsOn[cursor] \cap named
    BY <2>1, StackTyped
  <2>3. cursor \in Kept \ visited /\ dependsOn[cursor] \subseteq named
    BY <1>1, <1>6, KeptAvailable
  <2>4. Chain'
    BY <2>2 DEF Chain
  <2>5. Calls'
    BY <1>1, <1>2, <2>2, <2>3 DEF Calls
  <2>6. Sought'
    BY <1>1, <1>2, <1>5, <2>2 DEF Sought, Visiting
  <2> QED
    BY <1>3, <2>4, <2>5, <2>6 DEF Search
<1>7. CASE ~(cursor \in named /\ ~Unavailable(cursor) /\ cursor \notin visited)
  <2>1. stack' = <<>> /\ DOMAIN stack' = {}
    BY <1>1, <1>7
  <2>2. Chain' /\ Calls'
    BY <2>1 DEF Chain, Calls
  <2>3. cursor \in Kept => cursor \in visited
    BY <1>1, <1>7, KeptAvailable
  <2>4. Sought'
    BY <1>1, <1>2, <1>5, <2>3 DEF Sought
  <2> QED
    BY <1>3, <2>2, <2>4 DEF Search
<1> QED
  BY <1>6, <1>7

\* Everything on the stack leads to the cycle that a dependency on the stack closes.
LEMMA ClosesCycle ==
    ASSUME Typed, Filtered, Search, phase = "cycles", stack # <<>>,
           NEW d \in stack[Len(stack)].todo, d \in Visiting
    PROVE  /\ HasCycle(Kept)
           /\ \A s \in Visiting : HasCycle(Reach(s) \cup {s})
<1> DEFINE n == Len(stack)
<1>1. n \in Nat \ {0} /\ DOMAIN stack = 1..n /\ n \in DOMAIN stack
  BY RestFacts
<1>2. PICK k \in DOMAIN stack : stack[k].step = d
  BY DEF Visiting
<1> DEFINE C == {stack[j].step : j \in {i \in DOMAIN stack : k <= i}}
<1> HIDE DEF n
<1>3. \A i \in DOMAIN stack : stack[i].step \in Kept /\ stack[i].step \in Step
  BY StackTyped DEF Search, Calls
<1>4. d \in dependsOn[stack[n].step] /\ d \in Step
  BY <1>1, <1>2, <1>3 DEF Search, Calls, n
<1>5. \A i \in DOMAIN stack : i + 1 \in DOMAIN stack => stack[i + 1].step \in dependsOn[stack[i].step]
  BY DEF Search, Calls
<1>6. C # {} /\ C \subseteq Kept
  BY <1>2, <1>3
<1>7. \A s \in C : dependsOn[s] \cap C # {}
  <2> SUFFICES ASSUME NEW j \in DOMAIN stack, k <= j
               PROVE  dependsOn[stack[j].step] \cap C # {}
    OBVIOUS
  <2>1. CASE j = n
    <3>1. d \in C
      BY <1>1, <1>2
    <3> QED
      BY <1>4, <2>1, <3>1
  <2>2. CASE j # n
    <3>1. j + 1 \in DOMAIN stack /\ k <= j + 1
      BY <1>1, <2>2
    <3>2. stack[j + 1].step \in C
      BY <3>1
    <3> QED
      BY <1>5, <3>1, <3>2
  <2> QED
    BY <2>1, <2>2
<1>8. ASSUME NEW i \in DOMAIN stack
      PROVE  C \subseteq Reach(stack[i].step) \cup {stack[i].step}
  <2>1. stack[n].step \in Reach(stack[i].step) \cup {stack[i].step}
    BY <1>1 DEF Search, Chain
  <2>2. d \in Reach(stack[i].step)
    BY <1>3, <1>4, <2>1, ReachIsClosed
  <2>3. Reach(d) \subseteq Reach(stack[i].step)
    BY <1>3, <2>2, ReachIsClosed
  <2>4. \A j \in DOMAIN stack : k <= j => stack[j].step \in Reach(d) \cup {d}
    BY <1>1, <1>2 DEF Search, Chain
  <2> QED
    BY <2>2, <2>3, <2>4
<1> HIDE DEF C
<1>9. \A S : C \subseteq S => HasCycle(S)
  BY <1>6, <1>7 DEF HasCycle
<1> QED
  BY <1>6, <1>8, <1>9 DEF Visiting

\* The search goes on with a dependency that is visited, or is on the stack.
LEMMA SearchPasses ==
    ASSUME Typed, Filtered, Search, phase = "cycles", stack # <<>>,
           UNCHANGED <<named, blocked, dependsOn, unavailable, phase, cursor, visited>>,
           NEW d \in stack[Len(stack)].todo, Passes(d) \/ Meets(d)
    PROVE  Search'
<1> DEFINE n == Len(stack)
<1>1. n \in Nat \ {0} /\ DOMAIN stack = 1..n /\ n \in DOMAIN stack
  BY RestFacts
<1>2. stack' = Rest(d)
  BY DEF Passes, Meets
<1>3. /\ DOMAIN stack' = DOMAIN stack
      /\ \A i \in DOMAIN stack : stack'[i].step = stack[i].step
      /\ \A i \in DOMAIN stack : i # n => stack'[i] = stack[i]
      /\ stack'[n].todo = stack[n].todo \ {d}
  <2>1. DOMAIN Rest(d) = 1..n
    BY <1>1, RestFacts
  <2> QED
    BY <1>1, <1>2, <2>1, RestFacts
<1>4. Kept' = Kept /\ (\A s : Reach(s)' = Reach(s)) /\ Visiting' = Visiting
  BY <1>3 DEF Kept, Reach, Visiting
<1>5. /\ cyclic \subseteq cyclic'
      /\ cyclic' = cyclic \/ cyclic' = cyclic \cup Visiting
      /\ d \in visited \/ Visiting \subseteq cyclic'
  <2>1. d \in dependsOn[stack[n].step] /\ stack[n].step \in Kept
    BY <1>1 DEF Search, Calls
  <2>2. ~Unavailable(d)
    BY <2>1, KeptAvailable
  <2> QED
    BY <2>2 DEF Passes, Meets
<1> HIDE DEF n
<1>6. Chain'
  BY <1>3, <1>4 DEF Search, Chain
<1>7. Calls'
  <2> SUFFICES ASSUME NEW i \in DOMAIN stack
               PROVE  /\ stack'[i].step \in Kept \ visited
                      /\ stack'[i].todo \subseteq dependsOn[stack'[i].step]
                      /\ i + 1 \in DOMAIN stack' => stack'[i + 1].step \in dependsOn[stack'[i].step]
                      /\ \A e \in dependsOn[stack'[i].step] \ stack'[i].todo :
                            \/ e \in visited
                            \/ stack'[i].step \in cyclic'
                            \/ i + 1 \in DOMAIN stack' /\ e = stack'[i + 1].step
    BY <1>3, <1>4 DEF Calls
  <2>1. /\ stack[i].step \in Kept \ visited
        /\ stack[i].todo \subseteq dependsOn[stack[i].step]
        /\ i + 1 \in DOMAIN stack => stack[i + 1].step \in dependsOn[stack[i].step]
        /\ \A e \in dependsOn[stack[i].step] \ stack[i].todo :
              \/ e \in visited
              \/ stack[i].step \in cyclic
              \/ i + 1 \in DOMAIN stack /\ e = stack[i + 1].step
    BY DEF Search, Calls
  <2>2. /\ stack'[i].step = stack[i].step /\ stack[i].step \in Visiting
        /\ i + 1 \in DOMAIN stack => stack'[i + 1].step = stack[i + 1].step
    BY <1>3 DEF Visiting
  <2>3. CASE i # n
    BY <1>3, <1>5, <2>1, <2>2, <2>3
  <2>4. CASE i = n
    <3>1. stack'[i].todo = stack[i].todo \ {d}
      BY <1>3, <2>4
    <3> QED
      BY <1>3, <1>5, <2>1, <2>2, <3>1
  <2> QED
    BY <2>3, <2>4
<1>8. Finished' /\ Sought'
  BY <1>4, <1>5 DEF Search, Finished, Sought
<1>9. Cut'
  <2>1. visited' \ cyclic' \subseteq visited \ cyclic
    BY <1>5
  <2> QED
    BY <2>1, CycleInMore DEF Search, Cut, HasCycle
<1>10. OnCycle'
  <2>1. CASE cyclic' = cyclic
    BY <1>4, <2>1 DEF Search, OnCycle, HasCycle
  <2>2. CASE cyclic' = cyclic \cup Visiting /\ cyclic' # cyclic
    <3>1. d \in Visiting
      BY <2>2 DEF Passes, Meets
    <3>2. HasCycle(Kept) /\ \A s \in Visiting : HasCycle(Reach(s) \cup {s})
      BY <3>1, ClosesCycle
    <3>3. Visiting \subseteq Kept
      BY DEF Visiting, Search, Calls
    <3> QED
      BY <1>4, <2>2, <3>2, <3>3 DEF Search, OnCycle, HasCycle
  <2> QED
    BY <1>5, <2>1, <2>2
<1> QED
  BY <1>6, <1>7, <1>8, <1>9, <1>10 DEF Search

\* The search calls a dependency that it has not met.
LEMMA SearchEnters ==
    ASSUME Typed, Filtered, Search, phase = "cycles", stack # <<>>,
           UNCHANGED <<named, blocked, dependsOn, unavailable, phase, cursor, visited>>,
           NEW d \in stack[Len(stack)].todo, Enters(d)
    PROVE  Search'
<1> DEFINE n == Len(stack)
<1>1. n \in Nat \ {0} /\ DOMAIN stack = 1..n /\ n \in DOMAIN stack
  BY RestFacts
<1>2. /\ stack' = Append(Rest(d), Call(d)) /\ cyclic' = cyclic
      /\ d \notin visited /\ d \notin Visiting
  BY DEF Enters
<1>3. d \in dependsOn[stack[n].step] /\ d \in Kept /\ d \in Step /\ dependsOn[d] \subseteq named
  <2>1. d \in dependsOn[stack[n].step] /\ stack[n].step \in Kept
    BY <1>1 DEF Search, Calls
  <2> QED
    BY <2>1, KeptAvailable
<1>4. /\ DOMAIN stack' = 1..(n + 1)
      /\ \A i \in DOMAIN stack : stack'[i].step = stack[i].step
      /\ \A i \in DOMAIN stack : i # n => stack'[i] = stack[i]
      /\ stack'[n].todo = stack[n].todo \ {d}
      /\ stack'[n + 1].step = d /\ stack'[n + 1].todo = dependsOn[d] \cap named
  <2>1. Rest(d) \in Seq(Frame) /\ Len(Rest(d)) = n /\ Call(d) \in Frame
    BY <1>3, RestFacts, StackTyped
  <2>2. /\ DOMAIN stack' = 1..(n + 1)
        /\ \A i \in 1..n : stack'[i] = Rest(d)[i]
        /\ stack'[n + 1] = Call(d)
    BY <1>1, <1>2, <2>1, AppendProperties
  <2> QED
    BY <1>1, <2>2, RestFacts, StackTyped
<1> HIDE DEF n
<1>5. /\ Kept' = Kept /\ \A s : Reach(s)' = Reach(s)
      /\ Visiting' = Visiting \cup {d}
  <2>1. Kept' = Kept /\ \A s : Reach(s)' = Reach(s)
    BY DEF Kept, Reach
  <2>2. \A i \in DOMAIN stack' : i \in DOMAIN stack \/ i = n + 1
    BY <1>1, <1>4
  <2>3. DOMAIN stack \subseteq DOMAIN stack' /\ n + 1 \in DOMAIN stack'
    BY <1>1, <1>4
  <2> QED
    BY <1>4, <2>1, <2>2, <2>3 DEF Visiting
<1>6. Chain'
  <2> SUFFICES ASSUME NEW i \in DOMAIN stack', NEW j \in DOMAIN stack', i < j
               PROVE  stack'[i].step # stack'[j].step /\ stack'[j].step \in Reach(stack'[i].step)
    BY <1>5 DEF Chain
  <2>1. CASE j \in DOMAIN stack
    <3>1. i \in DOMAIN stack
      BY <1>1, <1>4, <2>1
    <3> QED
      BY <1>4, <2>1, <3>1 DEF Search, Chain
  <2>2. CASE j = n + 1
    <3>1. i \in DOMAIN stack /\ (i = n \/ i < n)
      BY <1>1, <1>4, <2>2
    <3>2. stack[n].step \in Reach(stack[i].step) \cup {stack[i].step}
      BY <1>1, <3>1 DEF Search, Chain
    <3>3. stack[i].step \in Step /\ stack[i].step \in Visiting
      BY <3>1, StackTyped DEF Visiting
    <3>4. d \in Reach(stack[i].step)
      BY <1>3, <3>2, <3>3, ReachIsClosed
    <3> QED
      BY <1>2, <1>4, <2>2, <3>1, <3>3, <3>4
  <2> QED
    BY <1>1, <1>4, <2>1, <2>2
<1>7. Calls'
  <2> SUFFICES ASSUME NEW i \in DOMAIN stack'
               PROVE  /\ stack'[i].step \in Kept \ visited
                      /\ stack'[i].todo \subseteq dependsOn[stack'[i].step]
                      /\ i + 1 \in DOMAIN stack' => stack'[i + 1].step \in dependsOn[stack'[i].step]
                      /\ \A e \in dependsOn[stack'[i].step] \ stack'[i].todo :
                            \/ e \in visited
                            \/ stack'[i].step \in cyclic
                            \/ i + 1 \in DOMAIN stack' /\ e = stack'[i + 1].step
    BY <1>2, <1>5 DEF Calls
  <2>1. CASE i \in DOMAIN stack
    <3>1. /\ stack[i].step \in Kept \ visited
          /\ stack[i].todo \subseteq dependsOn[stack[i].step]
          /\ i + 1 \in DOMAIN stack => stack[i + 1].step \in dependsOn[stack[i].step]
          /\ \A e \in dependsOn[stack[i].step] \ stack[i].todo :
                \/ e \in visited
                \/ stack[i].step \in cyclic
                \/ i + 1 \in DOMAIN stack /\ e = stack[i + 1].step
      BY <2>1 DEF Search, Calls
    <3>2. stack'[i].step = stack[i].step
      BY <1>4, <2>1
    <3>3. CASE i # n
      <4>1. i + 1 \in DOMAIN stack /\ i + 1 \in DOMAIN stack'
        BY <1>1, <1>4, <2>1, <3>3
      <4> QED
        BY <1>4, <2>1, <3>1, <3>2, <3>3, <4>1
    <3>4. CASE i = n
      <4>1. i + 1 \notin DOMAIN stack /\ i + 1 \in DOMAIN stack' /\ stack'[i + 1].step = d
        BY <1>1, <1>4, <3>4
      <4>2. stack'[i].todo = stack[i].todo \ {d} /\ d \in dependsOn[stack[i].step]
        BY <1>3, <1>4, <3>4
      <4> QED
        BY <3>1, <3>2, <4>1, <4>2
    <3> QED
      BY <3>3, <3>4
  <2>2. CASE i = n + 1
    <3>1. i + 1 \notin DOMAIN stack'
      BY <1>1, <1>4, <2>2
    <3> QED
      BY <1>2, <1>3, <1>4, <2>2, <3>1
  <2> QED
    BY <1>1, <1>4, <2>1, <2>2
<1>8. Finished' /\ Sought' /\ Cut' /\ OnCycle'
  BY <1>2, <1>5 DEF Search, Finished, Sought, Cut, OnCycle, HasCycle
<1> QED
  BY <1>6, <1>7, <1>8 DEF Search

\* A call returns: its dependencies are visited before it, unless it was found cyclic, so that
\* it is on no cycle of visited steps.
LEMMA SearchReturns ==
    ASSUME Typed, Filtered, Search, VisitReturns
    PROVE  Search'
<1> DEFINE n == Len(stack)
           t == stack[n].step
<1>1. /\ phase = "cycles" /\ stack # <<>> /\ stack[n].todo = {}
      /\ visited' = visited \cup {t}
      /\ stack' = SubSeq(stack, 1, n - 1)
      /\ UNCHANGED <<named, blocked, dependsOn, unavailable, phase, cursor, cyclic>>
  BY DEF VisitReturns, plan
<1>2. n \in Nat \ {0} /\ DOMAIN stack = 1..n /\ n \in DOMAIN stack /\ stack \in Seq(Frame)
  BY <1>1, RestFacts DEF Typed
<1>3. DOMAIN stack' = 1..(n - 1) /\ \A i \in 1..(n - 1) : stack'[i] = stack[i]
  BY <1>1, <1>2
<1>4. Kept' = Kept /\ \A s : Reach(s)' = Reach(s)
  BY <1>1 DEF Kept, Reach
<1>5. /\ t \in Kept \ visited
      /\ \A e \in dependsOn[t] : e \in visited \/ t \in cyclic
  BY <1>1, <1>2 DEF Search, Calls
<1> HIDE DEF n, t
<1>6. Chain'
  BY <1>2, <1>3, <1>4 DEF Search, Chain
<1>7. Calls'
  <2> SUFFICES ASSUME NEW i \in 1..(n - 1)
               PROVE  /\ stack'[i].step \in Kept \ visited'
                      /\ stack'[i].todo \subseteq dependsOn[stack'[i].step]
                      /\ i + 1 \in DOMAIN stack' => stack'[i + 1].step \in dependsOn[stack'[i].step]
                      /\ \A e \in dependsOn[stack'[i].step] \ stack'[i].todo :
                            \/ e \in visited'
                            \/ stack'[i].step \in cyclic
                            \/ i + 1 \in DOMAIN stack' /\ e = stack'[i + 1].step
    BY <1>1, <1>3, <1>4 DEF Calls
  <2>1. /\ stack[i].step \in Kept \ visited
        /\ stack[i].todo \subseteq dependsOn[stack[i].step]
        /\ i + 1 \in DOMAIN stack => stack[i + 1].step \in dependsOn[stack[i].step]
        /\ \A e \in dependsOn[stack[i].step] \ stack[i].todo :
              \/ e \in visited
              \/ stack[i].step \in cyclic
              \/ i + 1 \in DOMAIN stack /\ e = stack[i + 1].step
    BY <1>2 DEF Search, Calls
  <2>2. i \in DOMAIN stack /\ i < n /\ i + 1 \in DOMAIN stack
        /\ (i + 1 \in DOMAIN stack' \/ i + 1 = n)
    BY <1>2, <1>3
  <2>3. stack[i].step # t
    BY <1>2, <2>2 DEF Search, Chain, t
  <2>4. stack'[i] = stack[i] /\ (i + 1 \in DOMAIN stack' => stack'[i + 1] = stack[i + 1])
    BY <1>3
  <2>5. i + 1 = n => stack[i + 1].step = t
    BY DEF t
  <2> QED
    BY <1>1, <2>1, <2>2, <2>3, <2>4, <2>5
<1>8. Finished'
  BY <1>1, <1>4, <1>5 DEF Search, Finished
<1>9. Sought'
  <2>1. Visiting \subseteq Visiting' \cup {t}
    <3> SUFFICES ASSUME NEW i \in DOMAIN stack PROVE stack[i].step \in Visiting' \cup {t}
      BY DEF Visiting
    <3>1. i = n \/ i \in 1..(n - 1)
      BY <1>2
    <3> QED
      BY <1>3, <3>1 DEF Visiting, t
  <2> QED
    BY <1>1, <1>4, <2>1 DEF Search, Sought
<1>10. Cut'
  <2> SUFFICES ASSUME NEW C \in SUBSET (visited' \ cyclic), C # {},
                      \A s \in C : dependsOn[s] \cap C # {}
               PROVE  FALSE
    BY <1>1 DEF Cut, HasCycle
  <2>1. \A s \in C \ {t} : dependsOn[s] \subseteq visited
    BY <1>1 DEF Search, Finished
  <2>2. t \in C => dependsOn[t] \subseteq visited
    BY <1>5
  <2>3. t \notin visited
    BY <1>5
  <2>4. \A s \in C : dependsOn[s] \cap (C \ {t}) # {}
    BY <2>1, <2>2, <2>3
  <2>5. C \ {t} \subseteq visited \ cyclic /\ C \ {t} # {}
    BY <1>1, <2>4
  <2> QED
    BY <2>4, <2>5 DEF Search, Cut, HasCycle
<1>11. OnCycle'
  BY <1>1, <1>4 DEF Search, OnCycle, HasCycle
<1> QED
  BY <1>6, <1>7, <1>8, <1>9, <1>10, <1>11 DEF Search

LEMMA NextSearch == Typed /\ Filtered /\ Search /\ [Next]_vars => Search'
<1> SUFFICES ASSUME Typed, Filtered, Search, [Next]_vars PROVE Search'
  OBVIOUS
<1>1. CASE Propagate \/ EndRound
  <2>1. /\ phase = "propagate" /\ UNCHANGED <<stack, visited, cyclic>>
        /\ phase' = "propagate" \/ cursor' = 1
    BY <1>1 DEF Propagate, EndRound
  <2>2. stack' = <<>> /\ visited' = {} /\ cyclic' = {} /\ DOMAIN stack' = {}
    BY <2>1 DEF Typed
  <2>3. Kept' \subseteq Step
    BY <1>1 DEF Kept, Typed, Propagate, EndRound, plan
  <2>4. Sought'
    BY <2>1, <2>3, LengthAssumption DEF Sought, Step
  <2> QED
    BY <2>2, <2>4 DEF Search, Chain, Calls, Finished, Cut, OnCycle, HasCycle
<1>2. CASE VisitNext
  BY <1>2, SearchBegins
<1>3. CASE VisitDependency
  <2>1. /\ phase = "cycles" /\ stack # <<>>
        /\ UNCHANGED <<named, blocked, dependsOn, unavailable, phase, cursor, visited>>
    BY <1>3, DependencyEffect DEF plan
  <2>2. PICK d \in stack[Len(stack)].todo : Passes(d) \/ Meets(d) \/ Enters(d)
    BY <1>3, DependencyEffect
  <2> QED
    BY <2>1, <2>2, SearchPasses, SearchEnters
<1>4. CASE VisitReturns
  BY <1>4, SearchReturns
<1>5. ASSUME UNCHANGED <<dependsOn, stack, visited, cyclic, cursor>>, Kept' = Kept,
             phase = "propagate" => phase' = "propagate"
      PROVE  Search'
  <2>1. (\A s : Reach(s)' = Reach(s)) /\ Visiting' = Visiting
    BY <1>5 DEF Reach, Visiting
  <2>2. Chain' /\ Cut'
    BY <1>5, <2>1 DEF Search, Chain, Cut, HasCycle
  <2>3. Calls'
    BY <1>5, <2>1 DEF Search, Calls
  <2>4. Finished' /\ Sought'
    BY <1>5, <2>1 DEF Search, Finished, Sought
  <2>5. OnCycle'
    BY <1>5, <2>1 DEF Search, OnCycle, HasCycle
  <2> QED
    BY <2>2, <2>3, <2>4, <2>5 DEF Search
<1>6. CASE AddCyclic
  <2>1. /\ phase = "cycles" /\ Kept' = Kept
        /\ UNCHANGED <<dependsOn, stack, visited, cyclic, cursor>>
    BY <1>6, CyclesKept
  <2> QED
    BY <1>5, <2>1
<1>7. CASE UNCHANGED vars
  BY <1>5, <1>7 DEF vars, plan, Kept
<1> QED
  BY <1>1, <1>2, <1>3, <1>4, <1>6, <1>7 DEF Next

-----------------------------------------------------------------------------
(* What the function returns *)

Inv == Typed /\ Filtered /\ Caused /\ Search

LEMMA Invariance == Spec => []Inv
<1>1. Init => Inv
  <2> SUFFICES ASSUME Init PROVE Filtered /\ Caused /\ Search
    BY InitTyped DEF Inv
  <2>1. named \subseteq Step /\ Typed
    BY InitTyped DEF Init
  <2>2. Filtered
    <3>1. BlockedMarked
      BY <2>1 DEF Init, BlockedMarked
    <3>2. NoneLost
      BY <2>1 DEF Init, NoneLost, Sound, Kept
    <3>3. Settled
      BY <2>1, LengthAssumption DEF Init, Settled, Step
    <3> QED
      BY <3>1, <3>2, <3>3 DEF Filtered
  <2>3. Caused
    BY <2>1 DEF Init, Caused
  <2>4. Search
    BY DEF Init, Search, Chain, Calls, Finished, Sought, Cut, OnCycle, HasCycle
  <2> QED
    BY <2>2, <2>3, <2>4
<1>2. Inv /\ [Next]_vars => Inv'
  BY NextTyped, NextFiltered, NextCaused, NextSearch DEF Inv
<1> QED
  BY <1>1, <1>2, PTL DEF Spec

\* At the end every kept step is visited.
LEMMA AllSought ==
    ASSUME Inv, phase = "done"
    PROVE  /\ Kept \subseteq visited
           /\ Kept = Runnable /\ Kept \cap blocked = {}
           /\ Executed \cap named = Kept \ cyclic
           /\ Skipped = named \ (blocked \cup (Kept \ cyclic))
<1>1. Typed /\ Filtered /\ Search
  BY DEF Inv
<1>2. cursor = Length + 1 /\ stack = <<>> /\ named \subseteq Step
  BY <1>1 DEF Typed
<1>3. Kept \subseteq visited
  <2>1. Visiting = {} /\ \A s \in Kept : s \in 1..Length
    BY <1>2 DEF Visiting, Kept, Step
  <2> QED
    BY <1>1, <1>2, <2>1, LengthAssumption DEF Search, Sought
<1>4. Kept = Runnable /\ Kept \cap blocked = {}
  BY <1>1, KeptIsRunnable DEF Filtered, Settled, Sound
<1>5. \A s \in named : s \notin blocked => (~Unavailable(s) <=> s \in Kept \ cyclic)
  BY <1>1, <1>2 DEF Typed, Unavailable, Kept
<1>6. \A s \in Kept : s \notin blocked /\ s \in named
  BY <1>4 DEF Kept
<1> QED
  BY <1>2, <1>3, <1>4, <1>5, <1>6 DEF Executed, Skipped

\* The state of the filter is well typed, and its call stack never holds a step twice, for
\* plans of any length.
THEOREM TypeCorrect == Spec => []TypeOK
<1>1. Inv => TypeOK
  <2> SUFFICES ASSUME Inv PROVE TypeOK
    OBVIOUS
  <2>1. Typed /\ Chain
    BY DEF Inv, Search
  <2>2. Len(stack) \in Nat /\ DOMAIN stack = 1..Len(stack)
    BY <2>1 DEF Typed
  <2> DEFINE f == [i \in 1..Len(stack) |-> stack[i].step]
  <2>3. f \in Bijection(1..Len(stack), Visiting)
    <3>1. \A i, j \in 1..Len(stack) : stack[i].step = stack[j].step => i = j
      <4> SUFFICES ASSUME NEW i \in 1..Len(stack), NEW j \in 1..Len(stack),
                          stack[i].step = stack[j].step, i # j
                   PROVE  FALSE
        OBVIOUS
      <4>1. i < j \/ j < i
        BY <2>2
      <4> QED
        BY <2>1, <2>2, <4>1 DEF Chain
    <3> QED
      BY <2>2, <3>1 DEF Visiting, Bijection, Injection, Surjection, IsInjective
  <2>4. Cardinality(Visiting) = Len(stack)
    <3>1. \A n \in Nat : IsFiniteSet(1..n) /\ Cardinality(1..n) = n
      BY FS_Interval
    <3>2. ExistsBijection(1..Len(stack), Visiting)
      BY <2>3 DEF ExistsBijection
    <3> QED
      BY <2>2, <3>1, <3>2, FS_Bijection
  <2>5. dependsOn \in [Step -> SUBSET (Step \cup {Absent})]
    BY <2>1 DEF Typed
  <2> QED
    BY <2>1, <2>4, <2>5, StackTyped DEF Typed, TypeOK
<1> QED
  BY <1>1, Invariance, PTL

\* When the steps that could run hold no cycle, exactly those are executed, for any plan.
THEOREM RunsTheRunnable == Spec => []ExecutesTheRunnable
<1>1. Inv => ExecutesTheRunnable
  <2> SUFFICES ASSUME Inv, phase = "done", ~HasCycle(Runnable)
               PROVE  /\ Executed \cap named = Runnable
                      /\ Skipped = named \ (blocked \cup Runnable)
    BY DEF ExecutesTheRunnable
  <2>1. cyclic = {}
    BY AllSought DEF Inv, Search, OnCycle
  <2> QED
    BY <2>1, AllSought
<1> QED
  BY <1>1, Invariance, PTL

\* No two steps that are executed wait for each other, directly or in a longer circle, for any
\* plan and whichever step the search enters a cycle by.
THEOREM CyclesAreCut == Spec => []NoCycleRuns
<1>1. Inv => NoCycleRuns
  <2> SUFFICES ASSUME Inv, phase = "done" PROVE ~HasCycle(Executed \cap named)
    BY DEF NoCycleRuns
  <2>1. Executed \cap named \subseteq visited \ cyclic
    BY AllSought
  <2>2. ~HasCycle(visited \ cyclic)
    BY DEF Inv, Search, Cut
  <2> QED
    BY <2>1, <2>2, CycleInMore
<1> QED
  BY <1>1, Invariance, PTL

\* The reason a resident is shown is true: it leads to a blocked step, a missing dependency
\* or a cycle, for any plan.
THEOREM ReasonsAreTruthful == Spec => []ReasonsTruthful
<1>1. Inv => ReasonsTruthful
  BY DEF Inv, ReasonsTruthful, Caused, Search, OnCycle, Typed
<1> QED
  BY <1>1, Invariance, PTL

=============================================================================
