-------------------------- MODULE StepDependencies --------------------------
(***************************************************************************)
(* evaluate_step_dependencies and _cyclic_step_ids of                      *)
(* runtime/runtime_confirmation.py: which steps of a stored plan are left  *)
(* out because a step they depend on does not run.  The function is pure;  *)
(* its loops are the steps of this specification, one run per plan.        *)
(*                                                                         *)
(* A plan is a list of steps, here the positions 1..Length.  The order in  *)
(* which a step lists its dependencies is left open: a choice between them *)
(* is made where the code takes them in turn.                              *)
(***************************************************************************)
EXTENDS Integers, Sequences, FiniteSets

CONSTANTS Length,   \* the number of steps of the plan
          Absent    \* a step_id that no step of the plan has

ASSUME LengthAssumption == Length \in Nat \ {0}

Step == 1..Length

ASSUME AbsentAssumption == Absent \notin Step

\* The SKIP_DEPENDENCY_* reasons; "none" for a step that is not in `unavailable`.
Reason == {"blocked", "missing", "skipped", "cycle"}

VARIABLES
    named,        \* the steps that carry a step_id
    blocked,      \* the steps with a blocked_by
    dependsOn,    \* [Step -> SUBSET (Step \cup {Absent})]
    unavailable,  \* [Step -> Reason \cup {"none"}]
    phase,        \* "propagate", "cycles", "done"
    cursor,       \* the step the current `for` is at
    changed,      \* the flag of the `while changed` loop
    stack,        \* the calls of `visit`: <<[step, todo]>>; their steps are `visiting`
    visited,      \* finished calls of `visit`
    cyclic        \* the set _cyclic_step_ids returns

plan == <<named, blocked, dependsOn>>
vars == <<plan, unavailable, phase, cursor, changed, stack, visited, cyclic>>

Unavailable(s) == unavailable[s] # "none"

-----------------------------------------------------------------------------

\* Mutant: a step whose dependency was skipped for a missing dependency is kept.
SkipReasons_OnlyDirect(s) ==
    LET deps == dependsOn[s] IN
    {"missing" : d \in deps \ named} \cup
    {"blocked" : d \in {e \in deps \cap named : unavailable[e] = "blocked"}}

\* Mutant: the two reasons are exchanged.
SkipReasons_Swapped(s) ==
    LET deps == dependsOn[s] IN
    {"missing" : d \in deps \ named} \cup
    {IF unavailable[d] = "blocked" THEN "skipped" ELSE "blocked"
        : d \in {e \in deps \cap named : Unavailable(e)}}

\* _dependency_skip_reason: the reason a dependency gives, for any order of them.  A
\* step without a step_id is unknown to by_id, like an absent one.
SkipReasons(s) ==
    LET deps == dependsOn[s] IN
    {"missing" : d \in deps \ named} \cup
    {IF unavailable[d] = "blocked" THEN "blocked" ELSE "skipped"
        : d \in {e \in deps \cap named : Unavailable(e)}}

\* One round of the inner `for` of the fixpoint loop, for the step at the cursor.
Propagate ==
    /\ phase = "propagate" /\ cursor <= Length
    /\ cursor' = cursor + 1
    /\ IF cursor \in named /\ ~Unavailable(cursor) /\ SkipReasons(cursor) # {}
       THEN /\ \E why \in SkipReasons(cursor) :
                   unavailable' = [unavailable EXCEPT ![cursor] = why]
            /\ changed' = TRUE
       ELSE UNCHANGED <<unavailable, changed>>
    /\ UNCHANGED <<plan, phase, stack, visited, cyclic>>

\* Mutant: the flag is not reset for the next round.
EndRound_KeepsFlag ==
    /\ phase = "propagate" /\ cursor > Length
    /\ cursor' = 1
    /\ phase' = IF changed THEN "propagate" ELSE "cycles"
    /\ UNCHANGED <<plan, unavailable, changed, stack, visited, cyclic>>

\* The end of a round: again while something changed, else look for cycles.
EndRound ==
    /\ phase = "propagate" /\ cursor > Length
    /\ cursor' = 1
    /\ changed' = FALSE
    /\ phase' = IF changed THEN "propagate" ELSE "cycles"
    /\ UNCHANGED <<plan, unavailable, stack, visited, cyclic>>

-----------------------------------------------------------------------------
(* _cyclic_step_ids: depth first, with the call stack made explicit *)

Visiting == {stack[i].step : i \in DOMAIN stack}

Call(s) == [step |-> s, todo |-> dependsOn[s] \cap named]

\* The outer `for`: a call from the top level, when there is something to visit.
VisitNext ==
    /\ phase = "cycles" /\ stack = <<>> /\ cursor <= Length
    /\ cursor' = cursor + 1
    /\ stack' = IF cursor \in named /\ ~Unavailable(cursor) /\ cursor \notin visited
                THEN <<Call(cursor)>> ELSE stack
    /\ UNCHANGED <<plan, unavailable, phase, changed, visited, cyclic>>

\* Mutant: the step met again is taken for one already reported.
MarkCyclic_NotItself(d) == cyclic' = cyclic \cup (Visiting \ {d})

\* visit meets a step that is being visited: everything on the stack is cyclic.
MarkCyclic(d) == cyclic' = cyclic \cup Visiting

\* The next dependency of the innermost call.
VisitDependency ==
    /\ phase = "cycles" /\ stack # <<>>
    /\ LET top == stack[Len(stack)]
           rest(d) == [stack EXCEPT ![Len(stack)].todo = @ \ {d}]
       IN \E d \in top.todo :
            \/ /\ Unavailable(d) \/ d \in visited
               /\ stack' = rest(d)
               /\ UNCHANGED cyclic
            \/ /\ ~Unavailable(d) /\ d \notin visited /\ d \in Visiting
               /\ MarkCyclic(d)
               /\ stack' = rest(d)
            \/ /\ ~Unavailable(d) /\ d \notin visited /\ d \notin Visiting
               /\ stack' = Append(rest(d), Call(d))
               /\ UNCHANGED cyclic
    /\ UNCHANGED <<plan, unavailable, phase, cursor, changed, visited>>

\* The innermost call returns: its step is no longer visiting but visited.
VisitReturns ==
    /\ phase = "cycles" /\ stack # <<>>
    /\ LET top == stack[Len(stack)] IN
        /\ top.todo = {}
        /\ visited' = visited \cup {top.step}
        /\ stack' = SubSeq(stack, 1, Len(stack) - 1)
    /\ UNCHANGED <<plan, unavailable, phase, cursor, changed, cyclic>>

\* setdefault for every cyclic step: the last write to `unavailable`.
AddCyclic ==
    /\ phase = "cycles" /\ stack = <<>> /\ cursor > Length
    /\ phase' = "done"
    /\ unavailable' = [s \in Step |-> IF s \in cyclic /\ ~Unavailable(s)
                                      THEN "cycle" ELSE unavailable[s]]
    /\ UNCHANGED <<plan, cursor, changed, stack, visited, cyclic>>

\* What the function returns: a named step that is unavailable is left out, unless it
\* is itself blocked (the caller counts those); the caller executes the unblocked rest.
Skipped  == {s \in named \ blocked : Unavailable(s)}
Executed == Step \ (Skipped \cup blocked)

-----------------------------------------------------------------------------

Init ==
    /\ named \in SUBSET Step
    /\ blocked \in SUBSET Step
    /\ dependsOn \in [Step -> SUBSET (named \cup {Absent})]
    /\ unavailable = [s \in Step |-> IF s \in named \cap blocked THEN "blocked" ELSE "none"]
    /\ phase = "propagate" /\ cursor = 1 /\ changed = FALSE
    /\ stack = <<>> /\ visited = {} /\ cyclic = {}

Next == Propagate \/ EndRound \/ VisitNext \/ VisitDependency \/ VisitReturns \/ AddCyclic

Spec == Init /\ [][Next]_vars /\ WF_vars(Next)

-----------------------------------------------------------------------------
(* Properties *)

\* Every variable has its type; a call stack never holds a step twice.
TypeOK ==
    /\ named \subseteq Step /\ blocked \subseteq Step
    /\ dependsOn \in [Step -> SUBSET (Step \cup {Absent})]
    /\ unavailable \in [Step -> Reason \cup {"none"}]
    /\ phase \in {"propagate", "cycles", "done"}
    /\ cursor \in 1..(Length + 1)
    /\ changed \in BOOLEAN
    /\ visited \subseteq Step /\ cyclic \subseteq Step
    /\ \A i \in DOMAIN stack : stack[i].step \in Step /\ stack[i].todo \subseteq Step
    /\ Cardinality(Visiting) = Len(stack)

\* The named steps that no chain of dependencies condemns: the largest set of unblocked
\* named steps that is closed under dependencies.
Sound(S) == \A s \in S : s \notin blocked /\ dependsOn[s] \subseteq S
Runnable == UNION {S \in SUBSET named : Sound(S)}

\* There is a cycle among the named steps of S.
HasCycle(S) == \E C \in SUBSET S : C # {} /\ \A s \in C : dependsOn[s] \cap C # {}

\* Reference definition.  When the steps that could run hold no cycle, exactly those are
\* executed, whatever the order of the list (and no step is dropped without cause).
ExecutesTheRunnable ==
    phase = "done" /\ ~HasCycle(Runnable) =>
        /\ Executed \cap named = Runnable
        /\ Skipped = named \ (blocked \cup Runnable)

\* No two steps that are executed wait for each other, directly or in a longer circle:
\* whichever step the search enters a cycle by, the cycle is cut.
NoCycleRuns == phase = "done" => ~HasCycle(Executed \cap named)

\* The steps a chain of dependencies leads to from s.
Reach(s) ==
    {t \in Step : \A S \in SUBSET Step :
        (\A u \in S \cup {s} : dependsOn[u] \cap Step \subseteq S) => t \in S}

\* The reason a resident is shown tells the truth: "blocked" leads to a blocked step,
\* "skipped" to a step with a missing dependency, "cycle" to a cycle.
ReasonsTruthful == phase = "done" =>
    \A s \in named \ blocked :
        /\ unavailable[s] = "blocked" => Reach(s) \cap blocked # {}
        /\ unavailable[s] = "skipped" => \E t \in Reach(s) : unavailable[t] = "missing"
        /\ unavailable[s] = "cycle" => HasCycle(Reach(s) \cup {s})

\* The loops end: for every plan there is a result.
Terminates == <>(phase = "done")
=============================================================================
