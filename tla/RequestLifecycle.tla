-------------------------- MODULE RequestLifecycle --------------------------
(***************************************************************************)
(* What a resident is promised about one runtime confirmation request,     *)
(* whatever the registry, the timers and the notification tasks do to keep *)
(* the promise: a request is decided once; its stored plan is executed at  *)
(* most once, and only because of an approval or of an `on_timeout: apply` *)
(* deadline; a decided request never changes again.                        *)
(***************************************************************************)
EXTENDS Integers

CONSTANT Request

VARIABLES phase,  \* [Request -> Phase]
          runs    \* [Request -> Nat], how often the stored plan was executed

vars == <<phase, runs>>

\* The statuses of RuntimeRequestStatus that _async_process_apply_trigger is called with.
Trigger == {"approved", "timeout_applied"}

\* TERMINAL_REQUEST_STATUSES.
Terminal == Trigger \cup {"dismissed", "timeout_skipped", "cancelled", "failed"}

\* "unborn" before the request is created, "running" while its plan is being executed.
Phase == Terminal \cup {"unborn", "pending", "running"}

Init == /\ phase = [r \in Request |-> "unborn"]
        /\ runs = [r \in Request |-> 0]

Move(r, from, to) == /\ phase[r] = from
                     /\ phase' = [phase EXCEPT ![r] = to]

Create(r) == Move(r, "unborn", "pending") /\ UNCHANGED runs

\* Decided with nothing executed: an answer, a deadline, a failed delivery, a
\* reaction that is gone, or a plan of which every step is blocked.
Close(r) == /\ \E s \in Terminal \ Trigger : Move(r, "pending", s)
            /\ UNCHANGED runs

\* The plan starts: the only step that counts an execution, and it leaves "pending".
Run(r) == /\ \E s \in Trigger \cup {"running", "failed"} : Move(r, "pending", s)
          /\ runs' = [runs EXCEPT ![r] = @ + 1]

Finish(r) == /\ \E s \in Trigger \cup {"failed"} : Move(r, "running", s)
             /\ UNCHANGED runs

Next == \E r \in Request : Create(r) \/ Close(r) \/ Run(r) \/ Finish(r)

Spec == Init /\ [][Next]_vars
=============================================================================
