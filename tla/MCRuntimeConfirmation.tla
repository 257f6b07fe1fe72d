----------------------- MODULE MCRuntimeConfirmation -----------------------
(* Small instances of RuntimeConfirmation. *)
EXTENDS RuntimeConfirmation, TLC

CONSTANTS r1, r2, r3, ra

\* The reaction declines, or applies, at the deadline.
OnTimeoutSkip  == ra :> "skip"
OnTimeoutApply == ra :> "apply"

\* Request ids are interchangeable: no definition names one.
RequestSymmetry == Permutations(Request)

\* An options flow or a reset takes the place of the third request and of the second day.
FewerWithVisit ==
    visits > 0 => today = 1 /\ Cardinality({r \in Request : status[r] # "unborn"}) <= 2

=============================================================================
