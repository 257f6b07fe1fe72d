-------------------------- MODULE MCOutcomeTracker --------------------------
(* One reaction that fires, may be disabled and is expected back twice, and two           *)
(* evaluations that may overlap.  The window ends one timeout before the clock does.     *)
EXTENDS OutcomeTracker

MCWindow == {0, 1}

=============================================================================
