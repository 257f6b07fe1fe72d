---------------------------- MODULE MCHouseState ----------------------------
(* An instance of HouseState without guests, and with chargers that matter  *)
(* only where the learned signal is absent.                                 *)
EXTENDS HouseState

MCSignals ==
    {s \in Signal : /\ ~s.guest
                    /\ s.learned \in {NoMode, "sleeping"}
                    /\ s.learned # NoMode => s.home /\ ~s.vacation
                    /\ s.guarded => ~s.home /\ ~s.vacation}
MCCheckpoint == {"sleeping"}
MCOverride   == {"relax"}

=============================================================================
