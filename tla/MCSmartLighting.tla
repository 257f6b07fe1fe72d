-------------------------- MODULE MCSmartLighting --------------------------
(* An instance of SmartLighting with two profiles.                        *)
EXTENDS SmartLighting, TLC

CONSTANTS day, night

\* The light is one of the day's; the night has its own.
TwoProfiles == {day, night}
TwoDrive    == day :> "on" @@ night :> "none"

\* Some property still promises something: each of the three gives up after these mishaps.
StillPromised == mishaps \cap {"overtaken", "crossed", "late", "recovery"} = {}

=============================================================================
