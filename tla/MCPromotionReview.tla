-------------------------- MODULE MCPromotionReview --------------------------
(* Small instances of PromotionReview. *)
EXTENDS PromotionReview

CONSTANTS ra, rb

\* Two slots, the second twice as long: enough to tell the first dismissal from a later one.
CooldownTwoSlots == <<2, 4>>
=============================================================================
