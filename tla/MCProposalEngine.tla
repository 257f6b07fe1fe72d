-------------------------- MODULE MCProposalEngine --------------------------
(* An instance of ProposalEngine: two house-state contexts of one review   *)
(* group, two proposals of one learned identity, one semantic policy.      *)
EXTENDS ProposalEngine, TLC

CONSTANTS rich, coarse, learned, followup, policy, r1, r2

MCProposal == {rich, coarse, learned, followup, policy}
MCKeyOf == [p \in MCProposal |->
    CASE p = rich -> "rich context" [] p = coarse -> "coarse context"
      [] p \in {learned, followup} -> "reaction" [] p = policy -> "rule"]
MCHouseKey   == {"rich context", "coarse context"}
MCLearnedKey == {"reaction"}
MCRuleKey    == {"rule"}
MCReview     == {r1, r2}
Reviewers    == Permutations(MCReview)
MCRank       == [k \in MCHouseKey |-> IF k = "rich context" THEN 2 ELSE 1]

=============================================================================
