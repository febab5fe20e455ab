------------------------ MODULE MCReviewInterleaved ------------------------
(* The smallest campaign that can approve, with two calls in flight; its    *)
(* drafter manages it too, and may revoke.                                  *)
EXTENDS ReviewInterleaved, TLC

CONSTANTS owner, manager, drafter

CallSymmetry == Permutations(Session)

MCPerson == {owner, manager, drafter}

MCRole == [p \in MCPerson |-> IF p = owner THEN "owner" ELSE "manager"]
=============================================================================
