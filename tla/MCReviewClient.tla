------------------------ MODULE MCReviewClient ------------------------
(* The smallest campaign that can approve, seen from its three screens.     *)
EXTENDS ReviewClient

CONSTANTS owner, manager, drafter

MCPerson == {owner, manager, drafter}

MCRole == [p \in MCPerson |->
    CASE p = owner -> "owner" [] p = manager -> "manager" [] OTHER -> "staff"]
=============================================================================
