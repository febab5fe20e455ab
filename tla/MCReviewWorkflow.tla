-------------------------- MODULE MCReviewWorkflow --------------------------
(* A campaign of four: its owner, a manager, the member who drafts (staff,  *)
(* or a manager too) and a staff member who may be given the language.     *)
EXTENDS ReviewWorkflow

CONSTANTS owner, manager, drafter, reader

MCPerson == {owner, manager, drafter, reader}

\* A campaign of three, whose reader has to be given the language.
MCTeam == {owner, drafter, reader}

MCRole == [p \in Person |->
    CASE p = owner -> "owner" [] p = manager -> "manager" [] OTHER -> "staff"]

\* The drafter has all the authority to review and approve but is the drafter.
MCManagingDrafter == [MCRole EXCEPT ![drafter] = "manager"]
=============================================================================
