----------------------- MODULE MCResponsibilityWrites -----------------------
(* A manager, two staff members and the smallest geography that delegates.  *)
EXTENDS ResponsibilityWrites, TLC

CONSTANTS manager, ada, ben, lga, ward, unit

Sessions == Permutations(Session)

MCLevel == [s \in Slot |->
    CASE s = lga -> "lga" [] s = ward -> "ward" [] OTHER -> "polling_unit"]

MCParent == [s \in Slot |->
    CASE s = ward /\ lga \in Slot -> lga [] s = unit /\ ward \in Slot -> ward [] OTHER -> NoSlot]

\* ada was invited to coordinate the LGA and later, under the same account, the ward.
MCGranted == {<<ada, s>> : s \in Slot \cap {lga, ward}}
=============================================================================
