----------------------------- MODULE MCScopedLog -----------------------------
(* An owner, a staff member and a field agent without an account; an LGA    *)
(* with a ward, its polling unit, and a ward beside it. A query of the      *)
(* geography returns one row, so one of the wards is lost to the LGA's.     *)
EXTENDS ScopedLog

CONSTANTS owner, ada, fay, seat, lga, ward, unit, other

MCLevel == [s \in Slot |->
    CASE s = seat -> "constituency" [] s = lga -> "lga"
      [] s \in {ward, other} -> "ward" [] OTHER -> "polling_unit"]

MCParent == [s \in Slot |->
    CASE s \in {ward, other} -> lga [] s = unit -> ward [] OTHER -> NoSlot]
=============================================================================
