-------------------------- MODULE MCGeographyImport --------------------------
(***************************************************************************)
(* GeographyImport for TLC: two states, each with a local government of    *)
(* one name, each with a ward of one name; the first also has the empty    *)
(* second ward of that name that is quarantined.  Pages of one row, so a   *)
(* table of two rows takes three requests to read.                         *)
(***************************************************************************)
EXTENDS GeographyImport, TLC

TheStates == <<"kogi", "plateau">>
TheLgas == ("kogi" :> {"l1"}) @@ ("plateau" :> {"l2"})
TheWards == ("l1" :> {"w1", "w8810"}) @@ ("l2" :> {"w2"})
ThePus == ("w1" :> {"p1"}) @@ ("w8810" :> {}) @@ ("w2" :> {"p2"})
TheWrapped == {"p1"}
TheNames == [x \in {"l1", "l2"} |-> "BASSA"] @@ [x \in {"w1", "w8810", "w2"} |-> "CENTRAL"]
TheCanonical == ("BASSA" :> "bassa") @@ ("BASSA " :> "bassa") @@ ("CENTRAL" :> "central")
TheCodes == [p \in {"p1", "p2"} |-> "001"]
TheQuarantined == {"w8810"}
TheLegacy == << <<"plateau", "BASSA ">> >>
EitherImporter == Permutations(Importers)
=============================================================================
