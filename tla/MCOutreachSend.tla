--------------------------- MODULE MCOutreachSend ---------------------------
(***************************************************************************)
(* One key: no action reads or writes the rows of two keys. Three runs let *)
(* a sender, its retry and an operator, or two operators, overlap.         *)
(***************************************************************************)
EXTENDS OutreachSend, TLC

CONSTANTS k1, r1, r2, r3

MCKey == {k1}
MCRequest == {r1, r2, r3}

\* Runs differ only in their name.
MCSymmetry == Permutations(MCRequest)
=============================================================================
