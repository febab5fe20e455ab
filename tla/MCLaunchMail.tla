----------------------------- MODULE MCLaunchMail -----------------------------
(***************************************************************************)
(* Two addresses and a limit of one, so that one refused address fills a   *)
(* whole batch; two visitors at once; two invocations of the mail-out.     *)
(***************************************************************************)
EXTENDS LaunchMail, TLC

CONSTANTS ann, bob, r1, r2, b1, b2

MCAddress == {ann, bob}
MCRun == {r1, r2}
MCBatch == {b1, b2}

\* For the safety properties: members of each set differ only in their name.
MCSymmetry == Permutations(MCAddress) \cup Permutations(MCRun) \cup Permutations(MCBatch)
=============================================================================
