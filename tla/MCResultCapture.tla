--------------------------- MODULE MCResultCapture ---------------------------
(* Two photos and four ids: a photo replaced while it is uploaded, retried  *)
(* and prepared, and a second result after the first.                       *)
EXTENDS ResultCapture, TLC

CONSTANTS sheet, retake

MCPhoto == {sheet, retake}
MCSymmetry == Permutations(MCPhoto)
=============================================================================
