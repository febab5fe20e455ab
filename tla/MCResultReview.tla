--------------------------- MODULE MCResultReview ---------------------------
(* Two fields: OCR makes a figure of each, or of one; that one may have     *)
(* been typed at the capture. One member: its screen may show a read of any *)
(* age at any time, its panel is left and opened again, and what it         *)
(* approved arrives when its panel is long about something else, so that    *)
(* whatever a second panel could send this one can.                         *)
EXTENDS ResultReview

CONSTANTS a, votes, spoilt, v1, v2

Of(f, v) == [field |-> f, value |-> v]
MCReadings == {<<Of(spoilt, v2), Of(votes, v1)>>, <<Of(votes, v2)>>}
MCCaptured == {<<>>, <<Of(votes, v1)>>}
=============================================================================
