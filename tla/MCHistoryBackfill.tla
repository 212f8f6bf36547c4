------------------------- MODULE MCHistoryBackfill -------------------------
(* Instances of HistoryBackfill for TLC.                                   *)
EXTENDS HistoryBackfill, TLC

CONSTANTS w1, w2

Spans == <<2, 0>>
=============================================================================
