--------------------------- MODULE MCChromaSearch ---------------------------
(* Small instance of ChromaSearch for TLC: similarities in tenths.         *)
EXTENDS ChromaSearch

MCUnit == 10
\* A row exactly at the threshold (score 0 under l2 for cosine 0.5) and
\* ties between rows.
MCSims == {5, 8, 10}
MCTopKs == {1, 2}
MCThresholds == {0, 5}
=============================================================================
