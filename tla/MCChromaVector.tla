--------------------------- MODULE MCChromaVector ---------------------------
(* Small instance of ChromaVector for TLC.                                 *)
EXTENDS ChromaVector

\* A lease can lapse only under a live holder in the runs that say so.
MCLeaseHolds == FALSE
MCLeaseLapses == TRUE
=============================================================================
