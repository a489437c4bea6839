--------------------------- MODULE MCDownloadBatch ---------------------------
(* Instances of DownloadBatch in which all exports ask for the same result. *)
EXTENDS DownloadBatch

CONSTANTS j1, j2

SameResult == [j \in Job |-> "result"]
=============================================================================
