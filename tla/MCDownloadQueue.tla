--------------------------- MODULE MCDownloadQueue ---------------------------
(* DownloadQueue with a job of two files and a job of one. *)
EXTENDS DownloadQueue

MCFilesOf == [j \in Jobs |-> IF j = "two" THEN Files ELSE {"f"}]
=============================================================================
