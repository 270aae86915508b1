--------------------------- MODULE MCReplacement ---------------------------
(* Values for model checking Replacement. *)
EXTENDS Replacement

\* Two rows; the second job of a file is its retry.
FileOfJob == [j \in Jobs |-> IF j = "avi1" THEN "avi" ELSE "mkv"]

\* The library holds whole files only, and no original is lost (Replacement).
FilesAreKept == LibraryFilesAreWhole /\ OriginalsAreKept

\* A gap has its note, and is closed in the end (Replacement).
GapsHeal == []GapsAreNoted /\ GapsClose
=============================================================================
