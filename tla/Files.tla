-------------------------------- MODULE Files --------------------------------
(***************************************************************************)
(* What a download may leave behind: a listing with its group of downloads *)
(* (FetchManifests), and files written beside one another and across       *)
(* crashes (CacheFile), where the documents go.                            *)
(***************************************************************************)
EXTENDS FetchManifests

CONSTANTS Writer, Uses, MaxFiles, MaxCrashes

VARIABLES use, pc, file, got, created, temporary, written, flushed, path, onDisk, crashes

fvars == <<use, pc, file, got, created, temporary, written, flushed, path, onDisk, crashes>>

C == INSTANCE CacheFile

ASSUME FileBounds == C!Bounds

\* A call reports an interruption, or that the repository is gone, only if so.
EndsAsItDid == NoEcho /\ GoneIsGone

\* No reader gets part of a document or output file.
NothingIsTorn == C!FlushedSurvives /\ C!ServesWhole
=============================================================================
