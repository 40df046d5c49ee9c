----------------------------- MODULE CacheFile ------------------------------
(***************************************************************************)
(* internal/fileio/atomic.go, which replaces a file by way of a temporary  *)
(* one, and the cache of registry/cache.go, which uses it without a flush: *)
(* writers of one path, in one process or in several, a process that is    *)
(* killed, and a machine that crashes and comes back with what was on its  *)
(* disk. With "cache" the writers are calls of fetchDocument for one       *)
(* digest, else of WriteFile.                                              *)
(*                                                                         *)
(* What a write has put in a temporary file is none, part or all of it.    *)
(***************************************************************************)
EXTENDS Integers, Sequences

CONSTANTS
  Writer,
  Uses,        \* \subseteq {"cache", "file"}
  MaxFiles,    \* bound: temporary files ever created
  MaxCrashes   \* bound

\* What the constants may be.
Bounds == Uses \subseteq {"cache", "file"} /\ MaxFiles \in Nat /\ MaxCrashes \in Nat

VARIABLES
  use,
  pc, file,    \* what each writer is doing, and with which temporary file
  got,         \* what a call of fetchDocument returns
  created,     \* how many files were created: 1, 2, ...
  temporary,   \* those that have a name of their own
  written,     \* how much of each was written
  flushed,     \* how much of that is sure to be on disk
  path,        \* the file the path names, Old, or Absent
  onDisk,      \* what it may name after a crash
  crashes

writers == <<pc, file, got>>
files   == <<created, temporary, written, flushed>>
vars    == <<use, writers, files, path, onDisk, crashes>>

Absent == -1
Old    == 0
Files  == 1..created

Amount == {"none", "part", "all"}

UpTo(amount) == CASE amount = "none" -> {"none"}
                  [] amount = "part" -> {"none", "part"}
                  [] amount = "all"  -> Amount

\* What was there before is complete.
Init ==
  /\ use \in Uses
  /\ pc = [w \in Writer |-> "idle"]
  /\ file = [w \in Writer |-> Absent]
  /\ got = [w \in Writer |-> "none"]
  /\ created = 0 /\ temporary = {}
  /\ written = <<>> /\ flushed = <<>>
  /\ path \in {Old, Absent} /\ onDisk = {path}
  /\ crashes = 0

Become(w, state) == pc' = [pc EXCEPT ![w] = state]

Content == IF path = Absent THEN "none" ELSE IF path = Old THEN "all" ELSE written[path]

-----------------------------------------------------------------------------
(* fetchDocument *)

\* A cached document is used if it hashes to its digest.
Get(w) ==
  /\ use = "cache" /\ pc[w] = "idle"
  /\ IF Content = "all"
     THEN Become(w, "returned") /\ got' = [got EXCEPT ![w] = "all"]
     ELSE Become(w, "downloading") /\ UNCHANGED got
  /\ UNCHANGED <<use, file, files, path, onDisk, crashes>>

Download(w) ==
  /\ pc[w] = "downloading"
  /\ \/ Become(w, "creating") /\ got' = [got EXCEPT ![w] = "all"]
     \/ Become(w, "failed") /\ UNCHANGED got
  /\ UNCHANGED <<use, file, files, path, onDisk, crashes>>

\* WriteFile, with what its caller wants written.
WriteFile(w) ==
  /\ use = "file" /\ pc[w] = "idle"
  /\ Become(w, "creating")
  /\ UNCHANGED <<use, file, got, files, path, onDisk, crashes>>

-----------------------------------------------------------------------------
(* write *)

CreateTemp(w) ==
  /\ pc[w] = "creating" /\ created < MaxFiles
  /\ created' = created + 1
  /\ file' = [file EXCEPT ![w] = created']
  /\ temporary' = temporary \cup {created'}
  /\ written' = Append(written, "none") /\ flushed' = Append(flushed, "none")
  /\ Become(w, "writing")
  /\ UNCHANGED <<use, got, path, onDisk, crashes>>

\* Mutant of Write: no file is flushed.
WriteNoSync(w) ==
  /\ pc[w] = "writing"
  /\ \E amount \in Amount :
       /\ written' = [written EXCEPT ![file[w]] = amount]
       /\ Become(w, IF amount = "all" THEN "renaming" ELSE "failing")
  /\ UNCHANGED <<use, file, got, created, temporary, flushed, path, onDisk, crashes>>

\* A write may stop halfway, as when the disk is full. Only WriteFile flushes.
Write(w) ==
  /\ pc[w] = "writing"
  /\ \E amount \in Amount :
       /\ written' = [written EXCEPT ![file[w]] = amount]
       /\ Become(w, CASE amount # "all"  -> "failing"
                      [] amount = "all" /\ use = "file"  -> "flushing"
                      [] amount = "all" /\ use = "cache" -> "renaming")
  /\ UNCHANGED <<use, file, got, created, temporary, flushed, path, onDisk, crashes>>

Flush(w) ==
  /\ pc[w] = "flushing"
  /\ flushed' = [flushed EXCEPT ![file[w]] = written[file[w]]]
  /\ Become(w, "renaming")
  /\ UNCHANGED <<use, file, got, created, temporary, written, path, onDisk, crashes>>

\* A cached document is returned whether or not it could be stored.
Done == IF use = "cache" THEN "returned" ELSE "failed"

\* Any other call may fail, too: the Lstat and the creation, Chmod, Sync, Close
\* and the rename.
Falter(w) ==
  /\ \/ pc[w] = "creating" /\ Become(w, Done)
     \/ pc[w] \in {"flushing", "renaming"} /\ Become(w, "failing")
  /\ UNCHANGED <<use, file, got, files, path, onDisk, crashes>>

\* The deferred removal of the temporary file (taken to succeed: its error is
\* ignored).
CleanUp(w) ==
  /\ pc[w] = "failing"
  /\ temporary' = temporary \ {file[w]}
  /\ Become(w, Done)
  /\ UNCHANGED <<use, file, got, created, written, flushed, path, onDisk, crashes>>

\* The directory reaches the disk at any time after the rename.
Rename(w) ==
  /\ pc[w] = "renaming"
  /\ path' = file[w]
  /\ onDisk' = onDisk \cup {path'}
  /\ temporary' = temporary \ {file[w]}
  /\ Become(w, "returned")
  /\ UNCHANGED <<use, file, got, created, written, flushed, crashes>>

Put(w) == CreateTemp(w) \/ Write(w) \/ Flush(w) \/ Falter(w) \/ CleanUp(w) \/ Rename(w)

-----------------------------------------------------------------------------
(* Crashes; whoever was writing, or had, may be run again *)

Kill(w) ==
  /\ crashes < MaxCrashes
  /\ crashes' = crashes + 1
  /\ Become(w, "idle")
  /\ file' = [file EXCEPT ![w] = Absent] /\ got' = [got EXCEPT ![w] = "none"]
  /\ UNCHANGED <<use, files, path, onDisk>>

\* Of what was not flushed, any beginning may be on disk.
Crash ==
  /\ crashes < MaxCrashes
  /\ crashes' = crashes + 1
  /\ pc' = [w \in Writer |-> "idle"]
  /\ file' = [w \in Writer |-> Absent] /\ got' = [w \in Writer |-> "none"]
  /\ path' \in onDisk /\ onDisk' = {path'}
  /\ written' \in {left \in [Files -> Amount] :
                     \A f \in Files : left[f] \in UpTo(written[f]) /\ flushed[f] \in UpTo(left[f])}
  /\ flushed' = written'
  /\ UNCHANGED <<use, created, temporary>>

Next ==
  \/ \E w \in Writer : Get(w) \/ Download(w) \/ WriteFile(w) \/ Put(w) \/ Kill(w)
  \/ Crash

Spec == Init /\ [][Next]_vars

-----------------------------------------------------------------------------
(* Properties *)

States == {"idle", "downloading", "creating", "writing", "flushing", "renaming", "failing",
           "returned", "failed"}

\* No two writers share a temporary file.
WritersOK ==
  /\ pc \in [Writer -> States]
  /\ file \in [Writer -> Files \cup {Absent}] /\ got \in [Writer -> Amount]
  /\ \A v, w \in Writer : v # w /\ file[v] = file[w] => file[v] = Absent

FilesOK ==
  /\ temporary \subseteq Files
  /\ written \in [Files -> Amount] /\ flushed \in [Files -> Amount]
  /\ onDisk \subseteq Files \cup {Old, Absent} /\ path \in onDisk

TypeOK ==
  /\ use \in Uses
  /\ created \in 0..MaxFiles /\ crashes \in 0..MaxCrashes
  /\ WritersOK /\ FilesOK

Torn == path # Absent /\ Content # "all"

\* "A failure leaves the previous file intact", a crash included: whatever the
\* disk held then, the path has what was there before or all that some writer
\* wrote, when the file is flushed before it is renamed.
FlushedSurvives == use = "file" => ~Torn

\* cache.go, Put: "every read is verified against the digest, so a document torn
\* by a crash is merely downloaded again": what a call returns is the whole
\* document, found or downloaded, stored or not.
ServesWhole == use = "cache" => \A w \in Writer : pc[w] = "returned" => got[w] = "all"

=============================================================================
