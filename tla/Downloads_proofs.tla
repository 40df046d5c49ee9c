-------------------------- MODULE Downloads_proofs --------------------------
(***************************************************************************)
(* What the downloads guarantee: of a listing with its group of downloads  *)
(* (FetchManifests), for every number of manifests and every limit of the  *)
(* group; of the files they are stored in (CacheFile), for any writers and *)
(* crashes; and of what their requests share (GhcrTokens, GhcrThrottle,    *)
(* AcrRequests), for any number of requests.                               *)
(***************************************************************************)
EXTENDS Files, Requests, FiniteSetTheorems, SequenceTheorems, WellFoundedInduction, TLAPS

-----------------------------------------------------------------------------
(* FetchManifests *)

Starting == IF lister = "starting" THEN {next} ELSE {}

\* What was listed has a download, or waits for a place in the group.
ListInv ==
  /\ IsFiniteSet(seen)
  /\ seen = {d \in Digest : download[d] # "unlisted"} \cup Starting
  /\ \A d \in Starting : download[d] = "unlisted"
  /\ listErr # "changed" => Cardinality(seen) = listed
  /\ lister \in {"listing", "starting"} => listErr = NoError

\* A download that failed is the group's error, or came after it.
GroupInv ==
  /\ \A d \in Digest : download[d] = "missing" => ignoreMissing
  /\ \A d \in Digest : download[d] = "failed" => groupErr # NoError
  /\ groupErr # NoError => cancelled

EndInv ==
  /\ lister = "done" <=> result # "running"
  /\ lister = "waiting" => listErr # NoError
  /\ lister = "done" => Downloading = {}
  /\ result = "contents" => listErr = NoError /\ groupErr = NoError

\* Every cancellation but the user's goes back to a failure, so the first error
\* is never a cancellation: at most one of the two is the other's echo.
EchoInv ==
  /\ cancelled => user \/ groupErr # NoError \/ (lister \in {"waiting", "done"} /\ listErr # NoError)
  /\ listErr = "canceled" => user \/ groupErr \notin {NoError, "canceled"}
  /\ groupErr = "canceled" => user \/ listErr \notin {NoError, "canceled"}
  /\ NoEcho

GoneInv ==
  /\ groupErr = "notfound" => ~ignoreMissing
  /\ listErr = "notfound" => gone \/ groupErr = "notfound"
  /\ GoneIsGone

IInv == TypeOK /\ ListInv /\ GroupInv /\ EndInv /\ EchoInv /\ GoneInv

\* A call begins with nothing listed.
LEMMA InitInv == Init => IInv
<1> SUFFICES ASSUME Init PROVE IInv
  OBVIOUS
<1>1. Downloading = {} /\ Starting = {}
  BY DEF Init, Downloading, Starting
<1>2. IsFiniteSet({}) /\ Cardinality({}) = 0
  BY FS_EmptySet
<1>3. TypeOK
  <2>1. FlagsOK
    BY OptionsKnown DEF Init, FlagsOK
  <2>2. StatesOK
    BY NoDigestIsNone DEF Init, StatesOK, Failures, NoError
  <2> QED
    BY <1>1, <1>2, <2>1, <2>2, ListedNatural, LimitPositive DEF Init, TypeOK
<1>4. ListInv
  BY <1>1, <1>2 DEF Init, ListInv
<1> QED
  BY <1>1, <1>3, <1>4 DEF Init, IInv, GroupInv, EndInv, EchoInv, GoneInv, NoEcho, GoneIsGone, NoError

\* The group holds finitely many downloads.
LEMMA GroupFinite ==
  ASSUME IInv
  PROVE  IsFiniteSet(Downloading) /\ Cardinality(Downloading) \in Nat
<1>1. Downloading \subseteq seen
  BY DEF IInv, ListInv, Downloading
<1> QED
  BY <1>1, FS_Subset, FS_CardinalityType DEF IInv, ListInv

\* A manifest is counted once, or the repository changes.
LEMMA ListStep ==
  ASSUME IInv, NEW d \in Digest, List(d)
  PROVE  IInv'
<1> USE DEF IInv
<1>1. Downloading' = Downloading
  BY DEF List, Downloading
<1>2. CASE listErr' = "changed" /\ lister' = "listed" /\ next' = next /\ seen' = seen
  <2>1. TypeOK'
    <3>1. FlagsOK'
      BY DEF TypeOK, FlagsOK, List
    <3>2. StatesOK'
      BY <1>2 DEF TypeOK, StatesOK, List, Failures
    <3> QED
      BY <1>1, <3>1, <3>2, ListedNatural DEF TypeOK, List
  <2>2. ListInv'
    BY <1>2 DEF TypeOK, StatesOK, List, ListInv, Starting
  <2>3. GroupInv' /\ EndInv'
    BY <1>1, <1>2 DEF List, GroupInv, EndInv, NoError
  <2>4. EchoInv' /\ GoneInv'
    BY <1>2 DEF List, ListInv, EchoInv, GoneInv, NoEcho, GoneIsGone, NoError
  <2> QED
    BY <2>1, <2>2, <2>3, <2>4
<1>3. CASE d \notin seen /\ lister' = "starting" /\ next' = d /\ seen' = seen \cup {d} /\ UNCHANGED listErr
  <2>1. TypeOK'
    <3>1. FlagsOK'
      BY DEF TypeOK, FlagsOK, List
    <3>2. StatesOK'
      BY <1>3, NoDigestIsNone DEF TypeOK, StatesOK, List
    <3> QED
      BY <1>1, <3>1, <3>2, ListedNatural DEF TypeOK, List
  <2>2. Cardinality(seen') = Cardinality(seen) + 1 /\ IsFiniteSet(seen')
    BY <1>3, FS_AddElement DEF ListInv
  <2>3. ListInv'
    BY <1>3, <2>2 DEF TypeOK, StatesOK, List, ListInv, Starting
  <2>4. GroupInv' /\ EndInv'
    BY <1>1, <1>3 DEF List, GroupInv, EndInv
  <2>5. EchoInv' /\ GoneInv'
    BY <1>3 DEF List, ListInv, EchoInv, GoneInv, NoEcho, GoneIsGone, NoError
  <2> QED
    BY <2>1, <2>3, <2>4, <2>5
<1> QED
  BY <1>2, <1>3 DEF List, StopListing

\* A manifest that gets a place in the group was counted when it was listed.
LEMMA GoStep ==
  ASSUME IInv, Go
  PROVE  IInv'
<1> USE DEF IInv
<1>1. next \in Digest /\ download[next] = "unlisted" /\ next \notin Downloading
  BY NoDigestIsNone DEF Go, TypeOK, StatesOK, ListInv, Starting, Downloading
<1>2. Downloading' = Downloading \cup {next}
  BY <1>1 DEF Go, Downloading, TypeOK, StatesOK
<1>3. TypeOK'
  <2>1. Cardinality(Downloading') <= Limit
    BY <1>1, <1>2, GroupFinite, FS_AddElement, LimitPositive DEF Go, HasRoom
  <2>2. FlagsOK'
    BY DEF TypeOK, FlagsOK, Go
  <2>3. StatesOK'
    BY <1>1 DEF TypeOK, StatesOK, Go
  <2> QED
    BY <2>1, <2>2, <2>3 DEF TypeOK, Go
<1>4. ListInv'
  BY <1>1 DEF TypeOK, StatesOK, Go, ListInv, Starting
<1>5. GroupInv' /\ EndInv'
  BY <1>1 DEF TypeOK, StatesOK, Go, GroupInv, EndInv
<1>6. EchoInv' /\ GoneInv'
  BY DEF Go, EchoInv, GoneInv, NoEcho, GoneIsGone
<1> QED
  BY <1>3, <1>4, <1>5, <1>6

\* What changes neither the listing nor a download keeps the types and what
\* was listed.
LEMMA Unlisted ==
  ASSUME IInv, UNCHANGED <<seen, listed, next, download, ignoreMissing>>, FlagsOK',
         listErr' \in Failures \cup {NoError}, groupErr' \in Failures \cup {NoError},
         result' \in {"running", "contents", "gone"} \cup Failures,
         lister' \in {"listing", "listed", "waiting", "done"},
         lister # "starting",
         lister' = "listing" => listErr' = NoError
  PROVE  TypeOK' /\ (listErr' = "changed" \/ listErr # "changed" => ListInv') /\ Downloading' = Downloading
<1> USE DEF IInv
<1>1. Downloading' = Downloading
  BY DEF Downloading
<1>2. StatesOK'
  BY DEF TypeOK, StatesOK
<1>3. TypeOK'
  BY <1>1, <1>2 DEF TypeOK
<1>4. listErr' = "changed" \/ listErr # "changed" => ListInv'
  BY DEF ListInv, Starting
<1> QED
  BY <1>1, <1>3, <1>4

\* The listing ends with an error of its own, the cancellation, or its cause.
LEMMA EndListingStep ==
  ASSUME IInv, EndListing
  PROVE  IInv'
<1> USE DEF IInv
<1>1. PICK err \in Failures \cup {NoError} :
        /\ StopListing(err)
        /\ err = "canceled" => cancelled \/ groupErr = "canceled"
        /\ err = "notfound" => gone \/ groupErr = "notfound"
  BY DEF EndListing, TypeOK, StatesOK, Failures, NoError
<1>2. lister = "listing" /\ lister' = "listed" /\ listErr' = err /\ listErr = NoError
  BY <1>1 DEF EndListing, StopListing, ListInv
<1>3. FlagsOK'
  BY DEF EndListing, TypeOK, FlagsOK
<1>4. TypeOK' /\ ListInv' /\ Downloading' = Downloading
  BY <1>1, <1>2, <1>3, Unlisted DEF EndListing, TypeOK, StatesOK, NoError
<1>5. GroupInv' /\ EndInv'
  BY <1>2, <1>4 DEF EndListing, GroupInv, EndInv
<1>6. EchoInv' /\ GoneInv'
  BY <1>1, <1>2 DEF EndListing, GroupInv, EchoInv, GoneInv, NoEcho, GoneIsGone, NoError
<1> QED
  BY <1>4, <1>5, <1>6

\* The listing's error stops the downloads, and is not their echo.
LEMMA StopDownloadsStep ==
  ASSUME IInv, StopDownloads
  PROVE  IInv'
<1> USE DEF IInv
<1>1. FlagsOK'
  BY DEF StopDownloads, TypeOK, FlagsOK
<1>2. TypeOK' /\ ListInv' /\ Downloading' = Downloading
  BY <1>1, Unlisted DEF StopDownloads, TypeOK, StatesOK
<1>3. GroupInv' /\ EndInv'
  BY <1>2 DEF StopDownloads, GroupInv, EndInv
<1>4. EchoInv' /\ GoneInv'
  BY DEF StopDownloads, EchoInv, GoneInv, NoEcho, GoneIsGone
<1> QED
  BY <1>2, <1>3, <1>4

\* Of two errors the one that is no echo is returned.
LEMMA FailStep ==
  ASSUME IInv, Fail
  PROVE  IInv'
<1> USE DEF IInv
<1>1. FlagsOK'
  BY DEF Fail, TypeOK, FlagsOK
<1>2. result' \in {"gone"} \cup Failures
  BY DEF Fail, TypeOK, StatesOK, EndInv, NoError
<1>3. TypeOK' /\ ListInv' /\ Downloading' = Downloading
  BY <1>1, <1>2, Unlisted DEF Fail, TypeOK, StatesOK
<1>4. GroupInv' /\ EndInv'
  BY <1>2, <1>3 DEF Fail, GroupInv, EndInv, Failures
<1>5. EchoInv' /\ GoneInv'
  BY DEF Fail, EchoInv, GoneInv, EndInv, NoEcho, GoneIsGone, TypeOK, StatesOK, NoError, Failures
<1> QED
  BY <1>3, <1>4, <1>5

\* Contents are returned only without an error.
LEMMA FinishStep ==
  ASSUME IInv, Finish
  PROVE  IInv'
<1> USE DEF IInv
<1>1. FlagsOK'
  BY DEF Finish, TypeOK, FlagsOK
<1>2. result' \in {"contents"} \cup Failures
  BY DEF Finish, TypeOK, StatesOK, NoError, Failures
<1>3. TypeOK' /\ ListInv' /\ Downloading' = Downloading
  BY <1>1, <1>2, Unlisted DEF Finish, TypeOK, StatesOK
<1>4. GroupInv' /\ EndInv'
  BY <1>2, <1>3 DEF Finish, GroupInv, EndInv, TypeOK, StatesOK, NoError, Failures
<1>5. EchoInv' /\ GoneInv'
  BY DEF Finish, EchoInv, GoneInv, NoEcho, GoneIsGone, NoError, TypeOK, StatesOK, Failures
<1> QED
  BY <1>3, <1>4, <1>5

\* A download ends once, and only a failure touches the group's error.
LEMMA DownloadStep ==
  ASSUME IInv, NEW d \in Digest, Download(d)
  PROVE  IInv'
<1> USE DEF IInv
<1>1. PICK state \in {"fetched", "missing", "failed"} :
        /\ download[d] = "running" /\ Become(d, state)
        /\ state = "missing" => ignoreMissing
        /\ IF state = "failed"
           THEN \E err \in {"notfound", "unsupported", "other", "canceled"} :
                  /\ FailWith(d, err)
                  /\ err = "notfound" => ~ignoreMissing
                  /\ err = "canceled" => cancelled
           ELSE UNCHANGED <<groupErr, cancelled>>
  BY DEF Download, Fetched, NotServed, Failed, FailWith
<1>2. UNCHANGED <<ignoreMissing, gone, lister, next, seen, listed, listErr, user, result>>
  BY DEF Download, Fetched, NotServed, Failed
<1>3. download' = [download EXCEPT ![d] = state]
  BY <1>1 DEF Become
<1>4. d \in Downloading /\ Downloading' = Downloading \ {d}
  BY <1>1, <1>3 DEF Downloading, TypeOK, StatesOK
<1>5. result = "running" /\ lister # "done"
  BY <1>4 DEF EndInv
<1>6. cancelled' \in BOOLEAN /\ groupErr' \in Failures \cup {NoError}
  BY <1>1 DEF FailWith, TypeOK, StatesOK, FlagsOK, Failures
<1>7. TypeOK'
  <2>1. Cardinality(Downloading') <= Limit
    BY <1>4, GroupFinite, FS_RemoveElement, LimitPositive DEF TypeOK
  <2>2. FlagsOK' /\ StatesOK'
    BY <1>2, <1>3, <1>6 DEF TypeOK, FlagsOK, StatesOK
  <2> QED
    BY <1>2, <2>1, <2>2 DEF TypeOK
<1>8. ListInv'
  <2>1. Starting' = Starting
    BY <1>2 DEF Starting
  <2>2. \A e \in Digest : download'[e] = "unlisted" <=> download[e] = "unlisted"
    BY <1>1, <1>3 DEF TypeOK, StatesOK
  <2>3. Starting \subseteq Digest
    BY NoDigestIsNone DEF Starting, TypeOK, StatesOK
  <2> QED
    BY <1>2, <2>1, <2>2, <2>3 DEF ListInv
<1>9. GroupInv'
  BY <1>1, <1>2, <1>3 DEF FailWith, GroupInv, TypeOK, StatesOK, NoError
<1>10. EndInv'
  BY <1>2, <1>5 DEF EndInv
<1>11. EchoInv' /\ GoneInv'
  BY <1>1, <1>2, <1>5 DEF FailWith, EchoInv, GoneInv, GroupInv, NoEcho, GoneIsGone, NoError
<1> QED
  BY <1>7, <1>8, <1>9, <1>10, <1>11

\* Whichever step comes next, the invariant survives.
LEMMA NextInv == IInv /\ [Next]_vars => IInv'
<1> SUFFICES ASSUME IInv, [Next]_vars PROVE IInv'
  OBVIOUS
<1>1. CASE Interrupt
  <2>1. FlagsOK' /\ StatesOK' /\ Downloading' = Downloading
    BY <1>1 DEF Interrupt, IInv, TypeOK, FlagsOK, StatesOK, Downloading
  <2> QED
    BY <1>1, <2>1 DEF Interrupt, IInv, TypeOK, ListInv, Starting, GroupInv, EndInv, EchoInv, GoneInv,
       NoEcho, GoneIsGone
<1>2. CASE DeleteRepository
  <2>1. FlagsOK' /\ StatesOK' /\ Downloading' = Downloading
    BY <1>2 DEF DeleteRepository, IInv, TypeOK, FlagsOK, StatesOK, Downloading
  <2> QED
    BY <1>2, <2>1 DEF DeleteRepository, IInv, TypeOK, ListInv, Starting, GroupInv, EndInv, EchoInv,
       GoneInv, NoEcho, GoneIsGone
<1>3. CASE UNCHANGED vars
  <2>1. FlagsOK' /\ StatesOK' /\ Downloading' = Downloading
    BY <1>3 DEF vars, IInv, TypeOK, FlagsOK, StatesOK, Downloading
  <2> QED
    BY <1>3, <2>1 DEF vars, IInv, TypeOK, ListInv, Starting, GroupInv, EndInv, EchoInv, GoneInv,
       NoEcho, GoneIsGone
<1> QED
  BY <1>1, <1>2, <1>3, ListStep, GoStep, EndListingStep, StopDownloadsStep, FailStep, FinishStep,
     DownloadStep DEF Next, Lister

\* The invariant holds throughout.
THEOREM Invariance == Spec => []IInv
BY InitInv, NextInv, PTL DEF Spec

\* The variables of FetchRepositoryManifests keep their types, and the group its
\* limit.
THEOREM TypeCorrect == Spec => []TypeOK
<1>1. IInv => TypeOK
  BY DEF IInv
<1> QED
  BY Invariance, <1>1, PTL

\* Contents are returned only of a listing that came to its end, with every
\* manifest it reported, once each, downloaded or missing where that is ignored.
THEOREM ContentsAreAlwaysComplete == Spec => []ContentsAreComplete
<1>1. IInv => ContentsAreComplete
  <2> SUFFICES ASSUME IInv, result = "contents" PROVE ContentsAreComplete
    BY DEF ContentsAreComplete
  <2>1. listErr = NoError /\ groupErr = NoError /\ Downloading = {} /\ Starting = {}
    BY DEF IInv, EndInv, Starting
  <2>2. Cardinality(seen) = listed
    BY <2>1 DEF IInv, ListInv, NoError
  <2>3. ASSUME NEW d \in seen
        PROVE  download[d] = "fetched" \/ (download[d] = "missing" /\ ignoreMissing)
    BY <2>1 DEF IInv, ListInv, GroupInv, TypeOK, StatesOK, Downloading
  <2> QED
    BY <2>1, <2>2, <2>3 DEF ContentsAreComplete
<1> QED
  BY Invariance, <1>1, PTL

\* An interruption, or that the repository is gone, is reported only if so:
\* neither of the two loops takes the other's echo for the original error.
THEOREM AlwaysEndsAsItDid == Spec => []EndsAsItDid
<1>1. IInv => EndsAsItDid
  BY DEF IInv, EchoInv, GoneInv, EndsAsItDid
<1> QED
  BY Invariance, <1>1, PTL

-----------------------------------------------------------------------------
(* CacheFile *)

\* A temporary file is its writer's until it is renamed; one that is flushed is
\* written and on disk as a whole before that.
TemporaryInv ==
  \A w \in Writer : pc[w] \in {"writing", "flushing", "renaming"} =>
    /\ file[w] \in C!Files \ onDisk
    /\ pc[w] # "writing" => written[file[w]] = "all"
    /\ pc[w] = "renaming" /\ use = "file" => flushed[file[w]] = "all"

\* What the path may name after a crash is on disk as a whole.
DiskInv ==
  use = "file" => \A f \in onDisk \cap C!Files : written[f] = "all" /\ flushed[f] = "all"

\* A call has its document before it begins to store it.
ServeInv ==
  use = "cache" => \A w \in Writer :
    pc[w] \in {"creating", "writing", "flushing", "renaming", "failing", "returned"} => got[w] = "all"

CInv == C!TypeOK /\ TemporaryInv /\ DiskInv /\ ServeInv

\* At first there is no file but the old one, if any.
LEMMA CInitInv == C!Init => CInv
<1> SUFFICES ASSUME C!Init PROVE CInv
  OBVIOUS
<1>1. C!Files = {} /\ created = 0
  BY DEF C!Init, C!Files
<1>2. C!WritersOK
  BY DEF C!Init, C!WritersOK, C!States, C!Amount, C!Absent
<1>3. C!FilesOK
  <2>1. written = [f \in C!Files |-> "none"] /\ flushed = [f \in C!Files |-> "none"]
    BY <1>1 DEF C!Init
  <2> QED
    BY <1>1, <2>1 DEF C!Init, C!FilesOK
<1>4. C!TypeOK
  BY <1>1, <1>2, <1>3, FileBounds DEF C!Init, C!TypeOK, C!Bounds
<1> QED
  BY <1>1, <1>4 DEF C!Init, CInv, TemporaryInv, DiskInv, ServeInv

\* What a writer does without touching a file or the path.
LEMMA WriterStep ==
  ASSUME CInv, NEW w \in Writer, C!Get(w) \/ C!Download(w) \/ C!WriteFile(w) \/ C!Falter(w)
  PROVE  CInv'
<1> USE DEF CInv
<1>1. UNCHANGED <<use, file, created, temporary, written, flushed, path, onDisk, crashes>>
  BY DEF C!Get, C!Download, C!WriteFile, C!Falter, C!files
<1>2. PICK state \in {"downloading", "creating", "failing", "returned", "failed"} :
        pc' = [pc EXCEPT ![w] = state]
  BY DEF C!Get, C!Download, C!WriteFile, C!Falter, C!Done, C!Become
<1>3. got' \in {got, [got EXCEPT ![w] = "all"]}
  BY DEF C!Get, C!Download, C!WriteFile, C!Falter
<1>4. C!TypeOK'
  BY <1>1, <1>2, <1>3 DEF C!TypeOK, C!WritersOK, C!FilesOK, C!States, C!Amount, C!Files, C!Absent, C!Old
<1>5. TemporaryInv' /\ DiskInv'
  BY <1>1, <1>2 DEF TemporaryInv, DiskInv, C!TypeOK, C!WritersOK, C!Files
<1>6. ServeInv'
  BY <1>1 DEF ServeInv, C!TypeOK, C!WritersOK, C!Get, C!Download, C!WriteFile, C!Falter, C!Done, C!Become
<1> QED
  BY <1>4, <1>5, <1>6

\* What Append makes of the amounts of so many files.
LEMMA Appended ==
  ASSUME NEW n \in Nat, NEW s \in [1..n -> C!Amount]
  PROVE  /\ Append(s, "none") \in [1..(n + 1) -> C!Amount]
         /\ \A i \in 1..n : Append(s, "none")[i] = s[i]
<1>1. s \in Seq(C!Amount) /\ Len(s) = n
  BY IsASeq, LenProperties
<1>2. "none" \in C!Amount
  BY DEF C!Amount
<1>3. Append(s, "none") \in Seq(C!Amount) /\ Len(Append(s, "none")) = n + 1
  BY <1>1, <1>2, AppendProperties
<1>4. Append(s, "none") \in [1..(n + 1) -> C!Amount]
  BY <1>3, LenProperties
<1> QED
  BY <1>1, <1>2, <1>4, AppendProperties

\* A temporary file is new, so no writer has it and no crash leaves it.
LEMMA CreateTempStep ==
  ASSUME CInv, NEW w \in Writer, C!CreateTemp(w)
  PROVE  CInv'
<1> USE DEF CInv
<1> DEFINE new == created + 1
<1>1. created \in Nat /\ MaxFiles \in Nat /\ created < MaxFiles /\ created' = new
  BY FileBounds DEF C!CreateTemp, C!TypeOK, C!Bounds
<1>2. C!Files' = C!Files \cup {new} /\ new \notin C!Files \cup {C!Old, C!Absent}
  BY <1>1 DEF C!Files, C!Old, C!Absent
<1>3. /\ written' \in [C!Files' -> C!Amount] /\ flushed' \in [C!Files' -> C!Amount]
      /\ \A f \in C!Files : written'[f] = written[f] /\ flushed'[f] = flushed[f]
  <2>1. C!Files = 1..created /\ C!Files' = 1..new
    BY <1>1 DEF C!Files
  <2>2. written \in [1..created -> C!Amount] /\ flushed \in [1..created -> C!Amount]
    BY <2>1 DEF C!TypeOK, C!FilesOK
  <2>3. /\ Append(written, "none") \in [1..new -> C!Amount]
        /\ \A f \in 1..created : Append(written, "none")[f] = written[f]
    BY <1>1, <2>2, Appended
  <2>4. /\ Append(flushed, "none") \in [1..new -> C!Amount]
        /\ \A f \in 1..created : Append(flushed, "none")[f] = flushed[f]
    BY <1>1, <2>2, Appended
  <2>5. written' = Append(written, "none") /\ flushed' = Append(flushed, "none")
    BY DEF C!CreateTemp
  <2> QED
    BY <2>1, <2>3, <2>4, <2>5
<1>4. C!TypeOK'
  <2>1. C!WritersOK'
    BY <1>1, <1>2 DEF C!CreateTemp, C!Become, C!TypeOK, C!WritersOK, C!States, C!Absent
  <2>2. C!FilesOK'
    BY <1>1, <1>2, <1>3 DEF C!CreateTemp, C!TypeOK, C!FilesOK, C!Old, C!Absent
  <2> QED
    BY <1>1, <2>1, <2>2 DEF C!CreateTemp, C!TypeOK
<1>5. TemporaryInv'
  BY <1>1, <1>2, <1>3 DEF C!CreateTemp, C!Become, TemporaryInv, C!TypeOK, C!WritersOK, C!FilesOK
<1>6. DiskInv'
  BY <1>1, <1>2, <1>3 DEF C!CreateTemp, DiskInv, C!TypeOK, C!FilesOK
<1>7. ServeInv'
  BY DEF C!CreateTemp, C!Become, ServeInv, C!TypeOK, C!WritersOK
<1> QED
  BY <1>4, <1>5, <1>6, <1>7

\* A write changes a file nobody else has and no crash leaves.
LEMMA WriteStep ==
  ASSUME CInv, NEW w \in Writer, C!Write(w)
  PROVE  CInv'
<1> USE DEF CInv
<1>1. PICK amount \in C!Amount :
        /\ written' = [written EXCEPT ![file[w]] = amount]
        /\ C!Become(w, CASE amount # "all" -> "failing"
                         [] amount = "all" /\ use = "file"  -> "flushing"
                         [] amount = "all" /\ use = "cache" -> "renaming")
  BY DEF C!Write
<1>2. use \in {"file", "cache"}
  BY FileBounds DEF C!TypeOK, C!Bounds
<1>3. PICK state \in {"failing", "flushing", "renaming"} :
        /\ pc' = [pc EXCEPT ![w] = state]
        /\ state # "failing" => amount = "all"
        /\ state = "renaming" => use = "cache"
  BY <1>1, <1>2 DEF C!Become
<1>4. UNCHANGED <<use, file, got, created, temporary, flushed, path, onDisk, crashes>>
  BY DEF C!Write
<1>5. pc[w] = "writing" /\ file[w] \in C!Files \ onDisk /\ C!Files' = C!Files
  BY <1>4 DEF C!Write, TemporaryInv, C!Files
<1>6. C!TypeOK'
  <2>1. C!WritersOK'
    BY <1>3, <1>4, <1>5 DEF C!TypeOK, C!WritersOK, C!States, C!Absent
  <2>2. C!FilesOK'
    BY <1>1, <1>4, <1>5 DEF C!TypeOK, C!FilesOK, C!Old, C!Absent
  <2> QED
    BY <1>4, <2>1, <2>2 DEF C!TypeOK
<1>7. TemporaryInv'
  <2> SUFFICES ASSUME NEW v \in Writer, pc'[v] \in {"writing", "flushing", "renaming"}
               PROVE  /\ file[v] \in C!Files \ onDisk
                      /\ pc'[v] # "writing" => written'[file[v]] = "all"
                      /\ pc'[v] = "renaming" /\ use = "file" => flushed[file[v]] = "all"
    BY <1>4, <1>5 DEF TemporaryInv
  <2>1. CASE v = w
    BY <1>1, <1>3, <1>5, <2>1 DEF C!TypeOK, C!WritersOK, C!FilesOK
  <2>2. CASE v # w
    <3>1. pc[v] = pc'[v]
      BY <1>3, <2>2 DEF C!TypeOK, C!WritersOK
    <3>2. file[v] \in C!Files /\ file[v] # file[w]
      BY <1>5, <2>2, <3>1 DEF TemporaryInv, C!TypeOK, C!WritersOK, C!Files, C!Absent
    <3> QED
      BY <1>1, <3>1, <3>2 DEF TemporaryInv, C!TypeOK, C!FilesOK
  <2> QED
    BY <2>1, <2>2
<1>8. DiskInv'
  BY <1>1, <1>4, <1>5 DEF DiskInv, C!TypeOK, C!FilesOK
<1>9. ServeInv'
  BY <1>3, <1>4, <1>5 DEF ServeInv, C!TypeOK, C!WritersOK
<1> QED
  BY <1>6, <1>7, <1>8, <1>9

\* What is flushed is written as a whole by then.
LEMMA FlushStep ==
  ASSUME CInv, NEW w \in Writer, C!Flush(w)
  PROVE  CInv'
<1> USE DEF CInv
<1>1. UNCHANGED <<use, file, got, created, temporary, written, path, onDisk, crashes>>
  BY DEF C!Flush
<1>2. /\ pc[w] = "flushing" /\ pc' = [pc EXCEPT ![w] = "renaming"]
      /\ flushed' = [flushed EXCEPT ![file[w]] = written[file[w]]]
  BY DEF C!Flush, C!Become
<1>3. file[w] \in C!Files \ onDisk /\ written[file[w]] = "all" /\ C!Files' = C!Files
  BY <1>1, <1>2 DEF TemporaryInv, C!Files
<1>4. C!TypeOK'
  <2>1. C!WritersOK'
    BY <1>1, <1>2, <1>3 DEF C!TypeOK, C!WritersOK, C!States, C!Absent
  <2>2. C!FilesOK'
    BY <1>1, <1>2, <1>3 DEF C!TypeOK, C!FilesOK, C!Old, C!Absent
  <2> QED
    BY <1>1, <2>1, <2>2 DEF C!TypeOK
<1>5. TemporaryInv'
  BY <1>1, <1>2, <1>3 DEF TemporaryInv, C!TypeOK, C!WritersOK, C!FilesOK
<1>6. DiskInv'
  BY <1>1, <1>2, <1>3 DEF DiskInv, C!TypeOK, C!FilesOK
<1>7. ServeInv'
  BY <1>1, <1>2 DEF ServeInv, C!TypeOK, C!WritersOK
<1> QED
  BY <1>4, <1>5, <1>6, <1>7

\* A writer that failed has its file removed, and only its own.
LEMMA CleanUpStep ==
  ASSUME CInv, NEW w \in Writer, C!CleanUp(w)
  PROVE  CInv'
<1> USE DEF CInv
<1>1. UNCHANGED <<use, file, got, created, written, flushed, path, onDisk, crashes>>
  BY DEF C!CleanUp
<1>2. PICK state \in {"returned", "failed"} :
        /\ pc[w] = "failing" /\ pc' = [pc EXCEPT ![w] = state]
        /\ temporary' = temporary \ {file[w]}
  BY DEF C!CleanUp, C!Become, C!Done
<1>3. C!TypeOK'
  BY <1>1, <1>2 DEF C!TypeOK, C!WritersOK, C!FilesOK, C!States, C!Files
<1>4. TemporaryInv' /\ DiskInv'
  BY <1>1, <1>2 DEF TemporaryInv, DiskInv, C!TypeOK, C!WritersOK, C!Files
<1>5. ServeInv'
  BY <1>1, <1>2 DEF ServeInv, C!TypeOK, C!WritersOK
<1> QED
  BY <1>3, <1>4, <1>5

\* What a rename puts under the path is complete; it is no one else's from then on.
LEMMA RenameStep ==
  ASSUME CInv, NEW w \in Writer, C!Rename(w)
  PROVE  CInv'
<1> USE DEF CInv
<1>1. UNCHANGED <<use, file, got, created, written, flushed, crashes>>
  BY DEF C!Rename
<1>2. /\ pc[w] = "renaming" /\ pc' = [pc EXCEPT ![w] = "returned"]
      /\ path' = file[w] /\ onDisk' = onDisk \cup {file[w]}
      /\ temporary' = temporary \ {file[w]}
  BY DEF C!Rename, C!Become
<1>3. /\ file[w] \in C!Files \ onDisk /\ written[file[w]] = "all" /\ C!Files' = C!Files
      /\ use = "file" => flushed[file[w]] = "all"
  BY <1>1, <1>2 DEF TemporaryInv, C!Files
<1>4. C!TypeOK'
  <2>1. C!WritersOK'
    BY <1>1, <1>2, <1>3 DEF C!TypeOK, C!WritersOK, C!States, C!Absent
  <2>2. C!FilesOK'
    BY <1>1, <1>2, <1>3 DEF C!TypeOK, C!FilesOK
  <2> QED
    BY <1>1, <2>1, <2>2 DEF C!TypeOK
<1>5. TemporaryInv'
  <2> SUFFICES ASSUME NEW v \in Writer, pc'[v] \in {"writing", "flushing", "renaming"}
               PROVE  /\ file[v] \in C!Files \ onDisk'
                      /\ pc'[v] # "writing" => written[file[v]] = "all"
                      /\ pc'[v] = "renaming" /\ use = "file" => flushed[file[v]] = "all"
    BY <1>1, <1>3 DEF TemporaryInv
  <2>1. v # w /\ pc'[v] = pc[v]
    BY <1>2 DEF C!TypeOK, C!WritersOK
  <2>2. file[v] # file[w]
    BY <1>3, <2>1 DEF C!TypeOK, C!WritersOK, C!Files, C!Absent
  <2> QED
    BY <1>2, <2>1, <2>2 DEF TemporaryInv
<1>6. DiskInv'
  BY <1>1, <1>2, <1>3 DEF DiskInv
<1>7. ServeInv'
  BY <1>1, <1>2 DEF ServeInv, C!TypeOK, C!WritersOK
<1> QED
  BY <1>4, <1>5, <1>6, <1>7

\* A writer that is killed leaves its file to no one.
LEMMA KillStep ==
  ASSUME CInv, NEW w \in Writer, C!Kill(w)
  PROVE  CInv'
<1> USE DEF CInv
<1>1. UNCHANGED <<use, created, temporary, written, flushed, path, onDisk>>
  BY DEF C!Kill, C!files
<1>2. /\ pc' = [pc EXCEPT ![w] = "idle"] /\ file' = [file EXCEPT ![w] = C!Absent]
      /\ got' = [got EXCEPT ![w] = "none"]
  BY DEF C!Kill, C!Become
<1>3. crashes' \in 0..MaxCrashes
  BY FileBounds DEF C!Kill, C!TypeOK, C!Bounds
<1>4. C!TypeOK'
  BY <1>1, <1>2, <1>3 DEF C!TypeOK, C!WritersOK, C!FilesOK, C!States, C!Amount, C!Files
<1>5. TemporaryInv' /\ DiskInv'
  BY <1>1, <1>2 DEF TemporaryInv, DiskInv, C!TypeOK, C!WritersOK, C!Files
<1>6. ServeInv'
  BY <1>1, <1>2 DEF ServeInv, C!TypeOK, C!WritersOK
<1> QED
  BY <1>4, <1>5, <1>6

\* A crash keeps what was flushed, and nothing under the path was not.
LEMMA CrashStep ==
  ASSUME CInv, C!Crash
  PROVE  CInv'
<1> USE DEF CInv
<1>1. UNCHANGED <<use, created, temporary>> /\ C!Files' = C!Files
  BY DEF C!Crash, C!Files
<1>2. /\ pc' = [w \in Writer |-> "idle"] /\ file' = [w \in Writer |-> C!Absent]
      /\ got' = [w \in Writer |-> "none"]
      /\ path' \in onDisk /\ onDisk' = {path'} /\ flushed' = written'
  BY DEF C!Crash
<1>3. /\ written' \in [C!Files -> C!Amount]
      /\ \A f \in C!Files : flushed[f] \in C!UpTo(written'[f])
  BY DEF C!Crash
<1>4. crashes' \in 0..MaxCrashes
  BY FileBounds DEF C!Crash, C!TypeOK, C!Bounds
<1>5. C!TypeOK'
  <2>1. C!WritersOK'
    BY <1>1, <1>2 DEF C!WritersOK, C!States, C!Amount
  <2>2. C!FilesOK'
    BY <1>1, <1>2, <1>3 DEF C!TypeOK, C!FilesOK
  <2> QED
    BY <1>1, <1>4, <2>1, <2>2 DEF C!TypeOK
<1>6. DiskInv'
  <2>1. \A f \in C!Files : flushed[f] = "all" => written'[f] = "all"
    BY <1>3 DEF C!UpTo, C!Amount
  <2> QED
    BY <1>1, <1>2, <2>1 DEF DiskInv
<1>7. TemporaryInv' /\ ServeInv'
  BY <1>2 DEF TemporaryInv, ServeInv
<1> QED
  BY <1>5, <1>6, <1>7

\* Whichever step comes next, the invariant survives.
LEMMA CNextInv == CInv /\ [C!Next]_(C!vars) => CInv'
<1> SUFFICES ASSUME CInv, [C!Next]_(C!vars) PROVE CInv'
  OBVIOUS
<1>1. CASE UNCHANGED C!vars
  BY <1>1 DEF CInv, C!vars, C!writers, C!files, C!TypeOK, C!WritersOK, C!FilesOK, C!Files, TemporaryInv,
     DiskInv, ServeInv
<1> QED
  BY <1>1, WriterStep, CreateTempStep, WriteStep, FlushStep, CleanUpStep, RenameStep, KillStep, CrashStep
     DEF C!Next, C!Put

\* The invariant holds throughout.
THEOREM CInvariance == C!Spec => []CInv
BY CInitInv, CNextInv, PTL DEF C!Spec

\* The variables of the file writers keep their types, and no two writers share a
\* temporary file.
THEOREM CTypeCorrect == C!Spec => [](C!TypeOK)
<1>1. CInv => C!TypeOK
  BY DEF CInv
<1> QED
  BY CInvariance, <1>1, PTL

\* Whoever wrote, failed, was killed or crashed: a file that is flushed before its
\* rename is there as a whole or as it was, and a cached document is served as a
\* whole.
THEOREM NothingIsEverTorn == C!Spec => []NothingIsTorn
<1>1. CInv => C!FlushedSurvives
  BY DEF CInv, DiskInv, C!TypeOK, C!FilesOK, C!FlushedSurvives, C!Torn, C!Content, C!Old, C!Absent
<1>2. CInv => C!ServesWhole
  BY DEF CInv, ServeInv, C!ServesWhole
<1>3. CInv => NothingIsTorn
  BY <1>1, <1>2 DEF NothingIsTorn
<1> QED
  BY CInvariance, <1>3, PTL

-----------------------------------------------------------------------------
(* GhcrTokens *)

Found == {K!None} \cup K!Tokens

\* A flight, until it lands.
Flights ==
  [stage : {"looking", "exchanging", "storing", "finishing"}, leader : Request,
   rejected : Found, result : {K!Nothing, K!Failed, K!Aborted} \cup K!Tokens]

FlightOK == flight = K!Landed \/ flight \in Flights

\* What a request has seen rejected, or found missing, is not accepted.
RejectedInv ==
  /\ \A r \in Request : kpc[r] \in {"renew", "join"} => token[r] \notin valid
  /\ flight.stage = "looking" => flight.rejected \notin valid

\* A token the registry accepts is in the cache, or about to be, and there is none
\* while the next is obtained.
HeldInv ==
  /\ flight.stage = "exchanging" => valid = {}
  /\ flight.stage = "storing" => flight.result \in K!Tokens /\ valid \subseteq {flight.result}
  /\ flight.stage = "finishing" => flight.result # K!Nothing
  /\ flight.stage # "storing" => valid \subseteq {cache}

KInv == K!TypeOK /\ issued \in Nat /\ FlightOK /\ RejectedInv /\ HeldInv

\* At first there is no token, and no request but those about to look for one.
LEMMA KInitInv == K!Init => KInv
<1> SUFFICES ASSUME K!Init PROVE KInv
  OBVIOUS
<1>1. valid = {} /\ issued = 0 /\ flight = K!Landed /\ joined = {} /\ flight.stage = "landed"
  BY DEF K!Init, K!Landed
<1>2. K!TypeOK
  <2>1. failed \in 0..MaxFailed
    BY TokenBounds DEF K!Init, K!Bounds
  <2>2. cache \in {K!None} \cup K!Tokens /\ realm \in BOOLEAN /\ kcancelled \subseteq Context
    BY DEF K!Init
  <2>3. inbox \in [Request -> {K!Nothing, K!Failed, K!Aborted} \cup K!Tokens]
    BY DEF K!Init
  <2> QED
    BY <1>1, <2>1, <2>2, <2>3 DEF K!Init, K!TypeOK
<1>3. FlightOK /\ RejectedInv /\ HeldInv
  BY <1>1 DEF FlightOK, RejectedInv, HeldInv
<1> QED
  BY <1>1, <1>2, <1>3 DEF KInv

\* A request that neither joins a flight nor hears of one: it reads the cache, and
\* is told whether its token is accepted.
LEMMA AskStep ==
  ASSUME KInv, NEW r \in Request, K!Lookup(r) \/ K!Answer(r) \/ K!Fail(r) \/ K!Renew(r) \/ K!GiveUp(r)
  PROVE  KInv'
<1> USE DEF KInv
<1>1. UNCHANGED <<ctx, cache, flight, joined, inbox, issued, valid, kcancelled>>
  BY DEF K!Lookup, K!Answer, K!Fail, K!Renew, K!GiveUp, K!exchange, K!registry
<1>2. PICK state \in {"request", "join", "renew", "ok", "unauthorized", "failed", "canceled"} :
        kpc' = [kpc EXCEPT ![r] = state]
  BY DEF K!Lookup, K!Answer, K!Fail, K!Renew, K!GiveUp, K!Become
<1>3. token' \in {token, [token EXCEPT ![r] = cache]}
  BY DEF K!Lookup, K!Answer, K!Fail, K!Renew, K!GiveUp, K!Take
<1>4. realm' \in BOOLEAN /\ renewed' \subseteq Request
  BY DEF K!Lookup, K!Answer, K!Fail, K!Renew, K!GiveUp, K!TypeOK
<1>5. failed' \in 0..MaxFailed
  BY TokenBounds DEF K!Lookup, K!Answer, K!Fail, K!Renew, K!GiveUp, K!TypeOK, K!Bounds
<1>6. K!TypeOK'
  BY <1>1, <1>2, <1>3, <1>4, <1>5 DEF K!TypeOK, K!Tokens, K!Outcomes, K!Landed
<1>7. FlightOK' /\ HeldInv'
  BY <1>1 DEF FlightOK, Flights, HeldInv, Found, K!Tokens, K!Landed
<1>8. state \in {"renew", "join"} => token'[r] \notin valid
  <2>1. CASE K!Lookup(r)
    <3>1. token' = [token EXCEPT ![r] = cache] /\ kpc'[r] = IF cache # K!None \/ ~realm THEN "request" ELSE "join"
      BY <2>1 DEF K!Lookup, K!Take, K!Become, K!TypeOK
    <3>2. K!None \notin valid
      BY DEF K!TypeOK, K!Tokens, K!None
    <3> QED
      BY <1>2, <3>1, <3>2 DEF K!TypeOK
  <2>2. CASE K!Answer(r)
    BY <1>2, <2>2 DEF K!Answer, K!Become, K!TypeOK
  <2>3. CASE K!Renew(r)
    <3>1. token[r] \notin valid
      BY <2>3 DEF K!Renew, RejectedInv
    <3> QED
      BY <1>2, <2>3, <3>1 DEF K!Renew, K!Become, K!Take, K!TypeOK
  <2>4. CASE K!Fail(r) \/ K!GiveUp(r)
    BY <1>2, <2>4 DEF K!Fail, K!GiveUp, K!Become, K!TypeOK
  <2> QED
    BY <2>1, <2>2, <2>3, <2>4
<1>9. RejectedInv'
  BY <1>1, <1>2, <1>3, <1>8 DEF RejectedInv, K!TypeOK
<1> QED
  BY <1>1, <1>6, <1>7, <1>9

\* Who begins a flight hands it the token it saw rejected.
LEMMA JoinStep ==
  ASSUME KInv, NEW r \in Request, K!Join(r)
  PROVE  KInv'
<1> USE DEF KInv
<1>1. UNCHANGED <<ctx, token, renewed, cache, realm, inbox, issued, valid, kcancelled, failed>>
  BY DEF K!Join, K!registry
<1>2. kpc[r] = "join" /\ kpc' = [kpc EXCEPT ![r] = "waiting"] /\ joined' = joined \cup {r}
  BY DEF K!Join, K!Become
<1>3. token[r] \in Found \ valid
  BY <1>2 DEF RejectedInv, K!TypeOK, Found
<1> DEFINE begun == [stage |-> "looking", leader |-> r, rejected |-> token[r], result |-> K!Nothing]
<1>4. flight' = IF flight = K!Landed THEN begun ELSE flight
  BY DEF K!Join
<1>5. begun \in Flights
  BY <1>3 DEF Flights
<1>6. FlightOK' /\ flight'.stage \in {"looking", "exchanging", "storing", "finishing"}
      /\ flight' # K!Landed
  <2>1. FlightOK'
    BY <1>1, <1>4, <1>5 DEF FlightOK, Flights, Found, K!Tokens, K!Landed
  <2>2. flight'.stage \in {"looking", "exchanging", "storing", "finishing"}
    BY <1>4, <1>5 DEF FlightOK, Flights
  <2> QED
    BY <2>1, <2>2 DEF K!Landed
<1>7. K!TypeOK'
  BY <1>1, <1>2, <1>6 DEF K!TypeOK, K!Tokens
<1>8. RejectedInv'
  BY <1>1, <1>2, <1>3, <1>4 DEF RejectedInv, K!TypeOK
<1>9. HeldInv'
  BY <1>1, <1>4 DEF HeldInv, K!Tokens, K!Landed
<1> QED
  BY <1>1, <1>6, <1>7, <1>8, <1>9

\* What a flight gave is a token to send, or the end.
LEMMA ReceiveStep ==
  ASSUME KInv, NEW r \in Request, K!Receive(r)
  PROVE  KInv'
<1> USE DEF KInv
<1>1. UNCHANGED <<ctx, renewed, cache, realm, flight, joined, issued, valid, kcancelled, failed>>
  BY DEF K!Receive, K!registry
<1>2. /\ inbox[r] \in {K!Failed, K!Aborted} \cup K!Tokens
      /\ inbox' = [inbox EXCEPT ![r] = K!Nothing]
  BY DEF K!Receive, K!TypeOK
<1>3. PICK state \in {"failed", "canceled", "request"} : kpc' = [kpc EXCEPT ![r] = state]
  BY <1>2 DEF K!Receive, K!Become, K!Failed, K!Aborted, K!Tokens
<1>4. token' \in [Request -> Found] /\ \A q \in Request : q # r => token'[q] = token[q]
  BY <1>2 DEF K!Receive, K!Take, K!TypeOK, K!Failed, K!Aborted, Found, K!Tokens
<1>5. K!TypeOK'
  BY <1>1, <1>2, <1>3, <1>4 DEF K!TypeOK, K!Tokens, K!Outcomes, Found, K!Landed
<1>6. FlightOK' /\ HeldInv'
  BY <1>1 DEF FlightOK, Flights, HeldInv, Found, K!Tokens, K!Landed
<1>7. RejectedInv'
  BY <1>1, <1>3, <1>4 DEF RejectedInv, K!TypeOK
<1> QED
  BY <1>1, <1>5, <1>6, <1>7

\* The flight that finds the cache as it was seen rejected exchanges the token;
\* there is none then, so the one it gets is the only one until it is stored.
LEMMA FlightStep ==
  ASSUME KInv, K!Flight
  PROVE  KInv'
<1> USE DEF KInv
<1>1. UNCHANGED <<ctx, kpc, token, renewed, realm, kcancelled>>
  BY DEF K!Flight, K!Look, K!Exchange, K!ExchangeFailing, K!Store, K!Land, K!request
<1>2. flight \in Flights /\ flight # K!Landed /\ joined # {}
  BY DEF K!Flight, K!Look, K!Exchange, K!ExchangeFailing, K!Store, K!Land, K!TypeOK, K!Landed, FlightOK
<1>3. issued' = issued => Flights' = Flights
  BY DEF Flights, Found, K!Tokens
<1> DEFINE Rest == UNCHANGED <<joined, inbox, issued, valid>>
<1>4. CASE K!Look
  <2>1. Rest /\ UNCHANGED <<cache, failed>> /\ flight.stage = "looking"
    BY <1>4 DEF K!Look, K!registry
  <2>2. \/ cache # K!None /\ flight' = [flight EXCEPT !.stage = "finishing", !.result = cache]
        \/ cache \in {K!None, flight.rejected} /\ flight' = [flight EXCEPT !.stage = "exchanging"]
    BY <1>4 DEF K!Look, K!Other, K!Finish
  <2>3. flight.rejected \notin valid /\ K!None \notin valid /\ cache # K!Nothing
    BY <2>1 DEF RejectedInv, K!TypeOK, K!Tokens, K!None, K!Nothing
  <2>4. flight' \in Flights /\ flight'.stage \in {"exchanging", "finishing"}
    BY <1>2, <2>1, <2>2 DEF Flights, K!TypeOK
  <2>5. K!TypeOK'
    BY <1>1, <1>2, <2>1, <2>4 DEF K!TypeOK, K!Tokens, K!Landed
  <2>6. RejectedInv'
    BY <1>1, <2>1, <2>4 DEF RejectedInv
  <2>7. ASSUME flight' = [flight EXCEPT !.stage = "finishing", !.result = cache]
        PROVE  HeldInv'
    BY <1>2, <2>1, <2>3, <2>7 DEF HeldInv, Flights
  <2>8. ASSUME flight' = [flight EXCEPT !.stage = "exchanging"], cache \notin valid
        PROVE  HeldInv'
    <3>1. valid = {}
      BY <2>1, <2>8 DEF HeldInv
    <3>2. flight'.stage = "exchanging"
      BY <1>2, <2>8 DEF Flights
    <3> QED
      BY <2>1, <3>1, <3>2 DEF HeldInv
  <2>9. HeldInv'
    BY <2>2, <2>3, <2>7, <2>8
  <2> QED
    BY <1>3, <2>1, <2>4, <2>5, <2>6, <2>9 DEF FlightOK
<1>5. CASE K!Exchange
  <2>1. /\ UNCHANGED <<cache, joined, inbox, failed>> /\ flight.stage = "exchanging"
        /\ issued' = issued + 1 /\ valid' = valid \cup {issued'}
        /\ flight' = [flight EXCEPT !.stage = "storing", !.result = issued']
    BY <1>5 DEF K!Exchange
  <2>2. valid' = {issued + 1} /\ K!Tokens' = K!Tokens \cup {issued + 1} /\ issued + 1 \notin Found
    BY <2>1 DEF HeldInv, K!Tokens, Found, K!None
  <2>3. flight' \in Flights' /\ flight'.stage = "storing" /\ flight'.result = issued + 1
    BY <1>2, <2>1, <2>2 DEF Flights, Found
  <2>4. K!TypeOK'
    BY <1>1, <1>2, <2>1, <2>2, <2>3 DEF K!TypeOK, K!Landed
  <2>5. RejectedInv' /\ HeldInv'
    BY <1>1, <2>1, <2>2, <2>3 DEF RejectedInv, HeldInv, K!TypeOK, Found
  <2> QED
    BY <2>1, <2>3, <2>4, <2>5 DEF FlightOK
<1>6. CASE K!ExchangeFailing
  <2>1. Rest /\ UNCHANGED cache /\ flight.stage = "exchanging"
    BY <1>6 DEF K!ExchangeFailing, K!registry
  <2>2. PICK end \in {K!Failed, K!Aborted} :
          flight' = [flight EXCEPT !.stage = "finishing", !.result = end]
    BY <1>6 DEF K!ExchangeFailing, K!Finish
  <2>3. failed' \in 0..MaxFailed
    BY <1>6, TokenBounds DEF K!ExchangeFailing, K!TypeOK, K!Bounds
  <2>4. flight' \in Flights /\ flight'.stage = "finishing" /\ flight'.result = end
    BY <1>2, <2>2 DEF Flights
  <2>5. flight'.result # K!Nothing
    BY <2>4 DEF K!Failed, K!Aborted, K!Nothing
  <2>6. K!TypeOK'
    BY <1>1, <1>2, <2>1, <2>3, <2>4 DEF K!TypeOK, K!Tokens, K!Landed
  <2>7. RejectedInv' /\ HeldInv'
    BY <1>1, <2>1, <2>4, <2>5 DEF RejectedInv, HeldInv
  <2> QED
    BY <1>3, <2>1, <2>4, <2>6, <2>7 DEF FlightOK
<1>7. CASE K!Store
  <2>1. /\ Rest /\ UNCHANGED failed /\ flight.stage = "storing" /\ cache' = flight.result
        /\ flight' = [flight EXCEPT !.stage = "finishing", !.result = flight.result]
    BY <1>7 DEF K!Store, K!Finish, K!registry
  <2>2. flight.result \in K!Tokens /\ valid \subseteq {flight.result}
    BY <2>1 DEF HeldInv
  <2>3. flight' \in Flights /\ flight'.stage = "finishing" /\ flight'.result = flight.result
    BY <1>2, <2>1 DEF Flights
  <2>4. flight.result # K!Nothing
    BY <2>2 DEF K!Tokens, K!Nothing
  <2>5. K!TypeOK'
    BY <1>1, <1>2, <2>1, <2>2, <2>3 DEF K!TypeOK, K!Tokens, K!Landed
  <2>6. RejectedInv' /\ HeldInv'
    BY <1>1, <2>1, <2>2, <2>3, <2>4 DEF RejectedInv, HeldInv
  <2> QED
    BY <1>3, <2>1, <2>3, <2>5, <2>6 DEF FlightOK
<1>8. CASE K!Land
  <2>1. /\ UNCHANGED <<cache, issued, valid, failed>> /\ flight.stage = "finishing"
        /\ joined' = {} /\ flight' = K!Landed
        /\ inbox' = [r \in Request |-> IF r \in joined THEN flight.result ELSE inbox[r]]
    BY <1>8 DEF K!Land, K!registry
  <2>2. flight'.stage = "landed" /\ flight.result \in {K!Nothing, K!Failed, K!Aborted} \cup K!Tokens
    BY <1>2, <2>1 DEF Flights, K!Landed
  <2>3. FlightOK' /\ K!TypeOK'
    BY <1>1, <2>1, <2>2 DEF FlightOK, K!TypeOK, K!Tokens, K!Landed
  <2>4. RejectedInv' /\ HeldInv'
    BY <1>1, <2>1, <2>2 DEF RejectedInv, HeldInv
  <2> QED
    BY <2>1, <2>3, <2>4
<1> QED
  BY <1>4, <1>5, <1>6, <1>7, <1>8 DEF K!Flight

\* A token expires, or a context ends.
LEMMA OutsideStep ==
  ASSUME KInv, K!Revoke \/ (\E c \in Context : K!Cancel(c)) \/ UNCHANGED K!vars
  PROVE  KInv'
<1> USE DEF KInv
<1>1. UNCHANGED <<ctx, kpc, token, renewed, cache, realm, flight, joined, inbox, issued, failed>>
  BY DEF K!Revoke, K!Cancel, K!vars, K!request, K!exchange, K!registry
<1>2. valid' \subseteq valid /\ kcancelled' \subseteq Context
  BY DEF K!Revoke, K!Cancel, K!vars, K!registry, K!TypeOK
<1>3. K!TypeOK' /\ FlightOK'
  BY <1>1, <1>2 DEF K!TypeOK, K!Tokens, K!Landed, FlightOK, Flights, Found
<1>4. RejectedInv' /\ HeldInv'
  BY <1>1, <1>2 DEF RejectedInv, HeldInv, K!Tokens
<1> QED
  BY <1>1, <1>3, <1>4

\* Whichever step comes next, the invariant survives.
LEMMA KNextInv == KInv /\ [K!Next]_(K!vars) => KInv'
BY AskStep, JoinStep, ReceiveStep, FlightStep, OutsideStep DEF K!Next, K!Get

\* The invariant holds throughout.
THEOREM KInvariance == K!Spec => []KInv
BY KInitInv, KNextInv, PTL DEF K!Spec

\* The variables of the token cache keep their types, and a flight lasts as long
\* as someone has joined it.
THEOREM KTypeCorrect == K!Spec => [](K!TypeOK)
<1>1. KInv => K!TypeOK
  BY DEF KInv
<1> QED
  BY KInvariance, <1>1, PTL

\* The token endpoint is never asked for a second token while the registry
\* accepts the first.
THEOREM AlwaysOneValidToken == K!Spec => [](K!OneValidToken)
<1>1. KInv => K!OneValidToken
  BY DEF KInv, HeldInv, K!OneValidToken
<1> QED
  BY KInvariance, <1>1, PTL

-----------------------------------------------------------------------------
(* AcrRequests *)

\* A request has passed the gate when it neither waits nor was turned away there.
\* A closed gate let a single one pass, which is still under way.
GateInv ==
  /\ \A r \in Request : apc[r] # "arriving" => gate[action[r]] # "none"
  /\ \A r, s \in Request :
       /\ action[r] = action[s] /\ gate[action[r]] = "closed"
       /\ apc[r] \in A!Past /\ apc[s] \in A!Past
       => r = s
  /\ A!GateIsHeld

\* Unless its first request ended without one, an action has one token, obtained
\* before its gate opened, and who is challenged goes to obtain it.
ShareInv ==
  /\ \A a \in Action \ tokenless :
       obtained[a] = (IF a \in atoken THEN 1 ELSE 0) /\ (gate[a] = "open" => a \in atoken)
  /\ \A r \in Request :
       apc[r] = "challenged" /\ action[r] \notin tokenless => action[r] \notin atoken

\* The last wait a request chose by itself is that of an earlier retry, unless it
\* still sleeps.
BackedInv ==
  \A r \in Request : backed[r] > 0 =>
    \E i \in 0..retry[r] :
      /\ backed[r] = A!Doubled[i]
      /\ apc[r] \notin {"sleeping"} \cup A!Outcomes => i < retry[r]

SleepInv == \A r \in Request : apc[r] = "sleeping" => retry[r] < MaxRetries

AInv == A!TypeOK /\ GateInv /\ ShareInv /\ BackedInv /\ SleepInv

\* The lesser of two numbers.
LEMMA LesserOfTwo ==
  ASSUME NEW m \in Int, NEW n \in Int
  PROVE  A!Min({m, n}) = IF m <= n THEN m ELSE n
<1>1. PICK x \in {m, n} : \A y \in {m, n} : x <= y
  OBVIOUS
<1> QED
  BY <1>1 DEF A!Min

\* Some number of a set of numbers is the least.
LEMMA LeastNumber ==
  ASSUME NEW S \in SUBSET Nat, S # {}
  PROVE  \E x \in S : \A y \in S : x <= y
<1> DEFINE Smaller == {ss \in Nat \X Nat : ss[1] < ss[2]}
<1>1. IsWellFoundedOn(Smaller, Nat)
  BY NatLessThanWellFounded DEF OpToRel
<1>2. PICK x \in S : \A y \in S : <<y, x>> \notin Smaller
  <2> HIDE DEF Smaller
  <2> QED
    BY <1>1, WFMin
<1>3. \A y \in S : ~(y < x)
  BY <1>2
<1> QED
  BY <1>3

\* How one wait follows from the one before.
First      == A!Min({Delay, MaxDelay})
Doubling(wait) == IF wait >= MaxDelay \div 2 THEN MaxDelay ELSE 2 * wait

\* The waits of the retry policy are what their definition says: there is a function
\* that follows it, built one number of retries at a time.
LEMMA Waits ==
  /\ A!Doubled[0] = First
  /\ \A i \in 0..(MaxRetries - 1) : A!Doubled[i + 1] = Doubling(A!Doubled[i])
<1> DEFINE Follows(f, n) == f = [i \in 0..n |-> IF i = 0 THEN First ELSE Doubling(f[i - 1])]
<1>1. MaxRetries \in Nat
  BY RetryPolicy DEF A!Policy
<1> HIDE DEF Follows
<1>2. \E f : Follows(f, MaxRetries)
  <2> DEFINE Lacking == {n \in 0..MaxRetries : \A f : ~Follows(f, n)}
  <2> SUFFICES ASSUME Lacking # {} PROVE FALSE
    BY <1>1
  <2>1. PICK n \in Lacking : \A k \in Lacking : n <= k
    <3>1. Lacking \in SUBSET Nat
      BY <1>1
    <3> HIDE DEF Lacking
    <3> QED
      BY <3>1, LeastNumber
  <2>2. CASE n = 0
    <3>1. Follows([i \in 0..0 |-> First], 0)
      BY DEF Follows
    <3> QED
      BY <2>2, <3>1
  <2>3. CASE n # 0
    <3>1. n - 1 \in 0..MaxRetries /\ n - 1 \notin Lacking
      BY <1>1, <2>1, <2>3
    <3>2. PICK f : Follows(f, n - 1)
      BY <3>1
    <3> DEFINE g == [i \in 0..n |-> IF i = n THEN Doubling(f[n - 1]) ELSE f[i]]
    <3>3. ASSUME NEW i \in 0..n
          PROVE  g[i] = IF i = 0 THEN First ELSE Doubling(g[i - 1])
      BY <1>1, <2>3, <3>2 DEF Follows
    <3>4. Follows(g, n)
      BY <3>3 DEF Follows
    <3> QED
      BY <3>4
  <2> QED
    BY <2>2, <2>3
<1>3. Follows(A!Doubled, MaxRetries)
  BY <1>2 DEF A!Doubled, First, Doubling, Follows
<1> QED
  BY <1>1, <1>3 DEF Follows

\* The waits are at most the maximum, and each is at least twice any before it, up
\* to the maximum.
LEMMA WaitsDouble ==
  /\ \A i \in 0..MaxRetries : A!Doubled[i] \in 0..MaxDelay
  /\ \A i, j \in 0..MaxRetries :
       i < j => A!Doubled[j] >= A!Min({2 * A!Doubled[i], MaxDelay})
<1>1. MaxRetries \in Nat /\ MaxDelay \in Nat /\ Delay \in Nat
  BY RetryPolicy DEF A!Policy
<1> DEFINE D(i) == A!Doubled[i]
<1>2. D(0) \in 0..MaxDelay
  BY <1>1, Waits, LesserOfTwo DEF First
<1>3. \A i \in 0..(MaxRetries - 1) : D(i + 1) = Doubling(D(i))
  BY Waits
<1>4. ASSUME NEW wait \in 0..MaxDelay
      PROVE  /\ Doubling(wait) \in wait..MaxDelay
             /\ Doubling(wait) >= 2 * wait \/ Doubling(wait) = MaxDelay
  BY <1>1 DEF Doubling
<1> HIDE DEF D
<1>5. \A i \in 0..MaxRetries : D(i) \in 0..MaxDelay
  <2> DEFINE Long == {i \in 0..MaxRetries : D(i) \notin 0..MaxDelay}
  <2> SUFFICES ASSUME Long # {} PROVE FALSE
    OBVIOUS
  <2>1. PICK n \in Long : \A k \in Long : n <= k
    <3>1. Long \in SUBSET Nat
      BY <1>1
    <3> HIDE DEF Long
    <3> QED
      BY <3>1, LeastNumber
  <2>2. n # 0 /\ n - 1 \in 0..(MaxRetries - 1) /\ n - 1 \notin Long
    BY <1>1, <1>2, <2>1
  <2>3. D(n) = Doubling(D(n - 1)) /\ D(n - 1) \in 0..MaxDelay
    BY <1>1, <1>3, <2>1, <2>2
  <2>4. D(n) \in 0..MaxDelay
    BY <1>1, <1>4, <2>3
  <2> QED
    BY <2>1, <2>4
<1>6. ASSUME NEW i \in 0..MaxRetries, NEW j \in 0..MaxRetries, i < j
      PROVE  D(j) >= 2 * D(i) \/ D(j) = MaxDelay
  <2> DEFINE Short == {k \in 0..MaxRetries : i < k /\ D(k) < 2 * D(i) /\ D(k) # MaxDelay}
  <2> SUFFICES ASSUME Short # {} PROVE FALSE
    BY <1>1, <1>5, <1>6
  <2>1. PICK n \in Short : \A k \in Short : n <= k
    <3>1. Short \in SUBSET Nat
      BY <1>1
    <3> HIDE DEF Short
    <3> QED
      BY <3>1, LeastNumber
  <2>2. n - 1 \in 0..(MaxRetries - 1) /\ n - 1 \notin Short /\ n - 1 >= i
    BY <1>1, <2>1
  <2>3. D(n) = Doubling(D(n - 1)) /\ D(n - 1) \in 0..MaxDelay /\ D(n) \in 0..MaxDelay /\ D(i) \in 0..MaxDelay
    BY <1>1, <1>3, <1>5, <2>1, <2>2
  <2>4. D(n) \in D(n - 1)..MaxDelay /\ (D(n) >= 2 * D(n - 1) \/ D(n) = MaxDelay)
    BY <1>4, <2>3
  <2>5. n - 1 = i \/ D(n - 1) >= 2 * D(i) \/ D(n - 1) = MaxDelay
    BY <1>1, <2>2, <2>3
  <2> QED
    BY <1>1, <2>1, <2>3, <2>4, <2>5
<1>7. ASSUME NEW i \in 0..MaxRetries, NEW j \in 0..MaxRetries, i < j
      PROVE  D(j) >= A!Min({2 * D(i), MaxDelay})
  <2>1. D(i) \in Int /\ D(j) \in Int /\ 2 * D(i) \in Int
    BY <1>5
  <2>2. A!Min({2 * D(i), MaxDelay}) = IF 2 * D(i) <= MaxDelay THEN 2 * D(i) ELSE MaxDelay
    BY <1>1, <2>1, LesserOfTwo
  <2> QED
    BY <1>1, <1>6, <1>7, <2>1, <2>2
<1> QED
  BY <1>5, <1>7 DEF D

\* At first no request has been sent.
LEMMA AInitInv == A!Init => AInv
<1> SUFFICES ASSUME A!Init PROVE AInv
  OBVIOUS
<1>1. MaxRetries \in Nat /\ MaxDelay \in Nat
  BY RetryPolicy DEF A!Policy
<1>2. A!TypeOK
  BY <1>1 DEF A!Init, A!TypeOK
<1>3. GateInv /\ ShareInv /\ BackedInv /\ SleepInv
  BY <1>2 DEF A!Init, A!TypeOK, GateInv, A!GateIsHeld, ShareInv, BackedInv, SleepInv, A!Past
<1> QED
  BY <1>2, <1>3 DEF AInv

\* The first request of an action closes its gate and passes it alone.
LEMMA ArriveStep ==
  ASSUME AInv, NEW r \in Request, A!Arrive(r)
  PROVE  AInv'
<1> USE DEF AInv
<1>1. UNCHANGED <<action, retry, delay, backed, atoken, obtained, tokenless, acancelled>>
  BY DEF A!Arrive, A!policy, A!tokens
<1>2. apc[r] = "arriving" /\ action[r] \in Action
  BY DEF A!Arrive, A!TypeOK
<1>3. \/ /\ gate[action[r]] = "none" /\ gate' = [gate EXCEPT ![action[r]] = "closed"]
         /\ apc' = [apc EXCEPT ![r] = "sending"]
      \/ gate[action[r]] # "none" /\ gate' = gate /\ apc' = [apc EXCEPT ![r] = "queued"]
  BY DEF A!Arrive, A!Become
<1>4. A!TypeOK'
  BY <1>1, <1>2, <1>3 DEF A!TypeOK, A!Past
<1>5. GateInv'
  BY <1>1, <1>2, <1>3 DEF GateInv, A!GateIsHeld, A!TypeOK, A!Past
<1>6. ShareInv'
  BY <1>1, <1>2, <1>3 DEF ShareInv, A!TypeOK
<1>7. BackedInv' /\ SleepInv'
  BY <1>1, <1>2, <1>3 DEF BackedInv, SleepInv, A!TypeOK, A!Outcomes
<1> QED
  BY <1>4, <1>5, <1>6, <1>7

\* The others pass once the gate is open.
LEMMA PassStep ==
  ASSUME AInv, NEW r \in Request, A!Pass(r)
  PROVE  AInv'
<1> USE DEF AInv
<1>1. UNCHANGED <<action, gate, retry, delay, backed, atoken, obtained, tokenless, acancelled>>
  BY DEF A!Pass, A!policy, A!tokens
<1>2. /\ apc[r] = "queued"
      /\ \/ gate[action[r]] = "open" /\ apc' = [apc EXCEPT ![r] = "sending"]
         \/ apc' = [apc EXCEPT ![r] = "canceled"]
  BY DEF A!Pass, A!Become
<1>3. A!TypeOK'
  BY <1>1, <1>2 DEF A!TypeOK, A!Past, A!Outcomes
<1>4. GateInv'
  BY <1>1, <1>2 DEF GateInv, A!GateIsHeld, A!TypeOK, A!Past
<1>5. ShareInv' /\ BackedInv' /\ SleepInv'
  BY <1>1, <1>2 DEF ShareInv, BackedInv, SleepInv, A!TypeOK, A!Outcomes
<1> QED
  BY <1>3, <1>4, <1>5

\* A request is challenged only while its action has no token.
LEMMA SendStep ==
  ASSUME AInv, NEW r \in Request, A!Send(r)
  PROVE  AInv'
<1> USE DEF AInv
<1>1. UNCHANGED <<action, gate, retry, delay, backed, atoken, obtained, tokenless, acancelled>>
  BY DEF A!Send, A!policy, A!tokens
<1>2. /\ apc[r] = "sending"
      /\ apc' = [apc EXCEPT ![r] = IF action[r] \in atoken THEN "authorized" ELSE "challenged"]
  BY DEF A!Send, A!Become
<1>3. A!TypeOK'
  BY <1>1, <1>2 DEF A!TypeOK, A!Past
<1>4. GateInv'
  BY <1>1, <1>2 DEF GateInv, A!GateIsHeld, A!TypeOK, A!Past
<1>5. ShareInv' /\ BackedInv' /\ SleepInv'
  BY <1>1, <1>2 DEF ShareInv, BackedInv, SleepInv, A!TypeOK, A!Outcomes
<1> QED
  BY <1>3, <1>4, <1>5

\* Who obtains a token is alone past the gate, or the action is tokenless.
LEMMA ObtainStep ==
  ASSUME AInv, NEW r \in Request, A!Obtain(r)
  PROVE  AInv'
<1> USE DEF AInv
<1>1. UNCHANGED <<action, gate, retry, delay, backed, tokenless, acancelled>>
  BY DEF A!Obtain, A!policy
<1>2. /\ apc[r] = "challenged" /\ apc' = [apc EXCEPT ![r] = "authorized"]
      /\ atoken' = atoken \cup {action[r]} /\ action[r] \in Action
      /\ obtained' = [obtained EXCEPT ![action[r]] = obtained[action[r]] + 1]
  BY DEF A!Obtain, A!Become, A!TypeOK
<1>3. A!TypeOK'
  BY <1>1, <1>2 DEF A!TypeOK, A!Past
<1>4. GateInv'
  BY <1>1, <1>2 DEF GateInv, A!GateIsHeld, A!TypeOK, A!Past
<1>5. action[r] \notin tokenless =>
        action[r] \notin atoken /\ obtained[action[r]] = 0 /\ gate[action[r]] = "closed"
  BY <1>2 DEF ShareInv, GateInv, A!TypeOK
<1>6. ASSUME NEW s \in Request, apc'[s] = "challenged", action[s] \notin tokenless
      PROVE  action[s] \notin atoken'
  <2>1. s # r /\ apc[s] = "challenged"
    BY <1>2, <1>6 DEF A!TypeOK
  <2>2. action[s] # action[r]
    BY <1>2, <1>5, <1>6, <2>1 DEF GateInv, A!Past
  <2> QED
    BY <1>2, <1>6, <2>1, <2>2 DEF ShareInv
<1>7. ShareInv'
  <2>1. ASSUME NEW a \in Action \ tokenless
        PROVE  obtained'[a] = (IF a \in atoken' THEN 1 ELSE 0) /\ (gate[a] = "open" => a \in atoken')
    BY <1>2, <1>5 DEF ShareInv, A!TypeOK
  <2> QED
    BY <1>1, <1>6, <2>1 DEF ShareInv
<1>8. BackedInv' /\ SleepInv'
  BY <1>1, <1>2 DEF BackedInv, SleepInv, A!TypeOK, A!Outcomes
<1> QED
  BY <1>3, <1>4, <1>7, <1>8

\* The first request to return opens the gate; if it has no token, the action is
\* tokenless from then on.
LEMMA ReturnStep ==
  ASSUME AInv, NEW r \in Request, NEW outcome \in A!Outcomes, apc[r] \in A!Past,
         A!Return(r, outcome),
         UNCHANGED <<action, retry, delay, backed, atoken, obtained, acancelled>>
  PROVE  AInv'
<1> USE DEF AInv
<1>1. /\ apc' = [apc EXCEPT ![r] = outcome] /\ action[r] \in Action
      /\ gate' = [gate EXCEPT ![action[r]] = "open"]
      /\ tokenless' = IF gate[action[r]] = "closed" /\ action[r] \notin atoken
                      THEN tokenless \cup {action[r]} ELSE tokenless
  BY DEF A!Return, A!Become, A!TypeOK
<1>2. outcome \notin A!Past \cup {"arriving", "queued", "challenged"}
  BY DEF A!Past, A!Outcomes
<1>3. gate[action[r]] # "none" /\ gate[action[r]] \in {"closed", "open"}
  BY <1>1 DEF GateInv, A!Past, A!TypeOK
<1>4. A!TypeOK'
  BY <1>1 DEF A!TypeOK
<1>5. GateInv'
  BY <1>1, <1>2, <1>3 DEF GateInv, A!GateIsHeld, A!TypeOK
<1>6. ShareInv'
  BY <1>1, <1>2, <1>3 DEF ShareInv, A!TypeOK
<1>7. BackedInv' /\ SleepInv'
  BY <1>1 DEF BackedInv, SleepInv, A!TypeOK, A!Outcomes
<1> QED
  BY <1>4, <1>5, <1>6, <1>7

\* How long a request waits, as the registry asks or by itself.
LEMMA WaitIs ==
  ASSUME NEW r \in Request, retry[r] \in 0..MaxRetries, NEW asking \in RetryAfter
  PROVE  /\ A!Wait(r, asking) \in 0..MaxDelay
         /\ asking > 0 => A!Wait(r, asking) \in {asking, MaxDelay}
         /\ ~(asking > 0) => A!Wait(r, asking) = A!Doubled[retry[r]]
         /\ A!Wait(r, 0) = A!Doubled[retry[r]]
<1>1. asking \in Nat /\ MaxDelay \in Nat
  BY RetryPolicy DEF A!Policy
<1>2. A!Doubled[retry[r]] \in 0..MaxDelay
  BY WaitsDouble
<1>3. /\ A!Min({asking, MaxDelay}) = IF asking <= MaxDelay THEN asking ELSE MaxDelay
      /\ A!Min({A!Doubled[retry[r]], MaxDelay}) = A!Doubled[retry[r]]
  BY <1>1, <1>2, LesserOfTwo
<1> QED
  BY <1>1, <1>2, <1>3 DEF A!Wait, A!Backoff

\* A request that is to be retried sleeps.
LEMMA RetryStep ==
  ASSUME AInv, NEW r \in Request, A!Retry(r)
  PROVE  AInv'
<1> USE DEF AInv
<1>1. PICK asking \in RetryAfter :
       IF retry[r] >= MaxRetries
       THEN A!Return(r, "failed") /\ UNCHANGED <<delay, backed>>
       ELSE /\ A!Become(r, "sleeping")
            /\ delay' = [delay EXCEPT ![r] = A!Wait(r, asking)]
            /\ backed' = IF asking > 0 THEN backed ELSE [backed EXCEPT ![r] = A!Wait(r, 0)]
            /\ UNCHANGED <<gate, tokenless>>
  BY DEF A!Retry
<1>2. UNCHANGED <<action, retry, atoken, obtained, acancelled>> /\ apc[r] \in A!Past
  BY DEF A!Retry, A!Past
<1>3. CASE retry[r] >= MaxRetries
  BY <1>1, <1>2, <1>3, ReturnStep DEF A!Outcomes
<1>4. CASE ~(retry[r] >= MaxRetries)
  <2>1. /\ apc' = [apc EXCEPT ![r] = "sleeping"] /\ UNCHANGED <<gate, tokenless>>
        /\ delay' = [delay EXCEPT ![r] = A!Wait(r, asking)]
        /\ backed' \in {backed, [backed EXCEPT ![r] = A!Wait(r, 0)]}
    BY <1>1, <1>4 DEF A!Become
  <2>2. retry[r] \in 0..MaxRetries /\ MaxRetries \in Nat
    BY RetryPolicy DEF A!TypeOK, A!Policy
  <2>3. A!Wait(r, asking) \in 0..MaxDelay /\ A!Wait(r, 0) = A!Doubled[retry[r]]
        /\ A!Doubled[retry[r]] \in 0..MaxDelay
    BY <2>2, WaitIs, WaitsDouble
  <2>4. A!TypeOK'
    BY <1>2, <2>1, <2>3 DEF A!TypeOK, A!Past
  <2>5. GateInv'
    BY <1>2, <2>1 DEF GateInv, A!GateIsHeld, A!TypeOK, A!Past
  <2>6. ShareInv'
    BY <1>2, <2>1 DEF ShareInv, A!TypeOK
  <2>7. BackedInv'
    <3> SUFFICES ASSUME NEW q \in Request, backed'[q] > 0
                 PROVE  \E i \in 0..retry[q] :
                          /\ backed'[q] = A!Doubled[i]
                          /\ apc'[q] \notin {"sleeping"} \cup A!Outcomes => i < retry[q]
      BY <1>2 DEF BackedInv
    <3>1. CASE q # r
      BY <2>1, <3>1 DEF BackedInv, A!TypeOK
    <3>2. CASE q = r /\ backed' = backed
      BY <2>1, <3>2 DEF BackedInv, A!TypeOK
    <3>3. CASE q = r /\ backed' = [backed EXCEPT ![r] = A!Wait(r, 0)]
      <4>1. backed'[q] = A!Doubled[retry[q]] /\ retry[q] \in 0..retry[q] /\ apc'[q] = "sleeping"
        BY <2>1, <2>2, <2>3, <3>3 DEF A!TypeOK
      <4> QED
        BY <4>1
    <3> QED
      BY <2>1, <3>1, <3>2, <3>3
  <2>8. SleepInv'
    BY <1>2, <1>4, <2>1, <2>2 DEF SleepInv, A!TypeOK
  <2> QED
    BY <2>4, <2>5, <2>6, <2>7, <2>8
<1> QED
  BY <1>3, <1>4

\* ... and is sent again, one retry later.
LEMMA WakeStep ==
  ASSUME AInv, NEW r \in Request, A!Wake(r)
  PROVE  AInv'
<1> USE DEF AInv
<1>1. UNCHANGED <<action, delay, backed, atoken, obtained, acancelled>> /\ apc[r] = "sleeping"
  BY DEF A!Wake
<1>2. CASE A!Return(r, "canceled") /\ UNCHANGED retry
  BY <1>1, <1>2, ReturnStep DEF A!Outcomes, A!Past
<1>3. CASE /\ A!Become(r, "sending") /\ retry' = [retry EXCEPT ![r] = @ + 1]
           /\ UNCHANGED <<gate, tokenless>>
  <2>1. /\ apc' = [apc EXCEPT ![r] = "sending"] /\ retry' = [retry EXCEPT ![r] = retry[r] + 1]
        /\ UNCHANGED <<gate, tokenless>>
    BY <1>3 DEF A!Become
  <2>2. retry[r] \in 0..MaxRetries /\ retry[r] < MaxRetries /\ MaxRetries \in Nat
    BY <1>1, RetryPolicy DEF A!TypeOK, A!Policy, SleepInv
  <2>3. A!TypeOK'
    BY <1>1, <2>1, <2>2 DEF A!TypeOK, A!Past
  <2>4. GateInv'
    BY <1>1, <2>1 DEF GateInv, A!GateIsHeld, A!TypeOK, A!Past
  <2>5. ShareInv'
    BY <1>1, <2>1 DEF ShareInv, A!TypeOK
  <2>6. BackedInv' /\ SleepInv'
    BY <1>1, <2>1, <2>2 DEF BackedInv, SleepInv, A!TypeOK
  <2> QED
    BY <2>3, <2>4, <2>5, <2>6
<1> QED
  BY <1>2, <1>3 DEF A!Wake

\* Whichever step comes next, the invariant survives.
LEMMA ANextInv == AInv /\ [A!Next]_(A!vars) => AInv'
<1> SUFFICES ASSUME AInv, [A!Next]_(A!vars) PROVE AInv'
  OBVIOUS
<1>1. CASE UNCHANGED A!vars \/ \E r \in Request : A!Cancel(r)
  <2>1. UNCHANGED <<action, gate, apc, retry, delay, backed, atoken, obtained, tokenless>>
    BY <1>1 DEF A!vars, A!Cancel, A!policy, A!tokens
  <2>2. acancelled' \subseteq Request
    BY <1>1 DEF A!vars, A!Cancel, AInv, A!TypeOK
  <2> QED
    BY <2>1, <2>2 DEF AInv, A!TypeOK, GateInv, A!GateIsHeld, ShareInv, BackedInv, SleepInv
<1>2. CASE \E r \in Request : A!Answer(r) \/ A!FailForGood(r)
  <2>1. PICK r \in Request : A!Answer(r) \/ A!FailForGood(r)
    BY <1>2
  <2>2. PICK outcome \in A!Outcomes : A!Return(r, outcome)
    BY <2>1 DEF A!Answer, A!FailForGood, A!Outcomes
  <2> QED
    BY <2>1, <2>2, ReturnStep DEF A!Answer, A!FailForGood, A!Past, A!policy
<1> QED
  BY <1>1, <1>2, ArriveStep, PassStep, SendStep, ObtainStep, RetryStep, WakeStep DEF A!Next, A!Do

\* The invariant holds throughout.
THEOREM AInvariance == A!Spec => []AInv
BY AInitInv, ANextInv, PTL DEF A!Spec

\* The variables of ACR's gates, tokens and retries keep their types, and no request
\* is retried more often or waits longer than the policy says.
THEOREM ATypeCorrect == A!Spec => [](A!TypeOK)
<1>1. AInv => A!TypeOK
  BY DEF AInv
<1> QED
  BY AInvariance, <1>1, PTL

\* The requests of either registry share one token: of GHCR's there is no second
\* while the first is accepted, of ACR's none for an action whose first request got
\* one, and a gate that is closed has that request under way.
THEOREM TokensAreAlwaysShared == K!Spec /\ A!Spec => []TokensAreShared
<1>1. AInv => A!TokenIsShared
  <2> SUFFICES ASSUME AInv, NEW a \in Action, a \notin tokenless PROVE ~(obtained[a] > 1)
    BY DEF A!TokenIsShared
  <2> QED
    BY DEF AInv, ShareInv
<1>2. AInv => A!GateIsHeld
  BY DEF AInv, GateInv
<1>3. K!OneValidToken /\ A!TokenIsShared /\ A!GateIsHeld => TokensAreShared
  BY DEF TokensAreShared
<1> QED
  BY AlwaysOneValidToken, AInvariance, <1>1, <1>2, <1>3, PTL

\* ACR's waits double, up to the maximum, after however many retries.
THEOREM AlwaysBacksOff == A!Spec => BacksOff
<1> DEFINE Longer ==
      \A r \in Request : backed[r] > 0 /\ apc[r] # "sleeping" /\ apc'[r] = "sleeping" =>
        \/ delay'[r] >= A!Min({2 * backed[r], MaxDelay})
        \/ backed'[r] = backed[r] /\ delay'[r] \in RetryAfter
<1>1. AInv /\ [A!Next]_(A!vars) => [Longer]_(A!vars)
  <2> SUFFICES ASSUME AInv, A!Next,
                      NEW r \in Request, backed[r] > 0, apc[r] # "sleeping", apc'[r] = "sleeping"
               PROVE  \/ delay'[r] >= A!Min({2 * backed[r], MaxDelay})
                      \/ backed'[r] = backed[r] /\ delay'[r] \in RetryAfter
    OBVIOUS
  <2>1. A!Retry(r) /\ ~(retry[r] >= MaxRetries)
    <3>1. PICK q \in Request : A!Do(q) \/ A!Cancel(q)
      BY DEF A!Next
    <3>2. apc \in [Request -> {"arriving", "queued"} \cup A!Past \cup A!Outcomes]
      BY DEF AInv, A!TypeOK
    <3>3. CASE A!Arrive(q) \/ A!Pass(q) \/ A!Send(q) \/ A!Obtain(q) \/ A!Wake(q) \/ A!Cancel(q)
      BY <3>2, <3>3 DEF A!Arrive, A!Pass, A!Send, A!Obtain, A!Wake, A!Cancel, A!Return, A!Become
    <3>4. CASE A!Answer(q) \/ A!FailForGood(q)
      BY <3>2, <3>4 DEF A!Answer, A!FailForGood, A!Return, A!Become
    <3>5. CASE A!Retry(q)
      <4>1. PICK state : apc' = [apc EXCEPT ![q] = state] /\ (retry[q] >= MaxRetries => state = "failed")
        BY <3>5 DEF A!Retry, A!Return, A!Become
      <4>2. q = r /\ ~(retry[q] >= MaxRetries)
        BY <3>2, <4>1
      <4> QED
        BY <3>5, <4>2
    <3> QED
      BY <3>1, <3>3, <3>4, <3>5 DEF A!Do
  <2>2. PICK asking \in RetryAfter :
            /\ delay' = [delay EXCEPT ![r] = A!Wait(r, asking)]
            /\ backed' = IF asking > 0 THEN backed ELSE [backed EXCEPT ![r] = A!Wait(r, 0)]
    BY <2>1 DEF A!Retry
  <2>3. retry[r] \in 0..MaxRetries /\ MaxDelay \in Nat /\ backed[r] \in 0..MaxDelay
    BY RetryPolicy DEF AInv, A!TypeOK, A!Policy
  <2>4. delay'[r] = A!Wait(r, asking)
    BY <2>2 DEF AInv, A!TypeOK
  <2>5. PICK i \in 0..retry[r] : backed[r] = A!Doubled[i] /\ i < retry[r]
    BY <2>1 DEF AInv, BackedInv, A!Retry, A!Outcomes
  <2>6. A!Min({2 * backed[r], MaxDelay}) = IF 2 * backed[r] <= MaxDelay THEN 2 * backed[r] ELSE MaxDelay
    BY <2>3, LesserOfTwo
  <2>7. CASE asking > 0
    BY <2>2, <2>3, <2>4, <2>6, <2>7, WaitIs
  <2>8. CASE ~(asking > 0)
    <3>1. i \in 0..MaxRetries
      BY <2>3, RetryPolicy DEF A!Policy
    <3>2. A!Doubled[retry[r]] >= A!Min({2 * A!Doubled[i], MaxDelay})
      BY <2>3, <2>5, <3>1, WaitsDouble
    <3> QED
      BY <2>3, <2>4, <2>5, <2>8, <3>2, WaitIs
  <2> QED
    BY <2>7, <2>8
<1> QED
  BY AInvariance, <1>1, PTL DEF A!Spec, BacksOff, A!BacksOff

-----------------------------------------------------------------------------
(* GhcrThrottle *)

\* A pause lasts as long as any answer asked for. A call about to send has looked
\* since, but for an answer that came at this very instant.
AskedInv ==
  /\ asked <= pause
  /\ \A r \in Request : tpc[r] = "ready" => asked = 0 \/ justAsked

\* A call that failed too often is over, and one that asleep has a while to go.
FailInv == \A r \in Request : tpc[r] \notin T!Outcomes => failures[r] < MaxAttempts

\* What the n-th unguided answer in a row asks for.
Shift(n) == 2 ^ n
Unguided(n) == T!Min({Shift(T!Min({n, 16})), MaxThrottle})

\* Within a limit no answer gets through but to a request sent before it was
\* noticed; the last pause was of an earlier streak.
StreakInv ==
  limiting /\ pauses # <<>> =>
    /\ \E n \in 0..(streak - 1) : pauses[Len(pauses)] = Unguided(n)
    /\ \A r \in Request : tpc[r] = "sent" => r \in rejected \cup early

TInv == T!TypeOK /\ AskedInv /\ FailInv /\ StreakInv

\* The lesser and the greater of two numbers.
LEMMA OfTwo ==
  ASSUME NEW m \in Int, NEW n \in Int
  PROVE  /\ T!Min({m, n}) = IF m <= n THEN m ELSE n
         /\ T!Max({m, n}) = IF m >= n THEN m ELSE n
<1>1. PICK x \in {m, n} : \A y \in {m, n} : x <= y
  OBVIOUS
<1>2. PICK z \in {m, n} : \A y \in {m, n} : z >= y
  OBVIOUS
<1> QED
  BY <1>1, <1>2 DEF T!Min, T!Max

\* A power of two is twice the one before, as far as the code shifts.
Twice(k) == Shift(k + 1) = 2 * Shift(k)

LEMMA Doubles ==
  ASSUME NEW k \in 0..15
  PROVE  Shift(k + 1) = 2 * Shift(k)
<1>1. /\ Twice(0) /\ Twice(1) /\ Twice(2) /\ Twice(3) /\ Twice(4) /\ Twice(5) /\ Twice(6) /\ Twice(7)
      /\ Twice(8) /\ Twice(9) /\ Twice(10) /\ Twice(11) /\ Twice(12) /\ Twice(13) /\ Twice(14)
      /\ Twice(15)
  BY DEF Twice, Shift
<1>2. Twice(k)
  BY <1>1
<1> QED
  BY <1>2 DEF Twice

\* Powers grow, as far as the code shifts.
LEMMA Shifts ==
  /\ Shift(0) = 1 /\ Shift(16) = 65536
  /\ \A k \in 0..16 : Shift(k) \in Nat \ {0}
  /\ \A i, j \in 0..16 : i < j => Shift(j) >= 2 * Shift(i)
<1>1. Shift(0) = 1 /\ Shift(16) = 65536
  BY DEF Shift
<1>2. \A k \in 0..15 : Twice(k)
  BY Doubles DEF Twice
<1>3. \A k \in 0..16 : Shift(k) \in Nat \ {0}
  <2> DEFINE Odd == {k \in 0..16 : Shift(k) \notin Nat \ {0}}
  <2> SUFFICES ASSUME Odd # {} PROVE FALSE
    OBVIOUS
  <2>1. PICK n \in Odd : \A k \in Odd : n <= k
    <3>1. Odd \in SUBSET Nat
      OBVIOUS
    <3> HIDE DEF Odd
    <3> QED
      BY <3>1, LeastNumber
  <2>2. n # 0 /\ n - 1 \in 0..15 /\ n - 1 \notin Odd
    BY <1>1, <2>1
  <2>3. Shift((n - 1) + 1) = 2 * Shift(n - 1) /\ (n - 1) + 1 = n
    BY <1>2, <2>2 DEF Twice
  <2> QED
    BY <2>1, <2>2, <2>3
<1>4. ASSUME NEW i \in 0..16, NEW j \in 0..16, i < j
      PROVE  Shift(j) >= 2 * Shift(i)
  <2> DEFINE Small == {k \in 0..16 : i < k /\ ~(Shift(k) >= 2 * Shift(i))}
  <2> SUFFICES ASSUME Small # {} PROVE FALSE
    BY <1>4
  <2>1. PICK n \in Small : \A k \in Small : n <= k
    <3>1. Small \in SUBSET Nat
      OBVIOUS
    <3> HIDE DEF Small
    <3> QED
      BY <3>1, LeastNumber
  <2>2. n - 1 \in 0..15 /\ n - 1 \notin Small /\ n - 1 >= i
    BY <2>1
  <2>3. Shift((n - 1) + 1) = 2 * Shift(n - 1) /\ (n - 1) + 1 = n
    BY <1>2, <2>2 DEF Twice
  <2>4. Shift(n) \in Nat /\ Shift(n - 1) \in Nat /\ Shift(i) \in Nat
    BY <1>3, <2>1, <2>2
  <2>5. Shift(n - 1) >= Shift(i)
    BY <2>2, <2>4
  <2> QED
    BY <2>1, <2>3, <2>4, <2>5
<1> QED
  BY <1>1, <1>3, <1>4

\* How far the code shifts.
Far(n) == IF n <= 16 THEN n ELSE 16

LEMMA UnguidedIs ==
  ASSUME NEW n \in Nat
  PROVE  Unguided(n) = IF Shift(Far(n)) <= MaxThrottle THEN Shift(Far(n)) ELSE MaxThrottle
<1>1. MaxThrottle \in Nat
  BY ThrottleDurations DEF T!Durations
<1>2. T!Min({n, 16}) = Far(n) /\ Far(n) \in 0..16
  BY OfTwo DEF Far
<1>3. Shift(Far(n)) \in Nat
  BY <1>2, Shifts
<1> QED
  BY <1>1, <1>2, <1>3, OfTwo DEF Unguided

\* An unguided pause is at most what a call waits.
LEMMA UnguidedFits ==
  ASSUME NEW n \in Nat
  PROVE  Unguided(n) \in 0..MaxThrottle
<1>1. MaxThrottle \in Nat
  BY ThrottleDurations DEF T!Durations
<1>2. Shift(Far(n)) \in Nat
  BY Shifts DEF Far
<1> QED
  BY <1>1, <1>2, UnguidedIs

\* One that comes later in a row is twice any before it, if the shifts reach that far.
LEMMA UnguidedGrows ==
  ASSUME MaxThrottle <= 65536, NEW m \in Nat, NEW n \in Nat, n < m
  PROVE  Unguided(m) >= T!Min({2 * Unguided(n), MaxThrottle})
<1>1. MaxThrottle \in Nat /\ Unguided(n) \in 0..MaxThrottle /\ 2 * Unguided(n) \in Nat
  <2>1. MaxThrottle \in Nat
    BY ThrottleDurations DEF T!Durations
  <2>2. Unguided(n) \in 0..MaxThrottle
    BY UnguidedFits
  <2> QED
    BY <2>1, <2>2
<1>2. T!Min({2 * Unguided(n), MaxThrottle}) =
        IF 2 * Unguided(n) <= MaxThrottle THEN 2 * Unguided(n) ELSE MaxThrottle
  BY <1>1, OfTwo
<1>3. /\ Unguided(m) = IF Shift(Far(m)) <= MaxThrottle THEN Shift(Far(m)) ELSE MaxThrottle
      /\ Unguided(n) = IF Shift(Far(n)) <= MaxThrottle THEN Shift(Far(n)) ELSE MaxThrottle
  BY UnguidedIs
<1>4. Far(m) \in 0..16 /\ Far(n) \in 0..16 /\ Far(n) <= Far(m) /\ (n >= 16 => Far(m) = 16)
      /\ (n < 16 => Far(n) < Far(m))
  BY DEF Far
<1>5. Shift(Far(m)) \in Nat /\ Shift(Far(n)) \in Nat
  BY <1>4, Shifts
<1>6. CASE n >= 16
  <2>1. Shift(Far(m)) = 65536
    BY <1>4, <1>6, Shifts
  <2> QED
    BY <1>1, <1>2, <1>3, <2>1
<1>7. CASE n < 16
  <2>1. Shift(Far(m)) >= 2 * Shift(Far(n))
    BY <1>4, <1>7, Shifts
  <2> QED
    BY <1>1, <1>2, <1>3, <1>5, <2>1
<1> QED
  BY <1>6, <1>7

\* At first no call was made and no limit noticed.
LEMMA TInitInv == T!Init => TInv
<1> SUFFICES ASSUME T!Init PROVE TInv
  OBVIOUS
<1>1. /\ MaxThrottle \in Nat /\ MaxLimits \in Nat
      /\ Latency \in Nat \ {0} /\ MaxAttempts \in Nat \ {0}
  BY ThrottleDurations DEF T!Durations
<1>2. T!CallsOK
  BY <1>1 DEF T!Init, T!CallsOK
<1>3. T!FlagsOK
  BY DEF T!Init, T!FlagsOK
<1>4. T!CountsOK
  BY <1>1 DEF T!Init, T!CountsOK
<1>5. AskedInv /\ FailInv /\ StreakInv
  BY <1>1 DEF T!Init, AskedInv, FailInv, StreakInv
<1> QED
  BY <1>2, <1>3, <1>4, <1>5 DEF T!Init, T!TypeOK, TInv

\* A call that starts, waits, wakes, ends or is retried, without any news of a limit.
LEMMA CallStep ==
  ASSUME TInv, NEW r \in Request,
         T!Start(r) \/ T!Pause(r) \/ T!Wake(r) \/ T!Interrupted(r) \/ T!FailTransiently(r)
         \/ T!FailForGood(r)
  PROVE  TInv'
<1> USE DEF TInv, T!TypeOK
<1>1. UNCHANGED <<pause, early, streak, age, rejected, tcancelled, guided, limiting, sinceLimit, limits,
                  asked, justAsked, pauses>>
  BY DEF T!Start, T!Pause, T!Wake, T!Interrupted, T!FailTransiently, T!FailForGood, T!throttle,
     T!github, T!seen
<1>2. PICK state \in {"checking", "ready", "sleeping", "limited", "failed", "cancelled"} :
        /\ tpc' = [tpc EXCEPT ![r] = state]
        /\ state = "ready" => pause = 0
  BY DEF T!Start, T!Pause, T!Wake, T!Interrupted, T!FailTransiently, T!FailForGood, T!Become, T!Sleep
<1>3. /\ MaxThrottle \in Nat /\ MaxBackoff \in Nat /\ MaxAttempts \in Nat
  BY ThrottleDurations DEF T!Durations
<1>4. /\ timer' \in [Request -> Nat] /\ throttled' \in [Request -> 0..MaxThrottle]
      /\ failures' \in [Request -> 0..MaxAttempts]
      /\ \A q \in Request : tpc'[q] \notin T!Outcomes => failures'[q] < MaxAttempts
  <2>1. CASE T!Start(r) \/ T!Wake(r) \/ T!Interrupted(r) \/ T!FailForGood(r)
    BY <1>2, <2>1 DEF T!Start, T!Wake, T!Interrupted, T!FailForGood, T!CallsOK, FailInv, T!Arrived,
       T!Outcomes
  <2>2. CASE T!Pause(r)
    <3>1. throttled[r] \in 0..MaxThrottle /\ pause \in Nat
      BY DEF T!CallsOK, T!CountsOK
    <3>2. \/ timer' = timer /\ throttled' = throttled
          \/ /\ timer' = [timer EXCEPT ![r] = pause]
             /\ throttled' = [throttled EXCEPT ![r] = throttled[r] + pause]
             /\ throttled[r] + pause \in 0..MaxThrottle
      BY <1>3, <2>2, <3>1 DEF T!Pause, T!Sleep, T!Fits
    <3>3. timer' \in [Request -> Nat] /\ throttled' \in [Request -> 0..MaxThrottle]
      BY <3>1, <3>2 DEF T!CallsOK
    <3>4. failures' = failures /\ tpc[r] = "checking"
      BY <2>2 DEF T!Pause
    <3> QED
      BY <1>2, <3>3, <3>4 DEF T!CallsOK, FailInv, T!Outcomes
  <2>3. CASE T!FailTransiently(r)
    <3>1. /\ failures' = [failures EXCEPT ![r] = failures[r] + 1] /\ throttled' = throttled
          /\ IF failures[r] + 1 >= MaxAttempts THEN tpc' = [tpc EXCEPT ![r] = "failed"] /\ timer' = timer
             ELSE timer' = [timer EXCEPT ![r] = T!Backoff(failures[r] + 1)]
      BY <2>3 DEF T!FailTransiently, T!Become, T!Sleep, T!CallsOK
    <3>2. failures[r] \in 0..MaxAttempts /\ failures[r] < MaxAttempts
      BY <2>3 DEF T!FailTransiently, T!Arrived, T!Outcomes, FailInv, T!CallsOK
    <3>3. T!Backoff(failures[r] + 1) \in Nat
      <4> DEFINE few == T!Min({(failures[r] + 1) - 1, 5})
      <4>1. few \in 0..5
        <5>1. (failures[r] + 1) - 1 \in Nat
          BY <1>3, <3>2
        <5> QED
          BY <5>1, OfTwo
      <4>2. T!Backoff(failures[r] + 1) = T!Min({Shift(few), MaxBackoff})
        BY DEF T!Backoff, Shift
      <4> HIDE DEF few
      <4>3. Shift(few) \in Nat
        BY <4>1, Shifts
      <4> QED
        BY <1>3, <4>2, <4>3, OfTwo
    <3> QED
      BY <1>2, <1>3, <3>1, <3>2, <3>3 DEF T!CallsOK, FailInv, T!Outcomes
  <2> QED
    BY <2>1, <2>2, <2>3
<1>5. T!CallsOK'
  BY <1>1, <1>2, <1>4 DEF T!CallsOK, T!Running, T!Outcomes
<1>6. T!FlagsOK' /\ T!CountsOK' /\ guided' \in Guidance
  BY <1>1 DEF T!FlagsOK, T!CountsOK
<1>7. AskedInv'
  <2>1. pause = 0 => asked = 0
    BY DEF AskedInv, T!CountsOK
  <2> QED
    BY <1>1, <1>2, <2>1 DEF AskedInv, T!CallsOK
<1>8. StreakInv'
  BY <1>1, <1>2 DEF StreakInv, T!CallsOK
<1> QED
  BY <1>4, <1>5, <1>6, <1>7, <1>8 DEF FailInv

\* A request is turned away if it is sent during a limit.
LEMMA TSendStep ==
  ASSUME TInv, NEW r \in Request, T!Send(r)
  PROVE  TInv'
<1> USE DEF TInv, T!TypeOK
<1>1. UNCHANGED <<pause, streak, timer, throttled, failures, tcancelled, guided, limiting, sinceLimit,
                  limits, asked, justAsked, pauses>>
  BY DEF T!Send, T!github, T!seen
<1>2. /\ tpc[r] = "ready" /\ tpc' = [tpc EXCEPT ![r] = "sent"] /\ age' = [age EXCEPT ![r] = 0]
      /\ early' = early \ {r} /\ rejected' = IF limiting THEN rejected \cup {r} ELSE rejected \ {r}
  BY DEF T!Send, T!Become
<1>3. Latency \in Nat
  BY ThrottleDurations DEF T!Durations
<1>4. rejected' \subseteq Request
  BY <1>2 DEF T!CallsOK
<1>5. T!CallsOK'
  BY <1>1, <1>2, <1>3, <1>4 DEF T!CallsOK, T!Running
<1>6. T!FlagsOK' /\ T!CountsOK' /\ guided' \in Guidance
  BY <1>1 DEF T!FlagsOK, T!CountsOK
<1>7. AskedInv' /\ FailInv'
  BY <1>1, <1>2 DEF AskedInv, FailInv, T!CallsOK, T!Outcomes
<1>8. StreakInv'
  BY <1>1, <1>2 DEF StreakInv, T!CallsOK
<1> QED
  BY <1>5, <1>6, <1>7, <1>8

\* An answer that gets through ends the streak, unless its request is early; within
\* a limit that was noticed it is.
LEMMA TAnswerStep ==
  ASSUME TInv, NEW r \in Request, T!Answer(r)
  PROVE  TInv'
<1> USE DEF TInv, T!TypeOK
<1>1. UNCHANGED <<pause, early, timer, age, rejected, throttled, failures, tcancelled, guided, limiting,
                  sinceLimit, limits, asked, justAsked, pauses>>
  BY DEF T!Answer, T!github, T!seen
<1>2. /\ tpc[r] = "sent" /\ r \notin rejected /\ tpc' = [tpc EXCEPT ![r] = "answered"]
      /\ streak' = IF r \in early THEN streak ELSE 0
  BY DEF T!Answer, T!Arrived, T!Become, T!Passed, T!Burst
<1>3. streak' \in Nat
  BY <1>2 DEF T!CountsOK
<1>4. T!CallsOK'
  BY <1>1, <1>2 DEF T!CallsOK, T!Outcomes
<1>5. T!FlagsOK' /\ T!CountsOK' /\ guided' \in Guidance
  BY <1>1, <1>3 DEF T!FlagsOK, T!CountsOK
<1>6. AskedInv' /\ FailInv'
  BY <1>1, <1>2 DEF AskedInv, FailInv, T!CallsOK, T!Outcomes
<1>7. StreakInv'
  BY <1>1, <1>2 DEF StreakInv, T!CallsOK
<1> QED
  BY <1>4, <1>5, <1>6, <1>7

\* A request turned away pauses all of them, and if it is the first of its burst
\* makes every other under way an early one. Only such an answer adds to the
\* streak, and to the pauses, a later one than any before.
LEMMA LimitedStep ==
  ASSUME TInv, NEW r \in Request, T!Limited(r)
  PROVE  TInv'
<1> USE DEF TInv, T!TypeOK
<1>1. UNCHANGED <<age, rejected, failures, tcancelled, guided, limiting, sinceLimit, limits>>
  BY DEF T!Limited, T!github
<1>2. tpc[r] = "sent" /\ r \in rejected
  BY DEF T!Limited, T!Arrived
<1> DEFINE Counts(guide) == guide = T!None /\ r \notin early
           Wait(guide)   == IF guide # T!None THEN guide ELSE T!Unguided(r \in early)
<1>3. PICK guide \in guided \cup {T!None} :
        /\ streak' = IF Counts(guide) THEN streak + 1 ELSE streak
        /\ early' = IF r \in early THEN early ELSE {q \in Request \ {r} : tpc[q] = "sent"}
        /\ pause' = T!Max({pause, Wait(guide)})
        /\ asked' = T!Max({asked, guide})
        /\ justAsked' = (justAsked \/ guide > asked)
        /\ pauses' = IF Counts(guide) /\ limiting THEN Append(pauses, Wait(guide)) ELSE pauses
  BY DEF T!Limited, T!Burst, T!Resume
<1>4. /\ guide \in Nat /\ MaxThrottle \in Nat /\ MaxAttempts \in Nat
      /\ pause \in Nat /\ asked \in Nat /\ streak \in Nat
  BY ThrottleDurations DEF T!Durations, T!None, T!CountsOK
<1>5. /\ T!Unguided(r \in early) = IF r \in early THEN 0 ELSE Unguided(streak)
      /\ Unguided(streak) \in 0..MaxThrottle
  <2>1. T!Unguided(r \in early) = IF r \in early THEN 0 ELSE Unguided(streak)
    BY DEF T!Unguided, Unguided, Shift
  <2> QED
    BY <1>4, <2>1, UnguidedFits
<1>6. /\ Wait(guide) \in Nat /\ guide <= Wait(guide)
      /\ Counts(guide) => Wait(guide) = Unguided(streak)
  BY <1>4, <1>5 DEF T!None
<1> HIDE DEF Wait
<1>7. /\ pause' = IF pause >= Wait(guide) THEN pause ELSE Wait(guide)
      /\ asked' = IF asked >= guide THEN asked ELSE guide
  <2>1. pause' = T!Max({pause, Wait(guide)}) /\ asked' = T!Max({asked, guide})
    BY <1>3
  <2>2. T!Max({pause, Wait(guide)}) = IF pause >= Wait(guide) THEN pause ELSE Wait(guide)
    <3>1. pause \in Int /\ Wait(guide) \in Int
      BY <1>4, <1>6
    <3> QED
      BY <3>1, OfTwo, Zenon
  <2>3. T!Max({asked, guide}) = IF asked >= guide THEN asked ELSE guide
    BY <1>4, OfTwo
  <2> QED
    BY <2>1, <2>2, <2>3
<1>8. PICK state \in {"sleeping", "limited"} :
        /\ tpc' = [tpc EXCEPT ![r] = state]
        /\ timer' \in {timer, [timer EXCEPT ![r] = pause']}
        /\ throttled' = throttled \/ /\ throttled' = [throttled EXCEPT ![r] = throttled[r] + pause']
                                     /\ pause' <= MaxThrottle - throttled[r]
  BY DEF T!Limited, T!Fits, T!Sleep, T!Become
<1>9. pause' \in Nat /\ asked' \in Nat /\ streak' \in Nat
  BY <1>3, <1>4, <1>6, <1>7
<1>10. T!CallsOK'
  <2>1. throttled' \in [Request -> 0..MaxThrottle]
    <3>1. throttled[r] \in 0..MaxThrottle
      BY DEF T!CallsOK
    <3>2. throttled' = throttled \/ /\ throttled' = [throttled EXCEPT ![r] = throttled[r] + pause']
                                    /\ throttled[r] + pause' \in 0..MaxThrottle
      BY <1>4, <1>8, <1>9, <3>1
    <3> QED
      BY <3>2 DEF T!CallsOK
  <2>2. timer' \in [Request -> Nat]
    BY <1>8, <1>9 DEF T!CallsOK
  <2>3. early' \subseteq Request
    BY <1>3 DEF T!CallsOK
  <2> QED
    BY <1>1, <1>8, <2>1, <2>2, <2>3 DEF T!CallsOK, T!Running, T!Outcomes
<1>11. pauses' \in Seq(0..MaxThrottle)
  BY <1>3, <1>5, <1>6, AppendProperties DEF T!CountsOK
<1>12. T!CountsOK' /\ T!FlagsOK' /\ guided' \in Guidance
  <2>1. justAsked' \in BOOLEAN
    BY <1>3
  <2>2. T!FlagsOK'
    BY <1>1, <2>1 DEF T!FlagsOK
  <2> QED
    BY <1>1, <1>9, <1>11, <2>2 DEF T!CountsOK
<1>13. AskedInv'
  <2>1. asked' <= pause'
    BY <1>4, <1>6, <1>7 DEF AskedInv
  <2>2. ASSUME NEW q \in Request, tpc'[q] = "ready"
        PROVE  asked' = 0 \/ justAsked'
    <3>1. tpc[q] = "ready"
      BY <1>8, <2>2 DEF T!CallsOK
    <3>2. asked = 0 \/ justAsked
      BY <3>1 DEF AskedInv
    <3>3. asked' = asked \/ guide > asked
      BY <1>4, <1>7
    <3> QED
      BY <1>3, <3>2, <3>3
  <2> QED
    BY <2>1, <2>2 DEF AskedInv
<1>14. FailInv'
  BY <1>1, <1>2, <1>8 DEF FailInv, T!CallsOK, T!Outcomes
<1>15. StreakInv'
  <2> SUFFICES ASSUME limiting, pauses' # <<>>
               PROVE  /\ \E n \in 0..(streak' - 1) : pauses'[Len(pauses')] = Unguided(n)
                      /\ \A q \in Request : tpc'[q] = "sent" => q \in rejected \cup early'
    BY <1>1 DEF StreakInv
  <2>1. CASE Counts(guide)
    <3>1. pauses' = Append(pauses, Unguided(streak)) /\ streak' = streak + 1
      BY <1>3, <1>6, <2>1
    <3>2. pauses'[Len(pauses')] = Unguided(streak) /\ streak \in 0..(streak' - 1)
      BY <1>4, <1>5, <3>1, AppendProperties DEF T!CountsOK
    <3>3. \A q \in Request : tpc'[q] = "sent" => q \in rejected \cup early'
      BY <1>3, <1>8, <2>1 DEF T!CallsOK
    <3> QED
      BY <3>2, <3>3
  <2>2. CASE ~Counts(guide)
    <3>1. pauses' = pauses /\ streak' = streak
      BY <1>3, <2>2
    <3>2. \A q \in Request : tpc'[q] = "sent" => tpc[q] = "sent" /\ q # r
      BY <1>8 DEF T!CallsOK
    <3>3. \A q \in Request : tpc'[q] = "sent" => q \in rejected \cup early'
      BY <1>3, <3>1, <3>2 DEF StreakInv
    <3> QED
      BY <3>1, <3>3 DEF StreakInv
  <2> QED
    BY <2>1, <2>2
<1> QED
  BY <1>1, <1>10, <1>12, <1>13, <1>14, <1>15

\* GitHub comes to limit requests or stops, the context ends.
LEMMA TOutsideStep ==
  ASSUME TInv, T!ComeIntoForce \/ T!Lift \/ T!Cancel \/ UNCHANGED T!vars
  PROVE  TInv'
<1> USE DEF TInv, T!TypeOK
<1>1. UNCHANGED <<pause, early, streak, tpc, timer, age, rejected, throttled, failures, guided, asked,
                  justAsked>>
  BY DEF T!ComeIntoForce, T!Lift, T!Cancel, T!vars, T!throttle, T!call, T!github, T!seen
<1>2. /\ sinceLimit' \in {sinceLimit, 0} /\ limits' \in 0..MaxLimits
      /\ pauses' \in {pauses, <<>>}
      /\ limiting' => pauses' = <<>> \/ (limiting /\ pauses' = pauses)
  <2>1. limits' \in 0..MaxLimits
    <3>1. limits \in 0..MaxLimits /\ MaxLimits \in Nat
      BY ThrottleDurations DEF T!Durations, T!CountsOK
    <3>2. limits' = limits \/ (limits' = limits + 1 /\ limits < MaxLimits)
      BY DEF T!ComeIntoForce, T!Lift, T!Cancel, T!vars, T!github
    <3> QED
      BY <3>1, <3>2
  <2> QED
    BY <2>1 DEF T!ComeIntoForce, T!Lift, T!Cancel, T!vars, T!github, T!seen
<1>3. T!FlagsOK'
  BY <1>1 DEF T!ComeIntoForce, T!Lift, T!Cancel, T!vars, T!github, T!FlagsOK
<1>4. T!CallsOK' /\ AskedInv' /\ FailInv'
  BY <1>1 DEF T!CallsOK, AskedInv, FailInv
<1>6. T!CountsOK'
  <2>1. <<>> \in Seq(0..MaxThrottle) /\ sinceLimit' \in Nat
    BY <1>2 DEF T!CountsOK
  <2> QED
    BY <1>1, <1>2, <2>1 DEF T!CountsOK
<1>5. StreakInv'
  BY <1>1, <1>2 DEF StreakInv
<1> QED
  BY <1>1, <1>3, <1>4, <1>5, <1>6

\* Time passes, by no call that is about to send.
LEMMA TickStep ==
  ASSUME TInv, T!Tick
  PROVE  TInv'
<1> USE DEF TInv, T!TypeOK
<1>1. UNCHANGED <<early, streak, tpc, rejected, throttled, failures, tcancelled, guided, limiting, limits,
                  pauses>>
  BY DEF T!Tick
<1>2. /\ pause \in Nat /\ asked \in Nat /\ sinceLimit \in Nat
      /\ Persist \in Nat /\ Latency \in Nat
  BY ThrottleDurations DEF T!CountsOK, T!Durations
<1>3. \A n \in Nat : T!Down(n) = IF n > 0 THEN n - 1 ELSE 0
  BY OfTwo DEF T!Down
<1>4. pause' = T!Down(pause) /\ asked' = T!Down(asked) /\ justAsked' = FALSE
  BY DEF T!Tick
<1>5. sinceLimit' \in Nat
  <2> DEFINE far == T!Max({Persist, Latency})
  <2>1. far = IF Persist >= Latency THEN Persist ELSE Latency
    BY <1>2, OfTwo
  <2>2. sinceLimit' = T!Min({sinceLimit + 1, far})
    BY DEF T!Tick
  <2> HIDE DEF far
  <2>3. far \in Nat
    BY <1>2, <2>1
  <2> QED
    BY <1>2, <2>2, <2>3, OfTwo
<1>6. \A r \in Request : ~T!Due(r)
  BY DEF T!Tick
<1>7. timer' \in [Request -> Nat] /\ age' \in [Request -> 0..Latency]
  <2>1. ASSUME NEW r \in Request
        PROVE  /\ timer'[r] \in Nat /\ age'[r] \in 0..Latency
    BY <1>2, <1>6 DEF T!Tick, T!Due, T!CallsOK
  <2> QED
    BY <2>1 DEF T!Tick
<1>8. T!CallsOK'
  BY <1>1, <1>7 DEF T!CallsOK
<1>9. T!FlagsOK'
  BY <1>1, <1>4 DEF T!FlagsOK
<1>10. T!CountsOK'
  BY <1>1, <1>2, <1>3, <1>4, <1>5 DEF T!CountsOK
<1>11. AskedInv'
  <2>1. asked' <= pause'
    BY <1>2, <1>3, <1>4 DEF AskedInv
  <2>2. \A r \in Request : tpc'[r] # "ready"
    BY <1>1, <1>6 DEF T!Due
  <2> QED
    BY <2>1, <2>2 DEF AskedInv
<1>12. FailInv' /\ StreakInv'
  BY <1>1 DEF FailInv, StreakInv
<1> QED
  BY <1>1, <1>8, <1>9, <1>10, <1>11, <1>12

\* Whichever step comes next, the invariant survives.
LEMMA TNextInv == TInv /\ [T!Next]_(T!vars) => TInv'
BY CallStep, TSendStep, TAnswerStep, LimitedStep, TOutsideStep, TickStep DEF T!Next, T!Call

\* The invariant holds throughout.
THEOREM TInvariance == T!Spec => []TInv
BY TInitInv, TNextInv, PTL DEF T!Spec

\* The variables of the throttle keep their types, and no call waits longer or is
\* tried more often than it may.
THEOREM TTypeCorrect == T!Spec => [](T!TypeOK)
<1>1. TInv => T!TypeOK
  BY DEF TInv
<1> QED
  BY TInvariance, <1>1, PTL

\* Once an answer to any request has named a wait, no request of the backend is
\* sent before its end, but one about to be at that very instant.
THEOREM AlwaysPausedForAll == T!Spec => PausedForAll
<1>1. TInv /\ [T!Next]_(T!vars) =>
        [\A r \in Request : (tpc[r] = "ready" /\ tpc'[r] = "sent") => asked = 0 \/ justAsked]_(T!vars)
  BY DEF TInv, AskedInv
<1> QED
  BY TInvariance, <1>1, PTL DEF T!Spec, PausedForAll, T!PausedForAll

\* What is appended to the pauses is at least twice the last of them.
LEMMA GrowStep ==
  ASSUME MaxThrottle <= 65536, TInv, T!BacksOffFurther, [T!Next]_(T!vars)
  PROVE  T!BacksOffFurther'
<1> USE DEF TInv, T!TypeOK
<1>1. pauses \in Seq(0..MaxThrottle) /\ streak \in Nat
  BY DEF T!CountsOK
<1>2. CASE pauses' = pauses
  BY <1>2 DEF T!BacksOffFurther
<1>3. CASE pauses' = <<>>
  BY <1>3 DEF T!BacksOffFurther
<1>4. ASSUME pauses' # pauses, pauses' # <<>>
      PROVE  limiting /\ pauses' = Append(pauses, Unguided(streak))
  <2>1. PICK r \in Request : T!Limited(r)
    BY <1>4 DEF T!Next, T!Call, T!Start, T!Pause, T!Send, T!Wake, T!Interrupted, T!Answer,
       T!FailTransiently, T!FailForGood, T!ComeIntoForce, T!Lift, T!Cancel, T!Tick, T!seen, T!vars
  <2> QED
    BY <1>4, <2>1 DEF T!Limited, T!Unguided, Unguided, Shift
<1>5. CASE limiting /\ pauses' = Append(pauses, Unguided(streak))
  <2>1. Unguided(streak) \in 0..MaxThrottle
    BY <1>1, UnguidedFits
  <2>2. /\ Len(pauses') = Len(pauses) + 1 /\ pauses'[Len(pauses) + 1] = Unguided(streak)
        /\ \A i \in 1..Len(pauses) : pauses'[i] = pauses[i]
    BY <1>1, <1>5, <2>1, AppendProperties
  <2> SUFFICES ASSUME NEW i \in 1..Len(pauses)
               PROVE  pauses'[i + 1] >= T!Min({2 * pauses[i], MaxThrottle})
    BY <1>1, <2>2 DEF T!BacksOffFurther
  <2>3. CASE i < Len(pauses)
    BY <1>1, <2>2, <2>3 DEF T!BacksOffFurther
  <2>4. CASE i = Len(pauses)
    <3>1. pauses # <<>>
      BY <1>1, <2>4
    <3>2. PICK n \in 0..(streak - 1) : pauses[Len(pauses)] = Unguided(n)
      BY <1>5, <3>1 DEF StreakInv
    <3>3. n \in Nat /\ n < streak
      BY <1>1
    <3>4. Unguided(streak) >= T!Min({2 * Unguided(n), MaxThrottle})
      BY <1>1, <3>3, UnguidedGrows
    <3> QED
      BY <2>2, <2>4, <3>2, <3>4
  <2> QED
    BY <1>1, <2>3, <2>4
<1> QED
  BY <1>2, <1>3, <1>4, <1>5

\* Within a limit of GitHub's every unguided pause is twice the one before, if the
\* shifts, which stop at 2 ^ 16, reach as far as a call waits.
THEOREM AlwaysBacksOffFurther ==
  ASSUME MaxThrottle <= 65536
  PROVE  T!Spec => [](T!BacksOffFurther)
<1>1. T!Init => T!BacksOffFurther
  BY DEF T!Init, T!BacksOffFurther
<1>2. TInv /\ T!BacksOffFurther /\ [T!Next]_(T!vars) => T!BacksOffFurther'
  BY GrowStep
<1> QED
  BY TInvariance, <1>1, <1>2, PTL DEF T!Spec

\* A limit lifts early: while it is in force at most n of its pauses end, and two more begin.
LiftsIn(n) ==
  /\ MaxLimits <= 1
  /\ Persist <= Shift(n) + n /\ Shift(n + 2) - 1 <= MaxThrottle

\* A request whose answer will count as a new notice of the limit.
MayCount(r) == tpc[r] = "sent" /\ r \in rejected /\ r \notin early

\* How often the limit was noticed while it was in force.
Notices == Len(pauses)

\* How long a call sleeps on.
Asleep(r) == IF tpc[r] = "sleeping" THEN timer[r] ELSE 0

\* No call has waited longer for limits than total, or will have at the end of the
\* pause; what is left of a sleep for limits it has counted already, and one after a
\* transient failure passes in the pause.
Within(total) ==
  \A r \in Request : tpc[r] \notin T!Outcomes =>
    throttled[r] <= total /\ throttled[r] + pause <= total + Asleep(r)

\* No limit yet, no pause.
BeforeInv ==
  limits = 0 =>
    /\ ~limiting /\ streak = 0 /\ pause = 0 /\ pauses = <<>> /\ rejected = {}
    /\ \A r \in Request : throttled[r] = 0

\* All pauses of the limit together are less than twice the last of them.
PausesInv(n) ==
  /\ Within(Shift(n + 2) - 1)
  /\ limiting \/ (\E r \in Request : MayCount(r)) =>
       streak <= Notices /\ Notices <= n + 2 /\ Within(Shift(Notices) - 1)
  /\ limiting => streak = Notices
  /\ \A r \in Request : MayCount(r) => Notices <= n + 1

\* The times of the limit in force: its notices come at different instants, each of
\* its pauses but the last has ended, and the last ends so long after it began.
SinceInv ==
  limiting =>
    /\ sinceLimit <= Persist /\ Notices <= sinceLimit
    /\ Notices > 0 => Notices + Shift(Notices - 1) <= sinceLimit + pause
    /\ \A r \in Request : MayCount(r) => age[r] + Notices <= sinceLimit

\* Whoever is about to send looked when n pauses had ended at most; of those a limit is
\* noticed at the instant it looked, no two can be.
ReadyInv(n) ==
  limiting /\ (\E r \in Request : tpc[r] = "ready") =>
    \/ Notices <= n
    \/ Notices <= n + 1 /\ (\A r \in Request : MayCount(r) => age[r] = 0)

RideInv(n) ==
  guided = {} =>
    /\ BeforeInv /\ PausesInv(n) /\ SinceInv /\ ReadyInv(n)
    /\ \A r \in Request : tpc[r] # "limited"

\* What the proofs of the steps need of the types.
LEMMA RideTypes ==
  ASSUME NEW n \in 0..14, TInv
  PROVE  /\ T!CallsOK /\ T!CountsOK
         /\ pause \in Nat /\ streak \in Nat /\ sinceLimit \in Nat /\ limits \in Nat
         /\ Persist \in Nat /\ MaxThrottle \in Nat /\ Latency \in Nat
         /\ n \in Nat /\ n <= 14 /\ Notices \in Nat
         /\ Shift(n) \in Nat \ {0} /\ Shift(n + 2) \in Nat \ {0}
<1>1. T!CallsOK /\ T!CountsOK
  BY DEF TInv, T!TypeOK
<1>2. Shift(n) \in Nat \ {0} /\ Shift(n + 2) \in Nat \ {0}
  <2>1. n \in 0..16 /\ n + 2 \in 0..16
    OBVIOUS
  <2> QED
    BY <2>1, Shifts
<1>3. Notices \in Nat
  BY <1>1 DEF T!CountsOK, Notices
<1>4. Persist \in Nat /\ MaxThrottle \in Nat /\ Latency \in Nat
  BY ThrottleDurations DEF T!Durations
<1>5. MaxLimits \in Nat
  BY ThrottleDurations DEF T!Durations
<1>6. limits \in Nat
  BY <1>1, <1>5 DEF T!CountsOK
<1> QED
  BY <1>1, <1>2, <1>3, <1>4, <1>6 DEF T!CountsOK

\* A call that starts, looks at the throttle, wakes, ends or is retried brings no news.
LEMMA CallRides ==
  ASSUME NEW n \in 0..14, LiftsIn(n), TInv, RideInv(n), guided = {}, NEW r \in Request,
         T!Start(r) \/ T!Pause(r) \/ T!Wake(r) \/ T!Interrupted(r) \/ T!FailTransiently(r)
         \/ T!FailForGood(r)
  PROVE  RideInv(n)'
<1>1. T!CallsOK /\ T!CountsOK
  BY RideTypes
<1>2. UNCHANGED <<pause, early, streak, age, rejected, limiting, sinceLimit, limits, pauses>>
  BY DEF T!Start, T!Pause, T!Wake, T!Interrupted, T!FailTransiently, T!FailForGood, T!throttle,
     T!github, T!seen
<1>3. /\ pause \in Nat /\ sinceLimit \in Nat /\ Persist \in Nat /\ MaxThrottle \in Nat
      /\ Notices \in Nat /\ Shift(n) \in Nat /\ Shift(n + 2) \in Nat \ {0}
      /\ throttled[r] \in 0..MaxThrottle /\ n \in Nat /\ n <= 14
  BY RideTypes DEF T!CallsOK
<1>4. Notices' = Notices
  BY <1>2 DEF Notices
<1>5. BeforeInv /\ PausesInv(n) /\ SinceInv /\ ReadyInv(n) /\ \A q \in Request : tpc[q] # "limited"
  BY DEF RideInv
<1>6. PICK state \in {"checking", "ready", "sleeping", "limited", "failed", "cancelled"} :
        /\ tpc' = [tpc EXCEPT ![r] = state]
        /\ state = "ready" => pause = 0
        /\ state = "limited" => T!Pause(r) /\ ~T!Fits(r, pause)
        /\ timer' = timer \/ timer' = [timer EXCEPT ![r] = pause]
             \/ (T!FailTransiently(r) /\ state = "sleeping")
  BY DEF T!Start, T!Pause, T!Wake, T!Interrupted, T!FailTransiently, T!FailForGood, T!Become, T!Sleep
<1>7. tpc[r] \notin T!Outcomes
  BY DEF T!Start, T!Pause, T!Wake, T!Interrupted, T!FailTransiently, T!FailForGood, T!Arrived,
     T!Outcomes
<1>8. state # "limited"
  <2> SUFFICES ASSUME state = "limited" PROVE FALSE
    OBVIOUS
  <2>1. tpc[r] = "checking" /\ ~(pause <= MaxThrottle - throttled[r])
    BY <1>6 DEF T!Pause, T!Fits
  <2>2. throttled[r] + pause <= Shift(n + 2) - 1
    BY <1>5, <1>7, <2>1, <1>3 DEF PausesInv, Within, Asleep
  <2> QED
    BY <1>3, <2>1, <2>2 DEF LiftsIn
<1>9. \A q \in Request : MayCount(q)' => MayCount(q)
  BY <1>1, <1>2, <1>6 DEF MayCount, T!CallsOK
<1>10. ASSUME NEW total \in Int, Within(total)
      PROVE  Within(total)'
  <2>1. ASSUME NEW q \in Request, q # r, tpc'[q] \notin T!Outcomes
        PROVE  throttled'[q] <= total /\ throttled'[q] + pause' <= total + Asleep(q)'
    <3>1. tpc'[q] = tpc[q]
      BY <1>1, <1>6, <2>1 DEF T!CallsOK
    <3>2. throttled'[q] = throttled[q] /\ timer'[q] = timer[q]
      BY <1>1, <2>1 DEF T!Start, T!Pause, T!Wake, T!Interrupted, T!FailTransiently, T!FailForGood, T!Sleep,
         T!CallsOK
    <3> QED
      BY <1>2, <1>10, <2>1, <3>1, <3>2 DEF Within, Asleep
  <2>2. ASSUME tpc'[r] \notin T!Outcomes
        PROVE  throttled'[r] <= total /\ throttled'[r] + pause' <= total + Asleep(r)'
    <3>1. /\ throttled[r] <= total /\ throttled[r] + pause <= total + Asleep(r)
          /\ throttled[r] \in Nat
      BY <1>3, <1>7, <1>10 DEF Within
    <3>2. timer'[r] \in Nat
      <4>1. T!CallsOK'
        BY CallStep DEF TInv, T!TypeOK
      <4> QED
        BY <4>1 DEF T!CallsOK
    <3>3. CASE T!Pause(r) /\ pause # 0
      <4>1. /\ tpc[r] = "checking" /\ tpc' = [tpc EXCEPT ![r] = "sleeping"]
            /\ timer' = [timer EXCEPT ![r] = pause]
            /\ throttled' = [throttled EXCEPT ![r] = throttled[r] + pause]
        BY <1>1, <1>8, <1>6, <3>3, <2>2 DEF T!Pause, T!Sleep, T!Become, T!CallsOK, T!Outcomes
      <4>2. tpc'[r] = "sleeping" /\ timer'[r] = pause /\ throttled'[r] = throttled[r] + pause
        BY <1>1, <4>1 DEF T!CallsOK
      <4>3. Asleep(r) = 0 /\ Asleep(r)' = pause
        BY <4>1, <4>2 DEF Asleep
      <4> QED
        BY <1>2, <1>3, <3>1, <4>2, <4>3
    <3>4. CASE ~(T!Pause(r) /\ pause # 0)
      <4>1. throttled' = throttled
        BY <3>4, <1>3 DEF T!Start, T!Pause, T!Wake, T!Interrupted, T!FailTransiently, T!FailForGood
      <4>2. Asleep(r) = 0
        BY <1>1, <2>2, <3>4, <1>3 DEF T!Start, T!Pause, T!Wake, T!Interrupted, T!FailTransiently,
           T!FailForGood, T!Arrived, T!Become, Asleep, T!Outcomes, T!CallsOK
      <4>3. Asleep(r)' \in Nat
        BY <3>2 DEF Asleep
      <4> QED
        BY <1>2, <1>3, <3>1, <4>1, <4>2, <4>3
    <3> QED
      BY <3>3, <3>4
  <2> QED
    BY <2>1, <2>2 DEF Within
<1>11. PausesInv(n)'
  <2>1. PICK most \in Int : most = Shift(n + 2) - 1
    BY <1>3
  <2>2. Within(Shift(n + 2) - 1)'
    BY <1>5, <1>10, <2>1 DEF PausesInv
  <2>3. ASSUME Within(Shift(Notices) - 1), Notices <= n + 2
        PROVE  Within(Shift(Notices) - 1)'
    <3>1. PICK sum \in Int : sum = Shift(Notices) - 1
      <4>1. Notices <= n + 2
        BY <2>3
      <4>2. PICK hits \in 0..16 : hits = Notices
        BY <1>3, <4>1
      <4>3. Shift(hits) \in Nat
        BY <4>2, Shifts
      <4> QED
        BY <4>2, <4>3
    <3> QED
      BY <1>2, <1>4, <1>10, <2>3, <3>1
  <2> QED
    BY <1>2, <1>4, <1>5, <1>9, <2>2, <2>3 DEF PausesInv
<1>12. BeforeInv'
  <2>1. limits = 0 => throttled' = throttled
    BY <1>5, <1>3 DEF BeforeInv, T!Start, T!Pause, T!Wake, T!Interrupted, T!FailTransiently,
       T!FailForGood
  <2> QED
    BY <1>2, <1>5, <2>1 DEF BeforeInv
<1>13. SinceInv'
  BY <1>2, <1>4, <1>5, <1>9 DEF SinceInv
<1>14. ReadyInv(n)'
  <2> SUFFICES ASSUME limiting, NEW q \in Request, tpc'[q] = "ready"
               PROVE  \/ Notices <= n
                      \/ Notices <= n + 1 /\ (\A p \in Request : MayCount(p) => age[p] = 0)
    BY <1>2, <1>4, <1>9 DEF ReadyInv
  <2>1. CASE tpc[q] = "ready"
    BY <1>5, <2>1 DEF ReadyInv
  <2>2. CASE tpc[q] # "ready"
    <3>1. pause = 0
      BY <1>1, <1>6, <2>2 DEF T!CallsOK
    <3> SUFFICES ASSUME Notices > n PROVE FALSE
      BY <1>3
    <3>2. Notices > 0
      BY <1>3
    <3>3. Notices <= n + 2
      BY <1>5 DEF PausesInv
    <3>4. PICK last \in n..16 : last = Notices - 1
      BY <1>3, <3>3
    <3>5. Notices + Shift(last) <= sinceLimit + pause /\ sinceLimit <= Persist
      BY <1>5, <3>2, <3>4 DEF SinceInv
    <3>6. Shift(last) \in Nat /\ Shift(last) >= Shift(n)
      <4>1. last \in 0..16 /\ n \in 0..16 /\ (n = last \/ n < last)
        BY <1>3, <3>4
      <4>2. Shift(last) \in Nat /\ (n < last => Shift(last) >= 2 * Shift(n))
        BY <4>1, Shifts
      <4> QED
        BY <1>3, <4>1, <4>2
    <3>7. Persist <= Shift(n) + n
      BY DEF LiftsIn
    <3> QED
      BY <1>3, <3>1, <3>4, <3>5, <3>6, <3>7
  <2> QED
    BY <2>1, <2>2
<1>15. \A q \in Request : tpc'[q] # "limited"
  BY <1>1, <1>5, <1>6, <1>8 DEF T!CallsOK
<1> QED
  BY <1>11, <1>12, <1>13, <1>14, <1>15 DEF RideInv

\* A request sent in time is answered in time.
LEMMA SendRides ==
  ASSUME NEW n \in 0..14, LiftsIn(n), TInv, RideInv(n), guided = {}, NEW r \in Request, T!Send(r)
  PROVE  RideInv(n)'
<1>1. UNCHANGED <<pause, streak, timer, throttled, limiting, sinceLimit, limits, pauses>>
  BY DEF T!Send, T!github, T!seen
<1>2. T!CallsOK /\ sinceLimit \in Nat /\ Notices \in Nat
  BY RideTypes
<1>3. Notices' = Notices
  BY <1>1 DEF Notices
<1>4. BeforeInv /\ PausesInv(n) /\ SinceInv /\ ReadyInv(n) /\ \A q \in Request : tpc[q] # "limited"
  BY DEF RideInv
<1>5. /\ tpc[r] = "ready" /\ tpc' = [tpc EXCEPT ![r] = "sent"] /\ age' = [age EXCEPT ![r] = 0]
      /\ early' = early \ {r} /\ rejected' = IF limiting THEN rejected \cup {r} ELSE rejected \ {r}
  BY DEF T!Send, T!Become
<1>6. /\ \A q \in Request \ {r} : tpc'[q] = tpc[q] /\ age'[q] = age[q] /\ (MayCount(q)' <=> MayCount(q))
      /\ tpc'[r] = "sent" /\ age'[r] = 0 /\ (MayCount(r)' => limiting)
  <2>1. tpc'[r] = "sent" /\ age'[r] = 0 /\ (MayCount(r)' => limiting)
    BY <1>2, <1>5 DEF T!CallsOK, MayCount
  <2>2. ASSUME NEW q \in Request \ {r}
        PROVE  tpc'[q] = tpc[q] /\ age'[q] = age[q] /\ (MayCount(q)' <=> MayCount(q))
    BY <1>2, <1>5, <2>2 DEF T!CallsOK, MayCount
  <2> QED
    BY <2>1, <2>2
<1>7. ASSUME NEW total, Within(total)
      PROVE  Within(total)'
  <2>1. Asleep(r) = 0 /\ Asleep(r)' = 0
    BY <1>5, <1>6 DEF Asleep
  <2>2. ASSUME NEW q \in Request, tpc'[q] \notin T!Outcomes
        PROVE  /\ tpc[q] \notin T!Outcomes
               /\ Asleep(q)' = Asleep(q)
    BY <1>1, <1>5, <1>6, <2>1, <2>2 DEF Asleep, T!Outcomes
  <2> QED
    BY <1>1, <1>7, <2>2 DEF Within
<1>8. PausesInv(n)'
  <2>1. PICK most : most = Shift(n + 2) - 1
    OBVIOUS
  <2>2. Within(Shift(n + 2) - 1)'
    BY <1>4, <1>7, <2>1 DEF PausesInv
  <2>3. ASSUME Within(Shift(Notices) - 1)
        PROVE  Within(Shift(Notices) - 1)'
    <3>1. PICK sum : sum = Shift(Notices) - 1
      OBVIOUS
    <3> QED
      BY <1>3, <1>7, <2>3, <3>1
  <2>4. limiting => Notices <= n + 1
    BY <1>4, <1>5, <1>2 DEF ReadyInv
  <2> QED
    BY <1>1, <1>3, <1>4, <1>6, <2>2, <2>3, <2>4 DEF PausesInv
<1>9. BeforeInv'
  BY <1>1, <1>4, <1>5 DEF BeforeInv
<1>10. SinceInv'
  BY <1>1, <1>2, <1>3, <1>4, <1>6 DEF SinceInv
<1>11. ReadyInv(n)'
  <2>1. (\E q \in Request : tpc'[q] = "ready") => \E q \in Request : tpc[q] = "ready"
    BY <1>5
  <2>2. (\A q \in Request : MayCount(q) => age[q] = 0) => \A q \in Request : MayCount(q)' => age'[q] = 0
    BY <1>6
  <2> QED
    BY <1>1, <1>3, <1>4, <2>1, <2>2 DEF ReadyInv
<1>12. \A q \in Request : tpc'[q] # "limited"
  BY <1>4, <1>6
<1> QED
  BY <1>8, <1>9, <1>10, <1>11, <1>12 DEF RideInv

\* An answer that gets through while the limit is in force is an early one, so it does
\* not end the streak.
LEMMA AnswerRides ==
  ASSUME NEW n \in 0..14, LiftsIn(n), TInv, RideInv(n), guided = {}, NEW r \in Request, T!Answer(r)
  PROVE  RideInv(n)'
<1>1. UNCHANGED <<pause, early, timer, age, rejected, throttled, limiting, sinceLimit, limits, pauses>>
  BY DEF T!Answer, T!github, T!seen
<1>2. T!CallsOK /\ sinceLimit \in Nat /\ Notices \in Nat /\ streak \in Nat
  BY RideTypes
<1>3. Notices' = Notices
  BY <1>1 DEF Notices
<1>4. BeforeInv /\ PausesInv(n) /\ SinceInv /\ ReadyInv(n) /\ \A q \in Request : tpc[q] # "limited"
  BY DEF RideInv
<1>5. /\ tpc[r] = "sent" /\ r \notin rejected /\ tpc' = [tpc EXCEPT ![r] = "answered"]
      /\ streak' = IF r \in early THEN streak ELSE 0
  BY DEF T!Answer, T!Arrived, T!Become, T!Passed, T!Burst
<1>6. /\ tpc'[r] = "answered" /\ ~MayCount(r)'
      /\ \A q \in Request \ {r} : tpc'[q] = tpc[q] /\ (MayCount(q)' <=> MayCount(q))
  BY <1>1, <1>2, <1>5 DEF T!CallsOK, MayCount
<1>7. streak' \in {streak, 0} /\ (limiting => streak' = Notices)
  <2>1. CASE limiting /\ r \notin early
    <3>1. pauses = <<>>
      BY <1>5, <2>1 DEF TInv, StreakInv
    <3>2. Notices = 0
      BY <3>1 DEF Notices
    <3> QED
      BY <1>5, <2>1, <3>2
  <2>2. CASE ~(limiting /\ r \notin early)
    BY <1>4, <1>5, <2>2 DEF PausesInv
  <2> QED
    BY <2>1, <2>2
<1>8. ASSUME NEW total, Within(total)
      PROVE  Within(total)'
  <2>1. ASSUME NEW q \in Request, tpc'[q] \notin T!Outcomes
        PROVE  tpc[q] \notin T!Outcomes /\ Asleep(q)' = Asleep(q)
    BY <1>1, <1>6, <2>1 DEF Asleep, T!Outcomes
  <2> QED
    BY <1>1, <1>8, <2>1 DEF Within
<1>9. PausesInv(n)'
  <2>1. PICK most : most = Shift(n + 2) - 1
    OBVIOUS
  <2>2. Within(Shift(n + 2) - 1)'
    BY <1>4, <1>8, <2>1 DEF PausesInv
  <2>3. ASSUME Within(Shift(Notices) - 1)
        PROVE  Within(Shift(Notices) - 1)'
    <3>1. PICK sum : sum = Shift(Notices) - 1
      OBVIOUS
    <3> QED
      BY <1>3, <1>8, <2>3, <3>1
  <2>4. streak <= Notices => streak' <= Notices
    BY <1>2, <1>7
  <2> QED
    BY <1>1, <1>3, <1>4, <1>6, <1>7, <2>2, <2>3, <2>4 DEF PausesInv
<1>10. BeforeInv'
  BY <1>1, <1>4, <1>7 DEF BeforeInv
<1>11. SinceInv' /\ ReadyInv(n)'
  BY <1>1, <1>3, <1>4, <1>6 DEF SinceInv, ReadyInv
<1>12. \A q \in Request : tpc'[q] # "limited"
  BY <1>4, <1>6
<1> QED
  BY <1>9, <1>10, <1>11, <1>12 DEF RideInv

\* A request turned away: if it is an early one nothing changes but for the call, which
\* sleeps till the end of the pause; else the pause is begun that is twice the one
\* before, and no request under way will count again.
LEMMA LimitedRides ==
  ASSUME NEW n \in 0..14, LiftsIn(n), TInv, RideInv(n), guided = {}, NEW r \in Request, T!Limited(r)
  PROVE  RideInv(n)'
<1>1. UNCHANGED <<age, rejected, limiting, sinceLimit, limits>>
  BY DEF T!Limited, T!github
<1>2. /\ T!CallsOK /\ T!CountsOK
      /\ pause \in Nat /\ streak \in Nat /\ sinceLimit \in Nat /\ MaxThrottle \in Nat
      /\ n \in Nat /\ n <= 14 /\ Notices \in Nat
      /\ Shift(n) \in Nat \ {0} /\ Shift(n + 2) \in Nat \ {0}
  BY RideTypes
<1>3. BeforeInv /\ PausesInv(n) /\ SinceInv /\ ReadyInv(n) /\ \A q \in Request : tpc[q] # "limited"
  BY DEF RideInv
<1>4. tpc[r] = "sent" /\ age[r] \in Nat /\ age[r] > 0 /\ r \in rejected
  <2>1. age[r] \in 0..Latency /\ Latency \in Nat
    BY <1>2, RideTypes DEF T!CallsOK
  <2> QED
    BY <2>1 DEF T!Limited, T!Arrived
<1> DEFINE wait == IF r \in early THEN 0 ELSE Unguided(streak)
<1>5. /\ streak' = IF r \in early THEN streak ELSE streak + 1
      /\ early' = IF r \in early THEN early ELSE {q \in Request \ {r} : tpc[q] = "sent"}
      /\ pause' = T!Max({pause, wait})
      /\ pauses' = IF r \notin early /\ limiting THEN Append(pauses, wait) ELSE pauses
  <2>1. PICK guide \in guided \cup {T!None} :
          /\ streak' = IF guide = T!None /\ r \notin early THEN streak + 1 ELSE streak
          /\ early' = IF r \in early THEN early ELSE {q \in Request \ {r} : tpc[q] = "sent"}
          /\ pause' = T!Max({pause, IF guide # T!None THEN guide ELSE T!Unguided(r \in early)})
          /\ pauses' = IF guide = T!None /\ r \notin early /\ limiting
                       THEN Append(pauses, IF guide # T!None THEN guide ELSE T!Unguided(r \in early))
                       ELSE pauses
    BY DEF T!Limited, T!Burst, T!Resume
  <2>2. guide = T!None
    OBVIOUS
  <2>3. T!Unguided(r \in early) = wait
    BY DEF T!Unguided, Unguided, Shift
  <2> QED
    BY <2>1, <2>2, <2>3
<1> HIDE DEF wait
<1>6. wait \in Nat /\ (r \in early => wait = 0)
  BY <1>2, UnguidedFits DEF wait
<1>7. pause' = IF pause >= wait THEN pause ELSE wait
  <2>1. pause \in Int /\ wait \in Int
    BY <1>2, <1>6
  <2>2. T!Max({pause, wait}) = IF pause >= wait THEN pause ELSE wait
    BY <2>1, OfTwo
  <2> QED
    BY <1>5, <2>2
\* What a counted answer begins.
<1>8. ASSUME r \notin early
      PROVE  /\ streak <= Notices /\ (limiting => streak = Notices) /\ Notices <= n + 1
             /\ Within(Shift(Notices) - 1)
             /\ wait = Shift(streak) /\ wait \in Nat \ {0} /\ wait <= Shift(Notices)
             /\ Shift(Notices) \in Nat \ {0} /\ Shift(Notices + 1) = 2 * Shift(Notices)
             /\ Shift(Notices + 1) <= Shift(n + 2)
  <2>1. MayCount(r)
    BY <1>4, <1>8 DEF MayCount
  <2>2. /\ streak <= Notices /\ (limiting => streak = Notices) /\ Notices <= n + 1
        /\ Within(Shift(Notices) - 1)
    BY <1>3, <2>1 DEF PausesInv
  <2>3. PICK h \in 0..15 : h = Notices
    BY <1>2, <2>2
  <2>4. PICK s \in 0..15 : s = streak
    BY <1>2, <2>2
  <2>5. s <= h /\ h <= n + 1
    BY <2>2, <2>3, <2>4
  <2>6. Shift(h) \in Nat \ {0} /\ Shift(s) \in Nat \ {0} /\ Shift(h + 1) \in Nat
    <3>1. h \in 0..16 /\ s \in 0..16 /\ h + 1 \in 0..16
      OBVIOUS
    <3> QED
      BY <3>1, Shifts
  <2>7. Shift(s) <= Shift(h)
    <3>1. s = h \/ Shift(h) >= 2 * Shift(s)
      BY <2>5, Shifts
    <3> QED
      BY <2>6, <3>1
  <2>8. Shift(h + 1) <= Shift(n + 2)
    <3>1. PICK i \in 0..16 : i = h + 1
      OBVIOUS
    <3>2. PICK j \in 0..16 : j = n + 2
      BY <1>2
    <3>3. i = j \/ i < j
      BY <1>2, <2>5, <3>1, <3>2
    <3>4. i = j \/ Shift(j) >= 2 * Shift(i)
      BY <3>3, Shifts
    <3> QED
      BY <1>2, <2>6, <3>1, <3>2, <3>4
  <2>9. Shift(h + 1) = 2 * Shift(h)
    BY Doubles
  <2>10. wait = Shift(s)
    <3>1. Unguided(s) = IF Shift(Far(s)) <= MaxThrottle THEN Shift(Far(s)) ELSE MaxThrottle
      BY UnguidedIs
    <3>2. Far(s) = s
      BY DEF Far
    <3>3. Shift(s) <= MaxThrottle
      BY <1>2, <2>6, <2>7, <2>8, <2>9 DEF LiftsIn
    <3>4. wait = Unguided(s)
      BY <1>8, <2>4 DEF wait
    <3> QED
      BY <3>1, <3>2, <3>3, <3>4
  <2> QED
    BY <2>2, <2>3, <2>4, <2>6, <2>7, <2>8, <2>9, <2>10
<1>9. Notices' = IF r \notin early /\ limiting THEN Notices + 1 ELSE Notices
  <2>1. CASE r \notin early /\ limiting
    <3>1. wait \in 0..MaxThrottle
      BY <1>2, <2>1, UnguidedFits DEF wait
    <3> QED
      BY <1>2, <1>5, <2>1, <3>1, AppendProperties DEF T!CountsOK, Notices
  <2>2. CASE ~(r \notin early /\ limiting)
    BY <1>5, <2>2 DEF Notices
  <2> QED
    BY <2>1, <2>2
\* The call's wait fits.
<1>10. throttled[r] \in Nat /\ throttled[r] + pause' <= Shift(n + 2) - 1
  <2>1. throttled[r] \in Nat
    BY <1>2 DEF T!CallsOK
  <2>2. tpc[r] \notin T!Outcomes /\ Asleep(r) = 0
    BY <1>4 DEF T!Outcomes, Asleep
  <2>3. CASE r \in early
    <3>1. throttled[r] + pause <= Shift(n + 2) - 1
      BY <1>2, <1>3, <2>1, <2>2 DEF PausesInv, Within
    <3> QED
      BY <1>2, <1>6, <1>7, <2>1, <2>3, <3>1
  <2>4. CASE r \notin early
    <3>1. throttled[r] + pause <= Shift(Notices) - 1
      BY <1>2, <1>8, <2>1, <2>2, <2>4 DEF Within
    <3> QED
      BY <1>2, <1>7, <1>8, <2>1, <2>4, <3>1
  <2> QED
    BY <2>1, <2>3, <2>4
<1>11. /\ tpc' = [tpc EXCEPT ![r] = "sleeping"] /\ timer' = [timer EXCEPT ![r] = pause']
       /\ throttled' = [throttled EXCEPT ![r] = throttled[r] + pause']
  <2>1. pause' \in Nat
    BY <1>2, <1>6, <1>7
  <2>2. Shift(n + 2) - 1 <= MaxThrottle
    BY DEF LiftsIn
  <2>3. pause' <= MaxThrottle - throttled[r]
    BY <1>2, <1>10, <2>1, <2>2
  <2> QED
    BY <2>3 DEF T!Limited, T!Fits, T!Sleep, T!Become
<1>12. /\ tpc'[r] = "sleeping" /\ timer'[r] = pause' /\ throttled'[r] = throttled[r] + pause'
       /\ \A q \in Request \ {r} : tpc'[q] = tpc[q] /\ timer'[q] = timer[q] /\ throttled'[q] = throttled[q]
  BY <1>2, <1>11 DEF T!CallsOK
<1>13. /\ r \in early => \A q \in Request : MayCount(q)' => MayCount(q)
       /\ r \notin early => \A q \in Request : ~MayCount(q)'
  BY <1>1, <1>5, <1>12 DEF MayCount
<1>14. ASSUME NEW total \in Int, NEW sum \in Int, Within(total), sum = total + wait
       PROVE  Within(sum)'
  <2>1. pause' \in Nat /\ pause' <= pause + wait
    BY <1>2, <1>6, <1>7
  <2>2. ASSUME NEW q \in Request, q # r, tpc'[q] \notin T!Outcomes
        PROVE  throttled'[q] <= sum /\ throttled'[q] + pause' <= sum + Asleep(q)'
    <3>1. /\ throttled[q] <= total /\ throttled[q] + pause <= total + Asleep(q)
          /\ throttled'[q] = throttled[q] /\ Asleep(q)' = Asleep(q)
      BY <1>12, <1>14, <2>2 DEF Within, Asleep
    <3>2. throttled[q] \in Nat /\ Asleep(q) \in Nat
      BY <1>2 DEF T!CallsOK, Asleep
    <3> QED
      BY <1>2, <1>6, <1>14, <2>1, <3>1, <3>2
  <2>3. throttled'[r] <= sum /\ throttled'[r] + pause' <= sum + Asleep(r)'
    <3>1. throttled[r] + pause <= total + Asleep(r) /\ Asleep(r) = 0
      BY <1>4, <1>14 DEF Within, Asleep, T!Outcomes
    <3>2. Asleep(r)' = pause'
      BY <1>12 DEF Asleep
    <3> QED
      BY <1>2, <1>6, <1>10, <1>12, <1>14, <2>1, <3>1, <3>2
  <2> QED
    BY <2>2, <2>3 DEF Within
<1>15. PausesInv(n)'
  <2>1. CASE r \in early
    <3>1. Notices' = Notices /\ streak' = streak /\ wait = 0
      BY <1>5, <1>6, <1>9, <2>1
    <3>2. Within(Shift(n + 2) - 1)'
      <4>1. PICK most \in Int : most = Shift(n + 2) - 1
        BY <1>2
      <4>2. most = most + wait
        BY <3>1
      <4> QED
        BY <1>3, <1>14, <4>1, <4>2 DEF PausesInv
    <3>3. ASSUME Within(Shift(Notices) - 1), Notices <= n + 2
          PROVE  Within(Shift(Notices) - 1)'
      <4>1. PICK h \in 0..16 : h = Notices
        BY <1>2, <3>3
      <4>2. Shift(h) \in Nat
        BY Shifts
      <4>3. PICK sum \in Int : sum = Shift(Notices) - 1
        BY <4>1, <4>2
      <4>4. sum = sum + wait
        BY <3>1
      <4> QED
        BY <1>14, <3>1, <3>3, <4>3, <4>4
    <3> QED
      BY <1>1, <1>3, <1>13, <2>1, <3>1, <3>2, <3>3 DEF PausesInv
  <2>2. CASE r \notin early
    <3>1. PICK total \in Int : total = Shift(Notices) - 1
      BY <1>8, <2>2
    <3>2. PICK sum \in Int : sum = total + wait
      BY <1>6, <3>1
    <3>3. Within(sum)'
      BY <1>8, <1>14, <2>2, <3>1, <3>2
    <3>4. sum <= Shift(Notices + 1) - 1 /\ sum <= Shift(n + 2) - 1
      BY <1>2, <1>8, <2>2, <3>1, <3>2
    <3>5. ASSUME NEW more \in Int, sum <= more
          PROVE  Within(more)'
      <4>1. ASSUME NEW q \in Request, tpc'[q] \notin T!Outcomes
            PROVE  throttled'[q] <= more /\ throttled'[q] + pause' <= more + Asleep(q)'
        <5>1. throttled'[q] <= sum /\ throttled'[q] + pause' <= sum + Asleep(q)'
          BY <3>3, <4>1 DEF Within
        <5>2. throttled'[q] \in Nat /\ Asleep(q)' \in Nat /\ pause' \in Nat
          BY <1>2, <1>6, <1>7, <1>10, <1>12 DEF T!CallsOK, Asleep
        <5> QED
          BY <3>5, <5>1, <5>2
      <4> QED
        BY <4>1 DEF Within
    <3>6. Within(Shift(n + 2) - 1)'
      <4>1. PICK most \in Int : most = Shift(n + 2) - 1
        BY <1>2
      <4> QED
        BY <3>4, <3>5, <4>1
    <3>7. limiting => Within(Shift(Notices) - 1)' /\ Notices' = Notices + 1
      <4>1. PICK most \in Int : most = Shift(Notices + 1) - 1
        BY <1>8, <2>2
      <4>2. Within(most)'
        BY <3>4, <3>5, <4>1
      <4>3. limiting => Notices' = Notices + 1
        BY <1>9, <2>2
      <4> QED
        BY <4>1, <4>2, <4>3
    <3>8. streak' = streak + 1
      BY <1>5, <2>2
    <3>9. /\ limiting => streak' = Notices' /\ streak' <= Notices' /\ Notices' <= n + 2
      BY <1>2, <1>8, <2>2, <3>7, <3>8
    <3> QED
      BY <1>1, <1>13, <2>2, <3>6, <3>7, <3>9 DEF PausesInv
  <2> QED
    BY <2>1, <2>2
<1>16. BeforeInv'
  BY <1>1, <1>3, <1>4 DEF BeforeInv
<1>17. SinceInv'
  <2>1. CASE r \in early
    <3>1. Notices' = Notices /\ pause' = pause
      BY <1>2, <1>6, <1>7, <1>9, <2>1
    <3> QED
      BY <1>1, <1>3, <1>13, <2>1, <3>1 DEF SinceInv
  <2>2. CASE r \notin early
    <3> SUFFICES ASSUME limiting
                 PROVE  /\ sinceLimit <= Persist /\ Notices' <= sinceLimit
                        /\ Notices' + Shift(Notices' - 1) <= sinceLimit + pause'
      BY <1>1, <1>13, <2>2 DEF SinceInv
    <3>1. Notices' = Notices + 1
      BY <1>9, <2>2
    <3>2. MayCount(r)
      BY <1>4, <2>2 DEF MayCount
    <3>3. sinceLimit <= Persist /\ age[r] + Notices <= sinceLimit
      BY <1>3, <3>2 DEF SinceInv
    <3>4. Shift(Notices' - 1) = wait
      <4>1. Notices' - 1 = streak
        BY <1>2, <1>8, <2>2, <3>1
      <4> QED
        BY <1>8, <2>2, <4>1
    <3>5. wait <= pause'
      BY <1>2, <1>6, <1>7
    <3>6. Notices + 1 <= sinceLimit
      BY <1>2, <1>4, <3>3
    <3>7. pause' \in Nat
      BY <1>2, <1>6, <1>7
    <3>8. (Notices + 1) + wait <= sinceLimit + pause'
      <4>1. Notices \in Int /\ sinceLimit \in Int /\ wait \in Int /\ pause' \in Int
        BY <1>2, <1>6, <3>7
      <4>2. PICK h \in Int, s \in Int, w \in Int, p \in Int :
              h = Notices + 1 /\ s = sinceLimit /\ w = wait /\ p = pause'
        BY <4>1
      <4>3. h <= s /\ w <= p
        BY <3>5, <3>6, <4>2
      <4>4. h + w <= s + p
        BY <4>3
      <4> QED
        BY <4>2, <4>4
    <3> QED
      BY <3>1, <3>3, <3>4, <3>6, <3>8
  <2> QED
    BY <2>1, <2>2
<1>18. ReadyInv(n)'
  <2> SUFFICES ASSUME limiting, NEW q \in Request, tpc'[q] = "ready"
               PROVE  \/ Notices' <= n
                      \/ Notices' <= n + 1 /\ (\A p \in Request : MayCount(p)' => age[p] = 0)
    BY <1>1 DEF ReadyInv
  <2>1. tpc[q] = "ready"
    BY <1>12
  <2>2. \/ Notices <= n
        \/ Notices <= n + 1 /\ (\A p \in Request : MayCount(p) => age[p] = 0)
    BY <1>3, <2>1 DEF ReadyInv
  <2>3. CASE r \in early
    BY <1>9, <1>13, <2>2, <2>3
  <2>4. CASE r \notin early
    <3>1. MayCount(r) /\ age[r] # 0
      BY <1>4, <2>4 DEF MayCount
    <3>2. Notices <= n
      BY <2>2, <3>1
    <3>3. Notices' <= n + 1
      BY <1>2, <1>9, <2>4, <3>2
    <3> QED
      BY <1>13, <2>4, <3>3
  <2> QED
    BY <2>3, <2>4
<1>19. \A q \in Request : tpc'[q] # "limited"
  BY <1>3, <1>12
<1> QED
  BY <1>15, <1>16, <1>17, <1>18, <1>19 DEF RideInv

\* A limit of GitHub's begins, ends, or the context does: nobody has waited before the
\* first, and there is no second.
LEMMA OutsideRides ==
  ASSUME NEW n \in 0..14, LiftsIn(n), TInv, RideInv(n), guided = {},
         T!ComeIntoForce \/ T!Lift \/ T!Cancel \/ UNCHANGED T!vars
  PROVE  RideInv(n)'
<1>1. UNCHANGED <<pause, early, streak, tpc, timer, age, rejected, throttled>>
  BY DEF T!ComeIntoForce, T!Lift, T!Cancel, T!vars, T!throttle, T!call
<1>2. /\ pause \in Nat /\ limits \in Nat /\ MaxLimits \in Nat /\ Notices \in Nat
      /\ n \in Nat /\ Persist \in Nat
  BY RideTypes, ThrottleDurations DEF T!Durations
<1>3. BeforeInv /\ PausesInv(n) /\ SinceInv /\ ReadyInv(n) /\ \A q \in Request : tpc[q] # "limited"
  BY DEF RideInv
<1>4. \A q \in Request : /\ MayCount(q)' <=> MayCount(q)
                         /\ Asleep(q)' = Asleep(q)
  BY <1>1 DEF MayCount, Asleep
<1>5. ASSUME NEW total, Within(total)
      PROVE  Within(total)'
  BY <1>1, <1>4, <1>5 DEF Within
<1>6. Within(Shift(n + 2) - 1)'
  <2>1. PICK most : most = Shift(n + 2) - 1
    OBVIOUS
  <2> QED
    BY <1>3, <1>5, <2>1 DEF PausesInv
<1>7. CASE T!ComeIntoForce
  <2>1. limits = 0
    BY <1>2, <1>7 DEF T!ComeIntoForce, LiftsIn
  <2>2. /\ limiting' /\ limits' = limits + 1 /\ sinceLimit' = 0 /\ pauses' = <<>>
    BY <1>7 DEF T!ComeIntoForce
  <2>3. /\ streak = 0 /\ pause = 0 /\ rejected = {} /\ \A q \in Request : throttled[q] = 0
    BY <1>3, <2>1 DEF BeforeInv
  <2>4. Notices' = 0
    BY <2>2 DEF Notices
  <2>5. \A q \in Request : ~MayCount(q)'
    BY <1>4, <2>3 DEF MayCount
  <2>6. Within(Shift(Notices) - 1)'
    <3>1. Shift(0) - 1 = 0
      BY Shifts
    <3>2. \A q \in Request : Asleep(q) \in Nat
      BY RideTypes DEF T!CallsOK, Asleep
    <3>3. Within(0)'
      BY <1>1, <1>4, <2>3, <3>2 DEF Within
    <3> QED
      BY <2>4, <3>1, <3>3
  <2>7. PausesInv(n)'
    BY <1>1, <1>2, <1>6, <2>3, <2>4, <2>5, <2>6 DEF PausesInv
  <2>8. BeforeInv'
    BY <1>2, <2>2 DEF BeforeInv
  <2>9. SinceInv' /\ ReadyInv(n)'
    BY <1>2, <2>2, <2>4, <2>5 DEF SinceInv, ReadyInv
  <2> QED
    BY <1>1, <1>3, <2>7, <2>8, <2>9 DEF RideInv
<1>8. CASE T!Lift \/ T!Cancel \/ UNCHANGED T!vars
  <2>1. UNCHANGED <<sinceLimit, limits, pauses>> /\ (limiting' => limiting)
    BY <1>8 DEF T!Lift, T!Cancel, T!vars, T!github, T!seen
  <2>2. Notices' = Notices
    BY <2>1 DEF Notices
  <2>3. ASSUME Within(Shift(Notices) - 1)
        PROVE  Within(Shift(Notices) - 1)'
    <3>1. PICK sum : sum = Shift(Notices) - 1
      OBVIOUS
    <3> QED
      BY <1>5, <2>2, <2>3, <3>1
  <2>4. PausesInv(n)'
    BY <1>1, <1>3, <1>4, <1>6, <2>1, <2>2, <2>3 DEF PausesInv
  <2>5. BeforeInv'
    BY <1>1, <1>3, <2>1 DEF BeforeInv
  <2>6. SinceInv' /\ ReadyInv(n)'
    BY <1>1, <1>3, <1>4, <2>1, <2>2 DEF SinceInv, ReadyInv
  <2> QED
    BY <1>1, <1>3, <2>4, <2>5, <2>6 DEF RideInv
<1> QED
  BY <1>7, <1>8

\* Time passes: the pause and the sleeps in it get shorter together.
LEMMA TickRides ==
  ASSUME NEW n \in 0..14, LiftsIn(n), TInv, RideInv(n), guided = {}, T!Tick
  PROVE  RideInv(n)'
<1>1. UNCHANGED <<early, streak, tpc, rejected, throttled, limiting, limits, pauses>>
  BY DEF T!Tick
<1>2. /\ T!CallsOK /\ pause \in Nat /\ sinceLimit \in Nat /\ Persist \in Nat /\ Latency \in Nat
      /\ Notices \in Nat
  BY RideTypes
<1>3. BeforeInv /\ PausesInv(n) /\ SinceInv /\ ReadyInv(n) /\ \A q \in Request : tpc[q] # "limited"
  BY DEF RideInv
<1>4. pause' = IF pause > 0 THEN pause - 1 ELSE 0
  <2>1. pause' = T!Max({pause - 1, 0})
    BY DEF T!Tick, T!Down
  <2>2. T!Max({pause - 1, 0}) = IF pause - 1 >= 0 THEN pause - 1 ELSE 0
    <3>1. pause - 1 \in Int /\ 0 \in Int
      BY <1>2
    <3> QED
      BY <3>1, OfTwo, Zenon
  <2> QED
    BY <1>2, <2>1, <2>2
<1>5. Notices' = Notices
  BY <1>1 DEF Notices
<1>6. \A r \in Request : ~T!Due(r)
  BY DEF T!Tick
<1>7. \A r \in Request : tpc[r] # "ready"
  BY <1>6 DEF T!Due
<1>8. ASSUME limiting
      PROVE  sinceLimit' = sinceLimit + 1 /\ sinceLimit < Persist
  <2> DEFINE far == T!Max({Persist, Latency})
  <2>1. far = IF Persist >= Latency THEN Persist ELSE Latency
    BY <1>2, OfTwo
  <2>2. sinceLimit' = T!Min({sinceLimit + 1, far})
    BY DEF T!Tick
  <2> HIDE DEF far
  <2>3. sinceLimit < Persist
    BY <1>2, <1>8 DEF T!Tick
  <2>4. far \in Nat /\ sinceLimit + 1 <= far
    BY <1>2, <2>1, <2>3
  <2> QED
    BY <1>2, <2>2, <2>3, <2>4, OfTwo
<1>9. ASSUME NEW r \in Request
      PROVE  /\ age[r] \in Nat /\ (tpc[r] = "sent" => age'[r] = age[r] + 1)
             /\ MayCount(r)' <=> MayCount(r)
             /\ Asleep(r) \in Nat /\ Asleep(r)' = (IF tpc[r] = "sleeping" THEN Asleep(r) - 1 ELSE 0)
             /\ tpc[r] = "sleeping" => Asleep(r) > 0
  <2>1. age[r] \in 0..Latency /\ timer[r] \in Nat
    BY <1>2 DEF T!CallsOK
  <2>2. /\ timer' = [q \in Request |-> IF tpc[q] = "sleeping" THEN timer[q] - 1 ELSE timer[q]]
        /\ age' = [q \in Request |-> IF tpc[q] = "sent" THEN age[q] + 1 ELSE age[q]]
    BY DEF T!Tick
  <2>3. tpc[r] = "sleeping" => timer[r] # 0
    BY <1>6 DEF T!Due
  <2> QED
    BY <1>1, <1>2, <2>1, <2>2, <2>3 DEF MayCount, Asleep
<1>10. ASSUME NEW total \in Int, Within(total)
       PROVE  Within(total)'
  <2> SUFFICES ASSUME NEW r \in Request, tpc[r] \notin T!Outcomes
               PROVE  throttled[r] <= total /\ throttled[r] + pause' <= total + Asleep(r)'
    BY <1>1 DEF Within
  <2>1. /\ throttled[r] <= total /\ throttled[r] + pause <= total + Asleep(r)
        /\ throttled[r] \in Nat
    BY <1>2, <1>10 DEF Within, T!CallsOK
  <2>2. CASE tpc[r] = "sleeping"
    BY <1>2, <1>4, <1>9, <2>1, <2>2
  <2>3. CASE tpc[r] # "sleeping"
    <3>1. Asleep(r) = 0 /\ Asleep(r)' = 0
      BY <1>1, <2>3 DEF Asleep
    <3> QED
      BY <1>2, <1>4, <2>1, <3>1
  <2> QED
    BY <2>2, <2>3
<1>11. PausesInv(n)'
  <2>1. PICK most \in Int : most = Shift(n + 2) - 1
    BY RideTypes
  <2>2. Within(Shift(n + 2) - 1)'
    BY <1>3, <1>10, <2>1 DEF PausesInv
  <2>3. ASSUME Within(Shift(Notices) - 1), Notices <= n + 2
        PROVE  Within(Shift(Notices) - 1)'
    <3>1. PICK h \in 0..16 : h = Notices
      BY <1>2, <2>3
    <3>2. Shift(h) \in Nat
      BY Shifts
    <3>3. PICK sum \in Int : sum = Shift(Notices) - 1
      BY <3>1, <3>2
    <3> QED
      BY <1>5, <1>10, <2>3, <3>3
  <2> QED
    BY <1>1, <1>3, <1>5, <1>9, <2>2, <2>3 DEF PausesInv
<1>12. BeforeInv'
  BY <1>1, <1>3, <1>4 DEF BeforeInv
<1>13. SinceInv'
  <2> SUFFICES ASSUME limiting
               PROVE  /\ sinceLimit' <= Persist /\ Notices <= sinceLimit'
                      /\ Notices > 0 => Notices + Shift(Notices - 1) <= sinceLimit' + pause'
                      /\ \A r \in Request : MayCount(r) => age'[r] + Notices <= sinceLimit'
    BY <1>1, <1>5, <1>9 DEF SinceInv
  <2>1. sinceLimit' <= Persist /\ Notices <= sinceLimit'
    BY <1>2, <1>3, <1>8 DEF SinceInv
  <2>2. ASSUME Notices > 0
        PROVE  Notices + Shift(Notices - 1) <= sinceLimit' + pause'
    <3>1. Notices <= n + 2
      BY <1>3 DEF PausesInv
    <3>2. PICK h \in 0..16 : h = Notices - 1
      BY <1>2, <2>2, <3>1
    <3>3. Shift(h) \in Nat
      BY Shifts
    <3>4. Notices + Shift(h) <= sinceLimit + pause
      BY <1>3, <2>2, <3>2 DEF SinceInv
    <3>5. Notices + Shift(h) <= sinceLimit' + pause'
      BY <1>2, <1>4, <1>8, <3>3, <3>4
    <3> QED
      BY <3>2, <3>5
  <2>3. ASSUME NEW r \in Request, MayCount(r)
        PROVE  age'[r] + Notices <= sinceLimit'
    <3>1. age[r] + Notices <= sinceLimit
      BY <1>3, <2>3 DEF SinceInv
    <3>2. age[r] \in Nat /\ age'[r] = age[r] + 1
      BY <1>9, <2>3 DEF MayCount
    <3> QED
      BY <1>2, <1>8, <3>1, <3>2
  <2> QED
    BY <2>1, <2>2, <2>3
<1>14. ReadyInv(n)'
  BY <1>1, <1>7 DEF ReadyInv
<1> QED
  BY <1>1, <1>3, <1>11, <1>12, <1>13, <1>14 DEF RideInv

\* At first nobody has waited.
LEMMA RideInit ==
  ASSUME NEW n \in 0..14, T!Init
  PROVE  RideInv(n)
<1>1. /\ limits = 0 /\ ~limiting /\ streak = 0 /\ pause = 0 /\ pauses = <<>> /\ rejected = {}
      /\ \A r \in Request : throttled[r] = 0 /\ tpc[r] = "idle"
  BY DEF T!Init
<1>2. Shift(n + 2) \in Nat \ {0}
  <2>1. n + 2 \in 0..16
    OBVIOUS
  <2> QED
    BY <2>1, Shifts
<1>3. \A r \in Request : Asleep(r) = 0 /\ ~MayCount(r)
  BY <1>1 DEF Asleep, MayCount
<1>4. Within(Shift(n + 2) - 1)
  BY <1>1, <1>2, <1>3 DEF Within
<1> QED
  BY <1>1, <1>3, <1>4 DEF RideInv, BeforeInv, PausesInv, SinceInv, ReadyInv

\* Whether answers name waits does not change, and where they do nothing is claimed.
LEMMA RideNext ==
  ASSUME NEW n \in 0..14, LiftsIn(n), TInv, RideInv(n), [T!Next]_(T!vars)
  PROVE  RideInv(n)'
<1>1. guided' = guided
  BY DEF T!Next, T!Call, T!Start, T!Pause, T!Send, T!Wake, T!Interrupted, T!Answer, T!FailTransiently,
     T!FailForGood, T!Limited, T!ComeIntoForce, T!Lift, T!Cancel, T!Tick, T!github, T!vars
<1>2. CASE guided # {}
  BY <1>1, <1>2 DEF RideInv
<1>3. CASE guided = {}
  <2>1. CASE UNCHANGED T!vars \/ T!ComeIntoForce \/ T!Lift \/ T!Cancel
    BY <1>3, <2>1, OutsideRides
  <2>2. CASE T!Tick
    BY <1>3, <2>2, TickRides
  <2>3. ASSUME NEW r \in Request, T!Start(r) \/ T!Call(r)
        PROVE  RideInv(n)'
    BY <1>3, <2>3, CallRides, SendRides, AnswerRides, LimitedRides DEF T!Call
  <2> QED
    BY <2>1, <2>2, <2>3 DEF T!Next
<1> QED
  BY <1>2, <1>3

\* A limit that names no wait and lifts early enough fails no call.
THEOREM AlwaysRidesOut ==
  ASSUME T!LiftsEarly
  PROVE  T!Spec => [](T!RidesOut)
<1>1. PICK n \in 0..14 : Persist <= Shift(n) + n /\ Shift(n + 2) - 1 <= MaxThrottle
  BY DEF T!LiftsEarly, Shift
<1>2. LiftsIn(n)
  BY <1>1 DEF T!LiftsEarly, LiftsIn
<1>3. T!Init => RideInv(n)
  BY RideInit
<1>4. TInv /\ RideInv(n) /\ [T!Next]_(T!vars) => RideInv(n)'
  BY <1>2, RideNext
<1>5. RideInv(n) => T!RidesOut
  BY DEF RideInv, T!RidesOut
<1> QED
  BY TInvariance, <1>3, <1>4, <1>5, PTL DEF T!Spec

\* Every pause of a limit is twice the one before, and if the limit lifts early enough
\* no call fails for it.
THEOREM AlwaysRiddenOut ==
  ASSUME T!LiftsEarly, MaxThrottle <= 65536
  PROVE  T!Spec => []LimitsAreRiddenOut
<1>1. T!BacksOffFurther /\ T!RidesOut => LimitsAreRiddenOut
  BY DEF LimitsAreRiddenOut
<1> QED
  BY AlwaysBacksOffFurther, AlwaysRidesOut, <1>1, PTL

=============================================================================
