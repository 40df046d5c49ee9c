--------------------------- MODULE FetchManifests ---------------------------
(***************************************************************************)
(* Registry.FetchRepositoryManifests of internal/registry/fetch.go: one    *)
(* goroutine pages through the listing and starts, behind it, a download   *)
(* for every digest, in a group of limited size that the first failure     *)
(* cancels. The cancellation stops the listing, too, and an end of the     *)
(* listing stops the downloads; whatever failed first must come out, not   *)
(* its echo. Others may push and delete all the while.                     *)
(***************************************************************************)
EXTENDS Integers, FiniteSets

CONSTANTS
  Digest,
  Limit,          \* Registry.parallelism
  IgnoreMissing,  \* the values of FetchOptions.IgnoreMissing
  MaxListed       \* bound: how many manifests a listing reports, repeats included

ASSUME LimitPositive == Limit \in Nat \ {0}
ASSUME OptionsKnown  == IgnoreMissing \subseteq BOOLEAN
ASSUME ListedNatural == MaxListed \in Nat

VARIABLES
  ignoreMissing,
  gone,       \* whether others deleted the repository
  lister,     \* what the listing goroutine is doing
  next,       \* the digest it waits for a place in the group for
  seen,       \* what it has been told of
  listed,     \* how many manifests that were
  listErr,    \* how ListManifests ended
  download,   \* what became of each manifest's download
  groupErr,   \* the error group.Wait returns
  cancelled,  \* groupCtx is cancelled
  user,       \* ctx is: the user interrupted the run
  result      \* what the call returned

vars == <<ignoreMissing, gone, lister, next, seen, listed, listErr, download, groupErr,
          cancelled, user, result>>

NoDigest == 0
NoError  == "nil"

ASSUME NoDigestIsNone == NoDigest \notin Digest

\* What a request, a page or a document may end with. "unsupported" and
\* "changed" are ErrUnsupportedManifest and ErrRepositoryChanged.
Failures == {"notfound", "unsupported", "changed", "canceled", "other"}

Init ==
  /\ ignoreMissing \in IgnoreMissing
  /\ gone = FALSE
  /\ lister = "listing" /\ next = NoDigest
  /\ seen = {} /\ listed = 0
  /\ listErr = NoError
  /\ download = [d \in Digest |-> "unlisted"]
  /\ groupErr = NoError
  /\ cancelled = FALSE /\ user = FALSE
  /\ result = "running"

Downloading == {d \in Digest : download[d] = "running"}

-----------------------------------------------------------------------------
(* The listing *)

StopListing(err) ==
  /\ lister' = "listed"
  /\ listErr' = err

\* Mutant of List: a manifest that is listed again is not told from others.
ListAgain(d) ==
  /\ lister = "listing" /\ ~cancelled /\ ~gone /\ listed < MaxListed
  /\ listed' = listed + 1
  /\ lister' = "starting" /\ next' = d /\ seen' = seen \cup {d} /\ UNCHANGED listErr
  /\ UNCHANGED <<ignoreMissing, gone, download, groupErr, cancelled, user, result>>

\* A page reports a manifest. One reported twice, or a tag reported of two
\* manifests, means that the repository changes.
List(d) ==
  /\ lister = "listing" /\ ~cancelled /\ ~gone /\ listed < MaxListed
  /\ listed' = listed + 1
  /\ \/ d \in seen /\ StopListing("changed") /\ UNCHANGED <<next, seen>>
     \/ seen # {} /\ StopListing("changed") /\ UNCHANGED <<next, seen>>
     \/ /\ d \notin seen
        /\ lister' = "starting" /\ next' = d /\ seen' = seen \cup {d} /\ UNCHANGED listErr
  /\ UNCHANGED <<ignoreMissing, gone, download, groupErr, cancelled, user, result>>

HasRoom == Cardinality(Downloading) < Limit

\* group.Go waits for a place, whatever happens to the context.
Go ==
  /\ lister = "starting" /\ HasRoom
  /\ download' = [download EXCEPT ![next] = "running"]
  /\ lister' = "listing" /\ next' = NoDigest
  /\ UNCHANGED <<ignoreMissing, gone, seen, listed, listErr, groupErr, cancelled, user, result>>

\* The last page was reported, a page fails, or the cancellation ends a page or
\* stops the callback; the HTTP client reports either that or its cause.
EndListing ==
  /\ lister = "listing"
  /\ \/ StopListing(NoError)
     \/ StopListing("other")
     \/ gone /\ StopListing("notfound")
     \/ cancelled /\ StopListing("canceled")
     \/ groupErr # NoError /\ StopListing(groupErr)
  /\ UNCHANGED <<ignoreMissing, gone, next, seen, listed, download, groupErr, cancelled, user, result>>

-----------------------------------------------------------------------------
(* fetchManifest, and the group it runs in *)

Become(d, state) == download' = [download EXCEPT ![d] = state]

\* The group keeps its first error, and cancels the context.
FailWith(d, err) ==
  /\ Become(d, "failed")
  /\ groupErr' = IF groupErr = NoError THEN err ELSE groupErr
  /\ cancelled' = TRUE

Fetched(d) ==
  /\ download[d] = "running"
  /\ Become(d, "fetched")
  /\ UNCHANGED <<ignoreMissing, gone, lister, next, seen, listed, listErr, groupErr, cancelled, user, result>>

\* A manifest that was deleted since, or that the registry cannot serve.
NotServed(d) ==
  /\ download[d] = "running"
  /\ IF ignoreMissing THEN Become(d, "missing") /\ UNCHANGED <<groupErr, cancelled>>
                      ELSE FailWith(d, "notfound")
  /\ UNCHANGED <<ignoreMissing, gone, lister, next, seen, listed, listErr, user, result>>

\* The request fails, the document is not what was asked for or cannot be
\* decoded, or the context is cancelled.
Failed(d) ==
  /\ download[d] = "running"
  /\ \E err \in {"unsupported", "other"} \cup (IF cancelled THEN {"canceled"} ELSE {}) : FailWith(d, err)
  /\ UNCHANGED <<ignoreMissing, gone, lister, next, seen, listed, listErr, user, result>>

Download(d) == Fetched(d) \/ NotServed(d) \/ Failed(d)

-----------------------------------------------------------------------------
(* The end *)

\* A listing that failed stops the downloads.
StopDownloads ==
  /\ lister = "listed" /\ listErr # NoError
  /\ cancelled' = TRUE
  /\ lister' = "waiting"
  /\ UNCHANGED <<ignoreMissing, gone, next, seen, listed, listErr, download, groupErr, user, result>>

\* Mutant of Fail: the group's error is returned, if there is one.
FailGroup ==
  /\ lister = "waiting" /\ Downloading = {}
  /\ lister' = "done"
  /\ result' = IF groupErr # NoError THEN groupErr
               ELSE IF listErr = "notfound" /\ ignoreMissing THEN "gone" ELSE listErr
  /\ UNCHANGED <<ignoreMissing, gone, next, seen, listed, listErr, download, groupErr, cancelled, user>>

\* The group's error is the original one when the listing only echoes it.
Fail ==
  /\ lister = "waiting" /\ Downloading = {}
  /\ lister' = "done"
  /\ result' = IF groupErr # NoError /\ listErr = "canceled" THEN groupErr
               ELSE IF listErr = "notfound" /\ ignoreMissing THEN "gone" ELSE listErr
  /\ UNCHANGED <<ignoreMissing, gone, next, seen, listed, listErr, download, groupErr, cancelled, user>>

\* Once everything is there, blob sizes may turn out inconsistent, and resolving
\* platforms downloads image configs, which may fail as well.
Finish ==
  /\ lister = "listed" /\ listErr = NoError /\ Downloading = {}
  /\ lister' = "done"
  /\ IF groupErr # NoError
     THEN result' = groupErr
     ELSE result' \in {"contents", "other"} \cup (IF user THEN {"canceled"} ELSE {})
  /\ UNCHANGED <<ignoreMissing, gone, next, seen, listed, listErr, download, groupErr, cancelled, user>>

Lister == (\E d \in Digest : List(d)) \/ Go \/ EndListing \/ StopDownloads \/ Fail \/ Finish

-----------------------------------------------------------------------------
Interrupt ==
  /\ ~user /\ result = "running"
  /\ user' = TRUE /\ cancelled' = TRUE
  /\ UNCHANGED <<ignoreMissing, gone, lister, next, seen, listed, listErr, download, groupErr, result>>

DeleteRepository ==
  /\ ~gone /\ result = "running"
  /\ gone' = TRUE
  /\ UNCHANGED <<ignoreMissing, lister, next, seen, listed, listErr, download, groupErr, cancelled, user, result>>

Next ==
  \/ Lister \/ Interrupt \/ DeleteRepository
  \/ \E d \in Digest : Download(d)

Spec == Init /\ [][Next]_vars

-----------------------------------------------------------------------------
(* Properties *)

FlagsOK ==
  /\ ignoreMissing \in BOOLEAN /\ gone \in BOOLEAN /\ cancelled \in BOOLEAN /\ user \in BOOLEAN

StatesOK ==
  /\ lister \in {"listing", "starting", "listed", "waiting", "done"}
  /\ next \in Digest \cup {NoDigest} /\ (lister = "starting") <=> (next # NoDigest)
  /\ seen \subseteq Digest
  /\ listErr \in Failures \cup {NoError} /\ groupErr \in Failures \cup {NoError}
  /\ download \in [Digest -> {"unlisted", "running", "fetched", "missing", "failed"}]
  /\ result \in {"running", "contents", "gone"} \cup Failures

TypeOK ==
  /\ FlagsOK /\ StatesOK
  /\ listed \in 0..MaxListed
  /\ Cardinality(Downloading) <= Limit

\* Contents are returned only when the listing came to its end, and then hold
\* every manifest it reported, as downloaded or - if missing ones are to be
\* ignored - as missing: one left out would look like one that is not there,
\* and its children unreferenced.
ContentsAreComplete ==
  result = "contents" =>
    /\ listErr = NoError /\ Cardinality(seen) = listed
    /\ \A d \in seen : download[d] = "fetched" \/ (download[d] = "missing" /\ ignoreMissing)

\* fetch.go: "A download failure cancels groupCtx and so surfaces from listing as
\* well; report the original error from Wait in that case." The call reports an
\* interruption only when the user interrupted it: neither the listing's echo of
\* a failed download, nor the downloads' echo of a failed listing comes out.
NoEcho == result = "canceled" => user

\* A repository is reported as gone, and skipped, only when it is; a manifest
\* that could not be served never makes it look so.
GoneIsGone == result = "gone" => gone /\ ignoreMissing

=============================================================================
