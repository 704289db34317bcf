---------------------------- MODULE IssueListing ----------------------------
(***************************************************************************)
(* One listing of a repository's issues: GitHubClient.fetch_issues_pages   *)
(* and _request_with_retries of src/repotriage/github/client.py.           *)
(*                                                                         *)
(* The repository at GitHub is external and goes on changing while it is   *)
(* listed.  The listing asks for state=all, sort=created, direction=desc,  *)
(* so the issues come newest first; GitHub cuts that order into pages when *)
(* it answers, and names the next page in the Link header if there is one. *)
(* Issues are numbered in the order of their creation.                     *)
(***************************************************************************)
EXTENDS Integers, FiniteSets, Sequences

CONSTANTS
    MaxIssues,   \* bound: issues ever opened in the repository
    Deletions,   \* may issues be deleted or transferred while they are listed?
    PerPage,     \* per_page
    MaxPages,    \* bound: the max_pages argument of the call
    MAX_RETRIES, \* attempts after the first one
    MaxWait,     \* MAX_RETRY_WAIT_SECONDS
    Base, Cap,   \* BACKOFF_BASE_SECONDS and BACKOFF_MAX_SECONDS
    RetryAfter,  \* the Retry-After values GitHub may send, in seconds
    Unset        \* no Retry-After header, or one that cannot be parsed

ASSUME ListingNumbers ==
    /\ MaxIssues \in Nat /\ MaxPages \in Nat /\ MAX_RETRIES \in Nat
    /\ PerPage \in Nat \ {0} /\ MaxWait \in Nat /\ Base \in Nat /\ Cap \in 0 .. MaxWait
ASSUME ListingHeaders ==
    /\ Deletions \in BOOLEAN
    /\ RetryAfter \subseteq Nat /\ Unset \notin RetryAfter

VARIABLES
    present,   \* GitHub: the issues the repository has now
    created,   \* GitHub: the number of the newest issue
    pc,        \* "idle", "request" or "ended"
    limit,     \* max_pages
    page,      \* page_number
    url,       \* the page that next_url names
    attempt,
    outcome,   \* how the listing ended
    received,  \* the pages yielded so far, each a set of issues
    asked,     \* history: requests for the current page that were turned down
    slept,     \* history: seconds slept for the current page
    initial,   \* history: the issues there were when the listing began
    opened, removed  \* history: issues opened and deleted since then

repository == <<present, created, opened, removed>>
progress == <<limit, page, url, received, initial>>
vars == <<repository, progress, pc, attempt, outcome, asked, slept>>

Issues == 1 .. MaxIssues

-----------------------------------------------------------------------------
(* The issues endpoint.                                                     *)

(* Where an issue stands in the listing, counted from 1.                    *)
Rank(i) == Cardinality({j \in present : j >= i})

PageOf(p) == {i \in present : Rank(i) \in (p - 1) * PerPage + 1 .. p * PerPage}

HasNext(p) == Cardinality(present) > p * PerPage

AtMost(bound, n) == IF n > bound THEN bound ELSE n

Backoff == AtMost(Cap, Base * 2^attempt)

(* compute_retry_delay: Retry-After wins over the backoff.                  *)
RetryDelay(after) == IF after = Unset THEN Backoff ELSE after

Init ==
    /\ created \in 0 .. MaxIssues
    /\ present \in SUBSET (1 .. created)
    /\ limit \in 0 .. MaxPages
    /\ pc = "idle" /\ outcome = "none"
    /\ page = 0 /\ url = 1 /\ attempt = 0
    /\ received = <<>>
    /\ asked = 0 /\ slept = 0
    /\ initial = {} /\ opened = 0 /\ removed = 0

-----------------------------------------------------------------------------
(* The repository, at any moment of the listing.                            *)

OpenIssue ==
    /\ pc = "request"
    /\ created < MaxIssues
    /\ created' = created + 1
    /\ present' = present \cup {created + 1}
    /\ opened' = opened + 1
    /\ UNCHANGED <<removed, progress, pc, attempt, outcome, asked, slept>>

DeleteIssue ==
    /\ Deletions
    /\ pc = "request"
    /\ \E i \in present : present' = present \ {i}
    /\ removed' = removed + 1
    /\ UNCHANGED <<created, opened, progress, pc, attempt, outcome, asked, slept>>

-----------------------------------------------------------------------------
(* The client.                                                              *)

End(result) == pc' = "ended" /\ outcome' = result

(* A request is sent and turned down.  The history stops counting beyond    *)
(* what the client may ask.                                                 *)
TurnedDown(wait) ==
    /\ pc = "request"
    /\ asked' = AtMost(MAX_RETRIES + 2, asked + 1)

(* The generator starts: max_pages is checked and the first URL is built.   *)
Start ==
    /\ pc = "idle"
    /\ IF limit < 1
       THEN /\ End("invalid")
            /\ UNCHANGED <<page, initial>>
       ELSE /\ pc' = "request"
            /\ page' = 1
            /\ initial' = present
            /\ UNCHANGED outcome
    /\ UNCHANGED <<repository, limit, url, received, attempt, asked, slept>>

(* The condition of the while loop.                                         *)
WantsMore == page < limit

(* Mutant: the link is not followed, the same page is asked for again.      *)
ReceivePageAgain ==
    /\ pc = "request"
    /\ PageOf(url) # {}
    /\ received' = Append(received, PageOf(url))
    /\ IF HasNext(url) /\ WantsMore
       THEN /\ page' = page + 1
            /\ attempt' = 0 /\ asked' = 0 /\ slept' = 0
            /\ UNCHANGED <<pc, outcome>>
       ELSE /\ End(IF HasNext(url) THEN "limit" ELSE "done")
            /\ UNCHANGED <<page, attempt, asked, slept>>
    /\ UNCHANGED <<repository, limit, url, initial>>

(* A page arrives.  It is yielded unless it is empty, then its Link header  *)
(* says how to go on.                                                       *)
ReceivePage ==
    /\ pc = "request"
    /\ PageOf(url) # {}
    /\ received' = Append(received, PageOf(url))
    /\ IF HasNext(url) /\ WantsMore
       THEN /\ page' = page + 1
            /\ url' = url + 1
            /\ attempt' = 0 /\ asked' = 0 /\ slept' = 0
            /\ UNCHANGED <<pc, outcome>>
       ELSE /\ End(IF HasNext(url) THEN "limit" ELSE "done")
            /\ UNCHANGED <<page, url, attempt, asked, slept>>
    /\ UNCHANGED <<repository, limit, initial>>

(* An empty page ends the listing and is not yielded.                       *)
ReceiveEmpty ==
    /\ pc = "request"
    /\ PageOf(url) = {}
    /\ End("done")
    /\ UNCHANGED <<repository, progress, attempt, asked, slept>>

(* The page is good, but its next link is not one of the GitHub API:        *)
(* validate_github_api_url raises, after the page was yielded.              *)
ReceiveForeignLink ==
    /\ pc = "request"
    /\ PageOf(url) # {}
    /\ received' = Append(received, PageOf(url))
    /\ End("refused")
    /\ UNCHANGED <<repository, limit, page, url, initial, attempt, asked, slept>>

(* Mutant: the attempts are counted from one.                               *)
TryAgainOnceMore(delay) ==
    /\ attempt <= MAX_RETRIES
    /\ attempt' = attempt + 1
    /\ slept' = slept + delay
    /\ UNCHANGED <<repository, progress, pc, outcome>>

(* Mutant: the last attempt is followed by the first one.                   *)
TryAgainForever(delay) ==
    /\ attempt < MAX_RETRIES
    /\ attempt' = (attempt + 1) % MAX_RETRIES
    /\ slept' = slept
    /\ UNCHANGED <<repository, progress, pc, outcome>>

(* Mutant: the next attempt goes for the next page.                         *)
TryNextPage(delay) ==
    /\ attempt < MAX_RETRIES
    /\ attempt' = attempt + 1
    /\ slept' = slept + delay
    /\ url' = url + 1
    /\ UNCHANGED <<repository, pc, outcome, limit, page, received, initial>>

(* Another attempt, after a delay.                                          *)
TryAgain(delay) ==
    /\ attempt < MAX_RETRIES
    /\ attempt' = attempt + 1
    /\ slept' = slept + delay
    /\ UNCHANGED <<repository, progress, pc, outcome>>

GiveUp(result) ==
    /\ End(result)
    /\ UNCHANGED <<repository, progress, attempt, slept>>

(* httpx.TimeoutException or TransportError.                                *)
NetworkFails ==
    /\ TurnedDown(0)
    /\ TryAgain(Backoff) \/ (attempt >= MAX_RETRIES /\ GiveUp("network"))

(* 429, or 403 with Retry-After or x-ratelimit-remaining: 0.                *)
RateLimited ==
    \E after \in RetryAfter \cup {Unset} :
        /\ TurnedDown(RetryDelay(after))
        /\ \/ RetryDelay(after) <= MaxWait /\ TryAgain(RetryDelay(after))
           \/ (attempt >= MAX_RETRIES \/ RetryDelay(after) > MaxWait) /\ GiveUp("limited")

(* 500, 502, 503 or 504; raise_for_status raises an httpx.HTTPStatusError.  *)
ServerFails ==
    \E after \in RetryAfter \cup {Unset} :
        /\ TurnedDown(RetryDelay(after))
        /\ \/ attempt >= MAX_RETRIES /\ GiveUp("status")
           \/ RetryDelay(after) <= MaxWait /\ TryAgain(RetryDelay(after))
           \/ attempt < MAX_RETRIES /\ RetryDelay(after) > MaxWait /\ GiveUp("limited")

(* Any other HTTP error, or an answer that is not a JSON array.             *)
Refuse ==
    /\ TurnedDown(0)
    /\ GiveUp("refused")

Client ==
    \/ Start \/ ReceivePage \/ ReceiveEmpty \/ ReceiveForeignLink
    \/ NetworkFails \/ RateLimited \/ ServerFails \/ Refuse

Next == Client \/ OpenIssue \/ DeleteIssue

Spec == Init /\ [][Next]_vars

(* Every request is answered or runs into its timeout, and the process is   *)
(* scheduled.                                                               *)
FairSpec == Spec /\ WF_vars(Client)

-----------------------------------------------------------------------------
(* Properties.                                                              *)

Outcomes == {"none", "invalid", "done", "limit", "network", "limited", "status", "refused"}

TypeOK ==
    /\ present \in SUBSET Issues /\ created \in 0 .. MaxIssues
    /\ opened \in Nat /\ removed \in Nat
    /\ pc \in {"idle", "request", "ended"}
    /\ limit \in 0 .. MaxPages /\ page \in 0 .. MaxPages /\ url \in Nat \ {0}
    /\ attempt \in 0 .. MAX_RETRIES
    /\ outcome \in Outcomes
    /\ received \in Seq(SUBSET Issues)
    /\ asked \in Nat /\ slept \in Int
    /\ initial \in SUBSET Issues

Collected == UNION {received[n] : n \in DOMAIN received}

(* However often GitHub turns it down, and whatever it asks for, the client *)
(* requests a page at most MAX_RETRIES + 1 times and sleeps at most         *)
(* MAX_RETRIES times MaxWait for it.                                        *)
PatienceIsBounded ==
    /\ asked <= MAX_RETRIES + 1
    /\ pc = "request" => asked <= MAX_RETRIES
    /\ slept <= MAX_RETRIES * MaxWait

(* A listing that reached the last page has every issue that was there when *)
(* it began and still is, except for as many as were deleted meanwhile: a   *)
(* deletion moves the rest of the listing forward, past the page boundary;  *)
(* new issues, retries and failures lose nothing.                           *)
OverlooksOnlyForDeletions ==
    outcome = "done" => Cardinality((initial \cap present) \ Collected) <= removed

Repeated == {i \in Issues : \E m, n \in DOMAIN received :
                m # n /\ i \in received[m] /\ i \in received[n]}

(* Issues come twice only because new ones pushed them over the boundary of *)
(* a page that had been fetched: at most one for each issue opened since.   *)
RepeatsOnlyForOpenings == Cardinality(Repeated) <= opened

(* Every listing ends, if only with an error, however the repository grows  *)
(* and GitHub answers.                                                      *)
ListingEnds == <>(pc = "ended")
=============================================================================
