-------------------------- MODULE IssueListingProofs --------------------------
(***************************************************************************)
(* Theorems about IssueListing, for repositories and pages of any size,    *)
(* any number of retries and whatever GitHub answers.                      *)
(***************************************************************************)
EXTENDS IssueListing, FiniteSetTheorems, WellFoundedInduction, TLAPS

(* What a page has cost is what its attempts may cost: one request turned   *)
(* down for each attempt made, one more once the listing has ended.         *)
Cost ==
    /\ asked <= attempt + 1
    /\ pc # "ended" => asked <= attempt
    /\ slept <= attempt * MaxWait

IInv == TypeOK /\ Cost

(* A wait is a number and no longer than the cap.                          *)
LEMMA WaitsAreShort ==
    ASSUME TypeOK, NEW after \in RetryAfter \cup {Unset}
    PROVE  /\ RetryDelay(after) \in Int
           /\ Backoff \in Int /\ Backoff <= MaxWait
<1>1. Base * 2^attempt \in Int
  BY ListingNumbers DEF TypeOK
<1>. QED
  BY <1>1, ListingNumbers, ListingHeaders DEF RetryDelay, Backoff, AtMost

(* The listing begins with nothing asked and nothing waited for.           *)
LEMMA Start0 == Init => IInv
BY ListingNumbers DEF Init, IInv, TypeOK, Cost, Outcomes, Issues

(* A page that arrives is a set of issues there are.                        *)
LEMMA PagesAreIssues ==
    ASSUME TypeOK PROVE PageOf(url) \in SUBSET Issues
BY DEF TypeOK, PageOf

(* One wait more is paid for by one attempt more.                          *)
LEMMA OneMoreAttempt ==
    ASSUME NEW n \in Nat, NEW s \in Int, NEW wait \in Int,
           s <= n * MaxWait, wait <= MaxWait
    PROVE  s + wait <= (n + 1) * MaxWait
<1>1. (n + 1) * MaxWait = n * MaxWait + MaxWait
  BY ListingNumbers
<1>2. n * MaxWait \in Int
  BY ListingNumbers
<1>. QED
  BY <1>1, <1>2, ListingNumbers

(* One request that is turned down, and what the client does about it.      *)
LEMMA TryingAgain ==
    ASSUME IInv, NEW wait, wait \in Int, wait <= MaxWait, TurnedDown(wait), TryAgain(wait)
    PROVE  IInv'
<1>1. TypeOK'
  BY ListingNumbers DEF IInv, TypeOK, TurnedDown, TryAgain, AtMost, repository, progress
<1>2. slept' <= attempt' * MaxWait
  BY OneMoreAttempt DEF IInv, TypeOK, Cost, TryAgain
<1>3. /\ asked' <= attempt' + 1
      /\ pc' # "ended" => asked' <= attempt'
  BY ListingNumbers DEF IInv, TypeOK, Cost, TurnedDown, TryAgain, AtMost
<1>. QED
  BY <1>1, <1>2, <1>3 DEF IInv, Cost

LEMMA GivingUp ==
    ASSUME IInv, NEW wait, TurnedDown(wait), NEW result \in Outcomes, GiveUp(result)
    PROVE  IInv'
<1>1. TypeOK'
  BY ListingNumbers
     DEF IInv, TypeOK, TurnedDown, GiveUp, End, AtMost, repository, progress
<1>2. Cost'
  BY ListingNumbers DEF IInv, TypeOK, Cost, TurnedDown, GiveUp, End, AtMost
<1>. QED
  BY <1>1, <1>2 DEF IInv

(* A page that arrives resets the count, or ends the listing.               *)
LEMMA Receiving ==
    ASSUME IInv, ReceivePage \/ ReceiveEmpty \/ ReceiveForeignLink
    PROVE  IInv'
<1>. USE ListingNumbers
<1>1. CASE ReceivePage
  <2>1. received' \in Seq(SUBSET Issues)
    BY <1>1, PagesAreIssues DEF IInv, TypeOK, ReceivePage
  <2>2. TypeOK'
    BY <1>1, <2>1
       DEF IInv, TypeOK, ReceivePage, End, WantsMore, Outcomes, repository
  <2>3. Cost'
    BY <1>1 DEF IInv, TypeOK, Cost, ReceivePage, End
  <2>. QED
    BY <2>2, <2>3 DEF IInv
<1>2. CASE ReceiveEmpty
  BY <1>2 DEF IInv, TypeOK, Cost, ReceiveEmpty, End, Outcomes, repository, progress
<1>3. CASE ReceiveForeignLink
  <2>1. received' \in Seq(SUBSET Issues)
    BY <1>3, PagesAreIssues DEF IInv, TypeOK, ReceiveForeignLink
  <2>2. TypeOK'
    BY <1>3, <2>1 DEF IInv, TypeOK, ReceiveForeignLink, End, Outcomes, repository
  <2>3. Cost'
    BY <1>3 DEF IInv, TypeOK, Cost, ReceiveForeignLink, End
  <2>. QED
    BY <2>2, <2>3 DEF IInv
<1>. QED
  BY <1>1, <1>2, <1>3

(* Whatever turns a request down, the client tries again or gives up.      *)
LEMMA TurningDown ==
    ASSUME IInv, NetworkFails \/ RateLimited \/ ServerFails \/ Refuse
    PROVE  IInv'
<1>. USE WaitsAreShort DEF IInv
<1>1. CASE NetworkFails
  <2>1. CASE TurnedDown(0) /\ TryAgain(Backoff)
    <3>1. Backoff \in Int /\ Backoff <= MaxWait
      BY WaitsAreShort, Zenon DEF RetryDelay
    <3>2. TurnedDown(Backoff)
      BY <2>1 DEF TurnedDown
    <3>. QED
      BY <2>1, <3>1, <3>2, TryingAgain
  <2>2. CASE TurnedDown(0) /\ GiveUp("network")
    BY <2>2, GivingUp DEF Outcomes
  <2>. QED
    BY <1>1, <2>1, <2>2 DEF NetworkFails
<1>2. CASE RateLimited
  <2>1. PICK after \in RetryAfter \cup {Unset} :
            /\ TurnedDown(RetryDelay(after))
            /\ \/ RetryDelay(after) <= MaxWait /\ TryAgain(RetryDelay(after))
               \/ GiveUp("limited")
    BY <1>2 DEF RateLimited
  <2>2. RetryDelay(after) \in Int
    BY WaitsAreShort
  <2>3. CASE RetryDelay(after) <= MaxWait /\ TryAgain(RetryDelay(after))
    BY <2>1, <2>2, <2>3, TryingAgain
  <2>4. CASE GiveUp("limited")
    BY <2>1, <2>4, GivingUp DEF Outcomes
  <2>. QED
    BY <2>1, <2>3, <2>4
<1>3. CASE ServerFails
  <2>1. PICK after \in RetryAfter \cup {Unset} :
            /\ TurnedDown(RetryDelay(after))
            /\ \/ RetryDelay(after) <= MaxWait /\ TryAgain(RetryDelay(after))
               \/ GiveUp("limited") \/ GiveUp("status")
    BY <1>3 DEF ServerFails
  <2>2. RetryDelay(after) \in Int
    BY WaitsAreShort
  <2>3. CASE RetryDelay(after) <= MaxWait /\ TryAgain(RetryDelay(after))
    BY <2>1, <2>2, <2>3, TryingAgain
  <2>4. CASE GiveUp("limited") \/ GiveUp("status")
    BY <2>1, <2>4, GivingUp DEF Outcomes
  <2>. QED
    BY <2>1, <2>3, <2>4
<1>4. CASE Refuse
  BY <1>4, GivingUp DEF Refuse, Outcomes
<1>. QED
  BY <1>1, <1>2, <1>3, <1>4

(* What happens at GitHub costs the client nothing.                        *)
LEMMA RepositoryChanges ==
    ASSUME IInv, OpenIssue \/ DeleteIssue PROVE IInv'
<1>1. CASE OpenIssue
  BY <1>1, ListingNumbers DEF IInv, TypeOK, Cost, OpenIssue, progress, Issues, Outcomes
<1>2. CASE DeleteIssue
  BY <1>2, ListingNumbers DEF IInv, TypeOK, Cost, DeleteIssue, progress, Issues, Outcomes
<1>. QED
  BY <1>1, <1>2

(* Every step of the client or of GitHub keeps the invariant.              *)
LEMMA StepKeepsInvariant == IInv /\ [Next]_vars => IInv'
<1>. SUFFICES ASSUME IInv, [Next]_vars PROVE IInv'
  OBVIOUS
<1>1. CASE Start
  BY <1>1, ListingNumbers
     DEF IInv, TypeOK, Cost, Start, End, Outcomes, repository
<1>2. CASE ReceivePage \/ ReceiveEmpty \/ ReceiveForeignLink
  BY <1>2, Receiving
<1>3. CASE NetworkFails \/ RateLimited \/ ServerFails \/ Refuse
  BY <1>3, TurningDown
<1>4. CASE OpenIssue \/ DeleteIssue
  BY <1>4, RepositoryChanges
<1>5. CASE UNCHANGED vars
  BY <1>5 DEF IInv, TypeOK, Cost, vars, repository, progress
<1>. QED
  BY <1>1, <1>2, <1>3, <1>4, <1>5 DEF Next, Client

(* Every variable of the listing keeps its type.                            *)
THEOREM TypeCorrect == Spec => []TypeOK
<1>1. IInv => TypeOK
  BY DEF IInv
<1>. QED
  BY Start0, StepKeepsInvariant, <1>1, PTL DEF Spec

(* However often GitHub turns it down, and whatever it asks for, the client *)
(* sends a bounded number of requests for a page and sleeps for a bounded   *)
(* time: _request_with_retries for any number of retries, any backoff and   *)
(* any Retry-After values.                                                  *)
THEOREM PatienceIsAlwaysBounded == Spec => []PatienceIsBounded
<1>1. IInv => PatienceIsBounded
  <2>. SUFFICES ASSUME IInv PROVE PatienceIsBounded
    OBVIOUS
  <2>. USE ListingNumbers DEF IInv, TypeOK, Cost
  <2>1. attempt * MaxWait <= MAX_RETRIES * MaxWait
    OBVIOUS
  <2>2. /\ attempt * MaxWait \in Int
        /\ MAX_RETRIES * MaxWait \in Int
    OBVIOUS
  <2>. QED
    BY <2>1, <2>2 DEF PatienceIsBounded
<1>. QED
  BY Start0, StepKeepsInvariant, <1>1, PTL DEF Spec
-----------------------------------------------------------------------------
(* Numbers and finite sets.                                                 *)

Smaller == {ss \in Nat \X Nat : ss[1] < ss[2]}

LEMMA SmallerIsWellFounded == IsWellFoundedOn(Smaller, Nat)
BY NatLessThanWellFounded DEF OpToRel, Smaller

(* A set of numbers has a least one.                                       *)
LEMMA LeastNumber ==
    ASSUME NEW S \in SUBSET Nat, S # {}
    PROVE  \E m \in S : \A k \in S : m <= k
<1>1. PICK m \in S : \A k \in S : <<k, m>> \notin Smaller
  BY SmallerIsWellFounded, WFMin
<1>2. ASSUME NEW k \in S, k < m PROVE <<k, m>> \in Smaller
  BY <1>2 DEF Smaller
<1>3. \A k \in S : ~(k < m)
  BY <1>1, <1>2
<1>. QED
  BY <1>3

(* A set with at most one element that the other does not have.            *)
LEMMA OneMore ==
    ASSUME NEW S, IsFiniteSet(S), NEW T, \A x, y \in T \ S : x = y
    PROVE  Cardinality(T) \in Nat /\ Cardinality(T) <= Cardinality(S) + 1
<1>1. CASE T \subseteq S
  BY <1>1, FS_Subset, FS_CardinalityType
<1>2. CASE ~(T \subseteq S)
  <2>1. PICK x \in T \ S : T \subseteq S \cup {x}
    BY <1>2
  <2>2. IsFiniteSet(S \cup {x}) /\ Cardinality(S \cup {x}) = Cardinality(S) + 1
    BY <2>1, FS_AddElement
  <2>3. IsFiniteSet(T) /\ Cardinality(T) <= Cardinality(S \cup {x})
    BY <2>1, <2>2, FS_Subset
  <2>. QED
    BY <2>2, <2>3, FS_CardinalityType
<1>. QED
  BY <1>1, <1>2

-----------------------------------------------------------------------------
(* Where the issues of a repository stand in its listing.                   *)

NoOlder(P, i) == {j \in P : j >= i}
Stand(P, i) == Cardinality(NoOlder(P, i))

Repository(P, newest) == newest \in Nat /\ P \subseteq 1 .. newest

LEMMA IssuesAreNumbers ==
    ASSUME NEW P, NEW newest, Repository(P, newest)
    PROVE  \A i \in P : i \in Nat /\ i <= newest
BY DEF Repository

LEMMA StandsAreNumbers ==
    ASSUME NEW P, NEW newest, Repository(P, newest), NEW i
    PROVE  /\ IsFiniteSet(P) /\ IsFiniteSet(NoOlder(P, i)) /\ Stand(P, i) \in Nat
           /\ Stand(P, i) <= Cardinality(P)
           /\ i \in P => Stand(P, i) > 0
<1>1. IsFiniteSet(P)
  <2>1. IsFiniteSet(1 .. newest)
    BY FS_Interval DEF Repository
  <2>. QED
    BY <2>1, FS_Subset DEF Repository
<1>2. /\ IsFiniteSet(NoOlder(P, i)) /\ Stand(P, i) \in Nat
      /\ Stand(P, i) <= Cardinality(P)
  BY <1>1, FS_Subset, FS_CardinalityType DEF NoOlder, Stand
<1>3. i \in P => i \in NoOlder(P, i)
  BY DEF NoOlder, Repository
<1>4. i \in P => Stand(P, i) # 0
  BY <1>2, <1>3, FS_EmptySet DEF Stand
<1>. QED
  BY <1>1, <1>2, <1>4

(* Newer issues stand before older ones, so no two stand at the same place. *)
LEMMA StandsDiffer ==
    ASSUME NEW P, NEW newest, Repository(P, newest), NEW i \in P, NEW j \in P, i < j
    PROVE  Stand(P, j) < Stand(P, i)
<1>0. \A k \in P : k \in Nat
  BY IssuesAreNumbers
<1>1. NoOlder(P, j) \subseteq NoOlder(P, i)
  BY <1>0 DEF NoOlder
<1>2. i \in NoOlder(P, i) /\ i \notin NoOlder(P, j)
  BY <1>0 DEF NoOlder
<1>3. IsFiniteSet(NoOlder(P, i)) /\ Stand(P, i) \in Nat /\ Stand(P, j) \in Nat
  BY StandsAreNumbers
<1>4. Stand(P, j) <= Stand(P, i) /\ Stand(P, i) # Stand(P, j)
  BY <1>1, <1>2, <1>3, FS_Subset DEF Stand
<1>. QED
  BY <1>3, <1>4

LEMMA StandsAreTaken ==
    ASSUME NEW P, NEW newest, Repository(P, newest), NEW i \in P, NEW j \in P,
           Stand(P, i) = Stand(P, j)
    PROVE  i = j
<1>1. i \in Nat /\ j \in Nat
  BY DEF Repository
<1>2. Stand(P, i) \in Nat
  BY StandsAreNumbers
<1>3. ~(i < j) /\ ~(j < i)
  BY <1>2, StandsDiffer
<1>. QED
  BY <1>1, <1>3

(* A new issue comes first, and moves the others one place on.             *)
LEMMA StandsAfterOpening ==
    ASSUME NEW P, NEW newest, Repository(P, newest), NEW i \in P
    PROVE  Stand(P \cup {newest + 1}, i) = Stand(P, i) + 1
<1>1. NoOlder(P \cup {newest + 1}, i) = NoOlder(P, i) \cup {newest + 1}
  BY DEF NoOlder, Repository
<1>2. newest + 1 \notin NoOlder(P, i)
  BY DEF NoOlder, Repository
<1>. QED
  BY <1>1, <1>2, StandsAreNumbers, FS_AddElement DEF Stand

(* A deletion moves the older issues one place forward.                    *)
LEMMA StandsAfterDeletion ==
    ASSUME NEW P, NEW newest, Repository(P, newest), NEW gone, NEW i
    PROVE  /\ Stand(P \ {gone}, i) \in Nat
           /\ Stand(P \ {gone}, i) <= Stand(P, i)
           /\ Stand(P, i) <= Stand(P \ {gone}, i) + 1
<1>1. NoOlder(P \ {gone}, i) = NoOlder(P, i) \ {gone}
  BY DEF NoOlder
<1>2. IsFiniteSet(NoOlder(P, i)) /\ Stand(P, i) \in Nat
  BY StandsAreNumbers
<1>3. /\ IsFiniteSet(NoOlder(P, i) \ {gone})
      /\ Stand(P \ {gone}, i) = IF gone \in NoOlder(P, i) THEN Stand(P, i) - 1 ELSE Stand(P, i)
  BY <1>1, <1>2, FS_RemoveElement DEF Stand
<1>4. Stand(P \ {gone}, i) \in Nat
  BY <1>1, <1>3, FS_CardinalityType DEF Stand
<1>. QED
  BY <1>2, <1>3, <1>4

(* There are no gaps: behind any place that is not the last, one is taken.  *)
LEMMA NoGaps ==
    ASSUME NEW P, NEW newest, Repository(P, newest), NEW before \in Nat,
           NEW i \in P, Stand(P, i) > before
    PROVE  \E j \in P : Stand(P, j) = before + 1
<1>. DEFINE places == {Stand(P, k) : k \in {k \in P : Stand(P, k) > before}}
<1>1. places \in SUBSET Nat /\ places # {}
  BY StandsAreNumbers
<1>2. PICK least \in places : \A k \in places : least <= k
  <2>. HIDE DEF places
  <2>. QED
    BY <1>1, LeastNumber
<1>3. PICK j \in P : Stand(P, j) = least /\ least > before
  BY <1>2
<1>4. \A k \in P : Stand(P, k) > before => Stand(P, j) <= Stand(P, k)
  BY <1>2, <1>3
<1>. HIDE DEF places
<1>5. SUFFICES ASSUME Stand(P, j) > before + 1 PROVE FALSE
  BY <1>3, StandsAreNumbers
<1>. DEFINE newer == {k \in P : k > j}
<1>6. (\A k \in P : k \in Nat) /\ newer \subseteq Nat
  BY IssuesAreNumbers
<1>7. newer = NoOlder(P, j) \ {j} /\ j \in NoOlder(P, j)
  BY <1>6 DEF NoOlder
<1>8. IsFiniteSet(newer) /\ Cardinality(newer) = Stand(P, j) - 1
  BY <1>7, StandsAreNumbers, FS_RemoveElement DEF Stand
<1>9. newer # {}
  BY <1>5, <1>8, FS_EmptySet, StandsAreNumbers
<1>10. PICK next \in newer : \A k \in newer : next <= k
  <2>. HIDE DEF newer
  <2>. QED
    BY <1>6, <1>9, LeastNumber
<1>11. NoOlder(P, next) = newer
  BY <1>6, <1>10 DEF NoOlder
<1>12. Stand(P, next) = Stand(P, j) - 1
  BY <1>8, <1>11 DEF Stand
<1>. QED
  BY <1>4, <1>5, <1>10, <1>12, StandsAreNumbers
-----------------------------------------------------------------------------
(* What the listing overlooks, and what it gets twice.                      *)

(* The places before the p-th page.                                        *)
Before(p) == (p - 1) * PerPage

(* Issues the listing has passed without getting them.                      *)
Skipped ==
    {i \in initial \cap present : i \notin Collected /\ Stand(present, i) <= Before(url)}

(* Issues it got twice, or may get again: they are on pages to come.        *)
Again ==
    Repeated \cup {i \in Collected \cap present : Stand(present, i) > Before(url)}

Known ==
    /\ Repository(present, created)
    /\ initial \subseteq 1 .. created /\ Collected \subseteq 1 .. created
    /\ pc = "idle" => url = 1 /\ received = <<>>
    /\ pc # "ended" => outcome = "none"

(* One deletion makes the listing skip at most one issue, one new issue     *)
(* makes it get at most one again.                                         *)
Counted ==
    /\ pc # "ended" => Cardinality(Skipped) <= removed /\ Cardinality(Again) <= opened
    /\ OverlooksOnlyForDeletions
    /\ RepeatsOnlyForOpenings

LEMMA PagesFollow ==
    ASSUME TypeOK
    PROVE  /\ Before(url) \in Nat /\ Before(url + 1) = Before(url) + PerPage
           /\ PerPage > 0 /\ Before(1) = 0
<1>1. url \in Nat \ {0} /\ PerPage \in Nat \ {0}
  BY ListingNumbers DEF TypeOK
<1>2. (url - 1) * PerPage \in Nat
  BY <1>1
<1>3. ((url + 1) - 1) * PerPage = (url - 1) * PerPage + PerPage
  BY <1>1
<1>. QED
  BY <1>1, <1>2, <1>3 DEF Before

(* The next page has the issues on the PerPage places that follow.         *)
LEMMA PagePlaces ==
    ASSUME TypeOK, Known
    PROVE  /\ \A i \in present : i \in PageOf(url) <=> /\ Stand(present, i) > Before(url)
                                                       /\ Stand(present, i) <= Before(url + 1)
           /\ PageOf(url) \subseteq present
           /\ ~HasNext(url) => \A i \in present : Stand(present, i) <= Before(url + 1)
<1>1. \A i : Rank(i) = Stand(present, i)
  BY DEF Rank, Stand, NoOlder
<1>2. \A i \in present : Stand(present, i) \in Nat /\ Stand(present, i) <= Cardinality(present)
  BY StandsAreNumbers DEF Known
<1>3. Cardinality(present) \in Nat
  BY StandsAreNumbers, FS_CardinalityType DEF Known
<1>4. url * PerPage = Before(url + 1) /\ Before(url + 1) \in Nat
  BY PagesFollow, ListingNumbers DEF Before, TypeOK
<1>5. \A i \in present : i \in PageOf(url) <=> /\ Stand(present, i) > Before(url)
                                               /\ Stand(present, i) <= Before(url + 1)
  <2>1. PageOf(url) = {i \in present : Stand(present, i) \in Before(url) + 1 .. Before(url + 1)}
    BY <1>1, <1>4 DEF PageOf, Before
  <2>. QED
    BY <1>2, <1>4, <2>1, PagesFollow
<1>6. ASSUME ~HasNext(url) PROVE \A i \in present : Stand(present, i) <= Before(url + 1)
  BY <1>2, <1>3, <1>4, <1>6 DEF HasNext
<1>. QED
  BY <1>5, <1>6 DEF PageOf

(* All these sets are finite.                                              *)
LEMMA KnownIsFinite ==
    ASSUME Known, NEW S \in SUBSET (1 .. created)
    PROVE  IsFiniteSet(S) /\ Cardinality(S) \in Nat
<1>1. IsFiniteSet(1 .. created)
  BY FS_Interval DEF Known, Repository
<1>. QED
  BY <1>1, FS_Subset, FS_CardinalityType

LEMMA FewerIn ==
    ASSUME Known, NEW S \in SUBSET (1 .. created), NEW T \in SUBSET S,
           NEW most \in Nat, Cardinality(S) <= most
    PROVE  Cardinality(T) <= most
<1>1. IsFiniteSet(S) /\ Cardinality(S) \in Nat /\ Cardinality(T) \in Nat
  BY KnownIsFinite
<1>2. Cardinality(T) <= Cardinality(S)
  BY <1>1, FS_Subset
<1>. QED
  BY <1>1, <1>2

LEMMA CountedSets ==
    ASSUME Known, TypeOK
    PROVE  Skipped \subseteq 1 .. created /\ Again \subseteq 1 .. created
<1>1. Repeated \subseteq Collected
  BY DEF Repeated, Collected
<1>. QED
  BY <1>1 DEF Known, Skipped, Again

(* One more page.                                                          *)
LEMMA CollectedAfter ==
    ASSUME TypeOK, NEW new \in SUBSET Issues, received' = Append(received, new)
    PROVE  /\ Collected' = Collected \cup new
           /\ Repeated' = Repeated \cup (new \cap Collected)
<1>1. received \in Seq(SUBSET Issues)
  BY DEF TypeOK
<1>2. PICK n \in Nat : /\ n \notin DOMAIN received /\ DOMAIN received' = DOMAIN received \cup {n}
                       /\ received'[n] = new
                       /\ \A m \in DOMAIN received : received'[m] = received[m]
  BY <1>1
<1>3. Collected' = Collected \cup new
  BY <1>2 DEF Collected
<1>4. Repeated' = Repeated \cup (new \cap Collected)
  BY <1>2 DEF Repeated, Collected
<1>. QED
  BY <1>3, <1>4

(* A page that arrives brings what stands on it: nothing is skipped by      *)
(* taking it, and what it repeats was about to be repeated.                 *)
LEMMA PageArrives ==
    ASSUME TypeOK, Known, Counted, pc = "request", UNCHANGED repository, UNCHANGED initial,
           received' = Append(received, PageOf(url))
    PROVE  /\ Collected' \subseteq 1 .. created
           /\ Repeated' \subseteq Again
           /\ {i \in initial \cap present : /\ i \notin Collected'
                                            /\ Stand(present, i) <= Before(url + 1)} \subseteq Skipped
           /\ {i \in Collected' \cap present : Stand(present, i) > Before(url + 1)} \subseteq Again
<1>1. PageOf(url) \in SUBSET Issues
  BY PagesAreIssues
<1>2. /\ Collected' = Collected \cup PageOf(url)
      /\ Repeated' = Repeated \cup (PageOf(url) \cap Collected)
  BY <1>1, CollectedAfter
<1>3. \A i \in present : Stand(present, i) \in Nat
  BY StandsAreNumbers DEF Known
<1>4. /\ Before(url) \in Nat /\ Before(url) <= Before(url + 1)
      /\ PageOf(url) \subseteq present
      /\ \A i \in present : i \in PageOf(url) <=> /\ Stand(present, i) > Before(url)
                                                 /\ Stand(present, i) <= Before(url + 1)
  BY PagePlaces, PagesFollow, ListingNumbers
<1>5. Collected' \subseteq 1 .. created
  BY <1>2, <1>4 DEF Known, Repository
<1>6. Repeated' \subseteq Again
  BY <1>2, <1>4 DEF Again
<1>7. ASSUME NEW i \in initial \cap present, i \notin Collected',
             Stand(present, i) <= Before(url + 1)
      PROVE  i \in Skipped
  BY <1>2, <1>3, <1>4, <1>7 DEF Skipped
<1>8. ASSUME NEW i \in Collected' \cap present, Stand(present, i) > Before(url + 1)
      PROVE  i \in Again
  <2>1. i \in Collected
    BY <1>2, <1>3, <1>4, <1>8, PagesFollow, ListingNumbers
  <2>2. Stand(present, i) > Before(url)
    BY <1>3, <1>8, PagesFollow, ListingNumbers
  <2>. QED
    BY <2>1, <2>2 DEF Again
<1>. QED
  BY <1>5, <1>6, <1>7, <1>8

LEMMA ReceivingCounts ==
    ASSUME TypeOK, Known, Counted, ReceivePage \/ ReceiveEmpty \/ ReceiveForeignLink
    PROVE  Known' /\ Counted'
<1>1. /\ pc = "request" /\ UNCHANGED <<repository, initial>>
      /\ Cardinality(Skipped) <= removed /\ Cardinality(Again) <= opened
      /\ removed \in Nat /\ opened \in Nat
  BY DEF ReceivePage, ReceiveEmpty, ReceiveForeignLink, Counted, TypeOK, progress
<1>2. Skipped \subseteq 1 .. created /\ Again \subseteq 1 .. created
  BY CountedSets
<1>3. CASE ReceiveEmpty
  <2>1. (initial \cap present) \ Collected \subseteq Skipped
    <3>1. SUFFICES ASSUME NEW i \in present, Stand(present, i) > Before(url) PROVE FALSE
      BY StandsAreNumbers, PagesFollow DEF Skipped, Known
    <3>2. PICK j \in present : Stand(present, j) = Before(url) + 1
      BY <3>1, NoGaps, PagesFollow DEF Known
    <3>3. j \in PageOf(url)
      BY <3>2, PagePlaces, PagesFollow, ListingNumbers
    <3>. QED
      BY <1>3, <3>3 DEF ReceiveEmpty
  <2>2. Cardinality((initial \cap present) \ Collected) <= removed
    BY <1>1, <1>2, <2>1, FewerIn
  <2>3. UNCHANGED <<repository, progress>> /\ pc' = "ended"
    BY <1>3 DEF ReceiveEmpty, End
  <2>. QED
    BY <2>2, <2>3
       DEF Known, Counted, OverlooksOnlyForDeletions, RepeatsOnlyForOpenings, Repeated, Collected,
           repository, progress
<1>4. CASE ReceivePage \/ ReceiveForeignLink
  <2>1. received' = Append(received, PageOf(url))
    BY <1>4 DEF ReceivePage, ReceiveForeignLink
  <2>2. Collected' \subseteq 1 .. created /\ Repeated' \subseteq Again
    BY <1>1, <2>1, PageArrives
  <2>3. RepeatsOnlyForOpenings'
    <3>1. Cardinality(Repeated') <= opened
      BY <1>1, <1>2, <2>2, FewerIn
    <3>. QED
      BY <1>1, <3>1 DEF RepeatsOnlyForOpenings, repository
  <2>4. Known'
    BY <1>1, <1>4, <2>2 DEF Known, ReceivePage, ReceiveForeignLink, End, repository
  <2>5. CASE pc' # "ended"
    <3>1. url' = url + 1 /\ outcome' = outcome
      BY <1>1, <1>4, <2>5 DEF ReceivePage, ReceiveForeignLink, End
    <3>2. Skipped' \subseteq Skipped /\ Again' \subseteq Again
      BY <1>1, <2>1, <2>2, <3>1, PageArrives DEF Skipped, Again, repository
    <3>3. Cardinality(Skipped') <= removed /\ Cardinality(Again') <= opened
      BY <1>1, <1>2, <3>2, FewerIn
    <3>4. OverlooksOnlyForDeletions'
      BY <1>1, <3>1 DEF Known, OverlooksOnlyForDeletions
    <3>. QED
      BY <1>1, <2>3, <2>4, <3>3, <3>4 DEF Counted, repository
  <2>6. CASE pc' = "ended"
    <3>1. OverlooksOnlyForDeletions'
      <4>1. SUFFICES ASSUME outcome' = "done"
                     PROVE  Cardinality((initial \cap present) \ Collected') <= removed
        BY <1>1 DEF OverlooksOnlyForDeletions, repository
      <4>2. ~HasNext(url)
        BY <1>1, <1>4, <4>1 DEF ReceivePage, ReceiveForeignLink, End, Known
      <4>3. (initial \cap present) \ Collected' \subseteq Skipped
        BY <1>1, <2>1, <4>2, PageArrives, PagePlaces
      <4>. QED
        BY <1>1, <1>2, <4>3, FewerIn
    <3>. QED
      BY <2>3, <2>4, <2>6, <3>1 DEF Counted
  <2>. QED
    BY <2>5, <2>6
<1>. QED
  BY <1>3, <1>4

(* A new issue pushes one issue at most over the boundary of what the       *)
(* listing has passed.                                                     *)
LEMMA OpeningCounts ==
    ASSUME TypeOK, Known, Counted, OpenIssue
    PROVE  Known' /\ Counted'
<1>1. /\ pc = "request" /\ created' = created + 1 /\ present' = present \cup {created + 1}
      /\ opened' = opened + 1 /\ UNCHANGED <<removed, progress, pc, outcome>>
      /\ created \in Nat /\ opened \in Nat /\ removed \in Nat
  BY DEF OpenIssue, TypeOK
<1>2. UNCHANGED <<Collected, Repeated, url, received, initial>>
  BY <1>1 DEF progress, Collected, Repeated
<1>3. Known'
  BY <1>1, <1>2 DEF Known, Repository
<1>4. /\ \A i \in present : Stand(present', i) = Stand(present, i) + 1
      /\ \A i \in present : Stand(present, i) \in Nat
  BY <1>1, StandsAfterOpening, StandsAreNumbers DEF Known
<1>5. created + 1 \notin initial /\ created + 1 \notin Collected
  BY <1>1 DEF Known
<1>6. Skipped' \subseteq Skipped
  BY <1>1, <1>2, <1>4, <1>5, PagesFollow DEF Skipped
<1>7. \A i, j \in Again' \ Again : i = j
  <2>1. \A i \in Again' \ Again : i \in present /\ Stand(present, i) = Before(url)
    BY <1>1, <1>2, <1>4, <1>5, PagesFollow DEF Again
  <2>. QED
    BY <2>1, StandsAreTaken DEF Known
<1>8. Cardinality(Skipped') <= removed
  BY <1>1, <1>6, CountedSets, FewerIn DEF Counted
<1>9. Cardinality(Again') <= opened'
  <2>1. IsFiniteSet(Again) /\ Cardinality(Again) \in Nat /\ Cardinality(Again) <= opened
    BY <1>1, CountedSets, KnownIsFinite DEF Counted
  <2>2. Cardinality(Again') \in Nat /\ Cardinality(Again') <= Cardinality(Again) + 1
    BY <1>7, <2>1, OneMore
  <2>. QED
    BY <1>1, <2>1, <2>2
<1>10. OverlooksOnlyForDeletions'
  BY <1>1 DEF Known, OverlooksOnlyForDeletions
<1>11. RepeatsOnlyForOpenings'
  <2>1. Repeated \in SUBSET (1 .. created)
    BY CountedSets DEF Again
  <2>2. Cardinality(Repeated) \in Nat /\ Cardinality(Repeated) <= opened
    BY <2>1, KnownIsFinite DEF Counted, RepeatsOnlyForOpenings
  <2>. QED
    BY <1>1, <1>2, <2>2 DEF RepeatsOnlyForOpenings
<1>. QED
  BY <1>1, <1>3, <1>8, <1>9, <1>10, <1>11 DEF Counted

(* A deletion pulls one issue at most over it, the other way.              *)
LEMMA DeletionCounts ==
    ASSUME TypeOK, Known, Counted, DeleteIssue
    PROVE  Known' /\ Counted'
<1>1. PICK gone \in present : present' = present \ {gone}
  BY DEF DeleteIssue
<1>2. /\ pc = "request" /\ removed' = removed + 1
      /\ UNCHANGED <<created, opened, progress, pc, outcome>>
      /\ created \in Nat /\ opened \in Nat /\ removed \in Nat
  BY DEF DeleteIssue, TypeOK
<1>3. UNCHANGED <<Collected, Repeated, url, received, initial>>
  BY <1>2 DEF progress, Collected, Repeated
<1>4. Known'
  BY <1>1, <1>2, <1>3 DEF Known, Repository
<1>5. \A i : /\ Stand(present', i) \in Nat /\ Stand(present, i) \in Nat
             /\ Stand(present', i) <= Stand(present, i)
             /\ Stand(present, i) <= Stand(present', i) + 1
  BY <1>1, StandsAfterDeletion, StandsAreNumbers DEF Known
<1>6. Again' \subseteq Again
  BY <1>1, <1>3, <1>5, PagesFollow DEF Again
<1>7. \A i, j \in Skipped' \ Skipped : i = j
  <2>1. \A i \in Skipped' \ Skipped : i \in present /\ Stand(present, i) = Before(url) + 1
    BY <1>1, <1>3, <1>5, PagesFollow DEF Skipped
  <2>. QED
    BY <2>1, StandsAreTaken DEF Known
<1>8. Cardinality(Again') <= opened
  BY <1>2, <1>6, CountedSets, FewerIn DEF Counted
<1>9. Cardinality(Skipped') <= removed'
  <2>1. IsFiniteSet(Skipped) /\ Cardinality(Skipped) \in Nat /\ Cardinality(Skipped) <= removed
    BY <1>2, CountedSets, KnownIsFinite DEF Counted
  <2>2. Cardinality(Skipped') \in Nat /\ Cardinality(Skipped') <= Cardinality(Skipped) + 1
    BY <1>7, <2>1, OneMore
  <2>. QED
    BY <1>2, <2>1, <2>2
<1>10. OverlooksOnlyForDeletions'
  BY <1>2 DEF Known, OverlooksOnlyForDeletions
<1>11. RepeatsOnlyForOpenings'
  BY <1>2, <1>3 DEF Counted, RepeatsOnlyForOpenings
<1>. QED
  BY <1>2, <1>4, <1>8, <1>9, <1>10, <1>11 DEF Counted

(* Requests that are turned down leave the count alone.                    *)
LEMMA OtherStepsCount ==
    ASSUME TypeOK, Known, Counted, UNCHANGED <<repository, progress>>,
           \/ UNCHANGED <<pc, outcome>>
           \/ pc # "ended" /\ pc' = "ended" /\ outcome' # "done"
    PROVE  Known' /\ Counted'
<1>1. UNCHANGED <<present, created, opened, removed, url, received, initial>>
  BY DEF repository, progress
<1>2. UNCHANGED <<Collected, Repeated, Skipped, Again>>
  BY <1>1 DEF Collected, Repeated, Skipped, Again
<1>3. Known'
  BY <1>1, <1>2 DEF Known
<1>4. Counted'
  BY <1>1, <1>2 DEF Counted, OverlooksOnlyForDeletions, RepeatsOnlyForOpenings
<1>. QED
  BY <1>3, <1>4

(* The listing starts with nothing passed.                                 *)
LEMMA StartingCounts ==
    ASSUME TypeOK, Known, Counted, Start
    PROVE  Known' /\ Counted'
<1>1. CASE limit < 1
  BY <1>1, OtherStepsCount DEF Start, End, progress
<1>2. CASE ~(limit < 1)
  <2>1. /\ pc = "idle" /\ pc' = "request" /\ initial' = present
        /\ UNCHANGED <<repository, url, received, outcome>>
        /\ url = 1 /\ received = <<>> /\ removed \in Nat /\ opened \in Nat /\ outcome = "none"
    BY <1>2 DEF Start, Known, TypeOK
  <2>2. Collected' = {} /\ Repeated' = {}
    BY <2>1 DEF Collected, Repeated
  <2>3. Skipped' = {} /\ Again' = {}
    <3>1. \A i \in present : Stand(present, i) \in Nat \ {0}
      BY StandsAreNumbers DEF Known
    <3>2. Before(url') = 0 /\ present' = present
      BY <2>1, PagesFollow DEF repository
    <3>. QED
      BY <2>1, <2>2, <3>1, <3>2 DEF Skipped, Again
  <2>4. Known'
    BY <2>1, <2>2 DEF Known, repository, Repository
  <2>. QED
    BY <2>1, <2>2, <2>3, <2>4, FS_EmptySet
       DEF Counted, OverlooksOnlyForDeletions, RepeatsOnlyForOpenings, repository
<1>. QED
  BY <1>1, <1>2

LEMMA StepCounts == TypeOK /\ Known /\ Counted /\ [Next]_vars => Known' /\ Counted'
<1>. SUFFICES ASSUME TypeOK, Known, Counted, [Next]_vars PROVE Known' /\ Counted'
  OBVIOUS
<1>1. CASE ReceivePage \/ ReceiveEmpty \/ ReceiveForeignLink
  BY <1>1, ReceivingCounts
<1>2. CASE NetworkFails \/ RateLimited \/ ServerFails \/ Refuse
  <2>1. UNCHANGED <<repository, progress>>
    BY <1>2 DEF NetworkFails, RateLimited, ServerFails, Refuse, TryAgain, GiveUp
  <2>2. \/ UNCHANGED <<pc, outcome>>
        \/ pc # "ended" /\ pc' = "ended" /\ outcome' # "done"
    BY <1>2 DEF NetworkFails, RateLimited, ServerFails, Refuse, TurnedDown, TryAgain, GiveUp, End
  <2>. QED
    BY <2>1, <2>2, OtherStepsCount
<1>3. CASE UNCHANGED vars
  BY <1>3, OtherStepsCount DEF vars
<1>. QED
  BY <1>1, <1>2, <1>3, StartingCounts, OpeningCounts, DeletionCounts DEF Next, Client

LEMMA FirstCounts == Init => Known /\ Counted
<1>. SUFFICES ASSUME Init PROVE Known /\ Counted
  OBVIOUS
<1>1. Collected = {} /\ Repeated = {} /\ removed = 0 /\ opened = 0 /\ initial = {}
  BY DEF Init, Collected, Repeated
<1>2. Known
  BY <1>1, ListingNumbers DEF Init, Known, Repository
<1>3. Skipped = {} /\ Again = {}
  BY <1>1 DEF Skipped, Again
<1>. QED
  BY <1>1, <1>2, <1>3, FS_EmptySet
     DEF Init, Counted, OverlooksOnlyForDeletions, RepeatsOnlyForOpenings

LEMMA AlwaysCounted == Spec => []Counted
<1>1. Init => TypeOK /\ Known /\ Counted
  BY Start0, FirstCounts DEF IInv
<1>. QED
  BY TypeCorrect, <1>1, StepCounts, PTL DEF Spec

(* A listing that ran to its end lacks at most one issue for each that was  *)
(* deleted meanwhile: fetch_issues_pages for repositories, pages and page   *)
(* limits of any size, whatever is opened and however often it retries.     *)
THEOREM OverlooksAreAlwaysDeletions == Spec => []OverlooksOnlyForDeletions
<1>1. Counted => OverlooksOnlyForDeletions
  BY DEF Counted
<1>. QED
  BY AlwaysCounted, <1>1, PTL

(* ... and has at most one issue twice for each that was opened meanwhile.  *)
THEOREM RepeatsAreAlwaysOpenings == Spec => []RepeatsOnlyForOpenings
<1>1. Counted => RepeatsOnlyForOpenings
  BY DEF Counted
<1>. QED
  BY AlwaysCounted, <1>1, PTL
=============================================================================
