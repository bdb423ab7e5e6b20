---------------------------- MODULE Content_proofs ----------------------------
(***************************************************************************)
(* Proofs about the components that read, write and judge texts: the       *)
(* crawl, the delivery of a run's posts, a node's turn, the business's     *)
(* memory, the evaluation's report, the pages' score and the listings,     *)
(* each about its own specification.                                       *)
(***************************************************************************)
EXTENDS Crawl, Delivery, NodeTurn, BusinessMemory, Evaluation, SeoAudit, NapAudit,
        FiniteSetTheorems, SequenceTheorems, WellFoundedInduction, TLAPS

-----------------------------------------------------------------------------
(* Sets of numbers.                                                         *)

(* A set of numbers has a least one.                                        *)
LEMMA HasLeast ==
    ASSUME NEW S, S \subseteq Nat, S # {}
    PROVE  \E t \in S : \A u \in S : t <= u
<1> DEFINE R == OpToRel(<, Nat)
<1>1. IsWellFoundedOn(R, Nat)
  BY NatLessThanWellFounded, Zenon
<1>2. \A x, y \in Nat : x < y => <<x, y>> \in R
  BY DEF OpToRel
<1> HIDE DEF R
<1>3. PICK t \in S : \A u \in S : ~ (<<u, t>> \in R)
  BY <1>1, WFMin
<1>4. \A u \in S : ~ (u < t)
  BY <1>2, <1>3, Zenon
<1>5. \A x, y \in Nat : ~ (x < y) => y <= x
  OBVIOUS
<1> QED
  BY <1>3, <1>4, <1>5, Zenon

(* A bounded set of numbers has a greatest one.                             *)
LEMMA HasGreatest ==
    ASSUME NEW n \in Nat, NEW S, S \subseteq 0 .. n, S # {}
    PROVE  \E t \in S : \A u \in S : u <= t
<1> DEFINE D == {n - t : t \in S}
<1>1. D \subseteq Nat /\ D # {}
  <2>1. PICK t \in S : TRUE
    OBVIOUS
  <2>2. n - t \in D
    BY <2>1
  <2>3. \A u \in S : n - u \in Nat
    OBVIOUS
  <2> QED
    BY <2>2, <2>3
<1>2. PICK d \in D : \A e \in D : d <= e
  BY <1>1, HasLeast
<1>3. PICK t \in S : d = n - t
  BY <1>2
<1>4. ASSUME NEW u \in S PROVE u <= t
  BY <1>2, <1>3
<1> QED
  BY <1>4

(* A sequence whose elements are of another type is of that type.           *)
LEMMA SeqRetyped ==
    ASSUME NEW S, NEW T, NEW s \in Seq(S), \A i \in 1 .. Len(s) : s[i] \in T
    PROVE  s \in Seq(T)
<1>1. Len(s) \in Nat /\ s \in [1 .. Len(s) -> S]
  BY LenProperties
<1>2. s \in [1 .. Len(s) -> T]
  BY <1>1
<1>3. [1 .. Len(s) -> T] \subseteq UNION {[1 .. n -> T] : n \in Nat}
  BY <1>1
<1> QED
  BY <1>2, <1>3, SeqDef, Zenon

-----------------------------------------------------------------------------
(* The crawl.                                                               *)

Entries == [url : Urls, depth : Nat]
Hops    == [url : Nat, depth : Nat, at : Nat, redirects : Nat]

\* Where the urls S were first heard of: the frontier F holds each entry at its url's depth,
\* the nearest first.
NearestFirst(F, S, dep) ==
    \A i \in 1 .. Len(F) :
        /\ F[i].url \in S /\ F[i].depth = dep[F[i].url]
        /\ \A j \in i .. Len(F) : F[i].depth <= F[j].depth

\* While a page is fetched, nothing is more than one link further away than that page, and
\* nothing queued is nearer; between fetches the same holds of the head of the frontier.
OneLevelAhead(F, S, x, dep) ==
    IF x = NoHop
      THEN \A i \in 1 .. Len(F) : \A u \in S : dep[u] <= F[i].depth + 1
      ELSE /\ x.url \in S /\ x.depth = dep[x.url]
           /\ \A u \in S : dep[u] <= x.depth + 1
           /\ \A i \in 1 .. Len(F) : x.depth <= F[i].depth

\* Every url heard of was asked for, is being asked for, or waits on the frontier.
NothingDropped(F, S, x, A) ==
    \A u \in S : \/ A[u] # Untried
                 \/ x # NoHop /\ x.url = u
                 \/ \E i \in 1 .. Len(F) : F[i].url = u

\* Every page read above the last level had its links heard of, at most one level further down.
LinksHeard(S, A, L, dep) ==
    \A u \in S : A[u] \in Urls =>
        /\ L[A[u]] # Unread
        /\ dep[u] < MaxDepth =>
              \A v \in L[A[u]] : v \in S /\ dep[v] <= dep[u] + 1

\* A breadth-first search: the depths dep at which the urls were first heard of.
Breadth(F, S, x, A, L, dep) ==
    /\ dep[0] = 0
    /\ NearestFirst(F, S, dep)
    /\ OneLevelAhead(F, S, x, dep)
    /\ LinksHeard(S, A, L, dep)

SiteKnown ==
    /\ frontier \in Seq(Entries)
    /\ seen \subseteq Urls /\ 0 \in seen
    /\ hop \in Hops /\ hop.at \in Urls \cup {OffSite}
    /\ landed = [u \in Urls |-> landed[u]]
    /\ \A u \in Urls \ seen : landed[u] = Untried
    /\ links = [u \in Urls |-> links[u]]
    /\ \A u \in Urls : links[u] # Unread => links[u] \subseteq Urls

CrawlInv ==
    /\ SiteKnown
    /\ NothingDropped(frontier, seen, hop, landed)
    /\ truncated # "crawling" => hop = NoHop
    /\ truncated = "complete" => frontier = << >>
    /\ \E dep \in [seen -> 0 .. MaxDepth] : Breadth(frontier, seen, hop, landed, links, dep)

(* What the site names is a page of the site, or of another one.            *)
LEMMA NamedPages ==
    ASSUME SiteKnown
    PROVE  /\ Heard \cup Unheard \subseteq Urls
           /\ \A found \in LinksOfAPage : found \subseteq Urls /\ found # Unread
<1>1. Heard \subseteq Urls /\ Unheard \subseteq Urls
  BY DEF SiteKnown, Heard, Unheard, NextUnheard
<1>2. ASSUME NEW found \in LinksOfAPage PROVE found \subseteq Urls
  <2>1. PICK old \in SUBSET Heard, n \in 0 .. MaxUrls : found = old \cup NextUnheard(n)
    BY DEF LinksOfAPage
  <2> QED
    BY <1>1, <2>1 DEF NextUnheard
<1>3. OffSite \notin Urls
  BY CrawlAssumption DEF Urls, OffSite
<1> QED
  BY <1>1, <1>2, <1>3 DEF Unread

(* Taking the head off a queue moves every other entry one place up.        *)
LEMMA HeadTaken ==
    ASSUME NEW S, NEW F \in Seq(S), F # << >>
    PROVE  /\ NextOf(F) = 1 /\ F[1] \in S
           /\ RemoveAt(F, 1) \in Seq(S) /\ Len(RemoveAt(F, 1)) = Len(F) - 1
           /\ \A i \in 1 .. Len(F) - 1 : RemoveAt(F, 1)[i] = F[i + 1]
<1> DEFINE rest == SubSeq(F, 2, Len(F))
<1>1. Len(F) \in Nat /\ Len(F) > 0 /\ F[1] \in S
  OBVIOUS
<1>2. rest \in Seq(S) /\ Len(rest) = Len(F) - 1 /\ \A i \in 1 .. Len(F) - 1 : rest[i] = F[i + 1]
  <2>1. \A i \in 2 .. Len(F) : F[i] \in S
    BY <1>1
  <2>2. /\ rest \in Seq(S) /\ Len(rest) = IF 2 <= Len(F) THEN Len(F) - 2 + 1 ELSE 0
        /\ \A i \in 1 .. Len(F) - 2 + 1 : rest[i] = F[2 + i - 1]
    BY <1>1, <2>1, SubSeqProperties
  <2> HIDE DEF rest
  <2>3. ASSUME NEW i \in 1 .. Len(F) - 1 PROVE rest[i] = F[i + 1]
    <3>1. 2 + i - 1 = i + 1 /\ i \in 1 .. Len(F) - 2 + 1
      BY <1>1
    <3> QED
      BY <2>2, <3>1
  <2>4. ASSUME NEW n \in Nat, n > 0 PROVE (IF 2 <= n THEN n - 2 + 1 ELSE 0) = n - 1
    BY <2>4
  <2>5. Len(rest) = Len(F) - 1
    BY <1>1, <2>2, <2>4
  <2> QED
    BY <2>2, <2>3, <2>5
<1>3. SubSeq(F, 1, 0) = << >>
  BY <1>1
<1>4. RemoveAt(F, 1) = << >> \o rest
  BY <1>3 DEF RemoveAt
<1>5. << >> \o rest = rest
  BY <1>2
<1> QED
  BY <1>1, <1>2, <1>4, <1>5 DEF NextOf

(* The crawl begins with the start alone on the frontier.                   *)
LEMMA CrawlBegins == CrawlInit => CrawlInv
<1> SUFFICES ASSUME CrawlInit PROVE CrawlInv
  OBVIOUS
<1> DEFINE dep == [u \in {0} |-> 0]
<1>1. MaxUrls \in Nat /\ MaxUrls > 0 /\ MaxDepth \in Nat /\ 0 \in Urls /\ OffSite \in Nat
  BY CrawlAssumption DEF Urls, OffSite
<1>2. frontier \in Seq(Entries) /\ Len(frontier) = 1 /\ frontier[1].url = 0 /\ frontier[1].depth = 0
  BY <1>1 DEF CrawlInit, Entries
<1>3. hop = NoHop /\ hop \in Hops /\ hop.at = OffSite
  BY <1>1 DEF CrawlInit, NoHop, Hops
<1>4. SiteKnown
  BY <1>1, <1>2, <1>3 DEF CrawlInit, SiteKnown
<1>5. NothingDropped(frontier, seen, hop, landed)
  BY <1>2 DEF CrawlInit, NothingDropped
<1>6. dep \in [seen -> 0 .. MaxDepth]
  BY <1>1 DEF CrawlInit
<1>7. seen = {0} /\ dep[0] = 0 /\ landed[0] = Untried /\ Untried \notin Urls
  BY <1>1, CrawlAssumption DEF CrawlInit, Untried, Urls
<1>8. NearestFirst(frontier, seen, dep)
  BY <1>2, <1>7 DEF NearestFirst
<1>9. OneLevelAhead(frontier, seen, hop, dep)
  BY <1>2, <1>3, <1>7 DEF OneLevelAhead
<1>10. LinksHeard(seen, landed, links, dep)
  BY <1>7 DEF LinksHeard
<1>11. Breadth(frontier, seen, hop, landed, links, dep)
  BY <1>7, <1>8, <1>9, <1>10 DEF Breadth
<1> HIDE DEF dep
<1>12. \E d \in [seen -> 0 .. MaxDepth] : Breadth(frontier, seen, hop, landed, links, d)
  BY <1>6, <1>11
<1> QED
  BY <1>3, <1>4, <1>5, <1>12 DEF CrawlInv, CrawlInit

(* The head of the frontier is the next page to fetch.                      *)
LEMMA TakeNextKeeps == ASSUME CrawlInv, TakeNext PROVE CrawlInv'
<1> DEFINE F == frontier  n == frontier[1]  G == RemoveAt(frontier, 1)
<1>1. F \in Seq(Entries) /\ F # << >> /\ MaxUrls \in Nat /\ MaxDepth \in Nat
  BY CrawlAssumption DEF CrawlInv, SiteKnown, TakeNext
<1>2. /\ NextOf(F) = 1 /\ n \in Entries /\ Len(F) \in Nat /\ Len(F) > 0
      /\ G \in Seq(Entries) /\ Len(G) = Len(F) - 1
      /\ \A i \in 1 .. Len(F) - 1 : G[i] = F[i + 1]
  BY <1>1, HeadTaken
<1>3. /\ frontier' = G
      /\ hop' = [url |-> n.url, depth |-> n.depth, at |-> n.url, redirects |-> 0]
      /\ UNCHANGED <<seen, landed, links, pages, truncated>>
      /\ hop = NoHop /\ truncated = "crawling"
  BY <1>2 DEF TakeNext
<1>4. n.url \in Urls /\ n.url \in Nat /\ n.depth \in Nat /\ OffSite \notin Urls
  BY <1>1, <1>2 DEF Entries, Urls, OffSite
<1>5. /\ hop' \in Hops /\ hop' # NoHop /\ hop'.url = n.url /\ hop'.depth = n.depth
      /\ hop'.at \in Urls \cup {OffSite}
  BY <1>3, <1>4 DEF Hops, NoHop
<1>6. SiteKnown'
  BY <1>2, <1>3, <1>5 DEF CrawlInv, SiteKnown, Urls, Untried, OffSite, Unread
<1> HIDE DEF F, n, G
<1>7. \A i \in 1 .. Len(F) : F[i] = n \/ \E j \in 1 .. Len(G) : G[j] = F[i]
  <2> SUFFICES ASSUME NEW i \in 1 .. Len(F), i # 1 PROVE \E j \in 1 .. Len(G) : G[j] = F[i]
    BY DEF n, F
  <2>1. i - 1 \in 1 .. Len(G) /\ G[i - 1] = F[(i - 1) + 1] /\ (i - 1) + 1 = i
    BY <1>2
  <2> QED
    BY <2>1
<1>8. NothingDropped(frontier', seen', hop', landed')
  <2> SUFFICES ASSUME NEW u \in seen', landed'[u] = Untried
               PROVE  \/ hop' # NoHop /\ hop'.url = u
                      \/ \E i \in 1 .. Len(G) : G[i].url = u
    BY <1>3 DEF NothingDropped
  <2>1. PICK i \in 1 .. Len(F) : F[i].url = u
    BY <1>3 DEF CrawlInv, NothingDropped, F
  <2> QED
    BY <1>5, <1>7, <2>1
<1>9. PICK dep \in [seen -> 0 .. MaxDepth] : Breadth(frontier, seen, hop, landed, links, dep)
  BY DEF CrawlInv
<1>10. NearestFirst(G, seen, dep)
  <2>1. \A i \in 1 .. Len(F) :
            /\ F[i].url \in seen /\ F[i].depth = dep[F[i].url]
            /\ \A j \in i .. Len(F) : F[i].depth <= F[j].depth
    BY <1>9 DEF Breadth, NearestFirst, F
  <2> SUFFICES ASSUME NEW i \in 1 .. Len(G)
               PROVE  /\ G[i].url \in seen /\ G[i].depth = dep[G[i].url]
                      /\ \A j \in i .. Len(G) : G[i].depth <= G[j].depth
    BY DEF NearestFirst
  <2>2. i + 1 \in 1 .. Len(F) /\ G[i] = F[i + 1]
    BY <1>2
  <2>3. ASSUME NEW j \in i .. Len(G) PROVE G[i].depth <= G[j].depth
    <3>1. j + 1 \in i + 1 .. Len(F) /\ G[j] = F[j + 1]
      BY <1>2
    <3> QED
      BY <2>1, <2>2, <3>1
  <2> QED
    BY <2>1, <2>2, <2>3
<1>11. OneLevelAhead(G, seen, hop', dep)
  <2>1. n.url \in seen /\ n.depth = dep[n.url] /\ \A i \in 1 .. Len(F) : n.depth <= F[i].depth
    BY <1>2, <1>9 DEF Breadth, NearestFirst, F, n
  <2>2. \A u \in seen : dep[u] <= n.depth + 1
    BY <1>2, <1>3, <1>9 DEF Breadth, OneLevelAhead, F, n
  <2>3. \A i \in 1 .. Len(G) : n.depth <= G[i].depth
    BY <1>2, <2>1
  <2> QED
    BY <1>5, <2>1, <2>2, <2>3 DEF OneLevelAhead
<1>12. Breadth(frontier', seen', hop', landed', links', dep)
  BY <1>3, <1>9, <1>10, <1>11 DEF Breadth
<1>13. \E d \in [seen' -> 0 .. MaxDepth] : Breadth(frontier', seen', hop', landed', links', d)
  BY <1>3, <1>9, <1>12
<1> QED
  BY <1>3, <1>6, <1>8, <1>13 DEF CrawlInv

(* A redirect changes where the answer will come from, and nothing else.    *)
LEMMA RedirectKeeps == ASSUME CrawlInv, Redirect PROVE CrawlInv'
<1>1. PICK to \in Heard \cup Unheard \cup {OffSite} :
          hop' = [hop EXCEPT !.at = to, !.redirects = @ + 1]
  BY DEF Redirect
<1>2. hop # NoHop /\ UNCHANGED <<frontier, seen, landed, links, pages, truncated>>
  BY DEF Redirect
<1>3. to \in Urls \cup {OffSite} /\ MaxUrls \in Nat
  BY <1>1, NamedPages, CrawlAssumption DEF CrawlInv
<1>4. hop.url \in Urls /\ OffSite \notin Urls
  BY <1>2, CrawlAssumption DEF CrawlInv, SiteKnown, Breadth, OneLevelAhead, Urls, OffSite
<1>5. hop \in Hops
  BY DEF CrawlInv, SiteKnown
<1>6. /\ hop' \in Hops /\ hop'.at \in Urls \cup {OffSite}
      /\ hop'.url = hop.url /\ hop'.depth = hop.depth
  <2>1. hop.url \in Nat /\ hop.depth \in Nat /\ hop.redirects + 1 \in Nat /\ to \in Nat
    BY <1>3, <1>5 DEF Hops, Urls, OffSite
  <2>2. hop' = [url |-> hop.url, depth |-> hop.depth, at |-> to, redirects |-> hop.redirects + 1]
    BY <1>1, <1>5 DEF Hops
  <2> QED
    BY <1>3, <2>1, <2>2 DEF Hops
<1>7. hop' # NoHop
  BY <1>4, <1>6 DEF NoHop
<1>8. SiteKnown'
  BY <1>2, <1>6 DEF CrawlInv, SiteKnown, Urls, Untried, OffSite, Unread
<1>9. NothingDropped(frontier', seen', hop', landed')
  BY <1>2, <1>6, <1>7 DEF CrawlInv, NothingDropped
<1>10. PICK dep \in [seen -> 0 .. MaxDepth] : Breadth(frontier, seen, hop, landed, links, dep)
  BY DEF CrawlInv
<1>11. Breadth(frontier', seen', hop', landed', links', dep)
  BY <1>2, <1>6, <1>7, <1>10 DEF Breadth, OneLevelAhead
<1>12. \E d \in [seen' -> 0 .. MaxDepth] : Breadth(frontier', seen', hop', landed', links', d)
  BY <1>2, <1>10, <1>11
<1> QED
  BY <1>2, <1>8, <1>9, <1>12 DEF CrawlInv

(* A url whose answer is no page of the site is done with.                  *)
LEMMA NoPageKeeps ==
    ASSUME CrawlInv, NEW answer, answer \notin Urls \cup {Untried}, hop # NoHop,
           landed' = [landed EXCEPT ![hop.url] = answer], hop' = NoHop,
           UNCHANGED <<frontier, seen, links, pages, truncated>>
    PROVE  CrawlInv'
<1>1. PICK dep \in [seen -> 0 .. MaxDepth] : Breadth(frontier, seen, hop, landed, links, dep)
  BY DEF CrawlInv
<1>2. hop.url \in seen /\ hop.url \in Urls
  BY <1>1 DEF CrawlInv, SiteKnown, Breadth, OneLevelAhead
<1>3. /\ landed'[hop.url] = answer /\ landed' = [u \in Urls |-> landed'[u]]
      /\ \A u \in Urls \ {hop.url} : landed'[u] = landed[u]
  BY <1>2 DEF CrawlInv, SiteKnown
<1>4. NoHop \in Hops /\ NoHop.at = OffSite
  BY CrawlAssumption DEF NoHop, Hops, OffSite
<1>5. SiteKnown'
  <2>1. /\ frontier' \in Seq(Entries) /\ seen' \subseteq Urls /\ 0 \in seen'
        /\ hop' \in Hops /\ hop'.at \in Urls \cup {OffSite}
    BY <1>4 DEF CrawlInv, SiteKnown
  <2>2. links' = [u \in Urls |-> links'[u]] /\ \A u \in Urls : links'[u] # Unread => links'[u] \subseteq Urls
    BY DEF CrawlInv, SiteKnown
  <2>3. \A u \in Urls \ seen' : landed'[u] = Untried
    <3>1. \A u \in Urls \ seen : landed[u] = Untried /\ u # hop.url
      BY <1>2 DEF CrawlInv, SiteKnown
    <3> QED
      BY <1>3, <3>1
  <2> QED
    BY <1>3, <2>1, <2>2, <2>3 DEF SiteKnown
<1>6. NothingDropped(frontier', seen', hop', landed')
  BY <1>2, <1>3 DEF CrawlInv, SiteKnown, NothingDropped
<1>7. OneLevelAhead(frontier, seen, NoHop, dep)
  <2>1. \A i \in 1 .. Len(frontier) : frontier[i].depth \in Nat
    <3>1. \A i \in 1 .. Len(frontier) : frontier[i] \in Entries
      BY DEF CrawlInv, SiteKnown
    <3> QED
      BY <3>1 DEF Entries
  <2>2. /\ \A u \in seen : dep[u] \in Nat /\ dep[u] <= hop.depth + 1
        /\ \A i \in 1 .. Len(frontier) : hop.depth <= frontier[i].depth
        /\ hop.depth \in Nat
    BY <1>1, CrawlAssumption DEF Breadth, OneLevelAhead, CrawlInv, SiteKnown, Hops
  <2> QED
    BY <2>1, <2>2 DEF OneLevelAhead
<1>8. LinksHeard(seen, landed', links, dep)
  BY <1>1, <1>3 DEF Breadth, LinksHeard, CrawlInv, SiteKnown
<1>9. Breadth(frontier', seen', hop', landed', links', dep)
  BY <1>1, <1>7, <1>8 DEF Breadth
<1>10. \E d \in [seen' -> 0 .. MaxDepth] : Breadth(frontier', seen', hop', landed', links', d)
  BY <1>1, <1>9
<1> QED
  BY <1>5, <1>6, <1>10 DEF CrawlInv

(* A page that was read puts its new links at the end of the frontier, one  *)
(* level further down than the page itself.                                 *)
LEMMA ReadPageKeeps == ASSUME CrawlInv, ReadPage PROVE CrawlInv'
<1>0. PICK found \in IF links[hop.at] = Unread THEN LinksOfAPage ELSE {links[hop.at]} :
          \E new \in InDocumentOrder(Followed(found, hop.depth)) :
              /\ links' = [links EXCEPT ![hop.at] = found]
              /\ seen' = seen \cup Followed(found, hop.depth)
              /\ frontier' = frontier \o
                     [i \in DOMAIN new |-> [url |-> new[i], depth |-> hop.depth + 1]]
  BY DEF ReadPage
<1>1. PICK new \in InDocumentOrder(Followed(found, hop.depth)) :
          /\ links' = [links EXCEPT ![hop.at] = found]
          /\ seen' = seen \cup Followed(found, hop.depth)
          /\ frontier' = frontier \o
                 [i \in DOMAIN new |-> [url |-> new[i], depth |-> hop.depth + 1]]
  BY <1>0
<1> DEFINE N == Followed(found, hop.depth)
           k == Cardinality(N)
           more == [i \in 1 .. k |-> [url |-> new[i], depth |-> hop.depth + 1]]
<1>2. PICK dep \in [seen -> 0 .. MaxDepth] : Breadth(frontier, seen, hop, landed, links, dep)
  BY DEF CrawlInv
<1>3. /\ hop # NoHop /\ hop.at \in Urls /\ landed' = [landed EXCEPT ![hop.url] = hop.at]
      /\ hop' = NoHop /\ UNCHANGED truncated
  BY DEF ReadPage, OfThisSite
<1>4. MaxUrls \in Nat /\ MaxDepth \in Nat /\ hop.depth \in Nat
  BY CrawlAssumption DEF CrawlInv, SiteKnown, Hops
<1>5. /\ hop.url \in seen /\ hop.url \in Urls /\ hop.depth = dep[hop.url]
      /\ \A u \in seen : dep[u] <= hop.depth + 1
      /\ \A i \in 1 .. Len(frontier) : hop.depth <= frontier[i].depth
  BY <1>2, <1>3 DEF CrawlInv, SiteKnown, Breadth, OneLevelAhead
<1>6. found \subseteq Urls /\ found # Unread
  BY <1>0, <1>3, NamedPages DEF CrawlInv, SiteKnown
<1>7. /\ N \subseteq found /\ N \cap seen = {} /\ (hop.depth < MaxDepth => N = found \ seen)
      /\ (N # {} => hop.depth < MaxDepth)
  BY <1>4 DEF Followed
<1>8. k \in Nat /\ new \in [1 .. k -> N] /\ \A u \in N : \E i \in 1 .. k : new[i] = u
  <2>1. IsFiniteSet(Urls)
    BY <1>4, FS_Interval DEF Urls
  <2>2. IsFiniteSet(N)
    BY <1>6, <1>7, <2>1, FS_Subset
  <2>3. k \in Nat
    BY <2>2, FS_CardinalityType
  <2> QED
    BY <1>1, <2>3 DEF InDocumentOrder, Surjection
<1>9. /\ links' = [links EXCEPT ![hop.at] = found] /\ seen' = seen \cup N
      /\ frontier' = frontier \o more
  BY <1>1, <1>8
<1> HIDE DEF N, k
<1>10. more \in Seq(Entries) /\ Len(more) = k /\ \A i \in 1 .. k : more[i] \in Entries
  <2>1. \A i \in 1 .. k : [url |-> new[i], depth |-> hop.depth + 1] \in Entries
    BY <1>4, <1>6, <1>7, <1>8 DEF Entries
  <2>2. more \in [1 .. k -> Entries]
    BY <2>1
  <2> HIDE DEF more
  <2> QED
    BY <1>8, <2>2
<1>11. \A i \in 1 .. k : more[i].url = new[i] /\ more[i].url \in N /\ more[i].depth = hop.depth + 1
  BY <1>8
<1> HIDE DEF more
<1> DEFINE F == frontier  G == frontier'  m == Len(frontier)
<1>12. /\ F \in Seq(Entries) /\ m \in Nat /\ G \in Seq(Entries) /\ Len(G) = m + k
       /\ \A i \in 1 .. m : G[i] = F[i]
       /\ \A i \in 1 .. k : G[m + i] = more[i]
  <2>1. F \in Seq(Entries)
    BY DEF CrawlInv, SiteKnown
  <2> QED
    BY <1>8, <1>9, <1>10, <2>1
<1> HIDE DEF F, G, m
<1>13. \A i \in 1 .. Len(G) : \/ i \in 1 .. m /\ G[i] = F[i]
                              \/ i - m \in 1 .. k /\ G[i] = more[i - m]
  <2> SUFFICES ASSUME NEW i \in 1 .. Len(G), ~ (i \in 1 .. m)
               PROVE  i - m \in 1 .. k /\ G[i] = more[i - m]
    BY <1>12
  <2>1. i - m \in 1 .. k /\ m + (i - m) = i
    BY <1>8, <1>12
  <2> QED
    BY <1>12, <2>1
<1>14. /\ links'[hop.at] = found /\ links' = [u \in Urls |-> links'[u]]
       /\ \A u \in Urls : links[u] # Unread => links'[u] = links[u]
       /\ \A u \in Urls \ {hop.at} : links'[u] = links[u]
  BY <1>0, <1>3, <1>9 DEF CrawlInv, SiteKnown
<1>15. /\ landed'[hop.url] = hop.at /\ landed' = [u \in Urls |-> landed'[u]]
       /\ \A u \in Urls \ {hop.url} : landed'[u] = landed[u]
  BY <1>3, <1>5 DEF CrawlInv, SiteKnown
<1>16. NoHop \in Hops /\ NoHop.at = OffSite
  BY CrawlAssumption DEF NoHop, Hops, OffSite
<1>17. SiteKnown'
  <2>1. frontier' \in Seq(Entries)'
    BY <1>12 DEF Entries, Urls, G
  <2>2. seen' \subseteq Urls /\ 0 \in seen' /\ hop' \in Hops /\ hop'.at = OffSite
    BY <1>3, <1>6, <1>7, <1>9, <1>16 DEF CrawlInv, SiteKnown
  <2>3. \A u \in Urls \ seen' : landed'[u] = Untried
    BY <1>5, <1>9, <1>15 DEF CrawlInv, SiteKnown
  <2>4. \A u \in Urls : links'[u] # Unread => links'[u] \subseteq Urls
    BY <1>6, <1>14 DEF CrawlInv, SiteKnown
  <2> QED
    BY <1>14, <1>15, <2>1, <2>2, <2>3, <2>4
    DEF SiteKnown, Entries, Hops, Urls, Untried, OffSite, Unread
<1>18. NothingDropped(frontier', seen', hop', landed')
  <2> SUFFICES ASSUME NEW u \in seen', landed'[u] = Untried
               PROVE  \E i \in 1 .. Len(G) : G[i].url = u
    BY <1>3 DEF NothingDropped, G
  <2>1. CASE u \in N
    <3>1. PICK i \in 1 .. k : new[i] = u
      BY <1>8, <2>1
    <3>2. m + i \in 1 .. Len(G)
      BY <1>8, <1>12
    <3>3. G[m + i] = more[i] /\ more[i].url = u
      BY <1>11, <1>12, <3>1
    <3> QED
      BY <3>2, <3>3
  <2>2. CASE u \in seen
    <3>1. u # hop.url
      <4>1. hop.at # Untried
        BY <1>3, <1>4 DEF Urls, Untried
      <4> QED
        BY <1>15, <4>1
    <3>2. landed[u] = Untried
      BY <1>15, <2>2, <3>1 DEF CrawlInv, SiteKnown
    <3>3. PICK i \in 1 .. m : F[i].url = u
      BY <2>2, <3>1, <3>2 DEF CrawlInv, NothingDropped, F, m
    <3>4. i \in 1 .. Len(G)
      BY <1>8, <1>12
    <3>5. G[i].url = u
      BY <1>12, <3>3
    <3> QED
      BY <3>4, <3>5
  <2> QED
    BY <1>9, <2>1, <2>2
<1> DEFINE low == [u \in seen' |-> IF u \in seen THEN dep[u] ELSE hop.depth + 1]
<1>19. /\ low \in [seen' -> 0 .. MaxDepth]
       /\ \A u \in seen : low[u] = dep[u] /\ dep[u] \in Nat /\ dep[u] <= hop.depth + 1
       /\ \A u \in N : low[u] = hop.depth + 1
  <2>1. \A u \in seen : dep[u] \in 0 .. MaxDepth
    BY <1>2
  <2>2. N # {} => hop.depth + 1 \in 0 .. MaxDepth
    BY <1>4, <1>7
  <2> QED
    BY <1>4, <1>5, <1>7, <1>9, <2>1, <2>2
<1> HIDE DEF low
<1>20. \A i \in 1 .. m : /\ F[i].url \in seen /\ F[i].depth = dep[F[i].url]
                         /\ \A j \in i .. m : F[i].depth <= F[j].depth
                         /\ F[i].depth \in Nat /\ hop.depth <= F[i].depth
                         /\ F[i].depth <= hop.depth + 1
  BY <1>2, <1>5, <1>19 DEF Breadth, NearestFirst, F, m
<1>21. NearestFirst(frontier', seen', low)
  <2> SUFFICES ASSUME NEW i \in 1 .. Len(G)
               PROVE  /\ G[i].url \in seen' /\ G[i].depth = low[G[i].url]
                      /\ \A j \in i .. Len(G) : G[i].depth <= G[j].depth
    BY DEF NearestFirst, G
  <2>1. G[i].url \in seen' /\ G[i].depth = low[G[i].url]
    BY <1>9, <1>11, <1>13, <1>19, <1>20
  <2>2. ASSUME NEW j \in i .. Len(G) PROVE G[i].depth <= G[j].depth
    <3>1. j \in 1 .. Len(G)
      BY <1>12
    <3>2. CASE j \in 1 .. m /\ G[j] = F[j]
      <4>1. i \in 1 .. m /\ G[i] = F[i] /\ j \in i .. m
        BY <1>8, <1>12, <3>2
      <4> QED
        BY <1>20, <3>2, <4>1
    <3>3. CASE j - m \in 1 .. k /\ G[j] = more[j - m]
      <4>1. G[j].depth = hop.depth + 1
        BY <1>11, <3>3
      <4>2. G[i].depth <= hop.depth + 1
        BY <1>4, <1>11, <1>13, <1>20
      <4> QED
        BY <4>1, <4>2
    <3> QED
      BY <1>13, <3>1, <3>2, <3>3
  <2> QED
    BY <2>1, <2>2
<1>22. OneLevelAhead(frontier', seen', hop', low)
  <2>1. \A u \in seen' : low[u] \in Nat /\ low[u] <= hop.depth + 1
    BY <1>4, <1>9, <1>19
  <2>2. \A i \in 1 .. Len(G) : G[i].depth \in Nat /\ hop.depth <= G[i].depth
    BY <1>4, <1>11, <1>13, <1>20
  <2>3. \A i \in 1 .. Len(G) : \A u \in seen' : low[u] <= G[i].depth + 1
    BY <1>4, <2>1, <2>2
  <2> QED
    BY <1>3, <2>3 DEF OneLevelAhead, G
<1>23. LinksHeard(seen', landed', links', low)
  <2> SUFFICES ASSUME NEW u \in seen', landed'[u] \in Urls
               PROVE  /\ links'[landed'[u]] # Unread
                      /\ low[u] < MaxDepth =>
                            \A v \in links'[landed'[u]] : v \in seen' /\ low[v] <= low[u] + 1
    BY DEF LinksHeard
  <2>1. CASE u = hop.url
    <3>1. landed'[u] = hop.at /\ links'[landed'[u]] = found /\ low[u] = hop.depth
      BY <1>5, <1>14, <1>15, <1>19, <2>1
    <3>2. hop.depth < MaxDepth => \A v \in found : v \in seen' /\ low[v] <= hop.depth + 1
      BY <1>4, <1>7, <1>9, <1>19
    <3> QED
      BY <1>6, <3>1, <3>2
  <2>2. CASE u # hop.url
    <3>1. landed'[u] = landed[u] /\ u \in seen
      <4>1. u \in Urls
        BY <1>17 DEF SiteKnown, Urls
      <4>2. landed'[u] = landed[u]
        BY <1>15, <2>2, <4>1
      <4>3. Untried \notin Urls
        BY <1>4 DEF Untried, Urls
      <4> QED
        BY <4>1, <4>2, <4>3 DEF CrawlInv, SiteKnown
    <3>2. /\ links[landed[u]] # Unread
          /\ dep[u] < MaxDepth => \A v \in links[landed[u]] : v \in seen /\ dep[v] <= dep[u] + 1
      BY <1>2, <3>1 DEF Breadth, LinksHeard
    <3>3. links'[landed'[u]] = links[landed[u]]
      BY <1>14, <3>1, <3>2
    <3> QED
      BY <1>9, <1>19, <3>1, <3>2, <3>3
  <2> QED
    BY <2>1, <2>2
<1>24. low[0] = 0
  BY <1>2, <1>19 DEF Breadth, CrawlInv, SiteKnown
<1>25. Breadth(frontier', seen', hop', landed', links', low)
  BY <1>21, <1>22, <1>23, <1>24 DEF Breadth
<1>26. \E d \in [seen' -> 0 .. MaxDepth] : Breadth(frontier', seen', hop', landed', links', d)
  BY <1>19, <1>25
<1>27. truncated = "crawling"
  BY <1>3 DEF CrawlInv
<1> QED
  BY <1>3, <1>17, <1>18, <1>26, <1>27 DEF CrawlInv

(* The crawl ends complete only with an empty frontier.                     *)
LEMMA CrawlEndsKeeps == ASSUME CrawlInv, CrawlEnds PROVE CrawlInv'
<1>1. hop = NoHop /\ UNCHANGED <<frontier, seen, hop, landed, links, pages>>
  BY DEF CrawlEnds
<1>2. truncated' = "complete" => frontier = << >>
  BY DEF CrawlEnds
<1>3. SiteKnown'
  BY <1>1 DEF CrawlInv, SiteKnown, Entries, Hops, Urls, Untried, OffSite, Unread
<1>4. \E dep \in [seen' -> 0 .. MaxDepth] : Breadth(frontier', seen', hop', landed', links', dep)
  BY <1>1 DEF CrawlInv
<1>5. NothingDropped(frontier', seen', hop', landed')
  BY <1>1 DEF CrawlInv
<1> QED
  BY <1>1, <1>2, <1>3, <1>4, <1>5 DEF CrawlInv

(* Every step of the crawl keeps the search breadth-first.                  *)
LEMMA CrawlKeeps == CrawlInv /\ [CrawlNext]_crawlVars => CrawlInv'
<1> SUFFICES ASSUME CrawlInv, [CrawlNext]_crawlVars PROVE CrawlInv'
  OBVIOUS
<1>1. CASE TakeNext
  BY <1>1, TakeNextKeeps
<1>2. CASE Redirect
  BY <1>2, RedirectKeeps
<1>3. CASE FetchFails
  <2>1. Failed \notin Urls \cup {Untried}
    BY CrawlAssumption DEF Failed, Urls, Untried
  <2> QED
    BY <1>3, <2>1, NoPageKeeps DEF FetchFails
<1>4. CASE LandsElsewhere
  <2>1. OffSite \notin Urls \cup {Untried}
    BY CrawlAssumption DEF OffSite, Urls, Untried
  <2> QED
    BY <1>4, <2>1, NoPageKeeps DEF LandsElsewhere
<1>5. CASE ReadPage
  BY <1>5, ReadPageKeeps
<1>6. CASE CrawlEnds
  BY <1>6, CrawlEndsKeeps
<1>7. CASE UNCHANGED crawlVars
  <2>1. UNCHANGED <<frontier, seen, hop, landed, links, pages, truncated>>
    BY <1>7 DEF crawlVars
  <2>2. SiteKnown'
    BY <2>1 DEF CrawlInv, SiteKnown, Entries, Hops, Urls, Untried, OffSite, Unread
  <2>3. \E dep \in [seen' -> 0 .. MaxDepth] : Breadth(frontier', seen', hop', landed', links', dep)
    BY <2>1 DEF CrawlInv
  <2>4. NothingDropped(frontier', seen', hop', landed')
    BY <2>1 DEF CrawlInv
  <2> QED
    BY <2>1, <2>2, <2>3, <2>4 DEF CrawlInv
<1> QED
  BY <1>1, <1>2, <1>3, <1>4, <1>5, <1>6, <1>7 DEF CrawlNext

(* A complete crawl has followed every walk of no more than MaxDepth links: *)
(* each step of the walk was heard of no further down than the walk is      *)
(* long, for the shortest prefix that was not would end on a page whose     *)
(* predecessor was read above the last level.                               *)
LEMMA WalksAreHeardOf ==
    ASSUME CrawlInv, truncated = "complete", NEW n \in 0 .. MaxDepth, NEW walk \in Walks(n)
    PROVE  landed[walk[n]] # Untried
<1>1. PICK dep \in [seen -> 0 .. MaxDepth] : Breadth(frontier, seen, hop, landed, links, dep)
  BY DEF CrawlInv
<1>2. \A u \in seen : landed[u] # Untried
  BY DEF CrawlInv, NothingDropped
<1>3. MaxDepth \in Nat /\ n \in Nat /\ n <= MaxDepth
  BY CrawlAssumption
<1>4. walk \in [0 .. n -> Urls] /\ walk[0] = 0
  BY DEF Walks
<1>5. \A i \in 0 .. n - 1 : landed[walk[i]] \in Urls /\ walk[i + 1] \in links[landed[walk[i]]]
  BY DEF Walks
<1> DEFINE Lost == {i \in 0 .. n : ~ (walk[i] \in seen /\ dep[walk[i]] <= i)}
<1>6. Lost = {}
  <2> SUFFICES ASSUME Lost # {} PROVE FALSE
    OBVIOUS
  <2>1. Lost \subseteq Nat
    BY <1>3
  <2>2. PICK i \in Lost : \A j \in Lost : i <= j
    <3> DEFINE R == OpToRel(<, Nat)
    <3>1. IsWellFoundedOn(R, Nat)
      BY NatLessThanWellFounded, Zenon
    <3>2. \A x, y \in Nat : x < y => <<x, y>> \in R
      BY DEF OpToRel
    <3> HIDE DEF R, Lost
    <3>3. PICK i \in Lost : \A j \in Lost : ~ (<<j, i>> \in R)
      BY <2>1, <3>1, WFMin
    <3>4. \A j \in Lost : ~ (j < i)
      BY <2>1, <3>2, <3>3, Zenon
    <3>5. \A x, y \in Nat : ~ (x < y) => y <= x
      OBVIOUS
    <3> QED
      BY <2>1, <3>3, <3>4, <3>5, Zenon
  <2>3. i # 0
    BY <1>1, <1>3, <1>4 DEF Breadth, CrawlInv, SiteKnown
  <2>4. i - 1 \in 0 .. n - 1 /\ i - 1 \in 0 .. n /\ (i - 1) + 1 = i /\ ~ (i <= i - 1)
    BY <1>3, <2>1, <2>3
  <2>5. walk[i - 1] \in seen /\ dep[walk[i - 1]] <= i - 1
    BY <2>2, <2>4
  <2>6. dep[walk[i - 1]] \in Nat /\ dep[walk[i - 1]] < MaxDepth
    <3>1. dep[walk[i - 1]] \in 0 .. MaxDepth
      BY <1>1, <2>5
    <3> QED
      BY <1>3, <2>4, <2>5, <3>1
  <2>7. landed[walk[i - 1]] \in Urls /\ walk[i] \in links[landed[walk[i - 1]]]
    BY <1>5, <2>4
  <2>8. walk[i] \in seen /\ dep[walk[i]] <= dep[walk[i - 1]] + 1
    BY <1>1, <2>5, <2>6, <2>7 DEF Breadth, LinksHeard
  <2>9. dep[walk[i]] \in 0 .. MaxDepth
    BY <1>1, <2>8
  <2>10. dep[walk[i]] <= i
    BY <1>3, <2>4, <2>5, <2>6, <2>8, <2>9
  <2> QED
    BY <2>8, <2>10
<1>7. walk[n] \in seen
  BY <1>3, <1>6
<1> QED
  BY <1>2, <1>7

(* A crawl that does not call itself truncated has asked for every page     *)
(* within MaxDepth links of the start.                                      *)
THEOREM CompleteCrawlMissesNothing == CrawlSpec => []NothingWithinReachIsMissed
<1>1. CrawlInv => NothingWithinReachIsMissed
  <2> SUFFICES ASSUME CrawlInv, truncated = "complete", NEW n \in 0 .. MaxDepth,
                      NEW walk \in Walks(n)
               PROVE  landed[walk[n]] # Untried
    BY DEF NothingWithinReachIsMissed
  <2> QED
    BY WalksAreHeardOf
<1> QED
  BY CrawlBegins, CrawlKeeps, <1>1, PTL DEF CrawlSpec

-----------------------------------------------------------------------------
(* The types of a crawl, beside what CrawlInv says of them.                 *)

CrawlRest ==
    /\ hop.redirects \in 0 .. MAX_REDIRECTS
    /\ \A u \in Urls : landed[u] \in Urls \cup {OffSite, Untried, Failed}
    /\ pages \in Seq(Urls)
    /\ truncated \in {"crawling", "truncated", "complete"}

(* An invariant of the breadth and the rest of the types make the types.    *)
LEMMA CrawlTypesFollow == CrawlInv /\ CrawlRest => CrawlTypeOK
<1> SUFFICES ASSUME CrawlInv, CrawlRest PROVE CrawlTypeOK
  OBVIOUS
<1>1. PICK dep \in [seen -> 0 .. MaxDepth] : Breadth(frontier, seen, hop, landed, links, dep)
  BY DEF CrawlInv
<1>2. MaxUrls \in Nat \ {0} /\ MaxDepth \in Nat /\ MAX_REDIRECTS \in Nat
  BY CrawlAssumption
<1>3. frontier \in Seq([url : Urls, depth : 0 .. MaxDepth])
  <2>1. Len(frontier) \in Nat /\ frontier \in [1 .. Len(frontier) -> Entries]
    BY LenProperties DEF CrawlInv, SiteKnown
  <2>2. ASSUME NEW i \in 1 .. Len(frontier) PROVE frontier[i] \in [url : Urls, depth : 0 .. MaxDepth]
    <3>1. frontier[i] \in [url : Urls, depth : Nat]
      BY <2>1 DEF Entries
    <3>2. frontier[i].url \in seen /\ frontier[i].depth = dep[frontier[i].url]
      BY <1>1 DEF Breadth, NearestFirst
    <3>3. dep[frontier[i].url] \in 0 .. MaxDepth
      BY <3>2
    <3> QED
      BY <3>1, <3>2, <3>3
  <2> DEFINE T == [url : Urls, depth : 0 .. MaxDepth]
  <2>3. frontier \in Seq(Entries) /\ \A i \in 1 .. Len(frontier) : frontier[i] \in T
    BY <2>2 DEF CrawlInv, SiteKnown
  <2> HIDE DEF T
  <2>4. frontier \in Seq(T)
    BY <2>3, SeqRetyped
  <2> QED
    BY <2>4 DEF T
<1>4. hop \in [url : 0 .. MaxUrls, depth : 0 .. MaxDepth, at : 0 .. MaxUrls,
               redirects : 0 .. MAX_REDIRECTS]
  <2>1. hop \in [url : Nat, depth : Nat, at : Nat, redirects : Nat] /\ hop.at \in Urls \cup {OffSite}
    BY DEF CrawlInv, SiteKnown, Hops
  <2>2. hop.url \in 0 .. MaxUrls /\ hop.depth \in 0 .. MaxDepth
    <3>1. CASE hop = NoHop
      BY <1>2, <3>1 DEF NoHop, OffSite
    <3>2. CASE hop # NoHop
      <4>1. hop.url \in seen /\ hop.depth = dep[hop.url] /\ seen \subseteq Urls
        BY <1>1, <3>2 DEF Breadth, OneLevelAhead, CrawlInv, SiteKnown
      <4>2. dep[hop.url] \in 0 .. MaxDepth
        BY <4>1
      <4>3. hop.url \in Urls
        BY <4>1
      <4> QED
        BY <1>2, <4>1, <4>2, <4>3 DEF Urls
    <3> QED
      BY <3>1, <3>2
  <2>3. hop.at \in 0 .. MaxUrls
    BY <1>2, <2>1 DEF Urls, OffSite
  <2>4. hop.redirects \in 0 .. MAX_REDIRECTS
    BY DEF CrawlRest
  <2> QED
    BY <2>1, <2>2, <2>3, <2>4
<1>5. landed \in [Urls -> Urls \cup {OffSite, Untried, Failed}]
  BY DEF CrawlInv, SiteKnown, CrawlRest
<1>6. links \in [Urls -> (SUBSET Urls) \cup {Unread}]
  <2>1. links = [u \in Urls |-> links[u]]
    BY DEF CrawlInv, SiteKnown
  <2>2. ASSUME NEW u \in Urls PROVE links[u] \in (SUBSET Urls) \cup {Unread}
    <3>1. links[u] # Unread => links[u] \subseteq Urls
      BY DEF CrawlInv, SiteKnown
    <3> QED
      BY <3>1
  <2> QED
    BY <2>1, <2>2
<1>7. seen \subseteq Urls /\ pages \in Seq(Urls) /\ truncated \in {"crawling", "truncated", "complete"}
  BY DEF CrawlInv, SiteKnown, CrawlRest
<1> QED
  BY <1>3, <1>4, <1>5, <1>6, <1>7 DEF CrawlTypeOK

(* Every step keeps the rest of the types.                                  *)
LEMMA CrawlRestKept == CrawlInv /\ CrawlRest /\ [CrawlNext]_crawlVars => CrawlRest'
<1> SUFFICES ASSUME CrawlInv, CrawlRest, [CrawlNext]_crawlVars PROVE CrawlRest'
  OBVIOUS
<1>0. /\ MAX_REDIRECTS \in Nat
      /\ hop.redirects \in 0 .. MAX_REDIRECTS
      /\ \A u \in Urls : landed[u] \in Urls \cup {OffSite, Untried, Failed}
      /\ landed = [u \in Urls |-> landed[u]]
      /\ pages \in Seq(Urls) /\ truncated \in {"crawling", "truncated", "complete"}
      /\ hop \in [url : Nat, depth : Nat, at : Nat, redirects : Nat]
  BY CrawlAssumption DEF CrawlRest, CrawlInv, SiteKnown, Hops
<1>1. ASSUME NEW x, landed' = [landed EXCEPT ![hop.url] = x],
             x \in Urls \cup {OffSite, Failed}
      PROVE  \A u \in Urls : landed'[u] \in Urls \cup {OffSite, Untried, Failed}
  BY <1>0, <1>1
<1>2. CASE TakeNext
  <2>1. hop'.redirects = 0 /\ landed' = landed /\ pages' = pages /\ truncated' = truncated
    BY <1>2 DEF TakeNext
  <2> QED
    BY <1>0, <2>1 DEF CrawlRest, Urls, OffSite, Untried, Failed
<1>3. CASE Redirect
  <2>1. PICK to : hop' = [hop EXCEPT !.at = to, !.redirects = @ + 1]
    BY <1>3 DEF Redirect
  <2>2. hop.redirects < MAX_REDIRECTS /\ landed' = landed /\ pages' = pages /\ truncated' = truncated
    BY <1>3 DEF Redirect
  <2>3. hop'.redirects = hop.redirects + 1
    BY <1>0, <2>1
  <2>4. hop'.redirects \in 0 .. MAX_REDIRECTS
    BY <1>0, <2>2, <2>3
  <2> QED
    BY <1>0, <2>2, <2>4 DEF CrawlRest, Urls, OffSite, Untried, Failed
<1>4. CASE FetchFails \/ LandsElsewhere
  <2>1. hop'.redirects = 0 /\ pages' = pages /\ truncated' = truncated
    BY <1>4 DEF FetchFails, LandsElsewhere, NoHop
  <2>2. \A u \in Urls : landed'[u] \in Urls \cup {OffSite, Untried, Failed}
    BY <1>1, <1>4 DEF FetchFails, LandsElsewhere
  <2> QED
    BY <1>0, <2>1, <2>2 DEF CrawlRest, Urls, OffSite, Untried, Failed
<1>5. CASE ReadPage
  <2>1. hop'.redirects = 0 /\ pages' = Append(pages, hop.at) /\ hop.at \in Urls /\ truncated' = truncated
    BY <1>5 DEF ReadPage, NoHop, OfThisSite
  <2>2. \A u \in Urls : landed'[u] \in Urls \cup {OffSite, Untried, Failed}
    BY <1>1, <1>5, <2>1 DEF ReadPage
  <2>3. pages' \in Seq(Urls)
    BY <1>0, <2>1
  <2> QED
    BY <1>0, <2>1, <2>2, <2>3 DEF CrawlRest, Urls, OffSite, Untried, Failed
<1>6. CASE CrawlEnds
  <2>1. hop' = hop /\ landed' = landed /\ pages' = pages /\ truncated' \in {"truncated", "complete"}
    BY <1>6 DEF CrawlEnds
  <2> QED
    BY <1>0, <2>1 DEF CrawlRest, Urls, OffSite, Untried, Failed
<1>7. CASE UNCHANGED crawlVars
  <2>1. hop' = hop /\ landed' = landed /\ pages' = pages /\ truncated' = truncated
    BY <1>7 DEF crawlVars
  <2> QED
    BY <1>0, <2>1 DEF CrawlRest, Urls, OffSite, Untried, Failed
<1> QED
  BY <1>2, <1>3, <1>4, <1>5, <1>6, <1>7 DEF CrawlNext

(* A crawl's variables have their types: depths and redirects stay within   *)
(* their limits (engines/crawl/fetch.py).                                   *)
THEOREM CrawlTypeCorrect == CrawlSpec => []CrawlTypeOK
<1>1. CrawlInit => CrawlRest
  <2> SUFFICES ASSUME CrawlInit PROVE CrawlRest
    OBVIOUS
  <2>1. hop.redirects = 0 /\ pages = << >> /\ truncated = "crawling"
    BY DEF CrawlInit, NoHop
  <2>2. \A u \in Urls : landed[u] = Untried
    BY DEF CrawlInit
  <2>3. << >> \in Seq(Urls)
    OBVIOUS
  <2> QED
    BY <2>1, <2>2, <2>3, CrawlAssumption DEF CrawlRest
<1> QED
  BY <1>1, CrawlBegins, CrawlKeeps, CrawlRestKept, CrawlTypesFollow, PTL DEF CrawlSpec

-----------------------------------------------------------------------------
(* The delivery: what is left of a text.                                    *)

(* The rank grows by one at every place that is kept.                       *)
LEMMA RankGrows ==
    ASSUME NEW m \in Nat, NEW kept, kept \subseteq 1 .. m
    PROVE  /\ IsFiniteSet(kept) /\ Cardinality(kept) \in Nat
           /\ \A i \in 0 .. m : Rank(kept, i) \in Nat
           /\ Rank(kept, 0) = 0 /\ Rank(kept, m) = Cardinality(kept)
           /\ \A i \in 1 .. m : Rank(kept, i) = IF i \in kept THEN Rank(kept, i - 1) + 1
                                                ELSE Rank(kept, i - 1)
<1> DEFINE U(i) == {j \in kept : j <= i}
<1>0. \A j \in kept : j \in Nat /\ 1 <= j /\ j <= m
  OBVIOUS
<1>1. IsFiniteSet(kept) /\ Cardinality(kept) \in Nat
  <2>1. IsFiniteSet(1 .. m)
    BY FS_Interval
  <2>2. kept \in SUBSET (1 .. m)
    OBVIOUS
  <2> QED
    BY <2>1, <2>2, FS_Subset, FS_CardinalityType
<1>2. \A i : IsFiniteSet(U(i)) /\ Cardinality(U(i)) \in Nat
  <2> TAKE i
  <2>1. U(i) \in SUBSET kept
    OBVIOUS
  <2> HIDE DEF U
  <2> QED
    BY <1>1, <2>1, FS_Subset, FS_CardinalityType
<1>3. U(0) = {} /\ U(m) = kept
  <2>1. \A j : j \notin U(0)
    <3>1. \A j \in kept : ~(j <= 0)
      BY <1>0
    <3> QED
      BY <3>1, Zenon
  <2>2. \A j : j \in U(m) <=> j \in kept
    BY <1>0
  <2> HIDE DEF U
  <2> QED
    BY <2>1, <2>2
<1>4. Rank(kept, 0) = 0 /\ Rank(kept, m) = Cardinality(kept)
  BY <1>3, FS_EmptySet DEF Rank
<1>5. ASSUME NEW i \in 1 .. m
      PROVE  Rank(kept, i) = IF i \in kept THEN Rank(kept, i - 1) + 1 ELSE Rank(kept, i - 1)
  <2>1. CASE i \in kept
    <3>1. U(i) = U(i - 1) \cup {i} /\ i \notin U(i - 1)
      <4>1. \A j : j \in U(i) <=> j \in U(i - 1) \cup {i}
        <5>1. \A j \in kept : j <= i <=> j <= i - 1 \/ j = i
          BY <1>0
        <5>2. i <= i
          OBVIOUS
        <5> QED
          BY <2>1, <5>1, <5>2, Zenon
      <4>2. i \notin U(i - 1)
        BY <1>0
      <4> HIDE DEF U
      <4> QED
        BY <4>1, <4>2
    <3>2. Cardinality(U(i - 1) \cup {i}) = Cardinality(U(i - 1)) + 1
      <4>1. IsFiniteSet(U(i - 1))
        BY <1>2
      <4> HIDE DEF U
      <4> QED
        BY <3>1, <4>1, FS_AddElement
    <3> QED
      BY <2>1, <3>1, <3>2 DEF Rank
  <2>2. CASE i \notin kept
    <3>1. U(i) = U(i - 1)
      <4>1. \A j : j \in U(i) <=> j \in U(i - 1)
        <5>1. \A j \in kept : j <= i <=> j <= i - 1 \/ j = i
          BY <1>0
        <5>2. \A j \in kept : j # i
          BY <2>2
        <5> QED
          BY <5>1, <5>2, Zenon
      <4> HIDE DEF U
      <4> QED
        BY <4>1
    <3> QED
      BY <2>2, <3>1 DEF Rank
  <2> QED
    BY <2>1, <2>2
<1> QED
  BY <1>1, <1>2, <1>4, <1>5 DEF Rank

(* Every position of what is left has the place it was taken from.          *)
LEMMA PlaceIsKept ==
    ASSUME NEW m \in Nat, NEW kept, kept \subseteq 1 .. m, NEW n \in 1 .. Cardinality(kept)
    PROVE  Place(kept, n) \in kept /\ Rank(kept, Place(kept, n)) = n
<1>1. /\ Cardinality(kept) \in Nat
      /\ \A i \in 0 .. m : Rank(kept, i) \in Nat
      /\ Rank(kept, 0) = 0 /\ Rank(kept, m) = Cardinality(kept)
      /\ \A i \in 1 .. m : Rank(kept, i) = IF i \in kept THEN Rank(kept, i - 1) + 1
                                           ELSE Rank(kept, i - 1)
  BY RankGrows
<1> DEFINE S == {i \in 0 .. m : n <= Rank(kept, i)}
<1>2. S \subseteq Nat /\ m \in S
  BY <1>1
<1>3. PICK i \in S : \A j \in S : i <= j
  BY <1>2, HasLeast
<1>4. i \in 1 .. m
  BY <1>1, <1>3
<1>5. i - 1 \in 0 .. m /\ i - 1 \notin S
  BY <1>3, <1>4
<1>6. Rank(kept, i - 1) < n /\ n <= Rank(kept, i)
  BY <1>1, <1>3, <1>5
<1>7. i \in kept /\ Rank(kept, i) = n
  BY <1>1, <1>4, <1>5, <1>6
<1> QED
  BY <1>7 DEF Place

(* What is left of a sequence is a sequence of its elements.                *)
LEMMA PickedIsLeft ==
    ASSUME NEW T, NEW seq \in Seq(T), NEW kept, kept \subseteq DOMAIN seq
    PROVE  /\ Picked(seq, kept) \in Seq(T)
           /\ DOMAIN Picked(seq, kept) = 1 .. Cardinality(kept)
           /\ \A n \in 1 .. Cardinality(kept) :
                 /\ Place(kept, n) \in kept /\ Rank(kept, Place(kept, n)) = n
                 /\ Picked(seq, kept)[n] = seq[Place(kept, n)]
<1>1. Len(seq) \in Nat /\ kept \subseteq 1 .. Len(seq)
  OBVIOUS
<1>2. Cardinality(kept) \in Nat
  BY <1>1, RankGrows
<1>3. \A n \in 1 .. Cardinality(kept) :
          Place(kept, n) \in kept /\ Rank(kept, Place(kept, n)) = n
  BY <1>1, PlaceIsKept
<1>4. \A n \in 1 .. Cardinality(kept) : seq[Place(kept, n)] \in T
  BY <1>1, <1>3
<1> QED
  BY <1>2, <1>3, <1>4 DEF Picked

(* A text brought in range has at most the hashtags its channel takes.      *)
LEMMA TagsAreInRange ==
    ASSUME NEW body \in Seq(Words), MaxTags \in Nat
    PROVE  /\ Picked(body, WithinTags(body)) \in Seq(Words)
           /\ TagsIn(Picked(body, WithinTags(body))) <= MaxTags
<1> DEFINE kept == WithinTags(body)
           out  == Picked(body, kept)
           tags == {i \in 1 .. Len(body) : body[i] = Tag}
           outTags == {n \in DOMAIN out : out[n] = Tag}
           f == [n \in outTags |-> Rank(tags, Place(kept, n))]
<1>1. Len(body) \in Nat /\ DOMAIN body = 1 .. Len(body)
      /\ kept \subseteq DOMAIN body /\ tags \subseteq 1 .. Len(body)
  BY DEF WithinTags
<1>2. /\ out \in Seq(Words) /\ DOMAIN out = 1 .. Cardinality(kept)
      /\ \A n \in 1 .. Cardinality(kept) :
            /\ Place(kept, n) \in kept /\ Rank(kept, Place(kept, n)) = n
            /\ out[n] = body[Place(kept, n)]
  BY <1>1, PickedIsLeft
<1>3. \A i \in 1 .. Len(body) : TagsIn(SubSeq(body, 1, i)) = Rank(tags, i)
  <2> TAKE i \in 1 .. Len(body)
  <2>1. DOMAIN SubSeq(body, 1, i) = 1 .. i /\ \A j \in 1 .. i : SubSeq(body, 1, i)[j] = body[j]
    BY <1>1, SubSeqProperties
  <2>2. {j \in DOMAIN SubSeq(body, 1, i) : SubSeq(body, 1, i)[j] = Tag} = {j \in tags : j <= i}
    BY <1>1, <2>1
  <2> QED
    BY <2>2 DEF TagsIn, Rank
<1>4. /\ \A i \in 0 .. Len(body) : Rank(tags, i) \in Nat
      /\ Rank(tags, 0) = 0
      /\ \A i \in 1 .. Len(body) : Rank(tags, i) = IF i \in tags THEN Rank(tags, i - 1) + 1
                                                   ELSE Rank(tags, i - 1)
      /\ IsFiniteSet(tags)
  <2> HIDE DEF tags
  <2> QED
    BY <1>1, RankGrows
<1>5. \A n \in outTags :
          /\ n \in 1 .. Cardinality(kept) /\ Place(kept, n) \in tags
          /\ Rank(tags, Place(kept, n)) \in 1 .. MaxTags
  <2> TAKE n \in outTags
  <2>1. n \in 1 .. Cardinality(kept) /\ Place(kept, n) \in kept /\ body[Place(kept, n)] = Tag
    BY <1>2
  <2>2. Place(kept, n) \in tags /\ Place(kept, n) \in 1 .. Len(body)
    BY <1>1, <2>1
  <2>3. TagsIn(SubSeq(body, 1, Place(kept, n))) <= MaxTags
    BY <2>1 DEF WithinTags
  <2>4. Rank(tags, Place(kept, n)) <= MaxTags
    BY <1>3, <2>2, <2>3
  <2>5. Rank(tags, Place(kept, n)) \in Nat /\ Rank(tags, Place(kept, n)) >= 1
    <3>1. Place(kept, n) - 1 \in 0 .. Len(body)
      BY <1>1, <2>2
    <3> QED
      BY <1>1, <1>4, <2>2, <3>1
  <2> QED
    BY <2>1, <2>2, <2>4, <2>5
<1>6. ASSUME NEW a \in tags, NEW b \in tags, Rank(tags, a) = Rank(tags, b)
      PROVE  a = b
  <2>1. ASSUME NEW x \in tags, NEW y \in tags, x < y PROVE Rank(tags, x) < Rank(tags, y)
    <3>1. {j \in tags : j <= x} \subseteq {j \in tags : j <= y}
      BY <1>1, <2>1
    <3>2. y \in {j \in tags : j <= y} /\ y \notin {j \in tags : j <= x}
      BY <1>1, <2>1
    <3>3. IsFiniteSet({j \in tags : j <= y}) /\ IsFiniteSet({j \in tags : j <= x})
      <4>1. {j \in tags : j <= y} \in SUBSET tags /\ {j \in tags : j <= x} \in SUBSET tags
        OBVIOUS
      <4> HIDE DEF tags
      <4> QED
        BY <1>4, <4>1, FS_Subset
    <3>4. Cardinality({j \in tags : j <= x}) <= Cardinality({j \in tags : j <= y})
      BY <3>1, <3>3, FS_Subset
    <3>5. Cardinality({j \in tags : j <= x}) # Cardinality({j \in tags : j <= y})
      BY <3>1, <3>2, <3>3, FS_Subset
    <3>6. Cardinality({j \in tags : j <= x}) \in Nat /\ Cardinality({j \in tags : j <= y}) \in Nat
      BY <3>3, FS_CardinalityType
    <3> QED
      BY <3>4, <3>5, <3>6 DEF Rank
  <2>2. Rank(tags, a) \in Nat /\ a \in Nat /\ b \in Nat
    BY <1>1, <1>4
  <2>3. ~(a < b) /\ ~(b < a)
    BY <1>6, <2>1, <2>2
  <2> QED
    BY <2>2, <2>3
<1>7. f \in Injection(outTags, 1 .. MaxTags)
  <2>1. f \in [outTags -> 1 .. MaxTags]
    BY <1>5
  <2>2. ASSUME NEW x \in outTags, NEW y \in outTags, f[x] = f[y] PROVE x = y
    <3>1. Place(kept, x) = Place(kept, y)
      BY <1>5, <1>6, <2>2
    <3> QED
      BY <1>2, <1>5, <3>1
  <2> QED
    BY <2>1, <2>2 DEF Injection, IsInjective
<1>8. Cardinality(outTags) <= MaxTags
  <2>1. IsFiniteSet(1 .. MaxTags) /\ Cardinality(1 .. MaxTags) = MaxTags
    BY FS_Interval
  <2> HIDE DEF outTags, f
  <2> QED
    BY <1>7, <2>1, FS_Injection
<1> QED
  BY <1>2, <1>8 DEF TagsIn

-----------------------------------------------------------------------------
(* The delivery: what is out, and what is said of it.                       *)

Rendering == [name : Names, body : Seq(Words)]
AnswersGiven   == [key : PostKeys, status : {"in_flight", "succeeded", "failed", "refused"},
              fake : BOOLEAN]

\* A rendering that was not withheld.
Cleared(r) == ~Claims(r.body) /\ (HasSpec(r.name) /\ validating => TagsIn(r.body) <= MaxTags)

\* Rows and answers P, not marked as simulated, of posts that are out.
TrueLines(P, L) == \A row \in P : row.status = "succeeded" /\ ~row.fake => row.key \in L
TrueRefs(refs, L) ==
    \A i \in 1 .. Len(refs) : refs[i].status = "succeeded" /\ ~refs[i].fake => refs[i].key \in L

\* Whatever is out was answered for: as out, or as a failure.
AllAnswered(refs, L) ==
    \A key \in L : \E i \in 1 .. Len(refs) :
        refs[i].key = key /\ refs[i].status \in {"succeeded", "failed"}

IsDrive(x) == x = [number |-> x.number, fake |-> x.fake, refs |-> x.refs, allowed |-> x.allowed]

\* What leaves is a piece of a cleared rendering.
LeavesCleared ==
    /\ renderings \in Seq(Rendering)
    /\ \A i \in 1 .. Len(renderings) : Cleared(renderings[i])
    /\ \A key \in live : key \in Shown /\ HasSpec(key.target)
    /\ export.number = 0 => stage \in {"repack", "parked"}
    /\ stage = "repack" => export.number = 0
    /\ export.number = 0 => live = {}

\* The drive's answers are what the ledger and the platforms say of them.
AnswersHold ==
    /\ posted \subseteq AnswersGiven /\ TrueLines(posted, live)
    /\ IsDrive(export) /\ export.number \in Nat /\ export.fake \in BOOLEAN
    /\ export.refs \in Seq(AnswersGiven) /\ TrueRefs(export.refs, live)
    /\ export.number = 1 /\ stage \in {"exporting", "reported"} => AllAnswered(export.refs, live)

\* What was saved and told is true of them too.
ReportsHold ==
    /\ saved # NoReport => stage = "over"
    /\ export.number = 1 /\ stage = "over" => AllAnswered(saved.refs, live)
    /\ saved.refs \in Seq(AnswersGiven)
    /\ ~saved.simulated => Delivered \subseteq live
    /\ \A notice \in told : ~notice.simulated => notice.published \subseteq live

DeliveryInv == LeavesCleared /\ AnswersHold /\ ReportsHold

(* A channel's own name stands for itself.                                  *)
LEMMA CanonicalStays ==
    ASSUME NEW name \in Names
    PROVE  /\ canonical_channel(name) \in Names
           /\ HasSpec(canonical_channel(name)) <=> HasSpec(name)
BY DeliveryAssumption DEF canonical_channel, HasSpec

(* What REPACK keeps is cleared.                                            *)
LEMMA KeptIsCleared ==
    ASSUME NEW name \in Names, NEW body \in Bodies, ~Withheld(name, body)
    PROVE  /\ InRange(name, Trimmed(name, body)) \in Seq(Words)
           /\ Cleared([name |-> name, body |-> InRange(name, Trimmed(name, body))])
<1> DEFINE text == Trimmed(name, body)
           out  == InRange(name, text)
<1>0. HardMax \in Nat /\ MaxTags \in Nat /\ MaxWords \in Nat
  BY DeliveryAssumption
<1>1. body \in Seq(Words)
  BY <1>0 DEF Bodies
<1>2. text \in Seq(Words)
  <2>1. CASE HasSpec(name) /\ Len(body) > HardMax
    <3>1. \A i \in 1 .. HardMax : body[i] \in Words
      BY <1>0, <1>1, <2>1
    <3>2. SubSeq(body, 1, HardMax) \in Seq(Words)
      BY <1>0, <3>1, SubSeqProperties
    <3> QED
      BY <2>1, <3>2 DEF Trimmed
  <2>2. CASE ~(HasSpec(name) /\ Len(body) > HardMax)
    BY <1>1, <2>2 DEF Trimmed
  <2> QED
    BY <2>1, <2>2
<1> HIDE DEF text
<1>3. out \in Seq(Words) /\ (HasSpec(name) /\ validating => TagsIn(out) <= MaxTags)
  BY <1>0, <1>2, TagsAreInRange DEF InRange
<1>4. ~Claims(out)
  BY DEF Withheld, text
<1> HIDE DEF out
<1> QED
  BY <1>3, <1>4 DEF Cleared, text, out

(* A piece is a rendering with a body, under its channel's own name.        *)
LEMMA PiecesAreShown ==
    ASSUME renderings \in Seq(Rendering), NEW key \in Range(Pieces)
    PROVE  /\ key \in PostKeys /\ key \in Shown
<1> DEFINE kept == {i \in DOMAIN renderings : renderings[i].body # << >>}
           filled == Picked(renderings, kept)
<1>1. kept \subseteq DOMAIN renderings
  OBVIOUS
<1>2. /\ DOMAIN filled = 1 .. Cardinality(kept)
      /\ \A n \in 1 .. Cardinality(kept) :
            Place(kept, n) \in kept /\ filled[n] = renderings[Place(kept, n)]
  <2> HIDE DEF kept
  <2> QED
    BY <1>1, PickedIsLeft
<1>3. Pieces = [n \in DOMAIN filled |-> PostKey(filled[n])]
  BY DEF Pieces
<1> HIDE DEF filled
<1>4. PICK n \in DOMAIN filled : key = PostKey(filled[n])
  BY <1>3 DEF Range
<1>5. PICK i \in DOMAIN renderings : renderings[i].body # << >> /\ key = PostKey(renderings[i])
  BY <1>2, <1>4
<1>6. renderings[i] \in Rendering
  OBVIOUS
<1>7. key \in PostKeys
  BY <1>5, <1>6, CanonicalStays DEF PostKey, PostKeys, Rendering
<1>8. renderings[i] \in Range(renderings)
  BY <1>5 DEF Range
<1> QED
  BY <1>5, <1>7, <1>8 DEF Shown

(* Whatever is shown was cleared.                                           *)
LEMMA ShownIsCleared ==
    ASSUME LeavesCleared, NEW key \in Shown, HasSpec(key.target)
    PROVE  (validating => TagsIn(key.body) <= MaxTags) /\ ~Claims(key.body)
<1>1. PICK r \in Range(renderings) : key = PostKey(r)
  BY DEF Shown
<1>2. PICK i \in DOMAIN renderings : r = renderings[i]
  BY <1>1 DEF Range
<1>3. r \in Rendering /\ Cleared(r)
  BY <1>2 DEF LeavesCleared
<1>4. key.body = r.body /\ key.target = canonical_channel(r.name)
  BY <1>1 DEF PostKey
<1> QED
  BY <1>3, <1>4, CanonicalStays DEF Cleared, Rendering

(* An answer of the loop: one entry of the report, one row at most, and the *)
(* post may be out.                                                         *)
LEMMA AnswerOfTheLoop ==
    ASSUME DeliveryInv, NEW key \in Range(Pieces),
           Replay(key) \/ Perform(key) \/ SettleFails(key)
    PROVE  /\ stage = "exporting" /\ UNCHANGED <<validating, renderings, stage, told, saved>>
           /\ \E status \in {"succeeded", "failed", "refused", "in_flight"}, fake \in BOOLEAN :
                 /\ export' = [export EXCEPT !.refs = Append(@, [key |-> key, status |-> status,
                                                                 fake |-> fake])]
                 /\ status = "succeeded" /\ ~fake => key \in live'
                 /\ live' # live => HasSpec(key.target) /\ status \in {"succeeded", "failed"}
           /\ live \subseteq live' /\ live' \subseteq live \cup {key}
           /\ posted' \subseteq AnswersGiven /\ TrueLines(posted', live')
<1> DEFINE Told(status, fake) ==
              /\ export' = [export EXCEPT !.refs = Append(@, [key |-> key, status |-> status,
                                                             fake |-> fake])]
              /\ status = "succeeded" /\ ~fake => key \in live'
              /\ live' # live => HasSpec(key.target) /\ status \in {"succeeded", "failed"}
           Goal == /\ stage = "exporting" /\ UNCHANGED <<validating, renderings, stage, told, saved>>
                   /\ \E status \in {"succeeded", "failed", "refused", "in_flight"},
                        fake \in BOOLEAN : Told(status, fake)
                   /\ live \subseteq live' /\ live' \subseteq live \cup {key}
                   /\ posted' \subseteq AnswersGiven /\ TrueLines(posted', live')
<1> SUFFICES Goal
  OBVIOUS
<1>0. /\ key \in PostKeys /\ posted \subseteq AnswersGiven /\ TrueLines(posted, live)
      /\ export.fake \in BOOLEAN
  BY PiecesAreShown DEF DeliveryInv, LeavesCleared, AnswersHold
<1>1. CASE Replay(key)
  <2>1. /\ stage = "exporting" /\ UNCHANGED <<validating, renderings, stage, told, saved, posted, live>>
        /\ Claimed(key)
        /\ IF Row(key).status = "in_flight" THEN Answered(key, "refused", FALSE)
           ELSE Answered(key, Row(key).status, Row(key).fake)
    BY <1>1 DEF Replay, Upcoming
  <2>2. Row(key) \in posted /\ Row(key).key = key
    BY <2>1 DEF Claimed, Row
  <2>3. /\ Row(key).status \in {"succeeded", "failed", "refused", "in_flight"}
        /\ Row(key).fake \in BOOLEAN
    BY <1>0, <2>2 DEF AnswersGiven
  <2>4. CASE Row(key).status = "in_flight"
    <3>1. Told("refused", FALSE)
      BY <2>1, <2>4 DEF Answered
    <3> QED
      BY <1>0, <2>1, <3>1
  <2>5. CASE Row(key).status # "in_flight"
    <3>1. Told(Row(key).status, Row(key).fake)
      BY <1>0, <2>1, <2>2, <2>5 DEF Answered, TrueLines
    <3> HIDE DEF Told
    <3> QED
      BY <1>0, <2>1, <2>3, <3>1
  <2> QED
    BY <2>4, <2>5
<1>2. ASSUME NEW status \in {"succeeded", "failed", "refused"}, NEW fake \in BOOLEAN,
             stage = "exporting", UNCHANGED <<validating, renderings, stage, told, saved>>,
             Settled(key, status, fake), live \subseteq live', live' \subseteq live \cup {key},
             live' # live => HasSpec(key.target) /\ status \in {"succeeded", "failed"},
             status = "succeeded" /\ ~fake => key \in live'
      PROVE  Goal
  <2> DEFINE row == [key |-> key, status |-> status, fake |-> fake /\ status = "succeeded"]
  <2>1. posted' = posted \cup {row} /\ Answered(key, status, fake)
    BY <1>2 DEF Settled
  <2>2. row.fake = (fake /\ status = "succeeded") /\ row.key = key /\ row.status = status
    OBVIOUS
  <2>3. row \in AnswersGiven
    <3>1. (fake /\ status = "succeeded") \in BOOLEAN
      OBVIOUS
    <3> QED
      BY <1>0, <3>1 DEF AnswersGiven
  <2> HIDE DEF row
  <2>4. posted' \subseteq AnswersGiven /\ TrueLines(posted', live')
    BY <1>0, <1>2, <2>1, <2>2, <2>3 DEF TrueLines
  <2>5. Told(status, fake)
    BY <1>2, <2>1 DEF Answered
  <2> HIDE DEF Told
  <2> QED
    BY <1>2, <2>4, <2>5
<1>3. ASSUME stage = "exporting", UNCHANGED <<validating, renderings, stage, told, saved>>,
             Unsettled(key), Answered(key, "failed", FALSE)
      PROVE  Goal
  <2> DEFINE row == [key |-> key, status |-> "in_flight", fake |-> FALSE]
  <2>1. /\ posted' = posted \cup {row}
        /\ live \subseteq live' /\ live' \subseteq live \cup {key}
        /\ live' # live => HasSpec(key.target)
    BY <1>3 DEF Unsettled
  <2>2. row \in AnswersGiven /\ row.status = "in_flight"
    BY <1>0 DEF AnswersGiven
  <2> HIDE DEF row
  <2>3. posted' \subseteq AnswersGiven /\ TrueLines(posted', live')
    BY <1>0, <2>1, <2>2 DEF TrueLines
  <2>4. Told("failed", FALSE)
    BY <1>3, <2>1 DEF Answered
  <2> HIDE DEF Told
  <2> QED
    BY <1>3, <2>1, <2>3, <2>4
<1>4. CASE Perform(key)
  <2>1. stage = "exporting" /\ UNCHANGED <<validating, renderings, stage, told, saved>>
    BY <1>4 DEF Perform, Upcoming
  <2> HIDE DEF Goal
  <2>2. CASE Settled(key, "refused", export.fake) /\ UNCHANGED live
    BY <1>0, <1>2, <2>1, <2>2
  <2>3. CASE export.fake /\ Settled(key, "succeeded", TRUE) /\ UNCHANGED live
    BY <1>2, <2>1, <2>3
  <2>4. CASE /\ HasSpec(key.target)
             /\ Settled(key, "succeeded", FALSE) /\ live' = live \cup {key}
    BY <1>2, <2>1, <2>4
  <2>5. CASE /\ HasSpec(key.target)
             /\ Settled(key, "failed", FALSE) /\ live' \in {live, live \cup {key}}
    BY <1>2, <2>1, <2>5
  <2> QED
    BY <1>4, <2>2, <2>3, <2>4, <2>5 DEF Perform
<1>5. CASE SettleFails(key)
  BY <1>3, <1>5 DEF SettleFails, Upcoming
<1> QED
  BY <1>1, <1>4, <1>5

(* The loop keeps the invariant.                                            *)
LEMMA LoopKeepsDelivery ==
    ASSUME DeliveryInv, NEW key \in Range(Pieces),
           Replay(key) \/ Perform(key) \/ SettleFails(key)
    PROVE  DeliveryInv'
<1>1. /\ stage = "exporting" /\ UNCHANGED <<validating, renderings, stage, told, saved>>
      /\ live \subseteq live' /\ live' \subseteq live \cup {key}
      /\ posted' \subseteq AnswersGiven /\ TrueLines(posted', live')
  BY AnswerOfTheLoop
<1>2. PICK status \in {"succeeded", "failed", "refused", "in_flight"} : \E f \in BOOLEAN :
         /\ export' = [export EXCEPT !.refs = Append(@, [key |-> key, status |-> status,
                                                         fake |-> f])]
         /\ status = "succeeded" /\ ~f => key \in live'
         /\ live' # live => HasSpec(key.target) /\ status \in {"succeeded", "failed"}
  BY AnswerOfTheLoop
<1>3. PICK fake \in BOOLEAN :
         /\ export' = [export EXCEPT !.refs = Append(@, [key |-> key, status |-> status,
                                                         fake |-> fake])]
         /\ status = "succeeded" /\ ~fake => key \in live'
         /\ live' # live => HasSpec(key.target) /\ status \in {"succeeded", "failed"}
  BY <1>2
<1>4. /\ IsDrive(export) /\ export.number \in Nat /\ export.fake \in BOOLEAN
      /\ export.refs \in Seq(AnswersGiven) /\ TrueRefs(export.refs, live)
      /\ export.number = 1 => AllAnswered(export.refs, live)
      /\ renderings \in Seq(Rendering)
      /\ \A k \in live : k \in Shown /\ HasSpec(k.target)
  BY <1>1 DEF DeliveryInv, AnswersHold, LeavesCleared
<1> DEFINE answer == [key |-> key, status |-> status, fake |-> fake]
           refs   == Append(export.refs, answer)
<1>5. key \in PostKeys /\ key \in Shown
  BY <1>4, PiecesAreShown
<1>6. answer \in AnswersGiven /\ answer.key = key /\ answer.status = status /\ answer.fake = fake
  BY <1>5 DEF AnswersGiven
<1>7. /\ IsDrive(export') /\ export'.number = export.number /\ export'.fake = export.fake
      /\ export'.refs = refs
  BY <1>3, <1>4 DEF IsDrive
<1> HIDE DEF answer
<1>8. /\ refs \in Seq(AnswersGiven) /\ Len(refs) = Len(export.refs) + 1
      /\ refs[Len(refs)] = answer
      /\ \A i \in 1 .. Len(export.refs) : refs[i] = export.refs[i] /\ i \in 1 .. Len(refs)
  BY <1>4, <1>6
<1>9. Len(export.refs) \in Nat /\ Len(refs) \in 1 .. Len(refs)
  BY <1>4, <1>8
<1> HIDE DEF refs
<1>10. TrueRefs(refs, live')
  <2> SUFFICES ASSUME NEW i \in 1 .. Len(refs), refs[i].status = "succeeded", ~refs[i].fake
               PROVE  refs[i].key \in live'
    BY DEF TrueRefs
  <2>1. CASE i = Len(refs)
    BY <1>3, <1>6, <1>8, <2>1
  <2>2. CASE i # Len(refs)
    <3>1. i \in 1 .. Len(export.refs)
      BY <1>8, <1>9, <2>2
    <3> QED
      BY <1>1, <1>4, <1>8, <3>1 DEF TrueRefs
  <2> QED
    BY <2>1, <2>2
<1>11. export.number = 1 => AllAnswered(refs, live')
  <2> SUFFICES ASSUME export.number = 1, NEW k \in live'
               PROVE  \E i \in 1 .. Len(refs) :
                          refs[i].key = k /\ refs[i].status \in {"succeeded", "failed"}
    BY DEF AllAnswered
  <2>1. CASE k \in live
    <3>1. PICK i \in 1 .. Len(export.refs) :
            export.refs[i].key = k /\ export.refs[i].status \in {"succeeded", "failed"}
      BY <1>4, <2>1 DEF AllAnswered
    <3> QED
      BY <1>8, <3>1
  <2>2. CASE k \notin live
    <3>1. k = key /\ live' # live
      BY <1>1, <2>2
    <3> QED
      BY <1>3, <1>6, <1>8, <1>9, <3>1
  <2> QED
    BY <2>1, <2>2
<1>12. \A k \in live' : k \in Shown' /\ HasSpec(k.target)
  <2>1. Shown' = Shown
    BY <1>1 DEF Shown
  <2>2. \A k \in live' : k \in live \/ (k = key /\ live' # live)
    BY <1>1
  <2> QED
    BY <1>3, <1>4, <1>5, <2>1, <2>2
<1>13. export.number # 0
  BY <1>1 DEF DeliveryInv, LeavesCleared, AnswersHold, ReportsHold
<1>14. LeavesCleared'
  BY <1>1, <1>7, <1>12, <1>13 DEF DeliveryInv, LeavesCleared, Cleared
<1>15. AnswersHold'
  BY <1>1, <1>4, <1>7, <1>8, <1>10, <1>11 DEF AnswersHold
<1>16. ReportsHold'
  BY <1>1 DEF DeliveryInv, ReportsHold, Delivered
<1> QED
  BY <1>14, <1>15, <1>16 DEF DeliveryInv

(* REPACK keeps only what is cleared, while nothing is out.                 *)
LEMMA RenderKeepsDelivery == ASSUME DeliveryInv, RenderPost PROVE DeliveryInv'
<1>1. stage = "repack" /\ UNCHANGED <<validating, stage, export, posted, live, told, saved>>
  BY DEF RenderPost
<1>2. PICK name \in Names : \E body \in Bodies :
          renderings' = IF Withheld(name, body) THEN renderings
                        ELSE Rendered(name, InRange(name, Trimmed(name, body)))
  BY DEF RenderPost
<1>3. PICK body \in Bodies :
          renderings' = IF Withheld(name, body) THEN renderings
                        ELSE Rendered(name, InRange(name, Trimmed(name, body)))
  BY <1>2
<1>4. live = {}
  BY <1>1 DEF DeliveryInv, LeavesCleared
<1>5. renderings \in Seq(Rendering) /\ \A i \in 1 .. Len(renderings) : Cleared(renderings[i])
  BY DEF DeliveryInv, LeavesCleared
<1> DEFINE out == InRange(name, Trimmed(name, body))
           r   == [name |-> name, body |-> out]
<1>6. CASE Withheld(name, body)
  BY <1>1, <1>3, <1>4, <1>6
  DEF DeliveryInv, LeavesCleared, AnswersHold, ReportsHold, Delivered, Cleared
<1>7. CASE ~Withheld(name, body)
  <2>1. out \in Seq(Words) /\ Cleared(r)
    BY <1>7, KeptIsCleared
  <2>2. renderings' = Rendered(name, out)
    BY <1>3, <1>7
  <2> HIDE DEF out
  <2>3. r \in Rendering
    BY <2>1 DEF Rendering
  <2>4. renderings' \in Seq(Rendering) /\ \A i \in 1 .. Len(renderings') : Cleared(renderings'[i])
    <3>1. CASE \E i \in DOMAIN renderings : renderings[i].name = name
      <4>1. renderings' = [i \in DOMAIN renderings |->
                              IF renderings[i].name = name THEN r ELSE renderings[i]]
        BY <2>2, <3>1 DEF Rendered
      <4> HIDE DEF r
      <4>2. Len(renderings) \in Nat /\ DOMAIN renderings = 1 .. Len(renderings)
        BY <1>5
      <4>3. \A i \in 1 .. Len(renderings) : renderings'[i] \in Rendering /\ Cleared(renderings'[i])
        BY <1>5, <2>1, <2>3, <4>1, <4>2
      <4>4. renderings' \in Seq(Rendering) /\ Len(renderings') = Len(renderings)
        BY <4>1, <4>2, <4>3
      <4> QED
        BY <4>3, <4>4
    <3>2. CASE ~\E i \in DOMAIN renderings : renderings[i].name = name
      <4>1. renderings' = Append(renderings, r)
        BY <2>2, <3>2 DEF Rendered
      <4> HIDE DEF r
      <4> QED
        BY <1>5, <2>1, <2>3, <4>1
    <3> QED
      BY <3>1, <3>2
  <2> QED
    BY <1>1, <1>4, <2>4 DEF DeliveryInv, LeavesCleared, AnswersHold, ReportsHold, Delivered, Cleared
<1> QED
  BY <1>6, <1>7

(* A drive that has sent nothing says nothing.                              *)
LEMMA NothingAnswered ==
    /\ << >> \in Seq(AnswersGiven) /\ \A L : TrueRefs(<< >>, L)
    /\ Succeeded(<< >>) = {} /\ AllAnswered(<< >>, {})
BY DEF TrueRefs, Succeeded, AllAnswered

(* A drive begins with nothing answered, or it is refused at the door.      *)
LEMMA DoorKeepsDelivery ==
    ASSUME DeliveryInv, EnterExport \/ ExportRefused PROVE DeliveryInv'
<1>1. stage = "parked" /\ UNCHANGED <<validating, renderings, posted, live, told>>
  BY DEF EnterExport, ExportRefused
<1>2. /\ IsDrive(export') /\ export'.number = export.number + 1 /\ export'.fake \in BOOLEAN
      /\ export'.refs = << >>
  <2>1. ASSUME NEW n, NEW fake \in BOOLEAN, NEW most,
               export' = [number |-> n, fake |-> fake, refs |-> << >>, allowed |-> most]
        PROVE  /\ IsDrive(export') /\ export'.number = n /\ export'.fake \in BOOLEAN
               /\ export'.refs = << >>
    BY <2>1 DEF IsDrive
  <2>2. CASE ExportRefused
    <3>1. export' = [number |-> export.number + 1, fake |-> FALSE, refs |-> << >>, allowed |-> 0]
      BY <2>2 DEF ExportRefused, NoDrive
    <3> QED
      BY <2>1, <3>1
  <2>3. CASE EnterExport
    BY <2>1, <2>3 DEF EnterExport
  <2> QED
    BY <2>2, <2>3
<1>3. /\ export'.number \in Nat /\ export'.number # 0
      /\ export'.number = 1 => live = {}
  BY <1>2 DEF DeliveryInv, AnswersHold, LeavesCleared
<1>4. Shown' = Shown
  BY <1>1 DEF Shown
<1>5. LeavesCleared'
  <2>1. stage' \in {"exporting", "over"}
    BY DEF EnterExport, ExportRefused
  <2> QED
    BY <1>1, <1>3, <1>4, <2>1 DEF DeliveryInv, LeavesCleared, Cleared
<1>6. AnswersHold'
  BY <1>1, <1>2, <1>3, NothingAnswered DEF DeliveryInv, AnswersHold
<1>7. ReportsHold'
  <2>1. CASE EnterExport
    <3>1. saved' = saved /\ stage' = "exporting"
      BY <2>1 DEF EnterExport
    <3> QED
      BY <1>1, <3>1 DEF DeliveryInv, ReportsHold, Delivered
  <2>2. CASE ExportRefused
    <3>1. saved'.refs = << >> /\ stage' = "over"
      BY <2>2 DEF ExportRefused, NoReport
    <3> QED
      BY <1>1, <1>3, <3>1, NothingAnswered DEF DeliveryInv, ReportsHold, Delivered
  <2> QED
    BY <2>1, <2>2
<1> QED
  BY <1>5, <1>6, <1>7 DEF DeliveryInv

(* A death in EXPORT leaves at most one row in flight and its post out.     *)
LEMMA DeathKeepsDelivery == ASSUME DeliveryInv, DieExporting PROVE DeliveryInv'
<1>1. /\ stage = "exporting" /\ stage' = "parked" /\ UNCHANGED <<validating, renderings, told, saved>>
      /\ export' = [NoDrive EXCEPT !.number = export.number]
  BY DEF DieExporting
<1>2. /\ IsDrive(export') /\ export'.number = export.number /\ export'.fake \in BOOLEAN
      /\ export'.refs = << >>
  BY <1>1 DEF NoDrive, IsDrive
<1>3. /\ live \subseteq live' /\ posted' \subseteq AnswersGiven /\ TrueLines(posted', live')
      /\ \A k \in live' : k \in Shown /\ HasSpec(k.target)
  <2>1. /\ posted \subseteq AnswersGiven /\ TrueLines(posted, live) /\ renderings \in Seq(Rendering)
        /\ \A k \in live : k \in Shown /\ HasSpec(k.target)
    BY DEF DeliveryInv, LeavesCleared, AnswersHold
  <2>2. CASE UNCHANGED <<posted, live>>
    BY <2>1, <2>2
  <2>3. CASE \E key \in Range(Pieces) : Upcoming(key) /\ ~Claimed(key) /\ Unsettled(key)
    <3>1. PICK key \in Range(Pieces) : Unsettled(key)
      BY <2>3
    <3> DEFINE row == [key |-> key, status |-> "in_flight", fake |-> FALSE]
    <3>2. /\ posted' = posted \cup {row}
          /\ live' = live \/ (HasSpec(key.target) /\ live' = live \cup {key})
      BY <3>1 DEF Unsettled
    <3>3. key \in PostKeys /\ key \in Shown
      BY <2>1, PiecesAreShown
    <3>4. row \in AnswersGiven /\ row.status = "in_flight"
      BY <3>3 DEF AnswersGiven
    <3> HIDE DEF row
    <3>5. posted' \subseteq AnswersGiven /\ TrueLines(posted', live')
      BY <2>1, <3>2, <3>4 DEF TrueLines
    <3> QED
      BY <2>1, <3>2, <3>3, <3>5
  <2> QED
    BY <2>2, <2>3 DEF DieExporting
<1>4. Shown' = Shown
  BY <1>1 DEF Shown
<1>5. export.number # 0 /\ export.number \in Nat
  BY <1>1 DEF DeliveryInv, LeavesCleared, AnswersHold
<1>6. LeavesCleared'
  BY <1>1, <1>2, <1>3, <1>4, <1>5 DEF DeliveryInv, LeavesCleared, Cleared
<1>7. AnswersHold'
  BY <1>1, <1>2, <1>3, <1>5, NothingAnswered DEF AnswersHold
<1>8. ReportsHold'
  BY <1>1, <1>3 DEF DeliveryInv, ReportsHold, Delivered
<1> QED
  BY <1>6, <1>7, <1>8 DEF DeliveryInv

(* A report not called simulated names as published only what is out.       *)
LEMMA ReportIsOfTheAnswers ==
    ASSUME AnswersHold
    PROVE  /\ ReportOf(export.refs).refs = export.refs
           /\ ~ReportOf(export.refs).simulated => Succeeded(export.refs) \subseteq live
<1>1. /\ ReportOf(export.refs).refs = export.refs
      /\ ReportOf(export.refs).simulated = simulated(export.refs)
  BY DEF ReportOf
<1>2. DOMAIN export.refs = 1 .. Len(export.refs) /\ TrueRefs(export.refs, live)
  BY DEF AnswersHold
<1>3. ~simulated(export.refs) => Succeeded(export.refs) \subseteq live
  BY <1>2 DEF simulated, Succeeded, TrueRefs
<1> QED
  BY <1>1, <1>3

(* What is told and saved is the report.                                    *)
LEMMA ReportKeepsDelivery ==
    ASSUME DeliveryInv, Report \/ SaveReport PROVE DeliveryInv'
<1>1. UNCHANGED <<validating, renderings, posted, live>>
  BY DEF Report, SaveReport
<1>2. Shown' = Shown
  BY <1>1 DEF Shown
<1>3. /\ ReportOf(export.refs).refs = export.refs
      /\ ~ReportOf(export.refs).simulated => Succeeded(export.refs) \subseteq live
  BY ReportIsOfTheAnswers DEF DeliveryInv
<1>4. CASE Report
  <2>1. /\ stage = "exporting" /\ stage' = "reported" /\ UNCHANGED <<export, saved>>
        /\ NotifyOwner(ReportOf(export.refs))
    BY <1>4 DEF Report
  <2> DEFINE notice == [published |-> Succeeded(export.refs),
                        simulated |-> ReportOf(export.refs).simulated]
  <2>2. told' = told \/ told' = told \cup {notice}
    BY <1>3, <2>1 DEF NotifyOwner
  <2>3. notice.published = Succeeded(export.refs)
        /\ notice.simulated = ReportOf(export.refs).simulated
    OBVIOUS
  <2> HIDE DEF notice
  <2>4. \A n \in told' : ~n.simulated => n.published \subseteq live
    BY <1>3, <2>2, <2>3 DEF DeliveryInv, ReportsHold
  <2>5. LeavesCleared' /\ AnswersHold'
    BY <1>1, <1>2, <2>1 DEF DeliveryInv, LeavesCleared, AnswersHold, Cleared
  <2>6. ReportsHold'
    BY <1>1, <2>1, <2>4 DEF DeliveryInv, ReportsHold, Delivered
  <2> QED
    BY <2>5, <2>6 DEF DeliveryInv
<1>5. CASE SaveReport /\ saved' = ReportOf(export.refs) /\ stage' = "over" /\ UNCHANGED export
  <2>1. stage = "reported" /\ told' = told
    BY <1>5 DEF SaveReport
  <2>2. saved'.refs = export.refs /\ (~saved'.simulated => Succeeded(saved'.refs) \subseteq live)
    BY <1>3, <1>5
  <2>3. LeavesCleared' /\ AnswersHold'
    BY <1>1, <1>2, <1>5, <2>1 DEF DeliveryInv, LeavesCleared, AnswersHold, Cleared
  <2>4. ReportsHold'
    BY <1>1, <1>5, <2>1, <2>2 DEF DeliveryInv, ReportsHold, AnswersHold, Delivered
  <2> QED
    BY <2>3, <2>4 DEF DeliveryInv
<1>6. CASE SaveReport /\ UNCHANGED saved /\ stage' = "parked"
           /\ export' = [NoDrive EXCEPT !.number = export.number]
  <2>1. stage = "reported" /\ told' = told
    BY <1>6 DEF SaveReport
  <2>2. /\ IsDrive(export') /\ export'.number = export.number /\ export'.fake \in BOOLEAN
        /\ export'.refs = << >>
    BY <1>6 DEF NoDrive, IsDrive
  <2>3. LeavesCleared' /\ AnswersHold'
    BY <1>1, <1>2, <1>6, <2>1, <2>2, NothingAnswered DEF DeliveryInv, LeavesCleared, AnswersHold, Cleared
  <2>4. ReportsHold'
    BY <1>1, <1>6, <2>1 DEF DeliveryInv, ReportsHold, Delivered
  <2> QED
    BY <2>3, <2>4 DEF DeliveryInv
<1> QED
  BY <1>4, <1>5, <1>6 DEF SaveReport

(* Every step keeps the invariant.                                          *)
LEMMA DeliveryInvNext == DeliveryInv /\ [DeliveryNext]_deliveryVars => DeliveryInv'
<1> SUFFICES ASSUME DeliveryInv, [DeliveryNext]_deliveryVars PROVE DeliveryInv'
  OBVIOUS
<1>1. CASE RenderPost
  BY <1>1, RenderKeepsDelivery
<1>2. CASE Park
  <2>1. /\ stage = "repack" /\ stage' = "parked"
        /\ UNCHANGED <<validating, renderings, export, posted, live, told, saved>> /\ Shown' = Shown
    BY <1>2 DEF Park, Shown
  <2> QED
    BY <2>1 DEF DeliveryInv, LeavesCleared, AnswersHold, ReportsHold, Delivered, Cleared
<1>3. CASE EnterExport \/ ExportRefused
  BY <1>3, DoorKeepsDelivery
<1>4. CASE \E key \in Range(Pieces) : Replay(key) \/ Perform(key) \/ SettleFails(key)
  BY <1>4, LoopKeepsDelivery
<1>5. CASE DieExporting
  BY <1>5, DeathKeepsDelivery
<1>6. CASE Report \/ SaveReport
  BY <1>6, ReportKeepsDelivery
<1>7. CASE UNCHANGED deliveryVars
  <2>1. UNCHANGED <<validating, renderings, stage, export, posted, live, told, saved>> /\ Shown' = Shown
    BY <1>7 DEF deliveryVars, Shown
  <2> QED
    BY <2>1 DEF DeliveryInv, LeavesCleared, AnswersHold, ReportsHold, Delivered, Cleared
<1> QED
  BY <1>1, <1>2, <1>3, <1>4, <1>5, <1>6, <1>7 DEF DeliveryNext

(* The invariant holds at the start and always.                             *)
LEMMA DeliveryInvariant == DeliverySpec => []DeliveryInv
<1>1. DeliveryInit => DeliveryInv
  <2> SUFFICES ASSUME DeliveryInit PROVE DeliveryInv
    OBVIOUS
  <2>1. /\ export.number = 0 /\ IsDrive(export) /\ export.fake \in BOOLEAN /\ export.refs = << >>
        /\ saved.refs = << >>
    BY DEF DeliveryInit, NoDrive, NoReport, IsDrive
  <2>2. LeavesCleared
    BY <2>1 DEF DeliveryInit, LeavesCleared
  <2>3. AnswersHold /\ ReportsHold
    BY <2>1, NothingAnswered
    DEF DeliveryInit, AnswersHold, ReportsHold, TrueLines, Delivered
  <2> QED
    BY <2>2, <2>3 DEF DeliveryInv
<1> QED
  BY <1>1, DeliveryInvNext, PTL DEF DeliverySpec

(* What is on a platform is a text the review screen shows, without a       *)
(* forbidden claim, and with no more hashtags than its channel takes unless *)
(* channel.validate was missing: the check reads the text that leaves,      *)
(* after its surplus hashtags were taken out.                               *)
THEOREM OnlyClearedTextIsOut == DeliverySpec => []WhatIsOutWasCleared
<1>1. DeliveryInv => WhatIsOutWasCleared
  BY ShownIsCleared DEF DeliveryInv, LeavesCleared, WhatIsOutWasCleared
<1> QED
  BY <1>1, DeliveryInvariant, PTL

(* What the saved report and the owner's notices call published without a   *)
(* word about simulation is out, whatever drives died, replayed or were     *)
(* simulated before them; and when the run entered EXPORT once, what its    *)
(* report calls not published is not out, unless the report has its send as *)
(* failed (ReportIsTrue).                                                   *)
THEOREM ReportsAreTrue == DeliverySpec => []ReportIsTrue
<1>1. DeliveryInv => ReportIsTrue
  <2> SUFFICES ASSUME DeliveryInv PROVE ReportIsTrue
    OBVIOUS
  <2>1. ASSUME export.number = 1, saved # NoReport, NEW key \in saved.not_published \cap live
        PROVE  \/ key \in Delivered
               \/ \E i \in DOMAIN saved.refs :
                      saved.refs[i].key = key /\ saved.refs[i].status = "failed"
    <3>1. AllAnswered(saved.refs, live) /\ DOMAIN saved.refs = 1 .. Len(saved.refs)
      BY <2>1 DEF DeliveryInv, ReportsHold
    <3>2. PICK i \in 1 .. Len(saved.refs) :
            saved.refs[i].key = key /\ saved.refs[i].status \in {"succeeded", "failed"}
      BY <2>1, <3>1 DEF AllAnswered
    <3> QED
      BY <3>1, <3>2 DEF Delivered, Succeeded
  <2> QED
    BY <2>1 DEF DeliveryInv, ReportsHold, ReportIsTrue
<1> QED
  BY <1>1, DeliveryInvariant, PTL

-----------------------------------------------------------------------------
(* The types of the delivery, beside what DeliveryInv says of them.         *)

DeliveryRest ==
    /\ posts \in 0 .. MaxPosts /\ Len(renderings) <= posts
    /\ stage \in {"repack", "parked", "exporting", "reported", "over"}
    /\ export.number <= MaxDrives /\ export.allowed \in 0 .. MaxPosts
    /\ Len(export.refs) <= export.allowed
    /\ saved.simulated \in BOOLEAN /\ saved.not_published \subseteq PostKeys
    /\ IsFiniteSet(posted) /\ validating \in BOOLEAN

(* The lesser of two numbers.                                               *)
LEMMA MinOfTwo ==
    ASSUME NEW m \in Nat, NEW k \in Nat
    PROVE  Min({m, k}) \in {m, k} /\ Min({m, k}) <= m /\ Min({m, k}) <= k
<1>1. \E x \in {m, k} : \A y \in {m, k} : x <= y
  BY m <= k \/ k <= m
<1> QED
  BY <1>1 DEF Min

(* There are no more pieces than renderings.                                *)
LEMMA PiecesAreFew ==
    ASSUME renderings \in Seq(Rendering)
    PROVE  Len(Pieces) \in Nat /\ Len(Pieces) <= Len(renderings)
<1> DEFINE kept == {i \in DOMAIN renderings : renderings[i].body # << >>}
           filled == Picked(renderings, kept)
<1>1. kept \subseteq DOMAIN renderings /\ DOMAIN renderings = 1 .. Len(renderings)
      /\ Len(renderings) \in Nat
  OBVIOUS
<1>2. filled \in Seq(Rendering) /\ DOMAIN filled = 1 .. Cardinality(kept)
  <2> HIDE DEF kept
  <2> QED
    BY <1>1, PickedIsLeft
<1>3. IsFiniteSet(kept) /\ Cardinality(kept) \in Nat /\ Cardinality(kept) <= Len(renderings)
  <2>1. IsFiniteSet(1 .. Len(renderings)) /\ Cardinality(1 .. Len(renderings)) = Len(renderings)
    <3>1. \A n \in Nat : IsFiniteSet(1 .. n) /\ Cardinality(1 .. n) = n
      BY FS_Interval
    <3> QED
      BY <1>1, <3>1
  <2>2. kept \in SUBSET (1 .. Len(renderings))
    BY <1>1
  <2> HIDE DEF kept
  <2> QED
    BY <1>1, <2>1, <2>2, FS_Subset, FS_CardinalityType
<1>4. Pieces = [n \in DOMAIN filled |-> PostKey(filled[n])]
  BY DEF Pieces
<1> HIDE DEF kept, filled
<1>5. Pieces = [n \in 1 .. Cardinality(kept) |-> PostKey(filled[n])]
  BY <1>2, <1>4
<1>6. Len(Pieces) = Cardinality(kept)
  BY <1>3, <1>5
<1> QED
  BY <1>3, <1>6

(* The invariant and the rest of the types make the types.                  *)
LEMMA DeliveryTypesFollow == DeliveryInv /\ DeliveryRest => DeliveryTypeOK
<1> SUFFICES ASSUME DeliveryInv, DeliveryRest PROVE DeliveryTypeOK
  OBVIOUS
<1>1. renderings \in Seq([name : Names, body : Seq(Words)])
  BY DEF DeliveryInv, LeavesCleared, Rendering
<1>2. export.number \in 0 .. MaxDrives
  BY DeliveryAssumption DEF DeliveryInv, AnswersHold, DeliveryRest
<1>3. \A row \in posted : row.key \in PostKeys /\ row.fake \in BOOLEAN
  BY DEF DeliveryInv, AnswersHold, AnswersGiven
<1>4. live \subseteq PostKeys
  <2> SUFFICES ASSUME NEW key \in live PROVE key \in PostKeys
    OBVIOUS
  <2>1. key \in Shown
    BY DEF DeliveryInv, LeavesCleared
  <2>2. PICK r \in Range(renderings) : key = PostKey(r)
    BY <2>1 DEF Shown
  <2>3. PICK i \in DOMAIN renderings : r = renderings[i]
    BY <2>2 DEF Range
  <2>4. r \in Rendering
    <3>1. renderings \in Seq(Rendering)
      BY DEF DeliveryInv, LeavesCleared
    <3> QED
      BY <2>3, <3>1
  <2> QED
    BY <2>2, <2>4, CanonicalStays DEF PostKey, PostKeys, Rendering
<1>5. export.fake \in BOOLEAN
  BY DEF DeliveryInv, AnswersHold
<1> QED
  BY <1>1, <1>2, <1>3, <1>4, <1>5 DEF DeliveryTypeOK, DeliveryRest

(* Every step keeps the rest of the types.                                  *)
LEMMA DeliveryRestKept ==
    DeliveryInv /\ DeliveryRest /\ [DeliveryNext]_deliveryVars => DeliveryRest'
<1> SUFFICES ASSUME DeliveryInv, DeliveryRest, [DeliveryNext]_deliveryVars PROVE DeliveryRest'
  OBVIOUS
<1>0. /\ MaxPosts \in Nat /\ MaxDrives \in Nat /\ WeeklyCap \in Nat
      /\ renderings \in Seq(Rendering) /\ Len(renderings) \in Nat
      /\ IsDrive(export) /\ export.number \in Nat
      /\ export.refs \in Seq(AnswersGiven) /\ Len(export.refs) \in Nat
  BY DeliveryAssumption DEF DeliveryInv, LeavesCleared, AnswersHold
<1>1. /\ IsFiniteSet(posted)
      /\ posts \in 0 .. MaxPosts /\ Len(renderings) <= posts
      /\ stage \in {"repack", "parked", "exporting", "reported", "over"}
      /\ export.number <= MaxDrives /\ export.allowed \in 0 .. MaxPosts
      /\ Len(export.refs) <= export.allowed
      /\ saved.simulated \in BOOLEAN /\ saved.not_published \subseteq PostKeys
  BY DEF DeliveryRest
<1>13. validating \in BOOLEAN /\ validating' = validating
  BY DEF DeliveryRest, DeliveryNext, deliveryVars, RenderPost, Park, ExportRefused, EnterExport,
         Replay, Perform, SettleFails, DieExporting, Report, SaveReport
<1>2. ASSUME NEW n, NEW fake, NEW most,
             export' = [number |-> n, fake |-> fake, refs |-> << >>, allowed |-> most],
             most \in 0 .. MaxPosts, n <= MaxDrives
      PROVE  /\ export'.number <= MaxDrives /\ export'.allowed \in 0 .. MaxPosts
             /\ Len(export'.refs) <= export'.allowed
  <2>1. export'.number = n /\ export'.allowed = most /\ export'.refs = << >>
    BY <1>2
  <2> QED
    BY <1>2, <2>1
<1>12. ASSUME NEW row, posted' = posted \/ posted' = posted \cup {row}
       PROVE  IsFiniteSet(posted')
  <2>1. IsFiniteSet(posted)
    BY DEF DeliveryRest
  <2> QED
    BY <1>12, <2>1, FS_AddElement
<1>3. CASE RenderPost
  <2>1. posts < MaxPosts /\ posts' = posts + 1 /\ UNCHANGED <<stage, export, saved, posted>>
    BY <1>3 DEF RenderPost
  <2>2. Len(renderings') \in Nat /\ Len(renderings') <= Len(renderings) + 1
    <3>1. PICK name \in Names, body \in Bodies :
              renderings' = IF Withheld(name, body) THEN renderings
                            ELSE Rendered(name, InRange(name, Trimmed(name, body)))
      BY <1>3 DEF RenderPost
    <3> DEFINE new == [name |-> name, body |-> InRange(name, Trimmed(name, body))]
    <3>2. CASE renderings' = renderings
      BY <1>0, <3>2
    <3>3. CASE renderings' = Append(renderings, new)
      <4> HIDE DEF new
      <4>1. renderings \in Seq(Rendering \cup {new})
        BY <1>0, SeqRetyped, LenProperties
      <4>2. Len(Append(renderings, new)) = Len(renderings) + 1
        BY <4>1
      <4> QED
        BY <1>0, <3>3, <4>2
    <3>4. CASE renderings' = [i \in DOMAIN renderings |->
                                 IF renderings[i].name = name THEN new ELSE renderings[i]]
      <4> HIDE DEF new
      <4>1. DOMAIN renderings = 1 .. Len(renderings)
        BY <1>0
      <4>2. renderings' = [i \in 1 .. Len(renderings) |->
                               IF renderings[i].name = name THEN new ELSE renderings[i]]
        BY <3>4, <4>1
      <4>3. Len(renderings') = Len(renderings)
        BY <1>0, <4>2
      <4> QED
        BY <1>0, <4>3
    <3> QED
      BY <3>1, <3>2, <3>3, <3>4 DEF Rendered
  <2>3. posts' \in 0 .. MaxPosts /\ Len(renderings') <= posts'
    BY <1>0, <1>1, <2>1, <2>2
  <2> QED
    BY <1>13, <1>1, <2>1, <2>3 DEF DeliveryRest
<1>4. CASE Park
  <2>1. stage' = "parked" /\ UNCHANGED <<posts, renderings, export, saved, posted>>
    BY <1>4 DEF Park
  <2> QED
    BY <1>13, <1>1, <2>1 DEF DeliveryRest
<1>5. CASE ExportRefused
  <2>1. /\ stage' = "over" /\ UNCHANGED <<posts, renderings, posted>> /\ export.number < MaxDrives
        /\ export' = [number |-> export.number + 1, fake |-> FALSE, refs |-> << >>, allowed |-> 0]
        /\ saved'.simulated = FALSE /\ saved'.not_published = Range(Pieces)
    BY <1>5 DEF ExportRefused, NoDrive, NoReport
  <2>2. saved'.not_published \subseteq PostKeys
    BY <1>0, <2>1, PiecesAreShown
  <2>3. export.number + 1 <= MaxDrives
    BY <1>0, <2>1
  <2>4. /\ export'.number <= MaxDrives /\ export'.allowed \in 0 .. MaxPosts
        /\ Len(export'.refs) <= export'.allowed
    BY <1>0, <1>2, <2>1, <2>3
  <2> QED
    BY <1>13, <1>1, <2>1, <2>2, <2>4 DEF DeliveryRest
<1>6. CASE EnterExport
  <2>1. /\ stage' = "exporting" /\ UNCHANGED <<posts, renderings, saved, posted>>
        /\ export.number < MaxDrives
    BY <1>6 DEF EnterExport
  <2>2. PICK fake \in BOOLEAN, others \in 0 .. WeeklyCap :
            export' = [number |-> export.number + 1, fake |-> fake, refs |-> << >>,
                       allowed |-> Min({headroom(others), Len(Pieces)})]
    BY <1>6 DEF EnterExport
  <2>3. Len(Pieces) \in 0 .. MaxPosts
    BY <1>0, <1>1, PiecesAreFew
  <2>4. published_this_week \in Nat
    <3> DEFINE counted == {row \in posted : row.status \in {"in_flight", "succeeded"}}
    <3>1. IsFiniteSet(posted) /\ counted \in SUBSET posted
      BY DEF DeliveryRest
    <3> HIDE DEF counted
    <3>2. Cardinality(counted) \in Nat
      BY <3>1, FS_Subset, FS_CardinalityType
    <3> QED
      BY <3>2 DEF published_this_week, counted
  <2>5. headroom(others) \in Nat
    BY <1>0, <2>4 DEF headroom
  <2>6. Min({headroom(others), Len(Pieces)}) \in 0 .. MaxPosts
    <3>1. \A m \in Nat : Min({m, Len(Pieces)}) \in 0 .. MaxPosts
      BY <1>0, <2>3, MinOfTwo
    <3> QED
      BY <2>5, <3>1
  <2> QED
    BY <1>13, <1>0, <1>1, <1>2, <2>1, <2>2, <2>6 DEF DeliveryRest
<1>7. CASE \E key \in Range(Pieces) : Replay(key) \/ Perform(key) \/ SettleFails(key)
  <2>1. PICK key \in Range(Pieces) : Replay(key) \/ Perform(key) \/ SettleFails(key)
    BY <1>7
  <2>2. Len(export.refs) < export.allowed /\ posts' = posts
    BY <2>1 DEF Replay, Perform, SettleFails, Upcoming
  <2>3. UNCHANGED <<validating, renderings, stage, saved>>
    BY <2>1, AnswerOfTheLoop
  <2>4. PICK status, fake :
            export' = [export EXCEPT !.refs = Append(@, [key |-> key, status |-> status,
                                                         fake |-> fake])]
    BY <2>1, AnswerOfTheLoop
  <2> DEFINE answer == [key |-> key, status |-> status, fake |-> fake]
  <2>5. /\ export'.number = export.number /\ export'.allowed = export.allowed
        /\ export'.refs = Append(export.refs, answer)
    BY <1>0, <2>4 DEF IsDrive
  <2> HIDE DEF answer
  <2>6. export.refs \in Seq(AnswersGiven \cup {answer})
    BY <1>0, SeqRetyped, LenProperties
  <2>7. Len(export'.refs) = Len(export.refs) + 1
    BY <2>5, <2>6
  <2>8. Len(export'.refs) <= export'.allowed
    BY <1>0, <1>1, <2>2, <2>5, <2>7
  <2>9. IsFiniteSet(posted')
    <3>1. \E row : posted' = posted \/ posted' = posted \cup {row}
      BY <2>1 DEF Replay, Perform, SettleFails, Settled, Unsettled
    <3> QED
      BY <1>12, <3>1
  <2> QED
    BY <1>13, <1>1, <2>2, <2>3, <2>5, <2>8, <2>9 DEF DeliveryRest
<1>8. CASE DieExporting
  <2>1. stage' = "parked" /\ UNCHANGED <<posts, renderings, saved>>
        /\ export' = [number |-> export.number, fake |-> FALSE, refs |-> << >>, allowed |-> 0]
    BY <1>8 DEF DieExporting, NoDrive
  <2>2. IsFiniteSet(posted')
    <3>1. \E row : posted' = posted \/ posted' = posted \cup {row}
      BY <1>8 DEF DieExporting, Unsettled
    <3> QED
      BY <1>12, <3>1
  <2> QED
    BY <1>13, <1>0, <1>1, <1>2, <2>1, <2>2 DEF DeliveryRest
<1>9. CASE Report
  <2>1. stage' = "reported" /\ UNCHANGED <<posts, renderings, export, saved, posted>>
    BY <1>9 DEF Report
  <2> QED
    BY <1>13, <1>1, <2>1 DEF DeliveryRest
<1>10. CASE SaveReport
  <2>1. UNCHANGED <<posts, renderings, posted>> /\ stage' \in {"over", "parked"}
    BY <1>10 DEF SaveReport
  <2>2. CASE saved' = ReportOf(export.refs) /\ UNCHANGED export
    <3>1. saved'.simulated \in BOOLEAN
      BY <2>2 DEF ReportOf, simulated
    <3>2. saved'.not_published \subseteq Range(Pieces)
      BY <2>2 DEF ReportOf, Range
    <3>3. saved'.not_published \subseteq PostKeys
      BY <1>0, <3>2, PiecesAreShown
    <3> QED
      BY <1>13, <1>1, <2>1, <2>2, <3>1, <3>3 DEF DeliveryRest
  <2>3. CASE UNCHANGED saved /\ export' = [NoDrive EXCEPT !.number = export.number]
    <3>1. export' = [number |-> export.number, fake |-> FALSE, refs |-> << >>, allowed |-> 0]
      BY <2>3 DEF NoDrive
    <3> QED
      BY <1>0, <1>13, <1>1, <1>2, <2>1, <2>3, <3>1 DEF DeliveryRest
  <2> QED
    BY <1>10, <2>2, <2>3 DEF SaveReport
<1>11. CASE UNCHANGED deliveryVars
  <2>1. UNCHANGED <<posts, renderings, stage, export, saved, posted>>
    BY <1>11 DEF deliveryVars
  <2> QED
    BY <1>13, <1>1, <2>1 DEF DeliveryRest
<1> QED
  BY <1>3, <1>4, <1>5, <1>6, <1>7, <1>8, <1>9, <1>10, <1>11 DEF DeliveryNext

(* The delivery's variables have their types; in particular a drive never   *)
(* answers for more posts than the week left it (agents/nodes, EXPORT).     *)
THEOREM DeliveryTypeCorrect == DeliverySpec => []DeliveryTypeOK
<1>1. DeliveryInit => DeliveryRest
  <2> SUFFICES ASSUME DeliveryInit PROVE DeliveryRest
    OBVIOUS
  <2>1. /\ export.number = 0 /\ export.allowed = 0 /\ export.refs = << >>
        /\ saved.simulated \in BOOLEAN /\ saved.not_published = {}
    BY DEF DeliveryInit, NoDrive, NoReport
  <2>2. /\ posts = 0 /\ renderings = << >> /\ stage = "repack" /\ IsFiniteSet(posted)
        /\ validating \in BOOLEAN
    BY FS_EmptySet DEF DeliveryInit
  <2>3. MaxPosts \in Nat /\ MaxDrives \in Nat
    BY DeliveryAssumption
  <2>4. /\ posts \in 0 .. MaxPosts /\ Len(renderings) <= posts
        /\ export.number <= MaxDrives /\ export.allowed \in 0 .. MaxPosts
        /\ Len(export.refs) <= export.allowed /\ saved.not_published \subseteq PostKeys
    BY <2>1, <2>2, <2>3
  <2> QED
    BY <2>1, <2>2, <2>4 DEF DeliveryRest
<1> QED
  BY <1>1, DeliveryInvariant, DeliveryInvNext, DeliveryRestKept, DeliveryTypesFollow, PTL
  DEF DeliverySpec

-----------------------------------------------------------------------------
(* A node's turn: what a grader said, and the best attempt.                 *)

(* The greatest of some places of a list is one of them.                    *)
LEMMA LastPlace ==
    ASSUME NEW n \in Nat, NEW S, S \subseteq 1 .. n, S # {}
    PROVE  Max(S) \in S
<1>1. S \subseteq 0 .. n
  OBVIOUS
<1>2. PICK t \in S : \A u \in S : u <= t
  BY <1>1, HasGreatest, Zenon
<1>3. \A u \in S : t >= u
  BY <1>1, <1>2
<1> QED
  BY <1>2, <1>3, Zenon DEF Max

(* A passage that counts as relevant was called so by the grader.           *)
LEMMA RelevantWasSaid ==
    ASSUME NEW found \in Seq(Chunks), NEW answer \in GradeAnswers(found)
    PROVE  LET said == {found[answer[i].label] :
                           i \in {k \in Valid(answer, found) : answer[k].grade = "relevant"}}
           IN  /\ Graded(answer, found, "relevant") \subseteq said
               /\ said \subseteq Chunks
               /\ \A g : Graded(answer, found, g) \subseteq Chunks
<1> DEFINE Named(l) == {i \in Valid(answer, found) : answer[i].label = l}
           Called == {k \in Valid(answer, found) : answer[k].grade = "relevant"}
<1>1. PICK n \in 0 .. MaxGrades : answer \in [1 .. n -> [label : 1 .. Len(found) + 1, grade : Grades]]
  BY DEF GradeAnswers
<1>2. n \in Nat /\ DOMAIN answer = 1 .. n
  BY <1>1, NodeTurnAssumption
<1>3. \A l : Named(l) \subseteq 1 .. n
  BY <1>2 DEF Valid
<1>4. ASSUME NEW l \in DOMAIN found, GradeOf(answer, found, l) = "relevant"
      PROVE  \E i \in Called : found[l] = found[answer[i].label]
  <2>1. Named(l) # {}
    BY <1>4 DEF GradeOf
  <2>2. Max(Named(l)) \in Named(l)
    <3> HIDE DEF Named
    <3> QED
      BY <1>2, <1>3, <2>1, LastPlace
  <2>3. answer[Max(Named(l))].grade = "relevant"
    BY <1>4, <2>1 DEF GradeOf
  <2> QED
    BY <2>2, <2>3
<1>5. \A l \in DOMAIN found : found[l] \in Chunks
  OBVIOUS
<1>6. \A i \in Called : answer[i].label \in DOMAIN found
  BY DEF Valid
<1> QED
  BY <1>4, <1>5, <1>6 DEF Graded

Attempts == [relevant : SUBSET Chunks, partial : SUBSET Chunks]

(* Of attempts that were made one is the best.                              *)
LEMMA BestIsOne ==
    ASSUME NEW tried \in Seq(Attempts), tried # << >>
    PROVE  \E k \in DOMAIN tried :
               /\ best_attempt(tried) = tried[k]
               /\ \A j \in DOMAIN tried :
                     Cardinality(tried[j].relevant) <= Cardinality(tried[k].relevant)
<1> DEFINE C == [i \in DOMAIN tried |-> Cardinality(tried[i].relevant)]
           W == Cardinality(Chunks)
           Sizes == {C[i] : i \in DOMAIN tried}
<1>1. DOMAIN tried = 1 .. Len(tried) /\ Len(tried) \in Nat /\ 1 \in DOMAIN tried
  OBVIOUS
<1>2. \A i \in DOMAIN tried : C[i] = Cardinality(tried[i].relevant)
  OBVIOUS
<1>3. W \in Nat
  BY NodeTurnAssumption, FS_CardinalityType
<1>4. \A i \in DOMAIN tried : C[i] \in Nat /\ C[i] <= W
  <2> TAKE i \in DOMAIN tried
  <2>1. tried[i].relevant \in SUBSET Chunks
    <3>1. tried[i] \in Attempts
      OBVIOUS
    <3> QED
      BY <3>1 DEF Attempts
  <2>2. /\ Cardinality(tried[i].relevant) \in Nat
        /\ Cardinality(tried[i].relevant) <= Cardinality(Chunks)
    BY <2>1, NodeTurnAssumption, FS_Subset, FS_CardinalityType
  <2> QED
    BY <2>2
<1> HIDE DEF C, W
<1>5. Sizes \subseteq 0 .. W /\ Sizes # {}
  BY <1>1, <1>4
<1>6. PICK s \in Sizes : \A u \in Sizes : u <= s
  <2> HIDE DEF Sizes
  <2> QED
    BY <1>3, <1>5, HasGreatest, Zenon
<1> DEFINE TopPlaces == {i \in DOMAIN tried : C[i] = s}
<1>7. TopPlaces \subseteq 0 .. Len(tried) /\ TopPlaces # {}
  BY <1>1, <1>6
<1>8. PICK t \in TopPlaces : \A u \in TopPlaces : u <= t
  <2> HIDE DEF TopPlaces
  <2> QED
    BY <1>1, <1>7, HasGreatest, Zenon
<1>9. \A j \in DOMAIN tried : NotWorse(tried, t, j)
  <2> TAKE j \in DOMAIN tried
  <2>1. C[j] <= s /\ C[t] = s /\ t \in DOMAIN tried
    BY <1>6, <1>8
  <2>2. C[j] = s => j <= t
    BY <1>8
  <2>3. C[j] \in Nat /\ s \in Nat /\ t \in Nat /\ j \in Nat
    BY <1>1, <1>4, <2>1
  <2>4. C[j] = Cardinality(tried[j].relevant) /\ C[t] = Cardinality(tried[t].relevant)
    BY <1>2, <2>1
  <2> QED
    BY <2>1, <2>2, <2>3, <2>4 DEF NotWorse
<1> DEFINE k == CHOOSE i \in DOMAIN tried : \A j \in DOMAIN tried : NotWorse(tried, i, j)
<1>10. k \in DOMAIN tried /\ \A j \in DOMAIN tried : NotWorse(tried, k, j)
  BY <1>8, <1>9, Zenon
<1>11. best_attempt(tried) = tried[k]
  BY Zenon DEF best_attempt
<1>12. \A j \in DOMAIN tried : C[j] <= C[k]
  <2> HIDE DEF k
  <2> QED
    BY <1>2, <1>4, <1>10 DEF NotWorse
<1> QED
  BY <1>10, <1>11, <1>12, <1>2

(* What a turn keeps: every attempt's relevant passages were vouched for,   *)
(* no attempt met the threshold while the loop goes on, and what is cited   *)
(* is what the outcome says.                                                *)
TurnStates == [step : {"resting", "deciding", "searching", "grading", "rewriting", "asking",
                       "answered", "failed"},
               limit : Nat, found : Seq(Chunks), tried : Seq(Attempts),
               vouched : SUBSET Chunks,
               outcome : {"none", "sufficient", "fallback_to_web", "not_needed", "failed"},
               cited : SUBSET Chunks, round : Nat, ran : SUBSET Known, refused : SUBSET Known]

Looping == {"deciding", "searching", "grading", "rewriting"}

AllVouched(now) == \A i \in DOMAIN now.tried : now.tried[i].relevant \subseteq now.vouched

NoneSuffices(now) ==
    \A i \in DOMAIN now.tried : Cardinality(now.tried[i].relevant) < MinRelevant

OutcomeIsTrue(now) ==
    /\ now.cited \subseteq now.vouched
    /\ now.outcome = "sufficient" => Cardinality(now.cited) >= MinRelevant
    /\ now.outcome = "fallback_to_web" => NoneSuffices(now)

TurnHolds(now) ==
    /\ now \in TurnStates
    /\ AllVouched(now)
    /\ now.step \in Looping => NoneSuffices(now)
    /\ now.step = "deciding" => now.tried = << >>
    /\ OutcomeIsTrue(now)

TurnInv == TurnHolds(turn)

(* The turn at rest is such a state, and so is one that begins or ends.     *)
LEMMA RestHolds ==
    /\ TurnHolds(RestingTurn)
    /\ TurnHolds([RestingTurn EXCEPT !.step = "deciding"])
    /\ TurnHolds([RestingTurn EXCEPT !.step = "asking"])
    /\ TurnHolds([RestingTurn EXCEPT !.step = "asking", !.outcome = "failed"])
<1>1. /\ SearchLimit \in Nat /\ << >> \in Seq(Chunks) /\ << >> \in Seq(Attempts)
      /\ {} \in SUBSET Chunks /\ {} \in SUBSET Known
  BY NodeTurnAssumption
<1>2. RestingTurn \in TurnStates
  BY <1>1 DEF RestingTurn, TurnStates
<1>3. RestingTurn.tried = << >> /\ RestingTurn.cited = {} /\ RestingTurn.outcome = "none"
      /\ RestingTurn.step = "resting"
  BY DEF RestingTurn
<1>4. \A new \in TurnStates :
          new.tried = << >> /\ new.cited = {} /\ new.outcome \in {"none", "failed"}
              => TurnHolds(new)
  BY DEF TurnHolds, AllVouched, NoneSuffices, OutcomeIsTrue
<1>5. ASSUME NEW s \in {"deciding", "asking"}, NEW o \in {"none", "failed"}
      PROVE  TurnHolds([RestingTurn EXCEPT !.step = s, !.outcome = o])
  <2> DEFINE new == [RestingTurn EXCEPT !.step = s, !.outcome = o]
  <2>1. new \in TurnStates
    BY <1>2 DEF TurnStates
  <2>2. new.tried = << >> /\ new.cited = {} /\ new.outcome \in {"none", "failed"}
    BY <1>2, <1>3 DEF TurnStates
  <2> HIDE DEF new
  <2>3. TurnHolds(new)
    BY <1>4, <2>1, <2>2
  <2> QED
    BY <2>3 DEF new
<1>6. ASSUME NEW s \in {"deciding", "asking"}
      PROVE  TurnHolds([RestingTurn EXCEPT !.step = s])
  <2>1. [RestingTurn EXCEPT !.step = s] \in TurnStates
    BY <1>2 DEF TurnStates
  <2>2. /\ [RestingTurn EXCEPT !.step = s].tried = << >>
        /\ [RestingTurn EXCEPT !.step = s].cited = {}
        /\ [RestingTurn EXCEPT !.step = s].outcome = "none"
    BY <1>2, <1>3 DEF TurnStates
  <2> QED
    BY <1>4, <2>1, <2>2
<1> QED
  BY <1>2, <1>3, <1>4, <1>5, <1>6

(* So is the turn after a retrieval returned, when its outcome is what the  *)
(* attempts say.                                                            *)
LEMMA ReturnHolds ==
    ASSUME NEW now \in TurnStates, AllVouched(now),
           NEW o \in {"sufficient", "fallback_to_web", "not_needed"},
           o = "sufficient" => \E i \in DOMAIN now.tried :
                                   Cardinality(now.tried[i].relevant) >= MinRelevant,
           o = "fallback_to_web" => NoneSuffices(now)
    PROVE  LET cited == IF now.tried = << >> THEN {} ELSE best_attempt(now.tried).relevant
           IN  TurnHolds([now EXCEPT !.step = "asking", !.outcome = o, !.cited = cited])
<1> DEFINE cited == IF now.tried = << >> THEN {} ELSE best_attempt(now.tried).relevant
           new == [now EXCEPT !.step = "asking", !.outcome = o, !.cited = cited]
<1>1. now.tried \in Seq(Attempts) /\ now.vouched \subseteq Chunks
  BY DEF TurnStates
<1>2. /\ cited \subseteq now.vouched
      /\ o = "sufficient" => Cardinality(cited) >= MinRelevant
  <2>1. CASE now.tried = << >>
    BY <2>1
  <2>2. CASE now.tried # << >>
    <3>1. PICK k \in DOMAIN now.tried :
              /\ best_attempt(now.tried) = now.tried[k]
              /\ \A j \in DOMAIN now.tried :
                    Cardinality(now.tried[j].relevant) <= Cardinality(now.tried[k].relevant)
      BY <1>1, <2>2, BestIsOne
    <3>2. cited = now.tried[k].relevant
      BY <2>2, <3>1
    <3>3. \A i \in DOMAIN now.tried : Cardinality(now.tried[i].relevant) \in Nat
      <4> TAKE i \in DOMAIN now.tried
      <4>1. now.tried[i] \in Attempts
        BY <1>1
      <4>2. now.tried[i].relevant \in SUBSET Chunks
        BY <4>1 DEF Attempts
      <4> QED
        BY <4>2, NodeTurnAssumption, FS_Subset, FS_CardinalityType
    <3>4. MinRelevant \in Nat
      BY NodeTurnAssumption
    <3> HIDE DEF cited
    <3>5. cited \subseteq now.vouched
      BY <3>1, <3>2 DEF AllVouched
    <3>6. o = "sufficient" => Cardinality(cited) >= MinRelevant
      BY <3>1, <3>2, <3>3, <3>4
    <3> QED
      BY <3>5, <3>6
  <2> QED
    BY <2>1, <2>2
<1>3. /\ new.tried = now.tried /\ new.vouched = now.vouched /\ new.cited = cited
      /\ new.outcome = o /\ new.step = "asking"
  BY DEF TurnStates
<1>4. new \in TurnStates
  <2>1. cited \subseteq Chunks
    BY <1>1, <1>2
  <2> HIDE DEF cited
  <2> QED
    BY <2>1 DEF TurnStates
<1> HIDE DEF new, cited
<1>5. TurnHolds(new)
  BY <1>2, <1>3, <1>4 DEF TurnHolds, AllVouched, NoneSuffices, OutcomeIsTrue, Looping
<1> QED
  BY <1>5 DEF new, cited

(* The attempt that is over joins the others, and the turn still holds.     *)
LEMMA JudgeHolds ==
    ASSUME NEW now \in TurnStates, AllVouched(now), NoneSuffices(now), OutcomeIsTrue(now),
           now.step \in Looping,
           NEW relevant \in SUBSET now.vouched, NEW partial \in SUBSET Chunks
    PROVE  Judge(now, relevant, partial) => TurnHolds(turn')
<1> DEFINE try == [relevant |-> relevant, partial |-> partial]
           then == [now EXCEPT !.tried = Append(@, try)]
<1>1. now.tried \in Seq(Attempts) /\ now.vouched \subseteq Chunks
  BY DEF TurnStates
<1>2. try \in Attempts /\ try.relevant = relevant
  BY <1>1 DEF Attempts
<1> HIDE DEF try
<1>3. /\ Append(now.tried, try) \in Seq(Attempts)
      /\ DOMAIN Append(now.tried, try) = 1 .. Len(now.tried) + 1
      /\ \A i \in DOMAIN Append(now.tried, try) :
            Append(now.tried, try)[i] = IF i = Len(now.tried) + 1 THEN try ELSE now.tried[i]
      /\ DOMAIN now.tried = 1 .. Len(now.tried) /\ Len(now.tried) \in Nat
  BY <1>1, <1>2
<1>4. /\ then.tried = Append(now.tried, try) /\ then.vouched = now.vouched
      /\ then.cited = now.cited /\ then.outcome = now.outcome
      /\ then.step = now.step /\ then \in TurnStates
  BY <1>3 DEF TurnStates
<1> HIDE DEF then
<1>5. \A i \in DOMAIN then.tried :
          \/ i \in DOMAIN now.tried /\ then.tried[i] = now.tried[i]
          \/ then.tried[i] = try
  BY <1>3, <1>4
<1>6. AllVouched(then)
  BY <1>2, <1>4, <1>5 DEF AllVouched
<1>7. MinRelevant \in Nat /\ Cardinality(relevant) \in Nat
  <2>1. relevant \in SUBSET Chunks
    BY <1>1
  <2> QED
    BY <2>1, NodeTurnAssumption, FS_Subset, FS_CardinalityType
<1>8. CASE Cardinality(relevant) >= MinRelevant
  <2>1. \E i \in DOMAIN then.tried : Cardinality(then.tried[i].relevant) >= MinRelevant
    <3>1. Len(now.tried) + 1 \in DOMAIN then.tried
      BY <1>3, <1>4
    <3>2. then.tried[Len(now.tried) + 1].relevant = relevant
      BY <1>2, <1>3, <1>4, <3>1
    <3> QED
      BY <1>8, <3>1, <3>2
  <2>2. Judge(now, relevant, partial) => Return(then, "sufficient")
    BY <1>8 DEF Judge, then, try
  <2> QED
    BY <1>4, <1>6, <2>1, <2>2, ReturnHolds DEF Return, SetTurn
<1>9. CASE ~(Cardinality(relevant) >= MinRelevant)
  <2>1. NoneSuffices(then)
    BY <1>2, <1>5, <1>7, <1>9 DEF NoneSuffices
  <2>2. Judge(now, relevant, partial) =>
            \/ Return(then, "fallback_to_web")
            \/ SetTurn([then EXCEPT !.step = "rewriting"])
    BY <1>9 DEF Judge, then, try
  <2>3. Return(then, "fallback_to_web") => TurnHolds(turn')
    BY <1>4, <1>6, <2>1, ReturnHolds DEF Return, SetTurn
  <2>4. SetTurn([then EXCEPT !.step = "rewriting"]) => TurnHolds(turn')
    <3> DEFINE new == [then EXCEPT !.step = "rewriting"]
    <3>1. /\ new \in TurnStates /\ new.tried = then.tried /\ new.vouched = then.vouched
          /\ new.cited = then.cited /\ new.outcome = then.outcome /\ new.step = "rewriting"
      BY <1>4 DEF TurnStates
    <3> HIDE DEF new
    <3>2. TurnHolds(new)
      BY <1>4, <1>6, <2>1, <3>1 DEF TurnHolds, AllVouched, NoneSuffices, OutcomeIsTrue
    <3> QED
      BY <3>2 DEF SetTurn, new
  <2> QED
    BY <2>2, <2>3, <2>4
<1> QED
  BY <1>8, <1>9

(* A retrieval keeps what the turn keeps.                                   *)
LEMMA RetrievalKeepsTurn ==
    TurnInv /\ (Decide \/ Search \/ Grade \/ Rewrite) => TurnInv'
<1> SUFFICES ASSUME TurnInv, Decide \/ Search \/ Grade \/ Rewrite
             PROVE  TurnHolds(turn')
  BY DEF TurnInv
<1>0. /\ turn \in TurnStates /\ AllVouched(turn) /\ OutcomeIsTrue(turn)
      /\ turn.step \in Looping => NoneSuffices(turn)
      /\ turn.step = "deciding" => turn.tried = << >>
  BY DEF TurnInv, TurnHolds
<1>1. ASSUME Raised PROVE TurnHolds(turn')
  BY <1>1, RestHolds DEF Raised, SetTurn
<1>2. CASE Decide
  <2>1. turn.step = "deciding" /\ NoneSuffices(turn)
    BY <1>0, <1>2 DEF Decide, Looping
  <2>2. CASE SetTurn([turn EXCEPT !.step = "searching"])
    <3> DEFINE new == [turn EXCEPT !.step = "searching"]
    <3>1. /\ new \in TurnStates /\ new.tried = turn.tried /\ new.vouched = turn.vouched
          /\ new.cited = turn.cited /\ new.outcome = turn.outcome /\ new.step = "searching"
      BY <1>0 DEF TurnStates
    <3> HIDE DEF new
    <3>2. TurnHolds(new)
      BY <1>0, <2>1, <3>1 DEF TurnHolds, AllVouched, NoneSuffices, OutcomeIsTrue
    <3> QED
      BY <2>2, <3>2 DEF SetTurn, new
  <2>3. CASE Return(turn, "not_needed")
    BY <1>0, <2>3, ReturnHolds DEF Return, SetTurn
  <2> QED
    BY <1>1, <1>2, <2>2, <2>3 DEF Decide
<1>3. CASE Search
  <2>1. turn.step = "searching" /\ NoneSuffices(turn)
    BY <1>0, <1>3 DEF Search, Looping
  <2>2. CASE \E n \in 1 .. turn.limit : \E found \in Injection(1 .. n, Chunks) :
                 SetTurn([turn EXCEPT !.step = "grading", !.found = found])
    <3>1. PICK n \in 1 .. turn.limit : \E found \in Injection(1 .. n, Chunks) :
                 SetTurn([turn EXCEPT !.step = "grading", !.found = found])
      BY <2>2
    <3>2. PICK found \in Injection(1 .. n, Chunks) :
                 SetTurn([turn EXCEPT !.step = "grading", !.found = found])
      BY <3>1
    <3>3. n \in Nat /\ found \in [1 .. n -> Chunks]
      BY <1>0, <3>1, <3>2 DEF TurnStates, Injection
    <3>4. found \in Seq(Chunks)
      BY <3>3
    <3> DEFINE new == [turn EXCEPT !.step = "grading", !.found = found]
    <3>5. /\ new \in TurnStates /\ new.tried = turn.tried /\ new.vouched = turn.vouched
          /\ new.cited = turn.cited /\ new.outcome = turn.outcome /\ new.step = "grading"
      BY <1>0, <3>4 DEF TurnStates
    <3> HIDE DEF new
    <3>6. TurnHolds(new)
      BY <1>0, <2>1, <3>5 DEF TurnHolds, AllVouched, NoneSuffices, OutcomeIsTrue
    <3> QED
      BY <3>2, <3>6 DEF SetTurn, new
  <2>3. CASE Judge(turn, {}, {})
    BY <1>0, <2>1, <2>3, JudgeHolds DEF Looping
  <2> QED
    BY <1>1, <1>3, <2>2, <2>3 DEF Search
<1>4. CASE Grade
  <2>1. turn.step = "grading" /\ NoneSuffices(turn) /\ turn.found \in Seq(Chunks)
    BY <1>0, <1>4 DEF Grade, Looping, TurnStates
  <2>2. CASE \E graded \in Gradings(turn.found) :
                 Judge([turn EXCEPT !.vouched = @ \cup graded.said, !.found = << >>],
                       graded.relevant, graded.partial)
    <3>1. PICK graded \in Gradings(turn.found) :
                 Judge([turn EXCEPT !.vouched = @ \cup graded.said, !.found = << >>],
                       graded.relevant, graded.partial)
      BY <2>2
    <3>2. graded.relevant \subseteq graded.said /\ (graded.said \cup graded.partial) \subseteq Chunks
      BY <2>1, <3>1, RelevantWasSaid DEF Gradings
    <3> DEFINE now == [turn EXCEPT !.vouched = @ \cup graded.said, !.found = << >>]
    <3>0. << >> \in Seq(Chunks) /\ turn.vouched \cup graded.said \in SUBSET Chunks
      BY <1>0, <3>2 DEF TurnStates
    <3>3. /\ now \in TurnStates /\ now.tried = turn.tried
          /\ now.vouched = turn.vouched \cup graded.said
          /\ now.cited = turn.cited /\ now.outcome = turn.outcome /\ now.step = "grading"
      BY <1>0, <2>1, <3>0 DEF TurnStates
    <3>4. Judge(now, graded.relevant, graded.partial)
      BY <3>1
    <3> HIDE DEF now
    <3>5. AllVouched(now) /\ NoneSuffices(now) /\ OutcomeIsTrue(now)
      BY <1>0, <2>1, <3>3 DEF AllVouched, NoneSuffices, OutcomeIsTrue
    <3> QED
      BY <3>2, <3>3, <3>4, <3>5, JudgeHolds DEF Looping
  <2> QED
    BY <1>1, <1>4, <2>2 DEF Grade
<1>5. CASE Rewrite
  <2>1. turn.step = "rewriting" /\ NoneSuffices(turn)
    BY <1>0, <1>5 DEF Rewrite, Looping
  <2>2. CASE SetTurn([turn EXCEPT !.step = "searching", !.limit = 2 * @])
    <3> DEFINE new == [turn EXCEPT !.step = "searching", !.limit = 2 * @]
    <3>0. turn.limit \in Nat /\ 2 * turn.limit \in Nat
      BY <1>0 DEF TurnStates
    <3>1. /\ new \in TurnStates /\ new.tried = turn.tried /\ new.vouched = turn.vouched
          /\ new.cited = turn.cited /\ new.outcome = turn.outcome /\ new.step = "searching"
      BY <1>0, <3>0 DEF TurnStates
    <3> HIDE DEF new
    <3>2. TurnHolds(new)
      BY <1>0, <2>1, <3>1 DEF TurnHolds, AllVouched, NoneSuffices, OutcomeIsTrue
    <3> QED
      BY <2>2, <3>2 DEF SetTurn, new
  <2> QED
    BY <1>1, <1>5, <2>2 DEF Rewrite
<1> QED
  BY <1>2, <1>3, <1>4, <1>5

(* So does every other step of a turn.                                      *)
LEMMA TurnInvNext == TurnInv /\ [TurnNext]_turnVars => TurnInv'
<1> SUFFICES ASSUME TurnInv, [TurnNext]_turnVars PROVE TurnInv'
  OBVIOUS
<1>1. CASE UNCHANGED turn
  BY <1>1 DEF TurnInv
<1>2. CASE BeginTurn
  BY <1>2, RestHolds DEF BeginTurn, SetTurn, TurnInv
<1>3. CASE EndTurn
  BY <1>3, RestHolds DEF EndTurn, SetTurn, TurnInv
<1>4. CASE OwnToolRevoked \/ AskModel \/ AskFails
  <2>1. /\ turn \in TurnStates /\ AllVouched(turn) /\ OutcomeIsTrue(turn)
    BY DEF TurnInv, TurnHolds
  <2>2. PICK s \in {"asking", "answered", "failed"}, n \in Nat, ran \in SUBSET Known,
             refused \in SUBSET Known :
                 turn' = [turn EXCEPT !.step = s, !.round = n, !.ran = ran, !.refused = refused]
    <3>1. CASE OwnToolRevoked \/ AskFails
      <4>1. turn' = [turn EXCEPT !.step = "failed", !.round = turn.round, !.ran = turn.ran,
                                 !.refused = turn.refused]
        BY <2>1, <3>1 DEF OwnToolRevoked, AskFails, SetTurn, TurnStates
      <4>2. turn.round \in Nat /\ turn.ran \in SUBSET Known /\ turn.refused \in SUBSET Known
        BY <2>1 DEF TurnStates
      <4> QED
        BY <4>1, <4>2
    <3>2. CASE AskModel
      <4>1. PICK called \in SUBSET Known :
                LET runs == IF "record_page" \in called THEN {} ELSE called \cap Offered IN
                turn' = [turn EXCEPT
                            !.refused = turn.refused \cup (called \ allowed),
                            !.ran = turn.ran \cup runs,
                            !.round = turn.round + 1,
                            !.step = IF "record_page" \in called THEN "answered"
                                     ELSE IF runs = {} THEN "failed" ELSE "asking"]
        BY <3>2 DEF AskModel, SetTurn
      <4> DEFINE runs == IF "record_page" \in called THEN {} ELSE called \cap Offered
                 step == IF "record_page" \in called THEN "answered"
                         ELSE IF runs = {} THEN "failed" ELSE "asking"
      <4>2. /\ turn.round + 1 \in Nat /\ turn.ran \cup runs \in SUBSET Known
            /\ turn.refused \cup (called \ allowed) \in SUBSET Known
            /\ step \in {"asking", "answered", "failed"}
        BY <2>1, <4>1 DEF TurnStates
      <4>3. turn' = [turn EXCEPT !.step = step, !.round = turn.round + 1,
                                 !.ran = turn.ran \cup runs,
                                 !.refused = turn.refused \cup (called \ allowed)]
        BY <2>1, <4>1 DEF TurnStates
      <4> HIDE DEF runs, step
      <4> QED
        BY <4>2, <4>3
    <3> QED
      BY <1>4, <3>1, <3>2
  <2>3. /\ turn' \in TurnStates /\ turn'.tried = turn.tried /\ turn'.vouched = turn.vouched
        /\ turn'.cited = turn.cited /\ turn'.outcome = turn.outcome
        /\ turn'.step \in {"asking", "answered", "failed"}
    BY <2>1, <2>2 DEF TurnStates
  <2> QED
    BY <2>1, <2>3 DEF TurnInv, TurnHolds, AllVouched, NoneSuffices, OutcomeIsTrue, Looping
<1> QED
  BY <1>1, <1>2, <1>3, <1>4, RetrievalKeepsTurn
  DEF TurnNext, turnVars, SetRevoked, LoadRevocations

(* The turn keeps its invariant.                                            *)
LEMMA TurnInvariant == TurnSpec => []TurnInv
<1>1. TurnInit => TurnInv
  BY RestHolds DEF TurnInit, TurnInv
<1> QED
  BY <1>1, TurnInvNext, PTL DEF TurnSpec

(* What a node cites a grader called relevant in so many words, a retrieval *)
(* called sufficient cites enough of it, and the one that sends the node to *)
(* the web never had enough (nodes/__init__.py _retrieved, kb_service.py    *)
(* retrieve, _grade and _best_attempt): for any number of passages,         *)
(* attempts and entries in an answer.                                       *)
THEOREM OnlyVouchedPassagesAreCited == TurnSpec => []CitationsAreVouchedFor
<1>1. TurnInv => CitationsAreVouchedFor
  BY DEF TurnInv, TurnHolds, OutcomeIsTrue, NoneSuffices, CitationsAreVouchedFor
<1> QED
  BY <1>1, TurnInvariant, PTL

-----------------------------------------------------------------------------
(* The types of a turn, beside what TurnInv says of it.                     *)

TraceEntries == [seq : Nat, cited : SUBSET Chunks]

TurnRest ==
    /\ policy \subseteq Granted /\ revoked \subseteq Granted \cup {"unread"}
    /\ wired \subseteq Granted
    /\ traces \in Seq(TraceEntries)
    /\ turn.round <= MaxToolRounds + 1
    /\ turn.step \in Looping \cup {"asking"} => turn.round <= MaxToolRounds
    /\ turns \in 0 .. MaxTurns

(* The greater of two numbers.                                              *)
LEMMA MaxOfTwo ==
    ASSUME NEW m \in Int, NEW k \in Int
    PROVE  Max({m, k}) \in {m, k} /\ Max({m, k}) >= m /\ Max({m, k}) >= k
<1>1. \E x \in {m, k} : \A y \in {m, k} : x >= y
  BY m <= k \/ k <= m
<1> QED
  BY <1>1 DEF Max

(* The traces are numbered, and the last of them are kept.                  *)
LEMMA TracesStayTraces ==
    ASSUME NEW existing \in Seq(TraceEntries), NEW cited \in SUBSET Chunks
    PROVE  append_retrieval_trace(existing, cited) \in Seq(TraceEntries)
<1> DEFINE last == IF existing = << >> THEN 0 ELSE existing[Len(existing)].seq
           number == Max({last, Len(existing)}) + 1
           entry == [seq |-> number, cited |-> cited]
           all == Append(existing, entry)
           from == Max({1, Len(all) - MaxTraces + 1})
<1>1. Len(existing) \in Nat /\ MaxTraces \in Nat \ {0}
  BY NodeTurnAssumption
<1>2. last \in Nat
  <2>1. CASE existing = << >>
    BY <2>1
  <2>2. CASE existing # << >>
    <3>1. Len(existing) \in 1 .. Len(existing)
      BY <2>2
    <3>2. existing[Len(existing)] \in TraceEntries
      BY <3>1
    <3> QED
      BY <2>2, <3>2 DEF TraceEntries
  <2> QED
    BY <2>1, <2>2
<1> HIDE DEF last
<1>3. number \in Nat
  <2>1. last \in Int /\ Len(existing) \in Int
    BY <1>1, <1>2
  <2>2. Max({last, Len(existing)}) \in {last, Len(existing)}
    BY <2>1, MaxOfTwo, Zenon
  <2> QED
    BY <1>1, <1>2, <2>2
<1> HIDE DEF number
<1>4. entry \in TraceEntries
  BY <1>3 DEF TraceEntries
<1> HIDE DEF entry
<1>5. all \in Seq(TraceEntries) /\ Len(all) = Len(existing) + 1
  BY <1>4
<1> HIDE DEF all
<1>6. from \in 1 .. Len(all)
  <2>1. Len(all) - MaxTraces + 1 \in Int /\ Len(all) - MaxTraces + 1 <= Len(all) /\ 1 <= Len(all)
    BY <1>1, <1>5
  <2>2. Max({1, Len(all) - MaxTraces + 1}) \in {1, Len(all) - MaxTraces + 1}
        /\ Max({1, Len(all) - MaxTraces + 1}) >= 1
    <3>1. 1 \in Int
      OBVIOUS
    <3> QED
      BY <2>1, <3>1, MaxOfTwo, Zenon
  <2> QED
    BY <1>1, <1>5, <2>1, <2>2
<1> HIDE DEF from
<1>7. \A i \in from .. Len(all) : all[i] \in TraceEntries
  BY <1>1, <1>5, <1>6
<1>8. SubSeq(all, from, Len(all)) \in Seq(TraceEntries)
  BY <1>1, <1>5, <1>6, <1>7, SubSeqProperties
<1> QED
  BY <1>8 DEF append_retrieval_trace, from, all, entry, number, last

(* A retrieval that returns traces what it cites, at no cost in rounds.     *)
LEMMA ReturnTraces ==
    ASSUME NEW now \in TurnStates, NEW o, Return(now, o)
    PROVE  /\ turn'.round = now.round
           /\ traces' = append_retrieval_trace(traces, turn'.cited)
<1> DEFINE cited == IF now.tried = << >> THEN {} ELSE best_attempt(now.tried).relevant
<1>1. /\ turn' = [now EXCEPT !.step = "asking", !.outcome = o, !.cited = cited]
      /\ traces' = append_retrieval_trace(traces, cited)
  BY DEF Return, SetTurn
<1> HIDE DEF cited
<1>2. turn'.cited = cited /\ turn'.round = now.round
  BY <1>1 DEF TurnStates
<1> QED
  BY <1>1, <1>2

(* So does an attempt that is judged.                                       *)
LEMMA JudgeTraces ==
    ASSUME NEW now \in TurnStates, NEW relevant \in SUBSET Chunks, NEW partial \in SUBSET Chunks,
           Judge(now, relevant, partial)
    PROVE  /\ turn'.round = now.round
           /\ traces' = traces \/ traces' = append_retrieval_trace(traces, turn'.cited)
<1> DEFINE try == [relevant |-> relevant, partial |-> partial]
           then == [now EXCEPT !.tried = Append(@, try)]
<1>1. try \in Attempts
  BY DEF Attempts
<1> HIDE DEF try
<1>2. Append(now.tried, try) \in Seq(Attempts)
  BY <1>1 DEF TurnStates
<1>3. then \in TurnStates /\ then.round = now.round
  BY <1>2 DEF TurnStates
<1>4. \/ Return(then, "sufficient")
      \/ Return(then, "fallback_to_web")
      \/ SetTurn([then EXCEPT !.step = "rewriting"]) /\ UNCHANGED traces
  BY DEF Judge, then, try
<1> HIDE DEF then
<1>5. ASSUME SetTurn([then EXCEPT !.step = "rewriting"]) PROVE turn'.round = then.round
  BY <1>3, <1>5 DEF SetTurn, TurnStates
<1> QED
  BY <1>3, <1>4, <1>5, ReturnTraces

(* The invariant and the rest of the types make the types.                  *)
LEMMA TurnTypesFollow == TurnInv /\ TurnRest => TurnTypeOK
<1> SUFFICES ASSUME TurnInv, TurnRest PROVE TurnTypeOK
  OBVIOUS
<1>1. /\ turn.step \in {"resting", "deciding", "searching", "grading", "rewriting", "asking",
                        "answered", "failed"}
      /\ turn.limit \in Nat
      /\ turn.outcome \in {"none", "sufficient", "fallback_to_web", "not_needed", "failed"}
      /\ (turn.cited \cup turn.vouched) \subseteq Chunks
      /\ (turn.ran \cup turn.refused) \subseteq Known
      /\ turn.round \in Nat
      /\ turn.found \in Seq(Chunks) /\ turn.tried \in Seq(Attempts)
  BY DEF TurnInv, TurnHolds, TurnStates
<1>2. Range(turn.found) \subseteq Chunks
  BY <1>1 DEF Range
<1>3. ASSUME NEW i \in DOMAIN turn.tried PROVE UNION Range(turn.tried[i]) \subseteq Chunks
  <2>1. turn.tried[i] \in Attempts
    BY <1>1
  <2>2. \A x \in Range(turn.tried[i]) : x \subseteq Chunks
    BY <2>1 DEF Attempts, Range
  <2> QED
    BY <2>2
<1>4. turn.round \in 0 .. MaxToolRounds + 1
  BY <1>1, NodeTurnAssumption DEF TurnRest
<1>5. ASSUME NEW i \in DOMAIN traces PROVE traces[i].seq \in Nat /\ traces[i].cited \subseteq Chunks
  <2>1. traces[i] \in TraceEntries
    BY DEF TurnRest
  <2> QED
    BY <2>1 DEF TraceEntries
<1> QED
  BY <1>1, <1>2, <1>3, <1>4, <1>5 DEF TurnTypeOK, TurnRest

(* Every step keeps the rest of the types.                                  *)
LEMMA TurnRestKept == TurnInv /\ TurnRest /\ [TurnNext]_turnVars => TurnRest'
<1> SUFFICES ASSUME TurnInv, TurnRest, [TurnNext]_turnVars PROVE TurnRest'
  OBVIOUS
<1>0. /\ turn \in TurnStates /\ turn.round \in Nat
      /\ MaxToolRounds \in Nat /\ MaxTurns \in Nat
  BY NodeTurnAssumption DEF TurnInv, TurnHolds, TurnStates
<1>1. /\ policy \subseteq Granted /\ revoked \subseteq Granted \cup {"unread"}
      /\ wired \subseteq Granted /\ traces \in Seq(TraceEntries)
      /\ turn.round <= MaxToolRounds + 1
      /\ turn.step \in Looping \cup {"asking"} => turn.round <= MaxToolRounds
      /\ turns \in 0 .. MaxTurns
  BY DEF TurnRest
<1>2. turn'.cited \in SUBSET Chunks
  <2>1. TurnInv'
    BY TurnInvNext
  <2> QED
    BY <2>1 DEF TurnInv, TurnHolds, TurnStates
<1>3. /\ RestingTurn.round = 0 /\ RestingTurn.step = "resting"
      /\ \A s : [RestingTurn EXCEPT !.step = s].round = 0
      /\ \A s, o : [RestingTurn EXCEPT !.step = s, !.outcome = o].round = 0
  BY DEF RestingTurn
<1>4. CASE UNCHANGED turnVars
  BY <1>1, <1>4 DEF turnVars, TurnRest
<1>5. CASE SetRevoked \/ LoadRevocations
  <2>1. /\ policy' \subseteq Granted /\ revoked' \subseteq Granted \cup {"unread"}
        /\ UNCHANGED <<wired, traces, turn, turns>>
    BY <1>1, <1>5 DEF SetRevoked, LoadRevocations
  <2> QED
    BY <1>1, <2>1 DEF TurnRest
<1>6. CASE BeginTurn
  <2>1. /\ turn'.round = 0 /\ turns < MaxTurns /\ turns' = turns + 1
        /\ UNCHANGED <<policy, revoked, wired, traces>>
    BY <1>3, <1>6 DEF BeginTurn, SetTurn
  <2> QED
    BY <1>0, <1>1, <2>1 DEF TurnRest
<1>7. CASE Decide \/ Search \/ Grade \/ Rewrite
  <2>1. UNCHANGED <<policy, revoked, wired, turns>> /\ turn.step \in Looping
    BY <1>7 DEF Decide, Search, Grade, Rewrite, Retrieving, Looping
  <2> DEFINE Steps  == \E now \in TurnStates :
                           now.round = turn.round /\ turn' = now /\ traces' = traces
             Returns == \E now \in TurnStates : \E o :
                           now.round = turn.round /\ Return(now, o)
             Judges == \E now \in TurnStates, relevant \in SUBSET Chunks, partial \in SUBSET Chunks :
                           now.round = turn.round /\ Judge(now, relevant, partial)
             Goal == /\ turn'.round \in {0, turn.round}
                     /\ traces' = traces \/ traces' = append_retrieval_trace(traces, turn'.cited)
  <2>2. Raised => Goal
    BY <1>3 DEF Raised, SetTurn
  <2>3. Steps => Goal
    OBVIOUS
  <2>4. Returns => Goal
    <3> SUFFICES ASSUME NEW now \in TurnStates, NEW o, now.round = turn.round, Return(now, o)
                 PROVE  Goal
      OBVIOUS
    <3> QED
      BY ReturnTraces
  <2>5. Judges => Goal
    <3> SUFFICES ASSUME NEW now \in TurnStates, NEW relevant \in SUBSET Chunks,
                        NEW partial \in SUBSET Chunks,
                        now.round = turn.round, Judge(now, relevant, partial)
                 PROVE  Goal
      OBVIOUS
    <3> QED
      BY JudgeTraces
  <2>6. ASSUME Decide PROVE Goal
    <3>1. /\ [turn EXCEPT !.step = "searching"] \in TurnStates
          /\ [turn EXCEPT !.step = "searching"].round = turn.round
      BY <1>0 DEF TurnStates
    <3>2. SetTurn([turn EXCEPT !.step = "searching"]) /\ UNCHANGED traces => Steps
      BY <3>1 DEF SetTurn
    <3>3. Return(turn, "not_needed") => Returns
      BY <1>0
    <3> HIDE DEF Steps, Returns, Judges, Goal
    <3>4. Raised \/ Steps \/ Returns
      BY <2>6, <3>2, <3>3 DEF Decide
    <3> QED
      BY <2>2, <2>3, <2>4, <3>4
  <2>7. ASSUME Search PROVE Goal
    <3>1. ASSUME NEW n \in 1 .. turn.limit, NEW found \in Injection(1 .. n, Chunks),
                 SetTurn([turn EXCEPT !.step = "grading", !.found = found]), UNCHANGED traces
          PROVE  Steps
      <4>1. n \in Nat /\ found \in [1 .. n -> Chunks]
        BY <1>0, <3>1 DEF TurnStates, Injection
      <4>2. found \in Seq(Chunks)
        BY <4>1
      <4>3. /\ [turn EXCEPT !.step = "grading", !.found = found] \in TurnStates
            /\ [turn EXCEPT !.step = "grading", !.found = found].round = turn.round
        BY <1>0, <4>2 DEF TurnStates
      <4> QED
        BY <3>1, <4>3 DEF SetTurn
    <3>2. Judge(turn, {}, {}) => Judges
      BY <1>0
    <3> HIDE DEF Steps, Returns, Judges, Goal
    <3>3. Raised \/ Steps \/ Judges
      BY <2>7, <3>1, <3>2 DEF Search
    <3> QED
      BY <2>2, <2>3, <2>5, <3>3
  <2>8. ASSUME Grade PROVE Goal
    <3>1. ASSUME NEW graded \in Gradings(turn.found),
                 Judge([turn EXCEPT !.vouched = @ \cup graded.said, !.found = << >>],
                       graded.relevant, graded.partial)
          PROVE  Judges
      <4>1. turn.found \in Seq(Chunks)
        BY <1>0 DEF TurnStates
      <4>2. /\ graded.relevant \subseteq graded.said
            /\ (graded.said \cup graded.partial) \subseteq Chunks
        BY <3>1, <4>1, RelevantWasSaid DEF Gradings
      <4> DEFINE now == [turn EXCEPT !.vouched = @ \cup graded.said, !.found = << >>]
      <4>3. << >> \in Seq(Chunks) /\ turn.vouched \cup graded.said \in SUBSET Chunks
        BY <1>0, <4>2 DEF TurnStates
      <4>4. now \in TurnStates /\ now.round = turn.round
        BY <1>0, <4>3 DEF TurnStates
      <4>5. Judge(now, graded.relevant, graded.partial)
        BY <3>1
      <4> HIDE DEF now
      <4> QED
        BY <4>2, <4>4, <4>5
    <3> HIDE DEF Steps, Returns, Judges, Goal
    <3>2. Raised \/ Judges
      BY <2>8, <3>1 DEF Grade
    <3> QED
      BY <2>2, <2>5, <3>2
  <2>9. ASSUME Rewrite PROVE Goal
    <3>1. turn.limit \in Nat /\ 2 * turn.limit \in Nat
      BY <1>0 DEF TurnStates
    <3>2. /\ [turn EXCEPT !.step = "searching", !.limit = 2 * @] \in TurnStates
          /\ [turn EXCEPT !.step = "searching", !.limit = 2 * @].round = turn.round
      BY <1>0, <3>1 DEF TurnStates
    <3>3. SetTurn([turn EXCEPT !.step = "searching", !.limit = 2 * @]) /\ UNCHANGED traces => Steps
      BY <3>2 DEF SetTurn
    <3> HIDE DEF Steps, Returns, Judges, Goal
    <3>4. Raised \/ Steps
      BY <2>9, <3>3 DEF Rewrite
    <3> QED
      BY <2>2, <2>3, <3>4
  <2>10. /\ turn'.round \in {0, turn.round}
         /\ traces' = traces \/ traces' = append_retrieval_trace(traces, turn'.cited)
    <3>1. Goal
      BY <1>7, <2>6, <2>7, <2>8, <2>9, Zenon
    <3> HIDE DEF Steps, Returns, Judges
    <3> QED
      BY <3>1
  <2>11. turn'.round <= MaxToolRounds /\ turn'.round <= MaxToolRounds + 1
    BY <1>0, <1>1, <2>1, <2>10
  <2>12. traces' \in Seq(TraceEntries)
    <3>1. append_retrieval_trace(traces, turn'.cited) \in Seq(TraceEntries)
      BY <1>1, <1>2, TracesStayTraces, Zenon
    <3> QED
      BY <1>1, <2>10, <3>1
  <2> QED
    BY <1>0, <1>1, <2>1, <2>11, <2>12 DEF TurnRest
<1>8. CASE OwnToolRevoked \/ AskFails
  <2>1. /\ turn'.round = turn.round /\ turn'.step = "failed"
        /\ UNCHANGED <<policy, revoked, wired, traces, turns>>
    BY <1>0, <1>8 DEF OwnToolRevoked, AskFails, SetTurn, Asking, TurnStates
  <2> QED
    BY <1>1, <2>1 DEF TurnRest, Looping
<1>9. CASE AskModel
  <2>1. turn.step = "asking" /\ UNCHANGED <<policy, revoked, wired, traces, turns>>
    BY <1>9 DEF AskModel, Asking
  <2>2. PICK called \in SUBSET Known :
            LET runs == IF "record_page" \in called THEN {} ELSE called \cap Offered IN
            turn' = [turn EXCEPT
                        !.refused = turn.refused \cup (called \ allowed),
                        !.ran = turn.ran \cup runs,
                        !.round = turn.round + 1,
                        !.step = IF "record_page" \in called THEN "answered"
                                 ELSE IF runs = {} THEN "failed" ELSE "asking"]
    BY <1>9 DEF AskModel, SetTurn
  <2> DEFINE runs == IF "record_page" \in called THEN {} ELSE called \cap Offered
  <2>3. /\ turn'.round = turn.round + 1
        /\ turn'.step = IF "record_page" \in called THEN "answered"
                        ELSE IF runs = {} THEN "failed" ELSE "asking"
    BY <1>0, <2>2 DEF TurnStates
  <2>4. turn'.step \in Looping \cup {"asking"} => turn.round < MaxToolRounds
    <3>1. turn'.step \in Looping \cup {"asking"} => "record_page" \notin called /\ runs # {}
      BY <2>3 DEF Looping
    <3>2. "record_page" \notin called /\ runs # {} => Offered # {"record_page"}
      OBVIOUS
    <3>3. Offered # {"record_page"} => turn.round < MaxToolRounds
      BY DEF Offered
    <3> QED
      BY <3>1, <3>2, <3>3
  <2>5. /\ turn'.round <= MaxToolRounds + 1
        /\ turn'.step \in Looping \cup {"asking"} => turn'.round <= MaxToolRounds
    <3>1. turn.round + 1 <= MaxToolRounds + 1
      BY <1>0, <1>1, <2>1
    <3> QED
      BY <1>0, <2>3, <2>4, <3>1
  <2> QED
    BY <1>1, <2>1, <2>5 DEF TurnRest
<1>10. CASE EndTurn
  <2>1. /\ turn'.round = 0 /\ revoked' \in {{"unread"}, revoked}
        /\ UNCHANGED <<policy, wired, traces, turns>>
    BY <1>3, <1>10 DEF EndTurn, SetTurn
  <2> QED
    BY <1>0, <1>1, <2>1 DEF TurnRest
<1> QED
  BY <1>4, <1>5, <1>6, <1>7, <1>8, <1>9, <1>10 DEF TurnNext

(* A turn's variables have their types: a node never asks more rounds than  *)
(* it may, and every trace names passages there are (agents/nodes _ask).    *)
THEOREM TurnTypeCorrect == TurnSpec => []TurnTypeOK
<1>1. TurnInit => TurnRest
  <2> SUFFICES ASSUME TurnInit PROVE TurnRest
    OBVIOUS
  <2>1. /\ turn.round = 0 /\ turns = 0 /\ traces = << >> /\ policy = {} /\ revoked = {"unread"}
        /\ wired \subseteq Granted
    BY DEF TurnInit, RestingTurn, Granted
  <2>2. MaxToolRounds \in Nat /\ MaxTurns \in Nat
    BY NodeTurnAssumption
  <2> QED
    BY <2>1, <2>2 DEF TurnRest
<1> QED
  BY <1>1, TurnInvariant, TurnInvNext, TurnRestKept, TurnTypesFollow, PTL DEF TurnSpec

-----------------------------------------------------------------------------
(* The business's memory: one edit at a time.                               *)

(* Without one place, the rank falls behind by one from there on.           *)
LEMMA RankWithoutOne ==
    ASSUME NEW n \in Nat, NEW i \in 1 .. n, NEW j \in 0 .. n
    PROVE  Rank((1 .. n) \ {i}, j) = IF j < i THEN j ELSE j - 1
<1> DEFINE U == {l \in (1 .. n) \ {i} : l <= j}
<1>1. IsFiniteSet(1 .. j) /\ Cardinality(1 .. j) = j
  <2>1. j \in Int /\ 1 \in Int /\ (1 > j => j = 0)
    OBVIOUS
  <2> QED
    BY <2>1, FS_Interval
<1>2. CASE j < i
  <2>1. \A l : l \in U <=> l \in 1 .. j
    BY <1>2
  <2> HIDE DEF U
  <2>2. U = 1 .. j
    BY <2>1
  <2> QED
    BY <1>1, <1>2, <2>2 DEF Rank, U
<1>3. CASE ~(j < i)
  <2>1. \A l : l \in U <=> l \in (1 .. j) \ {i}
    OBVIOUS
  <2> HIDE DEF U
  <2>2. U = (1 .. j) \ {i}
    BY <2>1
  <2>3. i \in 1 .. j
    BY <1>3
  <2>4. Cardinality(U) = j - 1
    BY <1>1, <2>2, <2>3, FS_RemoveElement
  <2> QED
    BY <1>3, <2>4 DEF Rank, U
<1> QED
  BY <1>2, <1>3

(* To keep every place but one is to remove that one.                       *)
LEMMA PickedButOne ==
    ASSUME NEW S, NEW s \in Seq(S), NEW i \in DOMAIN s
    PROVE  LET kept == DOMAIN s \ {i}
           IN  /\ Picked(s, kept) \in Seq(S)
               /\ Picked(s, kept) = RemoveAt(s, i)
               /\ DOMAIN Picked(s, kept) = 1 .. Len(s) - 1
               /\ \A m \in 1 .. Len(s) - 1 :
                     Picked(s, kept)[m] = s[IF m < i THEN m ELSE m + 1]
<1> DEFINE n == Len(s)
           kept == (1 .. n) \ {i}
           P == Picked(s, kept)
<1>1. n \in Nat /\ DOMAIN s = 1 .. n /\ i \in 1 .. n
  OBVIOUS
<1>2. Cardinality(kept) = n - 1
  <2>1. n \in Int /\ 1 \in Int /\ ~(1 > n)
    BY <1>1
  <2>2. IsFiniteSet(1 .. n) /\ Cardinality(1 .. n) = n
    BY <2>1, FS_Interval
  <2>3. Cardinality(kept) = IF i \in 1 .. n THEN Cardinality(1 .. n) - 1 ELSE Cardinality(1 .. n)
    BY <2>2, FS_RemoveElement, Zenon
  <2> HIDE DEF kept
  <2> QED
    BY <1>1, <2>2, <2>3
<1>3. ASSUME NEW m \in 1 .. n - 1
      PROVE  Place(kept, m) = IF m < i THEN m ELSE m + 1
  <2>1. \A j \in kept : Rank(kept, j) = IF j < i THEN j ELSE j - 1
    BY <1>1, RankWithoutOne
  <2>2. \A j \in kept : Rank(kept, j) = m <=> j = (IF m < i THEN m ELSE m + 1)
    <3>1. \A j \in kept : j \in Nat /\ j # i
      BY <1>1
    <3>2. i \in Nat /\ m \in Nat
      BY <1>1
    <3> HIDE DEF kept
    <3>3. ASSUME NEW j \in kept
          PROVE  Rank(kept, j) = m <=> j = (IF m < i THEN m ELSE m + 1)
      BY <2>1, <3>1, <3>2
    <3> QED
      BY <3>3
  <2>3. (IF m < i THEN m ELSE m + 1) \in kept
    BY <1>1
  <2> HIDE DEF kept
  <2> QED
    BY <2>2, <2>3, Zenon DEF Place
<1>4. P = [m \in 1 .. n - 1 |-> s[Place(kept, m)]]
  BY <1>2 DEF Picked
<1> HIDE DEF P, kept
<1>5. P = [m \in 1 .. n - 1 |-> s[IF m < i THEN m ELSE m + 1]]
  BY <1>3, <1>4
<1>6. P \in Seq(S)
  <2>1. \A m \in 1 .. n - 1 : s[IF m < i THEN m ELSE m + 1] \in S
    BY <1>1
  <2>2. n - 1 \in Nat
    BY <1>1
  <2> QED
    BY <1>5, <2>1, <2>2
<1>7. P = RemoveAt(s, i)
  <2> DEFINE A == SubSeq(s, 1, i - 1)
             B == SubSeq(s, i + 1, n)
  <2>1. A \in Seq(S) /\ Len(A) = i - 1 /\ \A m \in 1 .. i - 1 : A[m] = s[m]
    BY <1>1, SubSeqProperties
  <2>2. B \in Seq(S) /\ Len(B) = n - i /\ \A m \in 1 .. n - i : B[m] = s[i + m]
    BY <1>1, SubSeqProperties
  <2> HIDE DEF A, B
  <2>3. A \o B \in Seq(S) /\ Len(A \o B) = n - 1
    <3>1. A \o B \in Seq(S) /\ Len(A \o B) = Len(A) + Len(B)
      BY <2>1, <2>2, ConcatProperties
    <3> QED
      BY <1>1, <2>1, <2>2, <3>1
  <2>4. \A m \in 1 .. n - 1 : (A \o B)[m] = s[IF m < i THEN m ELSE m + 1]
    <3>1. i \in Nat /\ n \in Nat /\ 1 <= i /\ i <= n
      BY <1>1
    <3>2. ASSUME NEW m \in 1 .. n - 1, m < i
          PROVE  (A \o B)[m] = s[m]
      <4>1. m \in 1 .. i - 1 /\ m \in 1 .. Len(A)
        BY <2>1, <3>1, <3>2
      <4>2. (A \o B)[m] = A[m]
        BY <2>1, <2>2, <4>1, ConcatProperties
      <4> QED
        BY <2>1, <4>1, <4>2
    <3>3. ASSUME NEW m \in 1 .. n - 1, ~(m < i)
          PROVE  (A \o B)[m] = s[m + 1]
      <4>1. /\ m \in Len(A) + 1 .. Len(A) + Len(B)
            /\ m - Len(A) \in 1 .. n - i /\ i + (m - Len(A)) = m + 1
        <5>1. Len(A) = i - 1 /\ Len(B) = n - i /\ m \in Int
          BY <2>1, <2>2, <3>3
        <5>2. /\ m \in (i - 1) + 1 .. (i - 1) + (n - i)
              /\ m - (i - 1) \in 1 .. n - i /\ i + (m - (i - 1)) = m + 1
          BY <3>1, <3>3
        <5> QED
          BY <5>1, <5>2, Zenon
      <4>2. (A \o B)[m] = B[m - Len(A)]
        <5>1. \A k \in 1 .. Len(A) + Len(B) :
                 (A \o B)[k] = IF k <= Len(A) THEN A[k] ELSE B[k - Len(A)]
          BY <2>1, <2>2, ConcatProperties, Zenon
        <5>2. m \in 1 .. Len(A) + Len(B) /\ ~(m <= Len(A))
          <6>1. Len(A) \in Nat /\ Len(B) \in Nat
            BY <2>1, <2>2, <3>1
          <6> QED
            BY <4>1, <6>1
        <5> QED
          BY <5>1, <5>2, Zenon
      <4> QED
        BY <2>2, <4>1, <4>2
    <3> QED
      BY <3>2, <3>3
  <2>5. P = A \o B
    <3>1. Len(P) = n - 1
      BY <1>1, <1>5, <1>6
    <3>2. \A m \in 1 .. Len(P) : P[m] = (A \o B)[m]
      BY <1>1, <1>5, <2>4, <3>1
    <3> QED
      BY <1>6, <2>3, <3>1, <3>2, SeqEqual
  <2> QED
    BY <2>5 DEF RemoveAt, A, B
<1> QED
  BY <1>1, <1>5, <1>6, <1>7 DEF P, kept

(* What the memory keeps: no rule stands twice, and what is proposed or     *)
(* about to be proposed is a rule.                                          *)
MemoryRows == [preferences : Seq(Rule), profile : Nat]

NoRuleTwice(rules) == \A i, j \in DOMAIN rules : rules[i].key = rules[j].key => i = j

MemoryFields == {"kind", "step", "key", "before", "counted", "taken"}
IsWriter(q) == q = [f \in MemoryFields |-> q[f]]

MemoryInv ==
    /\ dna \in MemoryRows /\ NoRuleTwice(dna.preferences)
    /\ \A p \in learned : p.key \in Keys
    /\ asked = [r \in MemoryRequests |-> asked[r]]
    /\ \A r \in MemoryRequests :
          /\ IsWriter(asked[r])
          /\ asked[r].step \in {"counted", "distilling"} => asked[r].key \in Keys

\* What a writer may do to the memory.
Edited(old, new) ==
    /\ new \in MemoryRows /\ NoRuleTwice(new.preferences)
    /\ OneEdit(old.preferences, new.preferences)
    /\ new.profile \in {old.profile, old.profile + 1}
    /\ new.profile # old.profile => new.preferences = old.preferences

(* A list without a repeated rule has none after one edit of it.            *)
LEMMA EditKeepsRules ==
    ASSUME NEW old \in MemoryRows, NoRuleTwice(old.preferences)
    PROVE  /\ Edited(old, old)
           /\ \A rule \in Rule : Edited(old, Remembered(old, rule))
           /\ \A k : Holds(old.preferences, k) =>
                 Edited(old, with_preferences(old,
                    Picked(old.preferences,
                           {i \in DOMAIN old.preferences : old.preferences[i].key # k})))
           /\ \A k : \A new \in Rule :
                 (/\ Holds(old.preferences, k)
                  /\ new.key = k \/ ~ Holds(old.preferences, new.key)) =>
                 Edited(old, with_preferences(old,
                    [i \in DOMAIN old.preferences |->
                        IF old.preferences[i].key = k THEN new ELSE old.preferences[i]]))
<1> DEFINE rules == old.preferences
           n == Len(rules)
<1>1. rules \in Seq(Rule) /\ n \in Nat /\ DOMAIN rules = 1 .. n /\ old.profile \in Nat
  BY DEF MemoryRows
<1>2. ASSUME NEW new \in Seq(Rule), NoRuleTwice(new), OneEdit(rules, new)
      PROVE  Edited(old, with_preferences(old, new))
  <2>1. /\ with_preferences(old, new) \in MemoryRows
        /\ with_preferences(old, new).preferences = new
        /\ with_preferences(old, new).profile = old.profile
    BY DEF with_preferences, MemoryRows
  <2> QED
    BY <1>2, <2>1 DEF Edited
<1>3. Edited(old, old)
  BY <1>1 DEF Edited, OneEdit
<1>4. ASSUME NEW rule \in Rule PROVE Edited(old, Remembered(old, rule))
  <2>1. CASE Holds(rules, rule.key)
    BY <1>3, <2>1 DEF Remembered
  <2>2. CASE ~Holds(rules, rule.key)
    <3> DEFINE new == Append(rules, rule)
    <3>1. /\ new \in Seq(Rule) /\ DOMAIN new = 1 .. n + 1 /\ new[n + 1] = rule
          /\ \A i \in 1 .. n : new[i] = rules[i]
      BY <1>1
    <3>2. \A i \in 1 .. n : rules[i].key # rule.key
      BY <1>1, <2>2 DEF Holds, KeysOf
    <3>3. \A i \in DOMAIN new : i = n + 1 \/ i \in 1 .. n
      BY <1>1, <3>1
    <3>4. OneEdit(rules, new)
      BY DEF OneEdit
    <3> HIDE DEF new
    <3>5. NoRuleTwice(new)
      BY <1>1, <3>1, <3>2, <3>3 DEF NoRuleTwice
    <3>6. Edited(old, with_preferences(old, new))
      BY <1>2, <3>1, <3>4, <3>5
    <3> QED
      BY <2>2, <3>6 DEF Remembered, new
  <2> QED
    BY <2>1, <2>2
<1>5. ASSUME NEW k, Holds(rules, k)
      PROVE  Edited(old, with_preferences(old,
                 Picked(rules, {i \in DOMAIN rules : rules[i].key # k})))
  <2>1. PICK i \in DOMAIN rules : rules[i].key = k
    BY <1>5 DEF Holds, KeysOf
  <2>2. {j \in DOMAIN rules : rules[j].key # k} = DOMAIN rules \ {i}
    BY <2>1 DEF NoRuleTwice
  <2> DEFINE new == Picked(rules, DOMAIN rules \ {i})
  <2>3. /\ new \in Seq(Rule) /\ new = RemoveAt(rules, i) /\ DOMAIN new = 1 .. n - 1
        /\ \A m \in 1 .. n - 1 : new[m] = rules[IF m < i THEN m ELSE m + 1]
    BY <1>1, <2>1, PickedButOne
  <2> HIDE DEF new
  <2>4. OneEdit(rules, new)
    BY <2>1, <2>3 DEF OneEdit
  <2>5. NoRuleTwice(new)
    <3> SUFFICES ASSUME NEW a \in 1 .. n - 1, NEW b \in 1 .. n - 1, new[a].key = new[b].key
                 PROVE  a = b
      BY <2>3 DEF NoRuleTwice
    <3>1. /\ (IF a < i THEN a ELSE a + 1) \in DOMAIN rules
          /\ (IF b < i THEN b ELSE b + 1) \in DOMAIN rules
      BY <1>1, <2>1
    <3>2. (IF a < i THEN a ELSE a + 1) = (IF b < i THEN b ELSE b + 1)
      BY <2>3, <3>1 DEF NoRuleTwice
    <3> QED
      BY <1>1, <3>2
  <2>6. Edited(old, with_preferences(old, new))
    BY <1>2, <2>3, <2>4, <2>5
  <2> QED
    BY <2>2, <2>6 DEF new
<1>6. ASSUME NEW k, NEW new \in Rule, Holds(rules, k), new.key = k \/ ~ Holds(rules, new.key)
      PROVE  Edited(old, with_preferences(old,
                 [i \in DOMAIN rules |-> IF rules[i].key = k THEN new ELSE rules[i]]))
  <2> DEFINE reworded == [i \in DOMAIN rules |-> IF rules[i].key = k THEN new ELSE rules[i]]
  <2>1. PICK i \in DOMAIN rules : rules[i].key = k
    BY <1>6 DEF Holds, KeysOf
  <2>2. reworded \in Seq(Rule) /\ DOMAIN reworded = DOMAIN rules
    BY <1>1
  <2>3. \A j \in DOMAIN rules : reworded[j] = IF j = i THEN new ELSE rules[j]
    BY <2>1 DEF NoRuleTwice
  <2>4. reworded = [rules EXCEPT ![i] = new]
    BY <1>1, <2>1, <2>2, <2>3
  <2>5. OneEdit(rules, reworded)
    BY <2>1, <2>4 DEF OneEdit
  <2> HIDE DEF reworded
  <2>6. \A j \in DOMAIN rules : j # i => rules[j].key # k /\ rules[j].key # new.key
    BY <1>6, <2>1 DEF NoRuleTwice, Holds, KeysOf
  <2>7. NoRuleTwice(reworded)
    BY <2>1, <2>2, <2>3, <2>6 DEF NoRuleTwice
  <2>8. Edited(old, with_preferences(old, reworded))
    BY <1>2, <2>2, <2>5, <2>7
  <2> QED
    BY <2>8 DEF reworded
<1> QED
  BY <1>3, <1>4, <1>5, <1>6

(* A request's record after each of its steps: resolved, counted, done.     *)
LEMMA WriterRecords ==
    /\ IsWriter(NoRequest) /\ NoRequest.step = "idle"
    /\ IsWriter([NoRequest EXCEPT !.step = "done"])
    /\ [NoRequest EXCEPT !.step = "done"].step = "done"
BY DEF NoRequest, IsWriter, MemoryFields

(* A request that resolved the rule it is about.                            *)
LEMMA ResolvedRecord ==
    ASSUME NEW kind, NEW key, NEW before
    PROVE  LET q == [NoRequest EXCEPT !.kind = kind, !.key = key, !.step = "resolved",
                                      !.before = before]
           IN  IsWriter(q) /\ q.step = "resolved"
<1> DEFINE q == [NoRequest EXCEPT !.kind = kind, !.key = key, !.step = "resolved",
                                  !.before = before]
<1>1. IsWriter(NoRequest)
  BY WriterRecords
<1>2. IsWriter(q)
  BY <1>1 DEF IsWriter, MemoryFields
<1>3. q.step = "resolved"
  BY <1>1 DEF IsWriter, MemoryFields
<1> QED
  BY <1>2, <1>3

(* A request that counted the rejections, its own among them.               *)
LEMMA CountedRecord ==
    ASSUME NEW key, NEW counted
    PROVE  LET q == [NoRequest EXCEPT !.kind = "reject", !.key = key, !.step = "counted",
                                      !.counted = counted]
           IN  IsWriter(q) /\ q.key = key
<1> DEFINE q == [NoRequest EXCEPT !.kind = "reject", !.key = key, !.step = "counted",
                                  !.counted = counted]
<1>1. IsWriter(NoRequest)
  BY WriterRecords
<1>2. IsWriter(q)
  BY <1>1 DEF IsWriter, MemoryFields
<1>3. q.key = key
  BY <1>1 DEF IsWriter, MemoryFields
<1> QED
  BY <1>2, <1>3

(* A request that has read which rules are taken.                           *)
LEMMA ReadRecord ==
    ASSUME NEW q, IsWriter(q), NEW taken
    PROVE  LET read == [q EXCEPT !.step = "distilling", !.taken = taken]
           IN  IsWriter(read) /\ read.key = q.key
BY DEF IsWriter, MemoryFields

(* Every step edits the memory once at most, and leaves it as it must be.   *)
LEMMA MemoryStep ==
    ASSUME MemoryInv, NEW r \in MemoryRequests,
           \/ AddPreference(r) \/ Resolve(r) \/ ForgetPreference(r) \/ Revise(r) \/ Confirm(r)
           \/ Reject(r) \/ ReadTaken(r) \/ Propose(r) \/ Approve(r)
    PROVE  /\ Edited(dna, dna')
           /\ \A p \in learned' : p.key \in Keys
           /\ \E q : /\ asked' = [asked EXCEPT ![r] = q]
                     /\ IsWriter(q)
                     /\ q.step \in {"counted", "distilling"} => q.key \in Keys
<1> DEFINE Goal == /\ Edited(dna, dna')
                   /\ \A p \in learned' : p.key \in Keys
                   /\ \E q : /\ asked' = [asked EXCEPT ![r] = q]
                             /\ IsWriter(q)
                             /\ q.step \in {"counted", "distilling"} => q.key \in Keys
<1>0. /\ dna \in MemoryRows /\ NoRuleTwice(dna.preferences)
      /\ \A p \in learned : p.key \in Keys
      /\ IsWriter(asked[r])
      /\ asked[r].step \in {"counted", "distilling"} => asked[r].key \in Keys
  BY DEF MemoryInv
<1>1. Edited(dna, dna)
  BY <1>0, EditKeepsRules
<1>2. ASSUME NEW q, asked' = [asked EXCEPT ![r] = q], IsWriter(q),
             q.step \in {"counted", "distilling"} => q.key \in Keys,
             Edited(dna, dna'), \A p \in learned' : p.key \in Keys
      PROVE  Goal
  BY <1>2
<1>3. ASSUME Completed(r), Edited(dna, dna'), \A p \in learned' : p.key \in Keys
      PROVE  Goal
  <2>1. /\ IsWriter([NoRequest EXCEPT !.step = "done"])
        /\ [NoRequest EXCEPT !.step = "done"].step = "done"
    BY WriterRecords
  <2> QED
    BY <1>3, <2>1, <1>2 DEF Completed
<1>4. CASE AddPreference(r)
  <2>1. PICK rule \in Rule :
            dna' = IF Refuses(Locked(r), rule) THEN dna ELSE Remembered(Locked(r), rule)
    BY <1>4 DEF AddPreference
  <2>2. Edited(dna, dna')
    BY <1>0, <1>1, <2>1, EditKeepsRules DEF Locked
  <2> QED
    BY <1>0, <1>3, <1>4, <2>2 DEF AddPreference
<1>5. CASE Resolve(r)
  <2>1. PICK k \in KeysOf(dna.preferences), kind \in {"revise", "forget"} :
          asked' = [asked EXCEPT ![r] = [NoRequest EXCEPT !.kind = kind, !.key = k,
                                            !.step = "resolved", !.before = << dna >>]]
    BY <1>5 DEF Resolve
  <2>2. UNCHANGED <<dna, learned>>
    BY <1>5 DEF Resolve
  <2> DEFINE q == [NoRequest EXCEPT !.kind = kind, !.key = k,
                                    !.step = "resolved", !.before = << dna >>]
  <2>3. IsWriter(q) /\ q.step = "resolved"
    BY ResolvedRecord
  <2>4. asked' = [asked EXCEPT ![r] = q]
    BY <2>1
  <2> HIDE DEF q
  <2> QED
    BY <1>0, <1>1, <1>2, <2>2, <2>3, <2>4
<1>6. CASE ForgetPreference(r)
  <2>1. Edited(dna, dna')
    BY <1>0, <1>1, <1>6, EditKeepsRules DEF ForgetPreference, Locked
  <2> QED
    BY <1>0, <1>3, <1>6, <2>1 DEF ForgetPreference
<1>7. CASE Revise(r)
  <2>1. PICK new \in Rule :
          dna' = IF /\ Holds(dna.preferences, asked[r].key)
                    /\ new.key = asked[r].key \/ ~ Holds(dna.preferences, new.key)
                 THEN with_preferences(dna,
                         [i \in DOMAIN dna.preferences |->
                             IF dna.preferences[i].key = asked[r].key THEN new
                             ELSE dna.preferences[i]])
                 ELSE dna
    BY <1>7 DEF Revise, Locked
  <2>2. Edited(dna, dna')
    BY <1>0, <1>1, <2>1, EditKeepsRules
  <2> QED
    BY <1>0, <1>3, <1>7, <2>2 DEF Revise
<1>8. CASE Confirm(r)
  <2>1. dna' = [preferences |-> dna.preferences, profile |-> dna.profile + 1]
    BY <1>8 DEF Confirm, Locked
  <2>2. Edited(dna, dna')
    BY <1>0, <1>1, <2>1 DEF Edited, MemoryRows
  <2> QED
    BY <1>0, <1>3, <1>8, <2>2 DEF Confirm
<1>9. CASE Reject(r)
  <2>1. PICK k \in Keys :
          asked' = [asked EXCEPT ![r] = [NoRequest EXCEPT !.kind = "reject", !.key = k,
                                            !.step = "counted", !.counted = feedback[k] + 1]]
    BY <1>9 DEF Reject
  <2>2. UNCHANGED <<dna, learned>>
    BY <1>9 DEF Reject
  <2> DEFINE q == [NoRequest EXCEPT !.kind = "reject", !.key = k,
                                    !.step = "counted", !.counted = feedback[k] + 1]
  <2>3. IsWriter(q) /\ q.key = k
    BY CountedRecord
  <2>4. asked' = [asked EXCEPT ![r] = q]
    BY <2>1
  <2> HIDE DEF q
  <2> QED
    BY <1>0, <1>1, <1>2, <2>2, <2>3, <2>4
<1>10. CASE ReadTaken(r)
  <2> DEFINE taken == KeysOf(dna.preferences) \cup EverProposed
             q == [asked[r] EXCEPT !.step = "distilling", !.taken = taken]
  <2>1. asked' = [asked EXCEPT ![r] = q] /\ asked[r].step = "counted"
    BY <1>10 DEF ReadTaken
  <2>2. IsWriter(q) /\ q.key = asked[r].key
    BY <1>0, ReadRecord
  <2>3. UNCHANGED <<dna, learned>>
    BY <1>10 DEF ReadTaken
  <2> HIDE DEF q
  <2> QED
    BY <1>0, <1>1, <1>2, <2>1, <2>2, <2>3
<1>11. CASE Propose(r)
  <2>1. \A p \in learned' : p \in learned \/ p.key = asked[r].key
    BY <1>11 DEF Propose
  <2>2. asked[r].key \in Keys /\ UNCHANGED dna
    BY <1>0, <1>11 DEF Propose
  <2> QED
    BY <1>0, <1>1, <1>3, <1>11, <2>1, <2>2 DEF Propose
<1>12. CASE Approve(r)
  <2>1. PICK p \in learned :
          LET rule == [key |-> p.key, spelling |-> "first"] IN
          IF Refuses(Locked(r), rule) THEN UNCHANGED <<dna, learned>>
          ELSE /\ dna' = Remembered(Locked(r), rule)
               /\ learned' = (learned \ {p}) \cup {[p EXCEPT !.status = "approved"]}
    BY <1>12 DEF Approve
  <2> DEFINE rule == [key |-> p.key, spelling |-> "first"]
  <2>2. rule \in Rule
    BY <1>0 DEF Rule
  <2>3. \/ UNCHANGED <<dna, learned>>
        \/ /\ dna' = Remembered(dna, rule)
           /\ learned' = (learned \ {p}) \cup {[p EXCEPT !.status = "approved"]}
    BY <2>1 DEF Locked
  <2>4. [p EXCEPT !.status = "approved"].key = p.key
    OBVIOUS
  <2> HIDE DEF rule
  <2>5. Edited(dna, dna')
    BY <1>0, <1>1, <2>2, <2>3, EditKeepsRules
  <2>6. \A x \in learned' : x \in learned \/ x.key = p.key
    BY <2>3, <2>4
  <2>7. \A x \in learned' : x.key \in Keys
    BY <1>0, <2>6
  <2> QED
    BY <1>3, <1>12, <2>5, <2>7 DEF Approve
<1> QED
  BY <1>4, <1>5, <1>6, <1>7, <1>8, <1>9, <1>10, <1>11, <1>12

(* The memory keeps its invariant, and every step is an edit.               *)
LEMMA MemoryInvNext ==
    MemoryInv /\ [MemoryNext]_memoryVars => MemoryInv' /\ Edited(dna, dna')
<1> SUFFICES ASSUME MemoryInv, [MemoryNext]_memoryVars PROVE MemoryInv' /\ Edited(dna, dna')
  OBVIOUS
<1>1. CASE UNCHANGED memoryVars
  BY <1>1, EditKeepsRules DEF memoryVars, MemoryInv
<1>2. CASE MemoryNext
  <2>1. PICK r \in MemoryRequests :
            \/ AddPreference(r) \/ Resolve(r) \/ ForgetPreference(r) \/ Revise(r) \/ Confirm(r)
            \/ Reject(r) \/ ReadTaken(r) \/ Propose(r) \/ Approve(r)
    BY <1>2 DEF MemoryNext
  <2>2. Edited(dna, dna') /\ \A p \in learned' : p.key \in Keys
    BY <2>1, MemoryStep
  <2>3. PICK q : /\ asked' = [asked EXCEPT ![r] = q]
                 /\ IsWriter(q)
                 /\ q.step \in {"counted", "distilling"} => q.key \in Keys
    BY <2>1, MemoryStep
  <2>4. asked = [x \in MemoryRequests |-> asked[x]]
    BY DEF MemoryInv
  <2>5. /\ asked' = [x \in MemoryRequests |-> asked'[x]]
        /\ \A x \in MemoryRequests : asked'[x] = IF x = r THEN q ELSE asked[x]
    BY <2>3, <2>4
  <2> QED
    BY <2>2, <2>3, <2>5 DEF MemoryInv, Edited
<1> QED
  BY <1>1, <1>2

(* The memory begins as its invariant says.                                 *)
LEMMA MemoryBegins == MemoryInit => MemoryInv
<1> SUFFICES ASSUME MemoryInit PROVE MemoryInv
  OBVIOUS
<1>1. dna \in MemoryRows /\ dna.preferences = << >> /\ learned = {}
  <2>1. << >> \in Seq(Rule) /\ 0 \in Nat
    OBVIOUS
  <2> QED
    BY <2>1 DEF MemoryInit, MemoryRows
<1>2. NoRuleTwice(dna.preferences)
  BY <1>1 DEF NoRuleTwice
<1>3. /\ asked = [r \in MemoryRequests |-> NoRequest]
      /\ IsWriter(NoRequest) /\ NoRequest.step = "idle"
  BY WriterRecords DEF MemoryInit
<1>4. /\ asked = [r \in MemoryRequests |-> asked[r]]
      /\ \A r \in MemoryRequests : asked[r] = NoRequest
  BY <1>3
<1> QED
  BY <1>1, <1>2, <1>3, <1>4 DEF MemoryInv

(* Whatever requests overlap, a writer of the shared column changes what it *)
(* was asked to and nothing else (memory_service _load with its lock and    *)
(* _with_preferences, onboarding_service save_confirmed_dna): for any       *)
(* number of requests, rules and preferences.                               *)
THEOREM EveryWriterKeepsTheRest == MemorySpec => WritersKeepTheRest
<1>1. MemoryInv /\ [MemoryNext]_memoryVars =>
          /\ OneEdit(dna.preferences, dna'.preferences)
          /\ dna'.profile \in {dna.profile, dna.profile + 1}
          /\ dna'.profile # dna.profile => dna'.preferences = dna.preferences
  BY MemoryInvNext DEF Edited
<1> QED
  BY <1>1, MemoryBegins, MemoryInvNext, PTL DEF MemorySpec, WritersKeepTheRest

-----------------------------------------------------------------------------
(* The types of the memory, beside what MemoryInv says of it.               *)

MemoryRest ==
    /\ Len(dna.preferences) <= MAX_PREFERENCES
    /\ feedback \in [Keys -> Nat]
    /\ learned \subseteq [key: Keys, by: MemoryRequests, status: {"proposed", "approved"}]
    /\ \A r \in MemoryRequests :
          asked[r].step \in {"idle", "resolved", "counted", "distilling", "done"}

(* A list without a repeated rule has as many rules as places.              *)
LEMMA EveryPlaceItsRule ==
    ASSUME NEW rules \in Seq(Rule), NoRuleTwice(rules)
    PROVE  Cardinality(KeysOf(rules)) = Len(rules)
<1> DEFINE f == [i \in 1 .. Len(rules) |-> rules[i].key]
<1>1. Len(rules) \in Nat /\ DOMAIN rules = 1 .. Len(rules)
  OBVIOUS
<1>2. f \in Surjection(1 .. Len(rules), KeysOf(rules))
  BY <1>1 DEF Surjection, KeysOf
<1>3. f \in Injection(1 .. Len(rules), KeysOf(rules))
  BY <1>1 DEF Injection, IsInjective, KeysOf, NoRuleTwice
<1>4. IsFiniteSet(1 .. Len(rules)) /\ Cardinality(1 .. Len(rules)) = Len(rules)
  <2>1. \A n \in Nat : IsFiniteSet(1 .. n) /\ Cardinality(1 .. n) = n
    BY FS_Interval
  <2> QED
    BY <1>1, <2>1
<1> HIDE DEF f
<1>5. Cardinality(KeysOf(rules)) = Cardinality(1 .. Len(rules))
  BY <1>2, <1>3, <1>4, FS_Surjection, Zenon
<1> QED
  BY <1>4, <1>5

(* The invariant and the rest of the types make the types.                  *)
LEMMA MemoryTypesFollow == MemoryInv /\ MemoryRest => MemoryTypeOK
<1> SUFFICES ASSUME MemoryInv, MemoryRest PROVE MemoryTypeOK
  OBVIOUS
<1>1. dna.preferences \in Seq(Rule) /\ dna.profile \in Nat /\ NoRuleTwice(dna.preferences)
  BY DEF MemoryInv, MemoryRows
<1>2. Cardinality(KeysOf(dna.preferences)) = Len(dna.preferences)
  BY <1>1, EveryPlaceItsRule
<1> QED
  BY <1>1, <1>2 DEF MemoryTypeOK, MemoryRest

(* A rule that is not refused finds room.                                   *)
LEMMA ThereIsRoom ==
    ASSUME NEW old \in MemoryRows, Len(old.preferences) <= MAX_PREFERENCES, NEW rule \in Rule
    PROVE  ~Refuses(old, rule) => Len(Remembered(old, rule).preferences) <= MAX_PREFERENCES
<1>1. old.preferences \in Seq(Rule) /\ Len(old.preferences) \in Nat /\ MAX_PREFERENCES \in Nat
  BY BusinessMemoryAssumption DEF MemoryRows
<1>2. CASE Holds(old.preferences, rule.key)
  BY <1>2 DEF Remembered
<1>3. CASE ~Holds(old.preferences, rule.key)
  <2>1. ~Refuses(old, rule) => Len(old.preferences) < MAX_PREFERENCES
    BY <1>1, <1>3 DEF Refuses
  <2>2. Len(Append(old.preferences, rule)) = Len(old.preferences) + 1
    BY <1>1
  <2>3. Remembered(old, rule).preferences = Append(old.preferences, rule)
    BY <1>3 DEF Remembered, with_preferences, MemoryRows
  <2> QED
    BY <1>1, <2>1, <2>2, <2>3
<1> QED
  BY <1>2, <1>3

(* Every step keeps the rest of the types.                                  *)
LEMMA MemoryRestKept == MemoryInv /\ MemoryRest /\ [MemoryNext]_memoryVars => MemoryRest'
<1> SUFFICES ASSUME MemoryInv, MemoryRest, [MemoryNext]_memoryVars PROVE MemoryRest'
  OBVIOUS
<1> DEFINE Steps == {"idle", "resolved", "counted", "distilling", "done"}
           Proposals == [key: Keys, by: MemoryRequests, status: {"proposed", "approved"}]
<1>0. /\ dna \in MemoryRows /\ dna.preferences \in Seq(Rule) /\ Len(dna.preferences) \in Nat
      /\ asked = [r \in MemoryRequests |-> asked[r]]
  BY DEF MemoryInv, MemoryRows
<1>1. /\ Len(dna.preferences) <= MAX_PREFERENCES /\ feedback \in [Keys -> Nat]
      /\ learned \subseteq Proposals /\ \A r \in MemoryRequests : asked[r].step \in Steps
  BY DEF MemoryRest
<1>2. ASSUME NEW r \in MemoryRequests, NEW q, asked' = [asked EXCEPT ![r] = q], q.step \in Steps
      PROVE  \A x \in MemoryRequests : asked'[x].step \in Steps
  BY <1>0, <1>1, <1>2
<1>3. ASSUME NEW r \in MemoryRequests, Completed(r)
      PROVE  \A x \in MemoryRequests : asked'[x].step \in Steps
  <2>1. [NoRequest EXCEPT !.step = "done"].step = "done"
    BY WriterRecords
  <2> QED
    BY <1>2, <1>3, <2>1 DEF Completed
<1>4. CASE UNCHANGED memoryVars
  BY <1>4 DEF MemoryRest, memoryVars
<1>5. ASSUME NEW r \in MemoryRequests, AddPreference(r) PROVE MemoryRest'
  <2>1. PICK rule \in Rule :
            dna' = IF Refuses(dna, rule) THEN dna ELSE Remembered(dna, rule)
    BY <1>5 DEF AddPreference, Locked
  <2>2. Len(dna'.preferences) <= MAX_PREFERENCES
    BY <1>0, <1>1, <2>1, ThereIsRoom
  <2>3. Completed(r) /\ UNCHANGED <<feedback, learned>>
    BY <1>5 DEF AddPreference
  <2> QED
    BY <1>1, <1>3, <2>2, <2>3 DEF MemoryRest
<1>6. ASSUME NEW r \in MemoryRequests, Resolve(r) PROVE MemoryRest'
  <2>1. PICK k \in KeysOf(dna.preferences), kind \in {"revise", "forget"} :
            asked' = [asked EXCEPT ![r] = [NoRequest EXCEPT !.kind = kind, !.key = k,
                                              !.step = "resolved", !.before = << dna >>]]
    BY <1>6 DEF Resolve
  <2> DEFINE q == [NoRequest EXCEPT !.kind = kind, !.key = k,
                                    !.step = "resolved", !.before = << dna >>]
  <2>2. q.step = "resolved" /\ asked' = [asked EXCEPT ![r] = q]
    BY <2>1, ResolvedRecord
  <2> HIDE DEF q
  <2>3. \A x \in MemoryRequests : asked'[x].step \in Steps
    BY <1>2, <2>2
  <2>4. UNCHANGED <<dna, feedback, learned>>
    BY <1>6 DEF Resolve
  <2> QED
    BY <1>1, <2>3, <2>4 DEF MemoryRest
<1>7. ASSUME NEW r \in MemoryRequests, ForgetPreference(r) PROVE MemoryRest'
  <2> DEFINE kept == {i \in DOMAIN dna.preferences : dna.preferences[i].key # asked[r].key}
  <2>1. dna' = dna \/ dna' = with_preferences(dna, Picked(dna.preferences, kept))
    BY <1>7 DEF ForgetPreference, Locked
  <2>2. Len(Picked(dna.preferences, kept)) <= Len(dna.preferences)
    <3>1. kept \in SUBSET (1 .. Len(dna.preferences)) /\ kept \subseteq DOMAIN dna.preferences
      BY <1>0
    <3> HIDE DEF kept
    <3>2. /\ Picked(dna.preferences, kept) \in Seq(Rule)
          /\ DOMAIN Picked(dna.preferences, kept) = 1 .. Cardinality(kept)
      BY <1>0, <3>1, PickedIsLeft
    <3>3. \A n \in Nat : IsFiniteSet(1 .. n) /\ Cardinality(1 .. n) = n
      BY FS_Interval
    <3>4. /\ IsFiniteSet(1 .. Len(dna.preferences))
          /\ Cardinality(1 .. Len(dna.preferences)) = Len(dna.preferences)
      BY <1>0, <3>3
    <3>5. Cardinality(kept) <= Len(dna.preferences) /\ Cardinality(kept) \in Nat
      BY <3>1, <3>4, FS_Subset, FS_CardinalityType
    <3> QED
      BY <3>2, <3>5
  <2> HIDE DEF kept
  <2>3. Len(dna'.preferences) <= Len(dna.preferences)
    BY <1>0, <2>1, <2>2 DEF with_preferences, MemoryRows
  <2>4. Len(dna'.preferences) \in Nat
    <3>1. dna' \in MemoryRows
      BY <1>7, MemoryStep DEF Edited
    <3> QED
      BY <3>1 DEF MemoryRows
  <2>5. MAX_PREFERENCES \in Nat
    BY BusinessMemoryAssumption
  <2>6. Completed(r) /\ UNCHANGED <<feedback, learned>>
    BY <1>7 DEF ForgetPreference
  <2>7. Len(dna'.preferences) <= MAX_PREFERENCES
    BY <1>0, <1>1, <2>3, <2>4, <2>5
  <2> QED
    BY <1>1, <1>3, <2>6, <2>7 DEF MemoryRest
<1>8. ASSUME NEW r \in MemoryRequests, Revise(r) PROVE MemoryRest'
  <2>1. PICK new \in Rule :
          dna' = IF /\ Holds(dna.preferences, asked[r].key)
                    /\ new.key = asked[r].key \/ ~ Holds(dna.preferences, new.key)
                 THEN with_preferences(dna,
                         [i \in DOMAIN dna.preferences |->
                             IF dna.preferences[i].key = asked[r].key THEN new
                             ELSE dna.preferences[i]])
                 ELSE dna
    BY <1>8 DEF Revise, Locked
  <2> DEFINE reworded == [i \in 1 .. Len(dna.preferences) |->
                             IF dna.preferences[i].key = asked[r].key THEN new
                             ELSE dna.preferences[i]]
  <2>2. dna' = dna \/ dna' = with_preferences(dna, reworded)
    BY <1>0, <2>1
  <2>3. Len(reworded) = Len(dna.preferences)
    BY <1>0
  <2> HIDE DEF reworded
  <2>4. Len(dna'.preferences) = Len(dna.preferences)
    BY <1>0, <2>2, <2>3 DEF with_preferences, MemoryRows
  <2>5. Completed(r) /\ UNCHANGED <<feedback, learned>>
    BY <1>8 DEF Revise
  <2> QED
    BY <1>1, <1>3, <2>4, <2>5 DEF MemoryRest
<1>9. ASSUME NEW r \in MemoryRequests, Confirm(r) PROVE MemoryRest'
  <2>1. dna'.preferences = dna.preferences /\ Completed(r) /\ UNCHANGED <<feedback, learned>>
    BY <1>9 DEF Confirm, Locked
  <2> QED
    BY <1>1, <1>3, <2>1 DEF MemoryRest
<1>10. ASSUME NEW r \in MemoryRequests, Reject(r) PROVE MemoryRest'
  <2>1. PICK k \in Keys :
          asked' = [asked EXCEPT ![r] = [NoRequest EXCEPT !.kind = "reject", !.key = k,
                                            !.step = "counted", !.counted = feedback[k] + 1]]
    BY <1>10 DEF Reject
  <2> DEFINE q == [NoRequest EXCEPT !.kind = "reject", !.key = k,
                                    !.step = "counted", !.counted = feedback[k] + 1]
  <2>2. q.step = "counted"
    BY WriterRecords DEF IsWriter, MemoryFields
  <2>3. asked' = [asked EXCEPT ![r] = q]
    BY <2>1
  <2> HIDE DEF q
  <2>4. \A x \in MemoryRequests : asked'[x].step \in Steps
    BY <1>2, <2>2, <2>3
  <2>5. UNCHANGED <<dna, feedback, learned>>
    BY <1>10 DEF Reject
  <2> QED
    BY <1>1, <2>4, <2>5 DEF MemoryRest
<1>11. ASSUME NEW r \in MemoryRequests, ReadTaken(r) PROVE MemoryRest'
  <2> DEFINE q == [asked[r] EXCEPT !.step = "distilling",
                                   !.taken = KeysOf(dna.preferences) \cup EverProposed]
  <2>1. asked' = [asked EXCEPT ![r] = q] /\ UNCHANGED <<dna, feedback, learned>>
    BY <1>11 DEF ReadTaken
  <2>2. q.step = "distilling"
    <3>1. IsWriter(asked[r])
      BY DEF MemoryInv
    <3> QED
      BY <3>1 DEF IsWriter, MemoryFields
  <2> HIDE DEF q
  <2>3. \A x \in MemoryRequests : asked'[x].step \in Steps
    BY <1>2, <2>1, <2>2
  <2> QED
    BY <1>1, <2>1, <2>3 DEF MemoryRest
<1>12. ASSUME NEW r \in MemoryRequests, Propose(r) PROVE MemoryRest'
  <2>1. asked[r].key \in Keys /\ Completed(r) /\ UNCHANGED dna
    BY <1>12 DEF Propose, MemoryInv
  <2>2. feedback' = [feedback EXCEPT ![asked[r].key] = @ + 1]
    BY <1>12 DEF Propose
  <2>3. feedback' \in [Keys -> Nat]
    <3>1. feedback[asked[r].key] + 1 \in Nat
      BY <1>1, <2>1
    <3>2. feedback' = [feedback EXCEPT ![asked[r].key] = feedback[asked[r].key] + 1]
      BY <2>2
    <3> QED
      BY <1>1, <3>1, <3>2
  <2>4. learned' \subseteq Proposals
    BY <1>1, <1>12, <2>1 DEF Propose
  <2> QED
    BY <1>1, <1>3, <2>1, <2>3, <2>4 DEF MemoryRest
<1>13. ASSUME NEW r \in MemoryRequests, Approve(r) PROVE MemoryRest'
  <2>1. PICK p \in learned :
          LET rule == [key |-> p.key, spelling |-> "first"] IN
          IF Refuses(dna, rule) THEN UNCHANGED <<dna, learned>>
          ELSE /\ dna' = Remembered(dna, rule)
               /\ learned' = (learned \ {p}) \cup {[p EXCEPT !.status = "approved"]}
    BY <1>13 DEF Approve, Locked
  <2> DEFINE rule == [key |-> p.key, spelling |-> "first"]
  <2>2. rule \in Rule
    BY <1>1 DEF Rule
  <2>3. [p EXCEPT !.status = "approved"] \in Proposals
    BY <1>1
  <2>4. \/ UNCHANGED <<dna, learned>>
        \/ /\ ~Refuses(dna, rule) /\ dna' = Remembered(dna, rule)
           /\ learned' \subseteq learned \cup {[p EXCEPT !.status = "approved"]}
    BY <2>1
  <2> HIDE DEF rule
  <2>5. Len(dna'.preferences) <= MAX_PREFERENCES
    BY <1>0, <1>1, <2>2, <2>4, ThereIsRoom
  <2>6. learned' \subseteq Proposals
    BY <1>1, <2>3, <2>4
  <2>7. Completed(r) /\ UNCHANGED feedback
    BY <1>13 DEF Approve
  <2> QED
    BY <1>1, <1>3, <2>5, <2>6, <2>7 DEF MemoryRest
<1> HIDE DEF Steps, Proposals
<1> QED
  BY <1>4, <1>5, <1>6, <1>7, <1>8, <1>9, <1>10, <1>11, <1>12, <1>13 DEF MemoryNext

(* The memory's variables have their types: never more preferences than the *)
(* column may hold, and no rule among them twice (memory_service            *)
(* remember, feedback_service approve_proposal).                            *)
THEOREM MemoryTypeCorrect == MemorySpec => []MemoryTypeOK
<1>1. MemoryInit => MemoryRest
  <2> SUFFICES ASSUME MemoryInit PROVE MemoryRest
    OBVIOUS
  <2>1. /\ dna.preferences = << >> /\ feedback \in [Keys -> Nat] /\ learned = {}
        /\ \A r \in MemoryRequests : asked[r] = NoRequest
    BY DEF MemoryInit
  <2>2. NoRequest.step = "idle" /\ MAX_PREFERENCES \in Nat
    BY WriterRecords, BusinessMemoryAssumption
  <2> QED
    BY <2>1, <2>2 DEF MemoryRest
<1> QED
  BY <1>1, MemoryBegins, MemoryInvNext, MemoryRestKept, MemoryTypesFollow, PTL DEF MemorySpec

-----------------------------------------------------------------------------
(* The evaluation's report: the numbers judges gave, and their count.       *)

\* What a judge may have said of a text, and what the report keeps of it.
Scores     == {Unmeasured} \cup (Nat \X EvalArms)
Judgements == {Nothing} \cup [Metrics -> Scores]
ShownArms  == [judged : Judgements, judged_ragas : Judgements, fatal : BOOLEAN]
EvalRows   == [kept : SUBSET Facts, failed : BOOLEAN, rag_off : ShownArms, rag_on : ShownArms]

\* The numbers in a judgement, and in the finished rows.
IsNumber(judged, m) == judged # Nothing /\ judged[m] # Unmeasured
NumbersIn(judged)   == {m \in Metrics : IsNumber(judged, m)}
Numbers(cases)      == {c \in (DOMAIN cases) \X EvalArms \X Metrics :
                            IsNumber(cases[c[1]][c[2]].judged, c[3])}
CellsOf(n, a, S)    == {<<n, a, m>> : m \in S}

(* The harness counts a judgement's numbers.                                *)
LEMMA MeasuredIsNumbers ==
    ASSUME NEW judged
    PROVE  /\ Measured(judged) = Cardinality(NumbersIn(judged))
           /\ IsFiniteSet(NumbersIn(judged)) /\ Measured(judged) \in Nat
<1>1. IsFiniteSet(Metrics)
  <2>1. Metrics = ({} \cup {"faithfulness"}) \cup {"answer_relevancy"}
    BY DEF Metrics
  <2> QED
    BY <2>1, FS_EmptySet, FS_AddElement
<1>2. NumbersIn(judged) \in SUBSET Metrics
  BY DEF NumbersIn
<1>3. IsFiniteSet(NumbersIn(judged)) /\ Cardinality(NumbersIn(judged)) \in Nat
  BY <1>1, <1>2, FS_Subset, FS_CardinalityType
<1>4. Measured(judged) = Cardinality(NumbersIn(judged))
  <2>1. CASE judged = Nothing
    <3>1. NumbersIn(judged) = {}
      BY <2>1 DEF NumbersIn, IsNumber
    <3> QED
      BY <2>1, <3>1, FS_EmptySet DEF Measured
  <2>2. CASE judged # Nothing
    <3>1. NumbersIn(judged) = {m \in Metrics : judged[m] # Unmeasured}
      BY <2>2 DEF NumbersIn, IsNumber
    <3> QED
      BY <2>2, <3>1 DEF Measured
  <2> QED
    BY <2>1, <2>2
<1> QED
  BY <1>3, <1>4

(* One arm of one row has as many cells as metrics.                         *)
LEMMA CellsOfOneArm ==
    ASSUME NEW n, NEW a, NEW S, IsFiniteSet(S)
    PROVE  IsFiniteSet(CellsOf(n, a, S)) /\ Cardinality(CellsOf(n, a, S)) = Cardinality(S)
<1> DEFINE cells == {<<n, a, m>> : m \in S}
           f == [m \in S |-> <<n, a, m>>]
<1>1. f \in Bijection(S, cells)
  <2>1. f \in [S -> cells]
    OBVIOUS
  <2>2. \A x, y \in S : f[x] = f[y] => x = y
    OBVIOUS
  <2>3. \A c \in cells : \E x \in S : f[x] = c
    OBVIOUS
  <2> HIDE DEF f, cells
  <2> QED
    BY <2>1, <2>2, <2>3 DEF Bijection, Injection, Surjection, IsInjective
<1> HIDE DEF f, cells
<1>2. ExistsBijection(S, cells)
  BY <1>1 DEF ExistsBijection
<1>3. IsFiniteSet(cells) /\ Cardinality(cells) = Cardinality(S)
  BY <1>2, FS_Bijection
<1> QED
  BY <1>3 DEF cells, CellsOf

(* A row adds the numbers of its two arms.                                  *)
LEMMA RowAddsItsNumbers ==
    ASSUME NEW cases \in Seq(EvalRows), NEW row \in EvalRows, IsFiniteSet(Numbers(cases))
    PROVE  /\ IsFiniteSet(Numbers(Append(cases, row)))
           /\ Cardinality(Numbers(Append(cases, row))) =
                 Cardinality(Numbers(cases))
                 + Measured(row.rag_off.judged) + Measured(row.rag_on.judged)
<1> DEFINE n == Len(cases) + 1
           more == Append(cases, row)
           off == CellsOf(n, "rag_off", NumbersIn(row.rag_off.judged))
           on == CellsOf(n, "rag_on", NumbersIn(row.rag_on.judged))
<1>1. /\ n - 1 \in Nat /\ DOMAIN cases = 1 .. n - 1 /\ DOMAIN more = 1 .. n /\ more[n] = row
      /\ \A i \in 1 .. n - 1 : more[i] = cases[i]
  OBVIOUS
<1>2. /\ IsFiniteSet(off) /\ Cardinality(off) = Measured(row.rag_off.judged)
      /\ IsFiniteSet(on) /\ Cardinality(on) = Measured(row.rag_on.judged)
  BY MeasuredIsNumbers, CellsOfOneArm
<1>3. \A c \in Numbers(cases) : c[1] \in 1 .. n - 1
  BY <1>1 DEF Numbers
<1>4. \A c : c \in Numbers(more) <=> c \in (Numbers(cases) \cup off) \cup on
  <2> HIDE DEF more
  <2>1. ASSUME NEW c \in Numbers(more) PROVE c \in (Numbers(cases) \cup off) \cup on
    <3>1. /\ c \in (1 .. n) \X EvalArms \X Metrics
          /\ IsNumber(more[c[1]][c[2]].judged, c[3])
      BY <1>1, <2>1 DEF Numbers
    <3>2. c = <<c[1], c[2], c[3]>> /\ c[1] \in 1 .. n /\ c[2] \in EvalArms /\ c[3] \in Metrics
      BY <3>1
    <3>3. CASE c[1] \in 1 .. n - 1
      <4>1. c \in (1 .. n - 1) \X EvalArms \X Metrics
        BY <3>2, <3>3
      <4>2. IsNumber(cases[c[1]][c[2]].judged, c[3])
        BY <1>1, <3>1, <3>3
      <4> QED
        BY <1>1, <4>1, <4>2 DEF Numbers
    <3>4. CASE c[1] = n
      <4>1. IsNumber(row[c[2]].judged, c[3])
        BY <1>1, <3>1, <3>4
      <4>2. c[2] = "rag_off" \/ c[2] = "rag_on"
        BY <3>2 DEF EvalArms
      <4>3. /\ c[2] = "rag_off" => c[3] \in NumbersIn(row.rag_off.judged)
            /\ c[2] = "rag_on" => c[3] \in NumbersIn(row.rag_on.judged)
        BY <3>2, <4>1 DEF NumbersIn
      <4> QED
        BY <3>2, <3>4, <4>2, <4>3 DEF CellsOf
    <3>5. c[1] \in 1 .. n - 1 \/ c[1] = n
      BY <1>1, <3>2
    <3> QED
      BY <3>3, <3>4, <3>5
  <2>2. ASSUME NEW c \in Numbers(cases) PROVE c \in Numbers(more)
    <3>1. c \in (1 .. n - 1) \X EvalArms \X Metrics /\ IsNumber(cases[c[1]][c[2]].judged, c[3])
      BY <1>1, <2>2 DEF Numbers
    <3>2. c \in (1 .. n) \X EvalArms \X Metrics /\ c[1] \in 1 .. n - 1
      BY <1>1, <3>1
    <3> QED
      BY <1>1, <3>1, <3>2 DEF Numbers
  <2>3. ASSUME NEW c \in off PROVE c \in Numbers(more)
    <3>1. PICK m \in NumbersIn(row.rag_off.judged) : c = <<n, "rag_off", m>>
      BY <2>3 DEF CellsOf
    <3>2. c \in (1 .. n) \X EvalArms \X Metrics /\ c[1] = n /\ c[2] = "rag_off" /\ c[3] = m
      BY <1>1, <3>1 DEF EvalArms, NumbersIn
    <3>3. IsNumber(row.rag_off.judged, m)
      BY <3>1 DEF NumbersIn
    <3> QED
      BY <1>1, <3>2, <3>3 DEF Numbers
  <2>4. ASSUME NEW c \in on PROVE c \in Numbers(more)
    <3>1. PICK m \in NumbersIn(row.rag_on.judged) : c = <<n, "rag_on", m>>
      BY <2>4 DEF CellsOf
    <3>2. c \in (1 .. n) \X EvalArms \X Metrics /\ c[1] = n /\ c[2] = "rag_on" /\ c[3] = m
      BY <1>1, <3>1 DEF EvalArms, NumbersIn
    <3>3. IsNumber(row.rag_on.judged, m)
      BY <3>1 DEF NumbersIn
    <3> QED
      BY <1>1, <3>2, <3>3 DEF Numbers
  <2> HIDE DEF off, on
  <2> QED
    BY <2>1, <2>2, <2>3, <2>4
<1>5. \A c \in off : c[1] = n /\ c[2] = "rag_off"
  BY DEF CellsOf
<1>6. \A c \in on : c[1] = n /\ c[2] = "rag_on"
  BY DEF CellsOf
<1> HIDE DEF off, on, more
<1>7. Numbers(more) = (Numbers(cases) \cup off) \cup on
  BY <1>4
<1>8. Numbers(cases) \cap off = {} /\ (Numbers(cases) \cup off) \cap on = {}
  BY <1>1, <1>3, <1>5, <1>6
<1>9. /\ IsFiniteSet(Numbers(cases) \cup off)
      /\ Cardinality(Numbers(cases) \cup off) = Cardinality(Numbers(cases)) + Cardinality(off)
  <2>1. /\ IsFiniteSet(Numbers(cases) \cup off)
        /\ Cardinality(Numbers(cases) \cup off) =
              Cardinality(Numbers(cases)) + Cardinality(off) - Cardinality(Numbers(cases) \cap off)
    BY <1>2, FS_Union
  <2>2. Cardinality(Numbers(cases) \cap off) = 0
    BY <1>8, FS_EmptySet
  <2>3. Cardinality(Numbers(cases)) \in Nat /\ Cardinality(off) \in Nat
    BY <1>2, FS_CardinalityType
  <2> QED
    BY <2>1, <2>2, <2>3
<1>10. /\ IsFiniteSet((Numbers(cases) \cup off) \cup on)
       /\ Cardinality((Numbers(cases) \cup off) \cup on) =
             Cardinality(Numbers(cases) \cup off) + Cardinality(on)
  <2>1. /\ IsFiniteSet((Numbers(cases) \cup off) \cup on)
        /\ Cardinality((Numbers(cases) \cup off) \cup on) =
              Cardinality(Numbers(cases) \cup off) + Cardinality(on)
              - Cardinality((Numbers(cases) \cup off) \cap on)
    BY <1>2, <1>9, FS_Union
  <2>2. Cardinality((Numbers(cases) \cup off) \cap on) = 0
    BY <1>8, FS_EmptySet
  <2>3. Cardinality(Numbers(cases) \cup off) \in Nat /\ Cardinality(on) \in Nat
    BY <1>2, <1>9, FS_CardinalityType
  <2> QED
    BY <2>1, <2>2, <2>3
<1> QED
  BY <1>2, <1>7, <1>9, <1>10 DEF more

\* A judgement of one text: its numbers were given for that text, with a live judge, and
\* faithfulness to passages that were there.
Honest(isLive, judged, n, a, kept) ==
    \A m \in Metrics :
       IsNumber(judged, m) =>
          /\ judged[m] = <<n, a>> /\ isLive
          /\ m = "faithfulness" => (a = "rag_on" /\ kept # {})

HonestRow(isLive, row, n) ==
    \A a \in EvalArms : /\ Honest(isLive, row[a].judged, n, a, row.kept)
                        /\ Honest(isLive, row[a].judged_ragas, n, a, row.kept)

Samples     == [key : Nat \X EvalArms, contexts : SUBSET Facts]
DraftFields == {"kept", "failed", "text", "off", "on"}
HasOff      == at \in {"retrieve", "rag_on", "row"}

CasesHold ==
    /\ caseRows \in Seq(EvalRows)
    /\ \A n \in DOMAIN caseRows : HonestRow(flags.live, caseRows[n], n)

SamplesHold ==
    /\ samples \in Seq(Samples)
    /\ \A i \in DOMAIN samples :
          samples[i].contexts # {} =>
             /\ samples[i].key[2] = "rag_on"
             /\ \/ /\ samples[i].key[1] \in DOMAIN caseRows
                   /\ caseRows[samples[i].key[1]].kept # {}
                \/ at = "row" /\ samples[i].key[1] = Len(caseRows) + 1 /\ draft.kept # {}

DraftHolds ==
    /\ draft = [f \in DraftFields |-> draft[f]]
    /\ draft.kept \subseteq Facts /\ draft.failed \in BOOLEAN
    /\ HasOff =>
          /\ draft.off \in ShownArms /\ draft.off.judged_ragas = Nothing
          /\ Honest(flags.live, draft.off.judged, Len(caseRows) + 1, "rag_off", draft.kept)
    /\ at = "row" =>
          /\ draft.on.judged \in Judgements /\ draft.on.judged_ragas = Nothing
          /\ InReport(draft.on) \in ShownArms
          /\ Honest(flags.live, draft.on.judged, Len(caseRows) + 1, "rag_on", draft.kept)
          /\ draft.on.results.grounding.fatal <=> draft.text.cites \ draft.kept # {}

TallyHolds ==
    /\ IsFiniteSet(Numbers(caseRows))
    /\ at # "failed" =>
          tally = Cardinality(Numbers(caseRows))
                  + (IF HasOff THEN Measured(draft.off.judged) ELSE 0)
                  + (IF at = "row" THEN Measured(draft.on.judged) ELSE 0)

\* A written report, the rows it shows and whether judges were live.
Shows(written, cases, isLive) ==
    /\ \A judged \in {"deepeval", "ragas"}, n \in DOMAIN cases, a \in EvalArms, m \in Metrics :
          LET cell == written[judged][n][a][m]
          IN  cell \notin {ARM_OFF_CELL, NOT_MEASURED_CELL} =>
                  /\ cell = <<n, a>> /\ isLive
                  /\ m = "faithfulness" => (a = "rag_on" /\ cases[n].kept # {})
    /\ written.measured = Cardinality({
          c \in (DOMAIN cases) \X EvalArms \X Metrics :
          written.deepeval[c[1]][c[2]][c[3]] \notin {ARM_OFF_CELL, NOT_MEASURED_CELL}})

ShownHolds == Shows(report, caseRows, flags.live)

EvalInv ==
    /\ flags \in [live : BOOLEAN, deepeval : BOOLEAN, ragas : BOOLEAN]
    /\ CasesHold /\ SamplesHold /\ DraftHolds /\ TallyHolds
    /\ report # Nothing => at = "done" /\ ShownHolds

(* What a judge answers about a text is honest about it.                    *)
LEMMA JudgeIsHonest ==
    ASSUME flags \in [live : BOOLEAN, deepeval : BOOLEAN, ragas : BOOLEAN],
           NEW n \in Nat, NEW a \in EvalArms, NEW context, NEW kept,
           context # {} => (a = "rag_on" /\ kept # {}),
           NEW judged \in judge(<<n, a>>, context)
    PROVE  judged \in Judgements /\ Honest(flags.live, judged, n, a, kept)
<1>1. CASE judged = Nothing
  BY <1>1 DEF Judgements, Honest, IsNumber
<1>2. CASE judged # Nothing
  <2>1. PICK f \in (IF context # {} THEN _measure(<<n, a>>) ELSE {Unmeasured}),
             r \in _measure(<<n, a>>) :
          judged = [faithfulness |-> f, answer_relevancy |-> r]
    BY <1>2 DEF judge
  <2>2. /\ f = Unmeasured \/ (f = <<n, a>> /\ flags.live /\ context # {})
        /\ r = Unmeasured \/ (r = <<n, a>> /\ flags.live)
    BY <2>1 DEF _measure
  <2>3. f \in Scores /\ r \in Scores
    BY <2>2 DEF Scores
  <2>4. /\ judged = [m \in Metrics |-> IF m = "faithfulness" THEN f ELSE r]
        /\ judged["faithfulness"] = f /\ judged["answer_relevancy"] = r
    BY <2>1 DEF Metrics
  <2>5. judged \in [Metrics -> Scores]
    BY <2>3, <2>4
  <2>6. Honest(flags.live, judged, n, a, kept)
    <3>1. ASSUME NEW m \in Metrics, IsNumber(judged, m)
          PROVE  /\ judged[m] = <<n, a>> /\ flags.live
                 /\ m = "faithfulness" => (a = "rag_on" /\ kept # {})
      <4>1. m = "faithfulness" \/ m = "answer_relevancy"
        BY DEF Metrics
      <4> QED
        BY <2>2, <2>4, <3>1, <4>1 DEF IsNumber
    <3> QED
      BY <3>1 DEF Honest
  <2> QED
    BY <2>5, <2>6 DEF Judgements
<1> QED
  BY <1>1, <1>2

(* A recorded sample is the last one, or there is none.                     *)
LEMMA RecordedLast ==
    ASSUME NEW offered \in Seq(Samples), NEW key \in Nat \X EvalArms, NEW context \in SUBSET Facts
    PROVE  /\ record(offered, key, context) \in Seq(Samples)
           /\ \A i \in DOMAIN record(offered, key, context) :
                 \/ i \in DOMAIN offered /\ record(offered, key, context)[i] = offered[i]
                 \/ record(offered, key, context)[i] = [key |-> key, contexts |-> context]
<1> DEFINE s == [key |-> key, contexts |-> context]
           more == Append(offered, s)
<1>1. s \in Samples
  BY DEF Samples
<1> HIDE DEF s
<1>2. /\ more \in Seq(Samples) /\ DOMAIN more = 1 .. Len(offered) + 1
      /\ Len(offered) \in Nat /\ DOMAIN offered = 1 .. Len(offered)
      /\ more[Len(offered) + 1] = s /\ \A i \in 1 .. Len(offered) : more[i] = offered[i]
  BY <1>1
<1> HIDE DEF more
<1>3. \A i \in DOMAIN more : (i \in DOMAIN offered /\ more[i] = offered[i]) \/ more[i] = s
  BY <1>2
<1>4. record(offered, key, context) = more \/ record(offered, key, context) = offered
  BY DEF record, more, s
<1> QED
  BY <1>2, <1>3, <1>4 DEF s

(* An arm as the report shows it.                                           *)
LEMMA ArmAsShown ==
    ASSUME NEW a, NEW text, NEW retrieved, NEW judged \in Judgements
    PROVE  LET arm == FinishArm(a, text, retrieved, judged)
           IN  /\ InReport(arm) \in ShownArms
               /\ InReport(arm).judged = judged /\ InReport(arm).judged_ragas = Nothing
               /\ arm.judged = judged /\ arm.judged_ragas = Nothing
<1> DEFINE arm == FinishArm(a, text, retrieved, judged)
<1>1. arm.judged = judged /\ arm.judged_ragas = Nothing
  BY DEF FinishArm
<1>2. InReport(arm) = [judged |-> judged, judged_ragas |-> Nothing,
                       fatal |-> arm.results.grounding.fatal \/ arm.results.format.fatal]
  BY <1>1 DEF InReport
<1> HIDE DEF arm
<1>3. (arm.results.grounding.fatal \/ arm.results.format.fatal) \in BOOLEAN
  OBVIOUS
<1>4. Nothing \in Judgements
  BY DEF Judgements
<1>5. InReport(arm) \in ShownArms
  BY <1>2, <1>3, <1>4 DEF ShownArms
<1> QED
  BY <1>1, <1>2, <1>5 DEF arm

(* With documents a text is fatal in grounding when it cites what retrieval *)
(* did not keep: correcting its hashtags cites nothing.                     *)
LEMMA FatalIsFabricated ==
    ASSUME NEW text \in EvalTexts, NEW kept, NEW judged
    PROVE  FinishArm("rag_on", text, kept, judged).results.grounding.fatal <=>
              text.cites \ kept # {}
<1> DEFINE corrected == _enforce_channel_format(text)
<1>1. corrected.cites = text.cites
  BY DEF EvalTexts, _enforce_channel_format, enforce_hashtags
<1> HIDE DEF corrected
<1>2. FinishArm("rag_on", text, kept, judged).results.grounding.fatal =
          score_grounding(corrected, corrected.cites, kept).fatal
  BY DEF FinishArm, ScoredAs, _grounding_triple, corrected
<1>3. score_grounding(corrected, corrected.cites, kept).fatal = (corrected.cites \ kept # {})
  BY DEF score_grounding
<1> QED
  BY <1>1, <1>2, <1>3

(* A case's first text, without documents.                                  *)
LEMMA WriteWithoutHolds == ASSUME EvalInv, WriteWithout PROVE EvalInv'
<1> DEFINE n == Len(caseRows) + 1
           key == <<n, "rag_off">>
<1>0. /\ flags \in [live : BOOLEAN, deepeval : BOOLEAN, ragas : BOOLEAN]
      /\ CasesHold /\ SamplesHold /\ DraftHolds /\ TallyHolds
  BY DEF EvalInv
<1>1. /\ at = "rag_off" /\ at' = "retrieve" /\ UNCHANGED <<flags, caseRows, notes, report>>
      /\ samples' = record(samples, key, {})
  BY DEF WriteWithout, TextKey
<1>2. n \in Nat /\ "rag_off" \in EvalArms /\ key \in Nat \X EvalArms
  BY <1>0 DEF CasesHold, EvalArms
<1>3. PICK text \in EvalTexts, judged \in judge(key, {}) :
          /\ draft' = [NoCase EXCEPT
                          !.text = text, !.off = InReport(FinishArm("rag_off", text, {}, judged))]
          /\ tally' = tally + Measured(judged)
  BY DEF WriteWithout, TextKey
<1>4. judged \in Judgements /\ Honest(flags.live, judged, n, "rag_off", {})
  BY <1>0, <1>2, JudgeIsHonest
<1> DEFINE off == InReport(FinishArm("rag_off", text, {}, judged))
<1>5. off \in ShownArms /\ off.judged = judged /\ off.judged_ragas = Nothing
  BY <1>4, ArmAsShown
<1>6. draft' = [NoCase EXCEPT !.text = text, !.off = off]
  BY <1>3
<1> HIDE DEF off
<1>7. /\ draft' = [f \in DraftFields |-> draft'[f]]
      /\ draft'.kept = {} /\ draft'.failed = FALSE /\ draft'.off = off
  BY <1>6 DEF NoCase, DraftFields
<1>8. DraftHolds'
  BY <1>1, <1>4, <1>5, <1>7 DEF DraftHolds, HasOff
<1>9. SamplesHold'
  <2>1. /\ samples' \in Seq(Samples)
        /\ \A i \in DOMAIN samples' :
              \/ i \in DOMAIN samples /\ samples'[i] = samples[i]
              \/ samples'[i] = [key |-> key, contexts |-> {}]
    <3>1. samples \in Seq(Samples) /\ {} \in SUBSET Facts
      BY <1>0 DEF SamplesHold
    <3> DEFINE grown == record(samples, key, {})
    <3>2. /\ grown \in Seq(Samples)
          /\ \A i \in DOMAIN grown :
                \/ i \in DOMAIN samples /\ grown[i] = samples[i]
                \/ grown[i] = [key |-> key, contexts |-> {}]
      BY <1>2, <3>1, RecordedLast
    <3>3. samples' = grown
      BY <1>1
    <3> HIDE DEF grown
    <3> QED
      BY <3>2, <3>3
  <2>2. ASSUME NEW i \in DOMAIN samples', samples'[i].contexts # {}
        PROVE  /\ samples'[i].key[2] = "rag_on" /\ samples'[i].key[1] \in DOMAIN caseRows
               /\ caseRows[samples'[i].key[1]].kept # {}
    <3>1. i \in DOMAIN samples /\ samples'[i] = samples[i]
      BY <2>1, <2>2
    <3> QED
      BY <1>0, <1>1, <2>2, <3>1 DEF SamplesHold
  <2> QED
    BY <1>1, <2>1, <2>2 DEF SamplesHold
<1>10. TallyHolds'
  <2>1. tally = Cardinality(Numbers(caseRows)) /\ IsFiniteSet(Numbers(caseRows))
    <3>1. Cardinality(Numbers(caseRows)) \in Nat
      BY <1>0, FS_CardinalityType DEF TallyHolds
    <3> QED
      BY <1>0, <1>1, <3>1 DEF TallyHolds, HasOff
  <2>2. Measured(judged) \in Nat /\ Cardinality(Numbers(caseRows)) \in Nat
    BY <2>1, MeasuredIsNumbers, FS_CardinalityType
  <2>3. Measured(draft'.off.judged) = Measured(judged)
    BY <1>5, <1>7
  <2> QED
    BY <1>1, <1>3, <2>1, <2>2, <2>3 DEF TallyHolds, HasOff
<1> QED
  BY <1>0, <1>1, <1>8, <1>9, <1>10 DEF EvalInv, CasesHold

(* What retrieval kept of the case's chunks, if it did not fail.            *)
LEMMA RetrieveHolds == ASSUME EvalInv, Retrieve PROVE EvalInv'
<1>0. /\ flags \in [live : BOOLEAN, deepeval : BOOLEAN, ragas : BOOLEAN]
      /\ CasesHold /\ SamplesHold /\ DraftHolds /\ TallyHolds
  BY DEF EvalInv
<1>1. /\ at = "retrieve" /\ at' = "rag_on"
      /\ UNCHANGED <<flags, caseRows, samples, tally, notes, report>>
  BY DEF Retrieve
<1>2. /\ draft' = [f \in DraftFields |-> draft'[f]]
      /\ draft'.kept \subseteq Facts /\ draft'.failed \in BOOLEAN /\ draft'.off = draft.off
  <2>1. CASE \E kept \in SUBSET Facts : draft' = [draft EXCEPT !.kept = kept, !.text = Nothing]
    BY <1>0, <2>1 DEF DraftHolds, DraftFields
  <2>2. CASE draft' = [draft EXCEPT !.failed = TRUE, !.text = Nothing]
    BY <1>0, <2>2 DEF DraftHolds, DraftFields
  <2> QED
    BY <2>1, <2>2 DEF Retrieve
<1>3. Honest(flags.live, draft.off.judged, Len(caseRows) + 1, "rag_off", draft'.kept)
  BY <1>0, <1>1 DEF DraftHolds, HasOff, Honest
<1>4. DraftHolds'
  BY <1>0, <1>1, <1>2, <1>3 DEF DraftHolds, HasOff
<1>5. SamplesHold'
  BY <1>0, <1>1 DEF SamplesHold
<1>6. TallyHolds'
  BY <1>0, <1>1, <1>2 DEF TallyHolds, HasOff
<1> QED
  BY <1>0, <1>1, <1>4, <1>5, <1>6 DEF EvalInv, CasesHold

(* The case's second text, with what was kept.                              *)
LEMMA WriteWithHolds == ASSUME EvalInv, WriteWith PROVE EvalInv'
<1> DEFINE n == Len(caseRows) + 1
           key == <<n, "rag_on">>
<1>0. /\ flags \in [live : BOOLEAN, deepeval : BOOLEAN, ragas : BOOLEAN]
      /\ CasesHold /\ SamplesHold /\ DraftHolds /\ TallyHolds
  BY DEF EvalInv
<1>1. /\ at = "rag_on" /\ at' = "row" /\ UNCHANGED <<flags, caseRows, notes, report>>
      /\ samples' = record(samples, key, draft.kept)
  BY DEF WriteWith, TextKey
<1>2. n \in Nat /\ "rag_on" \in EvalArms /\ key \in Nat \X EvalArms
  BY <1>0 DEF CasesHold, EvalArms
<1>3. PICK text \in EvalTexts, judged \in judge(key, draft.kept) :
          /\ draft' = [draft EXCEPT !.text = text,
                                    !.on = FinishArm("rag_on", text, draft.kept, judged)]
          /\ tally' = tally + Measured(judged)
  BY DEF WriteWith, TextKey
<1>4. judged \in Judgements /\ Honest(flags.live, judged, n, "rag_on", draft.kept)
  BY <1>0, <1>2, JudgeIsHonest
<1> DEFINE arm == FinishArm("rag_on", text, draft.kept, judged)
<1>5. /\ InReport(arm) \in ShownArms /\ arm.judged = judged /\ arm.judged_ragas = Nothing
      /\ arm.results.grounding.fatal <=> text.cites \ draft.kept # {}
  BY <1>4, ArmAsShown, FatalIsFabricated
<1>6. draft' = [draft EXCEPT !.text = text, !.on = arm]
  BY <1>3
<1> HIDE DEF arm
<1>7. /\ draft' = [f \in DraftFields |-> draft'[f]]
      /\ draft'.kept = draft.kept /\ draft'.failed = draft.failed /\ draft'.off = draft.off
      /\ draft'.on = arm /\ draft'.text = text
  BY <1>0, <1>6 DEF DraftHolds, DraftFields
<1>8. DraftHolds'
  BY <1>0, <1>1, <1>4, <1>5, <1>7 DEF DraftHolds, HasOff
<1>9. SamplesHold'
  <2>1. /\ samples' \in Seq(Samples)
        /\ \A i \in DOMAIN samples' :
              \/ i \in DOMAIN samples /\ samples'[i] = samples[i]
              \/ samples'[i] = [key |-> key, contexts |-> draft.kept]
    <3>1. samples \in Seq(Samples) /\ draft.kept \in SUBSET Facts
      BY <1>0 DEF SamplesHold, DraftHolds
    <3> DEFINE grown == record(samples, key, draft.kept)
    <3>2. /\ grown \in Seq(Samples)
          /\ \A i \in DOMAIN grown :
                \/ i \in DOMAIN samples /\ grown[i] = samples[i]
                \/ grown[i] = [key |-> key, contexts |-> draft.kept]
      BY <1>2, <3>1, RecordedLast
    <3>3. samples' = grown
      BY <1>1
    <3> HIDE DEF grown
    <3> QED
      BY <3>2, <3>3
  <2>2. ASSUME NEW i \in DOMAIN samples', samples'[i].contexts # {}
        PROVE  /\ samples'[i].key[2] = "rag_on"
               /\ \/ /\ samples'[i].key[1] \in DOMAIN caseRows
                     /\ caseRows[samples'[i].key[1]].kept # {}
                  \/ samples'[i].key[1] = n /\ draft.kept # {}
    <3>1. CASE i \in DOMAIN samples /\ samples'[i] = samples[i]
      BY <1>0, <1>1, <2>2, <3>1 DEF SamplesHold
    <3>2. CASE samples'[i] = [key |-> key, contexts |-> draft.kept]
      <4>1. samples'[i].key = key /\ samples'[i].contexts = draft.kept
        BY <3>2
      <4> QED
        BY <2>2, <4>1
    <3> QED
      BY <2>1, <3>1, <3>2
  <2> QED
    BY <1>1, <1>7, <2>1, <2>2 DEF SamplesHold
<1>10. TallyHolds'
  <2>1. Measured(judged) \in Nat /\ Measured(draft.off.judged) \in Nat
    BY MeasuredIsNumbers
  <2>2. IsFiniteSet(Numbers(caseRows)) /\ Cardinality(Numbers(caseRows)) \in Nat
    BY <1>0, FS_CardinalityType DEF TallyHolds
  <2>3. tally = Cardinality(Numbers(caseRows)) + Measured(draft.off.judged)
    BY <1>0, <1>1, <2>1, <2>2 DEF TallyHolds, HasOff
  <2>4. Measured(draft'.on.judged) = Measured(judged) /\ draft'.off = draft.off
    BY <1>5, <1>7
  <2> QED
    BY <1>1, <1>3, <2>1, <2>2, <2>3, <2>4 DEF TallyHolds, HasOff
<1> QED
  BY <1>0, <1>1, <1>8, <1>9, <1>10 DEF EvalInv, CasesHold

(* The finished case becomes a row, and its numbers the table's.            *)
LEMMA AddRowHolds == ASSUME EvalInv, AddRow PROVE EvalInv'
<1> DEFINE n == Len(caseRows) + 1
           row == [kept |-> draft.kept, failed |-> draft.failed,
                   rag_off |-> draft.off, rag_on |-> InReport(draft.on)]
<1>0. /\ flags \in [live : BOOLEAN, deepeval : BOOLEAN, ragas : BOOLEAN]
      /\ CasesHold /\ SamplesHold /\ DraftHolds /\ TallyHolds
  BY DEF EvalInv
<1>1. /\ at = "row" /\ draft' = NoCase /\ caseRows' = Append(caseRows, row)
      /\ at' \in {"rag_off", "resolve"} /\ UNCHANGED <<flags, samples, tally, report>>
  BY DEF AddRow, AfterCase
<1>2. /\ draft.kept \in SUBSET Facts /\ draft.failed \in BOOLEAN
      /\ draft.off \in ShownArms /\ draft.off.judged_ragas = Nothing
      /\ Honest(flags.live, draft.off.judged, n, "rag_off", draft.kept)
      /\ draft.on.judged_ragas = Nothing /\ InReport(draft.on) \in ShownArms
      /\ Honest(flags.live, draft.on.judged, n, "rag_on", draft.kept)
  BY <1>0, <1>1 DEF DraftHolds, HasOff
<1>3. /\ row \in EvalRows /\ row.kept = draft.kept /\ row.rag_off = draft.off
      /\ row.rag_on = InReport(draft.on)
  BY <1>2 DEF EvalRows
<1>4. InReport(draft.on).judged = draft.on.judged /\ InReport(draft.on).judged_ragas = Nothing
  BY <1>2 DEF InReport
<1>5. HonestRow(flags.live, row, n)
  <2>1. \A a \in EvalArms : a = "rag_off" \/ a = "rag_on"
    BY DEF EvalArms
  <2>2. \A a \in EvalArms : Honest(flags.live, Nothing, n, a, draft.kept)
    BY DEF Honest, IsNumber
  <2>3. row["rag_off"] = row.rag_off /\ row["rag_on"] = row.rag_on
    OBVIOUS
  <2> HIDE DEF row, n
  <2> QED
    BY <1>2, <1>3, <1>4, <2>1, <2>2, <2>3 DEF HonestRow
<1> HIDE DEF row
<1>6. /\ caseRows' \in Seq(EvalRows) /\ Len(caseRows) \in Nat /\ Len(caseRows') = n
      /\ DOMAIN caseRows = 1 .. n - 1 /\ DOMAIN caseRows' = 1 .. n /\ caseRows'[n] = row
      /\ \A i \in 1 .. n - 1 : caseRows'[i] = caseRows[i]
  BY <1>0, <1>1, <1>3 DEF CasesHold
<1>7. CasesHold'
  <2>1. ASSUME NEW i \in DOMAIN caseRows' PROVE HonestRow(flags.live, caseRows'[i], i)
    <3>1. i = n \/ i \in 1 .. n - 1
      BY <1>6
    <3> QED
      BY <1>0, <1>5, <1>6, <3>1 DEF CasesHold
  <2> QED
    BY <1>1, <1>6, <2>1 DEF CasesHold
<1>8. SamplesHold'
  <2>1. ASSUME NEW i \in DOMAIN samples, samples[i].contexts # {}
        PROVE  /\ samples[i].key[2] = "rag_on" /\ samples[i].key[1] \in DOMAIN caseRows'
               /\ caseRows'[samples[i].key[1]].kept # {}
    BY <1>0, <1>1, <1>3, <1>6, <2>1 DEF SamplesHold
  <2> QED
    BY <1>0, <1>1, <2>1 DEF SamplesHold
<1>9. DraftHolds'
  BY <1>1 DEF DraftHolds, HasOff, NoCase, DraftFields
<1>10. TallyHolds'
  <2>1. IsFiniteSet(Numbers(caseRows)) /\ Cardinality(Numbers(caseRows)) \in Nat
    BY <1>0, FS_CardinalityType DEF TallyHolds
  <2>2. tally = Cardinality(Numbers(caseRows)) + Measured(draft.off.judged)
                + Measured(draft.on.judged)
    BY <1>0, <1>1 DEF TallyHolds, HasOff
  <2>3. /\ IsFiniteSet(Numbers(caseRows'))
        /\ Cardinality(Numbers(caseRows')) = tally
    BY <1>0, <1>1, <1>3, <1>4, <2>1, <2>2, RowAddsItsNumbers DEF CasesHold
  <2>4. Cardinality(Numbers(caseRows')) \in Nat
    BY <2>3, FS_CardinalityType
  <2> QED
    BY <1>1, <2>3, <2>4 DEF TallyHolds, HasOff
<1> QED
  BY <1>0, <1>1, <1>7, <1>8, <1>9, <1>10 DEF EvalInv

\* What Ragas says of a sample, and where a row looks its own up.
OfSample(judged, i) ==
    /\ judged[i] \in Judgements
    /\ \A m \in Metrics :
          IsNumber(judged[i], m) =>
             /\ judged[i][m] = samples[i].key /\ flags.live
             /\ m = "faithfulness" => samples[i].contexts # {}

RagasOf(n, arm, judged) ==
    IF \E i \in DOMAIN judged : samples[i].key = <<n, arm>>
    THEN judged[CHOOSE i \in DOMAIN judged : samples[i].key = <<n, arm>>]
    ELSE Nothing

(* A process that failed measured nothing, and of one that answered only    *)
(* what was measured against passages that were there is taken.             *)
LEMMA RagasIsHonest ==
    ASSUME samples \in Seq(Samples), NEW i \in DOMAIN samples
    PROVE  /\ OfSample(_all_not_measured, i)
           /\ \A reply \in Reply : flags.live => OfSample(_map(reply), i)
<1>1. samples[i].key \in Nat \X EvalArms /\ i \in 1 .. Len(samples)
  <2>1. samples[i] \in Samples /\ i \in 1 .. Len(samples)
    OBVIOUS
  <2> QED
    BY <2>1 DEF Samples
<1>2. OfSample(_all_not_measured, i)
  <2>1. _all_not_measured[i] = NotMeasured
    BY <1>1 DEF _all_not_measured
  <2>2. NotMeasured \in [Metrics -> Scores] /\ \A m \in Metrics : NotMeasured[m] = Unmeasured
    BY DEF NotMeasured, Scores
  <2> QED
    BY <2>1, <2>2 DEF OfSample, Judgements, IsNumber
<1>3. ASSUME NEW reply \in Reply, flags.live PROVE OfSample(_map(reply), i)
  <2> DEFINE f == _outcome(reply[i]["faithfulness"] /\ samples[i].contexts # {}, samples[i].key)
             r == _outcome(reply[i]["answer_relevancy"], samples[i].key)
             judged == _map(reply)[i]
  <2>1. judged = [faithfulness |-> f, answer_relevancy |-> r]
    BY <1>1 DEF _map
  <2>2. /\ f = Unmeasured \/ (f = samples[i].key /\ samples[i].contexts # {})
        /\ r = Unmeasured \/ r = samples[i].key
    BY DEF _outcome
  <2> HIDE DEF f, r
  <2>3. f \in Scores /\ r \in Scores
    BY <1>1, <2>2 DEF Scores
  <2> HIDE DEF judged
  <2>4. /\ judged = [m \in Metrics |-> IF m = "faithfulness" THEN f ELSE r]
        /\ judged["faithfulness"] = f /\ judged["answer_relevancy"] = r
    BY <2>1 DEF Metrics
  <2>5. judged \in Judgements
    BY <2>3, <2>4 DEF Judgements
  <2>6. ASSUME NEW m \in Metrics, IsNumber(judged, m)
        PROVE  /\ judged[m] = samples[i].key
               /\ m = "faithfulness" => samples[i].contexts # {}
    <3>1. m = "faithfulness" \/ m = "answer_relevancy"
      BY DEF Metrics
    <3> QED
      BY <2>2, <2>4, <2>6, <3>1 DEF IsNumber
  <2> QED
    BY <1>3, <2>5, <2>6 DEF OfSample, judged
<1> QED
  BY <1>2, <1>3

(* A row's judgement from Ragas is about the row's own text.                *)
LEMMA LookupIsHonest ==
    ASSUME SamplesHold, at # "row", NEW judged, DOMAIN judged = DOMAIN samples,
           \A i \in DOMAIN samples : OfSample(judged, i),
           NEW n \in DOMAIN caseRows, NEW a \in EvalArms
    PROVE  /\ RagasOf(n, a, judged) \in Judgements
           /\ Honest(flags.live, RagasOf(n, a, judged), n, a, caseRows[n].kept)
<1>1. CASE \E i \in DOMAIN judged : samples[i].key = <<n, a>>
  <2> DEFINE i == CHOOSE j \in DOMAIN judged : samples[j].key = <<n, a>>
  <2>1. i \in DOMAIN judged /\ samples[i].key = <<n, a>>
    BY <1>1
  <2>2. RagasOf(n, a, judged) = judged[i]
    BY <1>1 DEF RagasOf
  <2> HIDE DEF i
  <2>3. OfSample(judged, i)
    BY <2>1
  <2>4. samples[i].key[1] = n /\ samples[i].key[2] = a
    BY <2>1
  <2>5. samples[i].contexts # {} => a = "rag_on" /\ caseRows[n].kept # {}
    BY <2>1, <2>4 DEF SamplesHold
  <2> QED
    BY <2>1, <2>2, <2>3, <2>5 DEF OfSample, Honest
<1>2. CASE ~ \E i \in DOMAIN judged : samples[i].key = <<n, a>>
  BY <1>2 DEF RagasOf, Judgements, Honest, IsNumber
<1> QED
  BY <1>1, <1>2

(* Ragas fills a column of every row and touches nothing else.              *)
LEMMA ResolveRagasHolds == ASSUME EvalInv, ResolveRagas PROVE EvalInv'
<1>0. /\ flags \in [live : BOOLEAN, deepeval : BOOLEAN, ragas : BOOLEAN]
      /\ CasesHold /\ SamplesHold /\ DraftHolds /\ TallyHolds
  BY DEF EvalInv
<1>1. /\ at = "resolve" /\ at' = "report" /\ UNCHANGED <<flags, draft, samples, tally, report>>
      /\ samples \in Seq(Samples) /\ DOMAIN samples = 1 .. Len(samples)
      /\ caseRows \in Seq(EvalRows)
  BY <1>0 DEF ResolveRagas, SamplesHold, CasesHold
<1>2. \/ caseRows' = caseRows
      \/ \E judged : /\ DOMAIN judged = DOMAIN samples
                     /\ \A i \in DOMAIN samples : OfSample(judged, i)
                     /\ caseRows' = [n \in DOMAIN caseRows |-> _with_ragas(caseRows[n], n, judged)]
  <2>1. CASE Resolved(<<>>)
    BY <2>1 DEF Resolved
  <2>2. CASE SpawnFails
    <3>1. \/ caseRows' = caseRows
          \/ caseRows' = [n \in DOMAIN caseRows |->
                              _with_ragas(caseRows[n], n, _all_not_measured)]
      BY <2>2 DEF SpawnFails, Resolved
    <3>2. /\ DOMAIN _all_not_measured = DOMAIN samples
          /\ \A i \in DOMAIN samples : OfSample(_all_not_measured, i)
      BY <1>1, RagasIsHonest DEF _all_not_measured
    <3> QED
      BY <3>1, <3>2
  <2>3. ASSUME NEW reply \in Reply, CanSpawn, Resolved(_map(reply))
        PROVE  \/ caseRows' = caseRows
               \/ \E judged :
                     /\ DOMAIN judged = DOMAIN samples
                     /\ \A i \in DOMAIN samples : OfSample(judged, i)
                     /\ caseRows' = [n \in DOMAIN caseRows |->
                                        _with_ragas(caseRows[n], n, judged)]
    <3>1. \/ caseRows' = caseRows
          \/ caseRows' = [n \in DOMAIN caseRows |-> _with_ragas(caseRows[n], n, _map(reply))]
      BY <2>3 DEF Resolved
    <3>2. /\ DOMAIN _map(reply) = DOMAIN samples
          /\ \A i \in DOMAIN samples : OfSample(_map(reply), i)
      <4>1. DOMAIN _map(reply) = 1 .. Len(samples)
        BY DEF _map
      <4> QED
        BY <1>1, <2>3, <4>1, RagasIsHonest DEF CanSpawn
    <3> QED
      BY <3>1, <3>2
  <2> QED
    BY <2>1, <2>2, <2>3 DEF ResolveRagas
<1>3. /\ CasesHold' /\ DOMAIN caseRows' = DOMAIN caseRows
      /\ \A n \in DOMAIN caseRows :
            /\ caseRows'[n].kept = caseRows[n].kept
            /\ \A a \in EvalArms : caseRows'[n][a].judged = caseRows[n][a].judged
  <2>1. CASE caseRows' = caseRows
    BY <1>0, <1>1, <2>1 DEF CasesHold
  <2>2. CASE caseRows' # caseRows
    <3>1. PICK judged : /\ DOMAIN judged = DOMAIN samples
                        /\ \A i \in DOMAIN samples : OfSample(judged, i)
                        /\ caseRows' = [n \in DOMAIN caseRows |->
                                           _with_ragas(caseRows[n], n, judged)]
      BY <1>2, <2>2
    <3>2. ASSUME NEW n \in DOMAIN caseRows
          PROVE  /\ caseRows'[n] \in EvalRows /\ HonestRow(flags.live, caseRows'[n], n)
                 /\ caseRows'[n].kept = caseRows[n].kept
                 /\ \A a \in EvalArms : caseRows'[n][a].judged = caseRows[n][a].judged
      <4> DEFINE old == caseRows[n]
                 off == RagasOf(n, "rag_off", judged)
                 on == RagasOf(n, "rag_on", judged)
                 new == [old EXCEPT !.rag_off.judged_ragas = off, !.rag_on.judged_ragas = on]
      <4>1. caseRows'[n] = new
        BY <3>1 DEF _with_ragas, RagasOf
      <4>2. old \in EvalRows /\ HonestRow(flags.live, old, n)
        BY <1>0 DEF CasesHold
      <4>3. /\ off \in Judgements /\ Honest(flags.live, off, n, "rag_off", old.kept)
            /\ on \in Judgements /\ Honest(flags.live, on, n, "rag_on", old.kept)
        BY <1>0, <1>1, <3>1, LookupIsHonest DEF EvalArms
      <4> HIDE DEF old, off, on
      <4>4. /\ new \in EvalRows /\ new.kept = old.kept
            /\ new.rag_off.judged = old.rag_off.judged /\ new.rag_on.judged = old.rag_on.judged
            /\ new.rag_off.judged_ragas = off /\ new.rag_on.judged_ragas = on
        BY <4>2, <4>3 DEF EvalRows, ShownArms
      <4> HIDE DEF new
      <4>5. \A a \in EvalArms : a = "rag_off" \/ a = "rag_on"
        BY DEF EvalArms
      <4>6. \A a \in EvalArms : new[a].judged = old[a].judged
        BY <4>4, <4>5
      <4>7. HonestRow(flags.live, new, n)
        BY <4>2, <4>3, <4>4, <4>5, <4>6 DEF HonestRow
      <4> QED
        BY <4>1, <4>4, <4>6, <4>7 DEF old
    <3>3. caseRows' \in Seq(EvalRows) /\ DOMAIN caseRows' = DOMAIN caseRows
      <4>1. Len(caseRows) \in Nat /\ DOMAIN caseRows = 1 .. Len(caseRows)
        BY <1>1
      <4>2. DOMAIN caseRows' = 1 .. Len(caseRows)
        BY <3>1, <4>1
      <4>3. caseRows' = [n \in 1 .. Len(caseRows) |-> caseRows'[n]]
        BY <3>1, <4>1
      <4> QED
        BY <3>2, <4>1, <4>2, <4>3
    <3> QED
      BY <1>1, <3>2, <3>3 DEF CasesHold
  <2> QED
    BY <2>1, <2>2
<1>4. Len(caseRows') = Len(caseRows)
  BY <1>1, <1>3 DEF CasesHold
<1>5. SamplesHold'
  BY <1>0, <1>1, <1>3 DEF SamplesHold
<1>6. DraftHolds'
  BY <1>0, <1>1 DEF DraftHolds, HasOff
<1>7. TallyHolds'
  <2>1. Numbers(caseRows') = Numbers(caseRows)
    <3>1. ASSUME NEW c \in (DOMAIN caseRows) \X EvalArms \X Metrics
          PROVE  caseRows'[c[1]][c[2]].judged = caseRows[c[1]][c[2]].judged
      BY <1>3
    <3> QED
      BY <1>3, <3>1 DEF Numbers
  <2> QED
    BY <1>0, <1>1, <2>1 DEF TallyHolds, HasOff
<1>8. report' # Nothing => at' = "done" /\ ShownHolds'
  BY <1>1 DEF EvalInv
<1> QED
  BY <1>0, <1>1, <1>3, <1>5, <1>6, <1>7, <1>8 DEF EvalInv

(* A cell shows a number exactly when the judgement holds one.              *)
LEMMA CellIsNumber ==
    ASSUME NEW isLive, NEW judged, NEW n, NEW a, NEW kept, NEW m \in Metrics,
           Honest(isLive, judged, n, a, kept)
    PROVE  /\ (_judged_cell(judged, m) \notin {ARM_OFF_CELL, NOT_MEASURED_CELL}) <=>
                 IsNumber(judged, m)
           /\ IsNumber(judged, m) => _judged_cell(judged, m) = judged[m]
<1>1. <<n, a>> # ARM_OFF_CELL /\ <<n, a>> # NOT_MEASURED_CELL
  BY DEF ARM_OFF_CELL, NOT_MEASURED_CELL
<1>2. IsNumber(judged, m) => judged[m] = <<n, a>>
  BY DEF Honest
<1> QED
  BY <1>1, <1>2 DEF _judged_cell, IsNumber

(* The report shows the rows.                                               *)
LEMMA WriteReportHolds == ASSUME EvalInv, WriteReport PROVE EvalInv'
<1>0. /\ flags \in [live : BOOLEAN, deepeval : BOOLEAN, ragas : BOOLEAN]
      /\ CasesHold /\ SamplesHold /\ DraftHolds /\ TallyHolds
  BY DEF EvalInv
<1>1. /\ at = "report" /\ at' = "done" /\ UNCHANGED <<flags, draft, caseRows, samples, tally>>
      /\ report'.deepeval = Cells("judged") /\ report'.ragas = Cells("judged_ragas")
      /\ report'.measured = tally
  BY DEF WriteReport
<1>2. ASSUME NEW n \in DOMAIN caseRows, NEW a \in EvalArms
      PROVE  /\ Honest(flags.live, caseRows[n][a].judged, n, a, caseRows[n].kept)
             /\ Honest(flags.live, caseRows[n][a].judged_ragas, n, a, caseRows[n].kept)
  BY <1>0 DEF CasesHold, HonestRow
<1>3. ASSUME NEW n \in DOMAIN caseRows, NEW a \in EvalArms, NEW m \in Metrics
      PROVE  /\ report'.deepeval[n][a][m] = _judged_cell(caseRows[n][a].judged, m)
             /\ report'.ragas[n][a][m] = _judged_cell(caseRows[n][a].judged_ragas, m)
  BY <1>1 DEF Cells
<1>4. \A judged \in {"deepeval", "ragas"}, n \in DOMAIN caseRows, a \in EvalArms, m \in Metrics :
         report'[judged][n][a][m] \notin {ARM_OFF_CELL, NOT_MEASURED_CELL} =>
             /\ report'[judged][n][a][m] = <<n, a>> /\ flags.live
             /\ m = "faithfulness" => (a = "rag_on" /\ caseRows[n].kept # {})
  <2>1. ASSUME NEW n \in DOMAIN caseRows, NEW a \in EvalArms, NEW m \in Metrics,
               NEW said, Honest(flags.live, said, n, a, caseRows[n].kept),
               _judged_cell(said, m) \notin {ARM_OFF_CELL, NOT_MEASURED_CELL}
        PROVE  /\ _judged_cell(said, m) = <<n, a>> /\ flags.live
               /\ m = "faithfulness" => (a = "rag_on" /\ caseRows[n].kept # {})
    <3>1. IsNumber(said, m) /\ _judged_cell(said, m) = said[m]
      BY <2>1, CellIsNumber
    <3> QED
      BY <2>1, <3>1 DEF Honest
  <2>2. report'["deepeval"] = report'.deepeval /\ report'["ragas"] = report'.ragas
    OBVIOUS
  <2> QED
    BY <1>2, <1>3, <2>1, <2>2
<1>5. Numbers(caseRows) = {c \in (DOMAIN caseRows) \X EvalArms \X Metrics :
          report'.deepeval[c[1]][c[2]][c[3]] \notin {ARM_OFF_CELL, NOT_MEASURED_CELL}}
  <2>1. ASSUME NEW c \in (DOMAIN caseRows) \X EvalArms \X Metrics
        PROVE  IsNumber(caseRows[c[1]][c[2]].judged, c[3]) <=>
                  report'.deepeval[c[1]][c[2]][c[3]] \notin {ARM_OFF_CELL, NOT_MEASURED_CELL}
    <3>1. c[1] \in DOMAIN caseRows /\ c[2] \in EvalArms /\ c[3] \in Metrics
      OBVIOUS
    <3>2. Honest(flags.live, caseRows[c[1]][c[2]].judged, c[1], c[2], caseRows[c[1]].kept)
      BY <1>2, <3>1
    <3>3. report'.deepeval[c[1]][c[2]][c[3]] = _judged_cell(caseRows[c[1]][c[2]].judged, c[3])
      BY <1>3, <3>1
    <3> QED
      BY <3>1, <3>2, <3>3, CellIsNumber
  <2> QED
    BY <2>1 DEF Numbers
<1>6. tally = Cardinality(Numbers(caseRows))
  <2>1. Cardinality(Numbers(caseRows)) \in Nat
    BY <1>0, FS_CardinalityType DEF TallyHolds
  <2> QED
    BY <1>0, <1>1, <2>1 DEF TallyHolds, HasOff
<1>7. ShownHolds'
  <2>1. report'.measured = Cardinality({
            c \in (DOMAIN caseRows) \X EvalArms \X Metrics :
            report'.deepeval[c[1]][c[2]][c[3]] \notin {ARM_OFF_CELL, NOT_MEASURED_CELL}})
    BY <1>1, <1>5, <1>6
  <2>2. Shows(report', caseRows, flags.live)
    BY <1>4, <2>1, Zenon DEF Shows
  <2>3. caseRows' = caseRows /\ flags' = flags
    BY <1>1
  <2> QED
    BY <2>2, <2>3 DEF ShownHolds
<1>8. SamplesHold' /\ DraftHolds' /\ TallyHolds' /\ CasesHold'
  BY <1>0, <1>1 DEF SamplesHold, DraftHolds, TallyHolds, CasesHold, HasOff
<1> QED
  BY <1>0, <1>1, <1>7, <1>8 DEF EvalInv

(* Every step of the harness keeps the invariant.                           *)
LEMMA EvalInvNext == EvalInv /\ [EvalNext]_evalVars => EvalInv'
<1> SUFFICES ASSUME EvalInv, [EvalNext]_evalVars PROVE EvalInv'
  OBVIOUS
<1>1. CASE ArmFails
  BY <1>1 DEF ArmFails, EvalInv, CasesHold, SamplesHold, DraftHolds, TallyHolds, HasOff, EvalArms
<1>2. CASE UNCHANGED evalVars
  <2>1. UNCHANGED <<flags, at, draft, caseRows, samples, tally, report>>
    BY <1>2 DEF evalVars
  <2>2. CasesHold' /\ SamplesHold' /\ DraftHolds' /\ TallyHolds'
    BY <2>1 DEF EvalInv, CasesHold, SamplesHold, DraftHolds, TallyHolds, HasOff
  <2>3. (report # Nothing => at = "done" /\ ShownHolds)'
    BY <2>1 DEF EvalInv, ShownHolds
  <2> QED
    BY <2>1, <2>2, <2>3 DEF EvalInv
<1> QED
  BY <1>1, <1>2, WriteWithoutHolds, RetrieveHolds, WriteWithHolds, AddRowHolds, ResolveRagasHolds,
     WriteReportHolds DEF EvalNext

(* The harness begins as its invariant says.                                *)
LEMMA EvalBegins == EvalInit => EvalInv
<1> SUFFICES ASSUME EvalInit PROVE EvalInv
  OBVIOUS
<1>1. CasesHold /\ SamplesHold
  <2>1. << >> \in Seq(EvalRows) /\ << >> \in Seq(Samples) /\ DOMAIN << >> = {}
    OBVIOUS
  <2> QED
    BY <2>1 DEF EvalInit, AfterCase, CasesHold, SamplesHold
<1>2. DraftHolds
  BY DEF EvalInit, AfterCase, DraftHolds, HasOff, NoCase, DraftFields
<1>3. TallyHolds
  <2>1. caseRows = << >> /\ DOMAIN caseRows = {}
    BY DEF EvalInit
  <2>2. Numbers(caseRows) = {}
    BY <2>1 DEF Numbers
  <2>3. IsFiniteSet(Numbers(caseRows)) /\ Cardinality(Numbers(caseRows)) = 0
    BY <2>2, FS_EmptySet
  <2>4. tally = 0 /\ at \in {"rag_off", "resolve"}
    BY DEF EvalInit, AfterCase
  <2> QED
    BY <2>3, <2>4 DEF TallyHolds, HasOff
<1> QED
  BY <1>1, <1>2, <1>3 DEF EvalInit, EvalInv

(* The report says of a text what was found in the text the model wrote,    *)
(* and shows no number nobody measured (evals/run.py, judged.py,            *)
(* ragas_arm.py): for any cases, chunks and judges.                         *)
THEOREM ReportShowsWhatWasMeasured == EvalSpec => []ScoresAreOfTheModelsText
<1>1. EvalInv => ScoresAreOfTheModelsText
  BY DEF EvalInv, ScoresAreOfTheModelsText, ShownHolds, Shows, DraftHolds
<1> QED
  BY <1>1, EvalBegins, EvalInvNext, PTL DEF EvalSpec

-----------------------------------------------------------------------------
(* The types of the evaluation, beside what EvalInv says of it.             *)

EvalRest ==
    /\ at \in EvalArms \cup {"retrieve", "row", "resolve", "report", "done", "failed"}
    /\ Len(caseRows) <= MaxCases
    /\ at \in EvalArms \cup {"retrieve", "row"} => Len(caseRows) < MaxCases
    /\ Len(samples) <= MAX_SAMPLES
    /\ tally \in Nat /\ notes \subseteq 1 .. MaxCases

(* The invariant and the rest of the types make the types.                  *)
LEMMA EvalTypesFollow == EvalInv /\ EvalRest => EvalTypeOK
BY DEF EvalInv, EvalRest, DraftHolds, EvalTypeOK

(* No more samples are recorded than the judge takes.                       *)
LEMMA SamplesAreFew ==
    ASSUME NEW offered \in Seq(Samples), Len(offered) <= MAX_SAMPLES, NEW key, NEW context
    PROVE  Len(record(offered, key, context)) <= MAX_SAMPLES
<1> DEFINE s == [key |-> key, contexts |-> context]
<1>1. Len(offered) \in Nat /\ MAX_SAMPLES \in Nat
  BY EvaluationAssumption
<1>2. offered \in Seq(Samples \cup {s})
  <2> HIDE DEF s
  <2> QED
    BY <1>1, SeqRetyped, LenProperties
<1> HIDE DEF s
<1>3. Len(Append(offered, s)) = Len(offered) + 1
  BY <1>2
<1>4. \/ record(offered, key, context) = offered
      \/ Len(offered) < MAX_SAMPLES /\ record(offered, key, context) = Append(offered, s)
  BY DEF record, s
<1> QED
  BY <1>1, <1>3, <1>4

(* Every step keeps the rest of the types.                                  *)
LEMMA EvalRestKept == EvalInv /\ EvalRest /\ [EvalNext]_evalVars => EvalRest'
<1> SUFFICES ASSUME EvalInv, EvalRest, [EvalNext]_evalVars PROVE EvalRest'
  OBVIOUS
<1> DEFINE Stages == EvalArms \cup {"retrieve", "row", "resolve", "report", "done", "failed"}
           Under  == EvalArms \cup {"retrieve", "row"}
<1>0. /\ caseRows \in Seq(EvalRows) /\ Len(caseRows) \in Nat /\ MaxCases \in Nat
      /\ samples \in Seq(Samples)
  BY EvaluationAssumption DEF EvalInv, CasesHold, SamplesHold
<1>1. /\ at \in Stages /\ Len(caseRows) <= MaxCases
      /\ at \in Under => Len(caseRows) < MaxCases
      /\ Len(samples) <= MAX_SAMPLES /\ tally \in Nat /\ notes \subseteq 1 .. MaxCases
  BY DEF EvalRest
<1>2. CASE ArmFails
  <2>1. at' = "failed" /\ UNCHANGED <<caseRows, samples, tally, notes>>
    BY <1>2 DEF ArmFails
  <2> QED
    BY <1>1, <2>1 DEF EvalRest, EvalArms
<1>3. CASE WriteWithout \/ WriteWith
  <2>1. /\ at \in Under /\ at' \in {"retrieve", "row"} /\ UNCHANGED <<caseRows, notes>>
        /\ \E judged : tally' = tally + Measured(judged)
        /\ \E key, context : samples' = record(samples, key, context)
    BY <1>3 DEF WriteWithout, WriteWith, EvalArms
  <2>2. tally' \in Nat
    BY <1>1, <2>1, MeasuredIsNumbers
  <2>3. Len(samples') <= MAX_SAMPLES
    BY <1>0, <1>1, <2>1, SamplesAreFew
  <2> QED
    BY <1>1, <2>1, <2>2, <2>3 DEF EvalRest
<1>4. CASE Retrieve
  <2>1. at = "retrieve" /\ at' = "rag_on" /\ UNCHANGED <<caseRows, samples, tally, notes>>
    BY <1>4 DEF Retrieve
  <2> QED
    BY <1>1, <2>1 DEF EvalRest, EvalArms
<1>5. CASE AddRow
  <2> DEFINE row == [kept |-> draft.kept, failed |-> draft.failed,
                     rag_off |-> draft.off, rag_on |-> InReport(draft.on)]
             n == Len(caseRows) + 1
  <2>1. /\ at = "row" /\ at' = AfterCase(n) /\ UNCHANGED <<samples, tally>>
        /\ caseRows' = Append(caseRows, row) /\ notes' \subseteq notes \cup {n}
    BY <1>5 DEF AddRow
  <2> HIDE DEF row
  <2>2. Len(caseRows') = n
    <3>1. caseRows \in Seq(EvalRows \cup {row})
      BY <1>0, SeqRetyped, LenProperties
    <3>2. Len(Append(caseRows, row)) = n
      BY <3>1
    <3> QED
      BY <2>1, <3>2
  <2>3. n \in 1 .. MaxCases
    BY <1>0, <1>1, <2>1
  <2>4. /\ at' \in {"rag_off", "resolve"} /\ (at' = "rag_off" => n < MaxCases)
    BY <2>1 DEF AfterCase
  <2> HIDE DEF n
  <2>5. notes' \subseteq 1 .. MaxCases /\ n <= MaxCases
    BY <1>1, <2>1, <2>3
  <2> QED
    BY <1>1, <2>1, <2>2, <2>4, <2>5 DEF EvalRest, EvalArms
<1>6. CASE ResolveRagas
  <2>1. at' = "report" /\ UNCHANGED <<samples, tally, notes>>
    BY <1>6 DEF ResolveRagas
  <2>2. Len(caseRows') = Len(caseRows)
    <3>1. PICK judged : Resolved(judged)
      BY <1>6 DEF ResolveRagas, SpawnFails
    <3> DEFINE shown == [n \in 1 .. Len(caseRows) |-> _with_ragas(caseRows[n], n, judged)]
    <3>2. caseRows' = caseRows \/ caseRows' = shown
      BY <1>0, <3>1 DEF Resolved
    <3>3. Len(shown) = Len(caseRows)
      BY <1>0
    <3> HIDE DEF shown
    <3> QED
      BY <3>2, <3>3
  <2> QED
    BY <1>1, <2>1, <2>2 DEF EvalRest, EvalArms
<1>7. CASE WriteReport
  <2>1. at' = "done" /\ UNCHANGED <<caseRows, samples, tally, notes>>
    BY <1>7 DEF WriteReport
  <2> QED
    BY <1>1, <2>1 DEF EvalRest, EvalArms
<1>8. CASE UNCHANGED evalVars
  <2>1. UNCHANGED <<at, caseRows, samples, tally, notes>>
    BY <1>8 DEF evalVars
  <2> QED
    BY <1>1, <2>1 DEF EvalRest
<1> QED
  BY <1>2, <1>3, <1>4, <1>5, <1>6, <1>7, <1>8 DEF EvalNext

(* The evaluation's variables have their types: a report has a row for each *)
(* case and no more, and judges get no more samples than they take          *)
(* (evals/run.py run, ragas_arm.py record).                                 *)
THEOREM EvalTypeCorrect == EvalSpec => []EvalTypeOK
<1>1. EvalInit => EvalRest
  <2> SUFFICES ASSUME EvalInit PROVE EvalRest
    OBVIOUS
  <2>1. MaxCases \in Nat /\ MAX_SAMPLES \in Nat
    BY EvaluationAssumption
  <2>2. caseRows = << >> /\ samples = << >> /\ tally = 0 /\ notes = {} /\ at = AfterCase(0)
    BY DEF EvalInit
  <2>3. at \in {"rag_off", "resolve"} /\ (at = "rag_off" => 0 < MaxCases)
    BY <2>2 DEF AfterCase
  <2>4. Len(caseRows) = 0 /\ Len(samples) = 0
    BY <2>2
  <2> QED
    BY <2>1, <2>2, <2>3, <2>4 DEF EvalRest, EvalArms
<1> QED
  BY <1>1, EvalBegins, EvalInvNext, EvalRestKept, EvalTypesFollow, PTL DEF EvalSpec

-----------------------------------------------------------------------------
(* The pages a score is given to, and the hints that change them.           *)

SeoFields == {"title", "meta", "phrase", "words", "uses", "easy", "headings", "internal",
                "external", "absent", "blank", "blocks"}
IsSeoDraft(d)  == d = [f \in SeoFields |-> d[f]]
Levels      == 1 .. 6

\* A draft of a page: the numbers read off it, and no more of it is keyword than it has words.
DraftTyped(d) ==
    /\ IsSeoDraft(d)
    /\ d.title \in Nat /\ d.meta \in Nat /\ d.internal \in Nat /\ d.external \in Nat
    /\ d.absent \in Nat /\ d.blank \in Nat /\ d.easy \in BOOLEAN
    /\ d.words \in Nat /\ d.uses \in Nat /\ d.phrase \in Nat
    /\ d.uses * d.phrase <= d.words
    /\ d.headings \in Seq(Levels)

\* A page of the site.
SitePageTyped(x) ==
    x.title \in SiteTexts /\ x.meta \in SiteTexts /\ x.h1s \in 0 .. 2 /\ x.links \subseteq SitePages

SeoInv ==
    /\ revisions \in 0 .. Patience
    /\ DraftTyped(draftPage)
    /\ \A p \in SitePages : SitePageTyped(site[p])

(* The greater of two numbers is one of them.                               *)
LEMMA GreaterOfTwo ==
    ASSUME NEW a \in Int, NEW b \in Int
    PROVE  Max({a, b}) \in {a, b} /\ Max({a, b}) >= a /\ Max({a, b}) >= b
<1>1. CASE a >= b
  <2>1. a \in {a, b} /\ \A y \in {a, b} : a >= y
    BY <1>1
  <2> QED
    BY <2>1 DEF Max
<1>2. CASE b >= a
  <2>1. b \in {a, b} /\ \A y \in {a, b} : b >= y
    BY <1>2
  <2> QED
    BY <2>1 DEF Max
<1> QED
  BY <1>1, <1>2

(* A quotient is rounded down.                                              *)
LEMMA QuotientIs ==
    ASSUME NEW a \in Int, NEW b \in Nat, b > 0
    PROVE  a \div b \in Int /\ (a \div b) * b <= a /\ a < (a \div b) * b + b
OBVIOUS

(* More of what is counted is no less of it.                                *)
LEMMA ProductsGrow ==
    ASSUME NEW m \in Int, NEW n \in Int, m <= n, NEW phrase \in Nat
    PROVE  m * phrase \in Int /\ n * phrase \in Int /\ m * phrase <= n * phrase
OBVIOUS

(* A count of uses within the band fits the body it is counted in, and the  *)
(* least the band allows is no fewer than none.                             *)
LEMMA CountsFit ==
    ASSUME NEW words \in Nat, NEW phrase \in Nat, phrase > 0
    PROVE  /\ (250 * words) \div (10000 * phrase) \in Nat
           /\ ((250 * words) \div (10000 * phrase)) * phrase <= words
           /\ \A n \in Nat : n <= (250 * words) \div (10000 * phrase) => n * phrase <= words
           /\ -((-(80 * words)) \div (10000 * phrase)) \in Nat
           /\ words > 0 => -((-(80 * words)) \div (10000 * phrase)) >= 1
           /\ -((-(10000 * phrase)) \div 250) \in Nat
           /\ -((-(10000 * phrase)) \div 250) >= 1
           /\ \A n \in Nat : n * phrase * 10000 > 250 * words
                 => n > (250 * words) \div (10000 * phrase)
<1> DEFINE most  == (250 * words) \div (10000 * phrase)
<1> DEFINE least == (-(80 * words)) \div (10000 * phrase)
<1>1. 250 * words \in Int /\ -(80 * words) \in Int /\ 10000 * phrase \in Nat /\ 10000 * phrase > 0
  OBVIOUS
<1>2. most \in Int /\ most * (10000 * phrase) <= 250 * words
      /\ 250 * words < most * (10000 * phrase) + 10000 * phrase
  BY <1>1, QuotientIs
<1>3. least \in Int /\ least * (10000 * phrase) <= -(80 * words)
  BY <1>1, QuotientIs
<1>4. -((-(10000 * phrase)) \div 250) \in Nat /\ -((-(10000 * phrase)) \div 250) >= 1
  OBVIOUS
<1> HIDE DEF most, least
<1>5. most * (10000 * phrase) = 10000 * (most * phrase) /\ most * phrase \in Int
  BY <1>2
<1>6. least * (10000 * phrase) = 10000 * (least * phrase) /\ least * phrase \in Int
  BY <1>3
<1>7. most \in Nat
  <2>1. ASSUME most < 0 PROVE FALSE
    <3>1. most * phrase <= (-1) * phrase
      BY <1>2, <2>1, ProductsGrow
    <3> QED
      BY <1>2, <1>5, <3>1
  <2> QED
    BY <1>2, <2>1
<1>8. most * phrase <= words
  BY <1>2, <1>5
<1>9. ASSUME NEW n \in Nat, n <= most PROVE n * phrase <= words /\ n * phrase * 10000 <= 250 * words
  <2>1. n * phrase <= most * phrase /\ n * phrase \in Int
    BY <1>2, <1>9, ProductsGrow
  <2> QED
    BY <1>2, <1>5, <1>8, <2>1
<1>10. -least \in Nat /\ (words > 0 => -least >= 1)
  <2>1. ASSUME least >= 1 PROVE FALSE
    <3>1. 1 * phrase <= least * phrase
      BY <1>3, <2>1, ProductsGrow
    <3> QED
      BY <1>3, <1>6, <3>1
  <2>2. ASSUME words > 0, least >= 0 PROVE FALSE
    <3>1. 0 * phrase <= least * phrase
      BY <1>3, <2>2, ProductsGrow
    <3> QED
      BY <1>3, <1>6, <2>2, <3>1
  <2> QED
    BY <1>3, <2>1, <2>2
<1>11. ASSUME NEW n \in Nat, n * phrase * 10000 > 250 * words PROVE n > most
  <2>1. ~(n <= most)
    <3>1. n <= most => n * phrase * 10000 <= 250 * words
      BY <1>9
    <3>2. n * phrase * 10000 \in Int /\ 250 * words \in Int
      OBVIOUS
    <3> QED
      BY <1>11, <3>1, <3>2
  <2> QED
    BY <1>2, <2>1
<1> QED
  BY <1>4, <1>7, <1>8, <1>9, <1>10, <1>11 DEF most, least

(* Uses added to a body lengthen it by themselves; uses that give way to a  *)
(* word each shorten it by the rest of them.                                *)
LEMMA BodiesGrowAndShrink ==
    ASSUME NEW words \in Nat, NEW uses \in Nat, NEW phrase \in Nat, phrase > 0, NEW n \in Nat,
           uses * phrase <= words
    PROVE  /\ n >= uses => /\ words + (n - uses) * phrase \in Nat
                           /\ n * phrase <= words + (n - uses) * phrase
           /\ n <= uses => /\ words - (uses - n) * (phrase - 1) \in Nat
                           /\ n * phrase <= words - (uses - n) * (phrase - 1)
<1>1. uses * phrase \in Nat /\ n * phrase \in Nat
  OBVIOUS
<1>2. (n - uses) * phrase = n * phrase - uses * phrase
  OBVIOUS
<1>3. (uses - n) * (phrase - 1) = (uses * phrase - n * phrase) - (uses - n)
  OBVIOUS
<1> QED
  BY <1>1, <1>2, <1>3

\* The draft e is d but for its body.
SameButBody(d, e) ==
    /\ IsSeoDraft(e)
    /\ e.title = d.title /\ e.meta = d.meta /\ e.internal = d.internal
    /\ e.external = d.external /\ e.absent = d.absent /\ e.blank = d.blank
    /\ e.easy = d.easy /\ e.phrase = d.phrase /\ e.headings = d.headings

(* A body with its keyword in place is typed.                               *)
LEMMA BodyTyped ==
    ASSUME NEW d, NEW e, DraftTyped(d), SameButBody(d, e), e.words \in Nat, e.uses \in Nat,
           e.uses * d.phrase <= e.words
    PROVE  DraftTyped(e)
BY DEF DraftTyped, SameButBody

(* Uses put into a body, or taken from it.                                  *)
LEMMA UsingTyped ==
    ASSUME NEW d, DraftTyped(d), d.phrase > 0, NEW n \in Nat, n >= d.uses
    PROVE  DraftTyped(Using(d, n)) /\ Using(d, n).phrase = d.phrase
<1> DEFINE words == d.words + (n - d.uses) * d.phrase
<1> DEFINE e == [d EXCEPT !.uses = n, !.words = words]
<1>1. Using(d, n) = e
  BY DEF Using
<1>2. words \in Nat /\ n * d.phrase <= words
  BY BodiesGrowAndShrink DEF DraftTyped
<1> HIDE DEF words
<1>3. SameButBody(d, e) /\ e.words = words /\ e.uses = n
  BY DEF DraftTyped, IsSeoDraft, SeoFields, SameButBody
<1> HIDE DEF e
<1>4. DraftTyped(e) /\ e.phrase = d.phrase
  BY <1>2, <1>3, BodyTyped DEF SameButBody
<1> QED
  BY <1>1, <1>4

(* The counts that fit a body are not none, and they fit.                   *)
LEMMA FittingCountsAreSome ==
    ASSUME NEW d, d.words \in Nat, d.phrase \in Nat, d.phrase > 0
    PROVE  /\ max_occurrences(d) \in Nat /\ min_occurrences(d) \in Nat
           /\ max_occurrences(d) * d.phrase <= d.words
           /\ \A n \in Nat : n * d.phrase * 10000 > 250 * d.words => n > max_occurrences(d)
           /\ \A n \in FittingCounts(d) :
                 /\ n \in Nat /\ n <= max_occurrences(d) /\ n * d.phrase <= d.words
                 /\ d.words > 0 => n >= 1
<1> DEFINE words == d.words
<1> DEFINE phrase == d.phrase
<1>1. /\ max_occurrences(d) = (250 * words) \div (10000 * phrase)
      /\ min_occurrences(d) = -((-(80 * words)) \div (10000 * phrase))
  BY DEF max_occurrences, min_occurrences, _ceil_div, DENSITY_MIN_PER_10K, DENSITY_MAX_PER_10K
<1> DEFINE most == max_occurrences(d)
<1> DEFINE least == min_occurrences(d)
<1>2. words \in Nat /\ phrase \in Nat /\ phrase > 0
  OBVIOUS
<1> HIDE DEF words, phrase, most, least
<1>3. /\ most \in Nat /\ least \in Nat /\ most * phrase <= words /\ (words > 0 => least >= 1)
      /\ \A n \in Nat : n <= most => n * phrase <= words
      /\ \A n \in Nat : n * phrase * 10000 > 250 * words => n > most
  <2> DEFINE a == (250 * words) \div (10000 * phrase)
  <2> DEFINE b == -((-(80 * words)) \div (10000 * phrase))
  <2>1. /\ a \in Nat /\ b \in Nat /\ a * phrase <= words /\ (words > 0 => b >= 1)
        /\ \A n \in Nat : n <= a => n * phrase <= words
        /\ \A n \in Nat : n * phrase * 10000 > 250 * words => n > a
    BY <1>2, CountsFit
  <2>2. most = a /\ least = b
    BY <1>1 DEF most, least
  <2> HIDE DEF a, b
  <2> QED
    BY <2>1, <2>2
<1>4. ASSUME NEW n \in least .. most
      PROVE  n \in Nat /\ n <= most /\ n * phrase <= words /\ (words > 0 => n >= 1)
  <2>1. n \in Nat /\ n <= most /\ n >= least
    BY <1>3, <1>4
  <2> QED
    BY <1>3, <2>1
<1>5. FittingCounts(d) = least .. most
  BY DEF FittingCounts, least, most
<1>6. \A n \in FittingCounts(d) :
        n \in Nat /\ n <= most /\ n * phrase <= words /\ (words > 0 => n >= 1)
  BY <1>4, <1>5
<1> QED
  BY <1>3, <1>6 DEF words, phrase, most, least

(* Uses of the keyword put into a body do not empty it.                     *)
LEMMA UsingFills ==
    ASSUME NEW d, DraftTyped(d), d.words > 0, NEW n \in Nat, n >= d.uses
    PROVE  Using(d, n).words > 0 /\ Using(d, n).uses = n
<1> DEFINE words == d.words + (n - d.uses) * d.phrase
<1> DEFINE e == [d EXCEPT !.uses = n, !.words = words]
<1>1. Using(d, n) = e
  BY DEF Using
<1>2. (n - d.uses) * d.phrase \in Nat
  <2>1. n - d.uses \in Nat /\ d.phrase \in Nat
    BY DEF DraftTyped
  <2> QED
    BY <2>1
<1>3. words > 0
  BY <1>2 DEF DraftTyped
<1> HIDE DEF words
<1>4. e.words = words /\ e.uses = n
  BY DEF DraftTyped, IsSeoDraft, SeoFields
<1> QED
  BY <1>1, <1>3, <1>4

(* What the hints make of a body is a body, with its keyword in place: one  *)
(* in the band is left alone, a page without a body gets one, and a body    *)
(* without a use of the keyword one or more.                                *)
LEMMA DensityHintsHelp ==
    ASSUME NEW d, DraftTyped(d), NEW e \in DensityHints(d)
    PROVE  /\ DraftTyped(e) /\ e.words > 0 /\ e.phrase = d.phrase
           /\ d.words > 0 /\ d.phrase > 0 => e.uses > 0
           /\ check_keyword_density(d) = "info" => e = d
<1>1. d.words \in Nat /\ d.uses \in Nat /\ d.phrase \in Nat /\ d.uses * d.phrase <= d.words
  BY DEF DraftTyped
<1>2. CASE check_keyword_density(d) = "info"
  <2>1. e = d
    BY <1>2 DEF DensityHints
  <2>2. d.words # 0 /\ d.phrase # 0 /\ ~below_band(d)
    BY <1>1, <1>2 DEF check_keyword_density
  <2>3. ~(d.uses * d.phrase * 10000 < 80 * d.words)
    BY <2>2 DEF below_band, DENSITY_MIN_PER_10K
  <2>4. d.uses # 0
    <3> SUFFICES ASSUME d.uses = 0 PROVE FALSE
      OBVIOUS
    <3>1. d.uses * d.phrase * 10000 = 0
      BY <1>1
    <3> QED
      BY <1>1, <2>2, <2>3, <3>1
  <2> QED
    BY <1>1, <2>1, <2>2, <2>4
<1>3. CASE check_keyword_density(d) # "info" /\ d.words = 0
  <2>1. PICK w \in BodyWords \ {0} : e = [d EXCEPT !.words = w, !.uses = 0]
    BY <1>3 DEF DensityHints
  <2>2. w \in Nat /\ w > 0
    BY SeoAssumption
  <2> DEFINE new == [d EXCEPT !.words = w, !.uses = 0]
  <2>3. SameButBody(d, new) /\ new.words = w /\ new.uses = 0
    BY DEF DraftTyped, IsSeoDraft, SeoFields, SameButBody
  <2>4. e = new
    BY <2>1
  <2> HIDE DEF new
  <2>5. 0 * d.phrase = 0
    BY <1>1
  <2>6. DraftTyped(new)
    BY <2>2, <2>3, <2>5, BodyTyped
  <2> QED
    BY <1>3, <2>2, <2>3, <2>4, <2>6 DEF SameButBody
<1>4. CASE check_keyword_density(d) # "info" /\ d.words # 0 /\ d.phrase = 0
  <2>1. e = d
    BY <1>4 DEF DensityHints
  <2> QED
    BY <1>1, <1>4, <2>1
<1>5. CASE check_keyword_density(d) # "info" /\ d.words # 0 /\ d.phrase # 0 /\ FittingCounts(d) = {}
  <2> DEFINE Longer(w) == [d EXCEPT !.words = w]
  <2> DEFINE lengths == {Expanded(d)} \cup {b \in BodyWords : b >= Expanded(d)}
  <2> DEFINE hinted(w) == {[Longer(w) EXCEPT !.uses = n] : n \in FittingCounts(Longer(w))}
  <2>1. DensityHints(d) = UNION {hinted(w) : w \in lengths}
    BY <1>5 DEF DensityHints
  <2>2. PICK w \in lengths : e \in hinted(w)
    <3> HIDE DEF hinted, lengths
    <3> QED
      BY <2>1
  <2>3. w \in Nat /\ w >= 1
    <3>1. Expanded(d) = -((-(10000 * d.phrase)) \div 250)
      BY DEF Expanded, _ceil_div, DENSITY_MAX_PER_10K
    <3>2. d.phrase > 0 /\ 1 \in Nat
      BY <1>1, <1>5
    <3>3. Expanded(d) \in Nat /\ Expanded(d) >= 1
      BY <1>1, <3>1, <3>2, CountsFit
    <3>4. w = Expanded(d) \/ (w \in BodyWords /\ w >= Expanded(d))
      BY <2>2
    <3> QED
      BY <3>3, <3>4, SeoAssumption
  <2> DEFINE longer == Longer(w)
  <2>4. PICK n \in FittingCounts(longer) : e = [longer EXCEPT !.uses = n]
    BY <2>2
  <2>5. longer.words = w /\ longer.phrase = d.phrase
    BY DEF DraftTyped, IsSeoDraft, SeoFields
  <2>6. SameButBody(d, e) /\ e.words = w /\ e.uses = n
    BY <2>4 DEF DraftTyped, IsSeoDraft, SeoFields, SameButBody
  <2> HIDE DEF longer, Longer
  <2>7. n \in Nat /\ n * d.phrase <= w /\ n >= 1
    <3>1. d.phrase > 0 /\ longer.words \in Nat /\ longer.words > 0
      BY <1>1, <1>5, <2>3, <2>5
    <3> QED
      BY <1>1, <2>4, <2>5, <3>1, FittingCountsAreSome
  <2>8. DraftTyped(e)
    BY <2>3, <2>6, <2>7, BodyTyped
  <2> QED
    BY <1>5, <2>3, <2>6, <2>7, <2>8 DEF SameButBody
<1>6. CASE /\ check_keyword_density(d) # "info" /\ d.words # 0 /\ d.phrase # 0
           /\ FittingCounts(d) # {} /\ d.uses = 0
  <2> DEFINE hinted == {Using(d, n) : n \in FittingCounts(d)}
  <2>1. DensityHints(d) = hinted
    BY <1>6 DEF DensityHints
  <2>2. PICK n \in FittingCounts(d) : e = Using(d, n)
    BY <2>1
  <2>3. d.phrase > 0 /\ d.words > 0
    BY <1>1, <1>6
  <2>4. n \in Nat /\ n >= 1 /\ n >= d.uses
    BY <1>1, <1>6, <2>3, FittingCountsAreSome
  <2>5. DraftTyped(e) /\ e.phrase = d.phrase
    BY <2>2, <2>3, <2>4, UsingTyped
  <2> QED
    BY <1>6, <2>2, <2>3, <2>4, <2>5, UsingFills
<1>7. CASE /\ check_keyword_density(d) # "info" /\ d.words # 0 /\ d.phrase # 0
           /\ FittingCounts(d) # {} /\ d.uses # 0 /\ below_band(d)
  <2> DEFINE more == Max({min_occurrences(d) - d.uses, 1})
  <2>1. e = Using(d, d.uses + more)
    BY <1>7 DEF DensityHints
  <2>2. d.phrase > 0 /\ d.words > 0
    BY <1>1, <1>7
  <2>3. more \in Nat
    <3> DEFINE lacking == min_occurrences(d) - d.uses
    <3>1. lacking \in Int /\ 1 \in Int
      BY <1>1, <2>2, FittingCountsAreSome
    <3>2. more = Max({lacking, 1})
      OBVIOUS
    <3> HIDE DEF lacking, more
    <3>3. more \in {lacking, 1} /\ more >= 1
      BY <3>1, <3>2, GreaterOfTwo, Zenon
    <3> QED
      BY <3>1, <3>3
  <2> HIDE DEF more
  <2>4. d.uses + more \in Nat /\ d.uses + more >= d.uses /\ d.uses + more > 0
    BY <1>1, <1>7, <2>3
  <2>5. Using(d, d.uses + more).words > 0 /\ Using(d, d.uses + more).uses = d.uses + more
    BY <2>2, <2>4, UsingFills
  <2>6. DraftTyped(e) /\ e.phrase = d.phrase
    BY <2>1, <2>2, <2>4, UsingTyped
  <2> QED
    BY <1>7, <2>1, <2>4, <2>5, <2>6
<1>8. CASE /\ check_keyword_density(d) # "info" /\ d.words # 0 /\ d.phrase # 0
           /\ FittingCounts(d) # {} /\ d.uses # 0 /\ ~below_band(d)
  <2> DEFINE most == max_occurrences(d)
  <2> DEFINE w == d.words - (d.uses - most) * (d.phrase - 1)
  <2> DEFINE new == [d EXCEPT !.uses = most, !.words = w]
  <2>1. e = new
    BY <1>8 DEF DensityHints
  <2>2. d.phrase > 0 /\ d.words > 0
    BY <1>1, <1>8
  <2>3. most \in Nat /\ most >= 1
    <3>1. PICK n \in FittingCounts(d) : TRUE
      BY <1>8
    <3>2. most \in Nat /\ n \in Nat /\ n <= most /\ n >= 1
      BY <1>1, <2>2, FittingCountsAreSome
    <3> HIDE DEF most
    <3> QED
      BY <3>2
  <2>4. above_band(d)
    BY <1>1, <1>8 DEF check_keyword_density
  <2>5. most <= d.uses
    <3>1. d.uses > most
      BY <1>1, <2>2, <2>4, FittingCountsAreSome DEF above_band, DENSITY_MAX_PER_10K
    <3> HIDE DEF most
    <3> QED
      BY <1>1, <2>3, <3>1
  <2> HIDE DEF most
  <2>6. w \in Nat /\ most * d.phrase <= w
    BY <1>1, <2>2, <2>3, <2>5, BodiesGrowAndShrink
  <2> HIDE DEF w
  <2>7. w > 0
    <3>1. most * d.phrase >= 1 * d.phrase /\ 1 * d.phrase = d.phrase
      BY <1>1, <2>3, ProductsGrow
    <3>2. most * d.phrase \in Nat
      BY <1>1, <2>3
    <3> QED
      BY <1>1, <2>2, <2>6, <3>1, <3>2
  <2>8. SameButBody(d, new) /\ new.words = w /\ new.uses = most
    BY DEF DraftTyped, IsSeoDraft, SeoFields, SameButBody
  <2> HIDE DEF new
  <2>9. DraftTyped(new)
    BY <2>3, <2>6, <2>8, BodyTyped
  <2> QED
    BY <1>8, <2>1, <2>3, <2>7, <2>8, <2>9 DEF SameButBody
<1> QED
  BY <1>2, <1>3, <1>4, <1>5, <1>6, <1>7, <1>8

\* Heading i goes to Placed(added, i), behind those added up to it; the heading at k comes
\* from Origin(h, added, k).
Placed(added, i)    == i + Cardinality(added \cap 1 .. i)
Origin(h, added, k) == 1 + Cardinality({i \in DOMAIN h : Placed(added, i) < k})

(* A heading goes behind the one before it, and one further if one is added *)
(* between them.                                                            *)
LEMMA PlacesGrow ==
    ASSUME NEW n \in Nat, NEW added \in SUBSET (1 .. n)
    PROVE  /\ \A i \in 0 .. n : Placed(added, i) \in Nat
           /\ Placed(added, 0) = 0
           /\ \A i \in 1 .. n :
                 Placed(added, i) = Placed(added, i - 1) + IF i \in added THEN 2 ELSE 1
           /\ \A i, j \in 0 .. n : i < j => Placed(added, i) < Placed(added, j)
           /\ Placed(added, n) = n + Cardinality(added)
<1> DEFINE upTo(i) == added \cap 1 .. i
<1>1. \A i \in 0 .. n : IsFiniteSet(upTo(i)) /\ Cardinality(upTo(i)) \in Nat
  <2> SUFFICES ASSUME NEW i \in 0 .. n PROVE IsFiniteSet(upTo(i)) /\ Cardinality(upTo(i)) \in Nat
    OBVIOUS
  <2>1. IsFiniteSet(1 .. i)
    BY FS_Interval
  <2>2. upTo(i) \subseteq 1 .. i
    OBVIOUS
  <2>3. IsFiniteSet(upTo(i))
    BY <2>1, <2>2, FS_Subset
  <2> QED
    BY <2>3, FS_CardinalityType
<1>2. \A i \in 0 .. n : Placed(added, i) \in Nat /\ Placed(added, i) = i + Cardinality(upTo(i))
  BY <1>1 DEF Placed
<1>3. Placed(added, 0) = 0
  <2>1. upTo(0) = {}
    OBVIOUS
  <2>2. Cardinality(upTo(0)) = 0
    BY <2>1, FS_EmptySet
  <2> HIDE DEF upTo
  <2> QED
    BY <1>2, <2>2
<1>4. ASSUME NEW i \in 1 .. n
      PROVE  Placed(added, i) = Placed(added, i - 1) + IF i \in added THEN 2 ELSE 1
  <2>1. i - 1 \in 0 .. n /\ i \in 0 .. n
    OBVIOUS
  <2>2. upTo(i) = IF i \in added THEN upTo(i - 1) \cup {i} ELSE upTo(i - 1)
    OBVIOUS
  <2>3. i \notin upTo(i - 1)
    OBVIOUS
  <2> HIDE DEF upTo
  <2>4. Cardinality(upTo(i)) = Cardinality(upTo(i - 1)) + IF i \in added THEN 1 ELSE 0
    <3>1. CASE i \in added
      <4>1. Cardinality(upTo(i - 1) \cup {i}) = Cardinality(upTo(i - 1)) + 1
        BY <1>1, <2>1, <2>3, FS_AddElement
      <4> QED
        BY <2>2, <3>1, <4>1
    <3>2. CASE i \notin added
      BY <1>1, <2>1, <2>2, <3>2
    <3> QED
      BY <3>1, <3>2
  <2> QED
    BY <1>1, <1>2, <2>1, <2>4
<1>5. ASSUME NEW i \in 0 .. n, NEW j \in 0 .. n, i < j PROVE Placed(added, i) < Placed(added, j)
  <2>1. upTo(i) \subseteq upTo(j)
    BY <1>5
  <2> HIDE DEF upTo
  <2>2. Cardinality(upTo(i)) <= Cardinality(upTo(j))
    BY <1>1, <2>1, FS_Subset
  <2> QED
    BY <1>1, <1>2, <1>5, <2>2
<1>6. Placed(added, n) = n + Cardinality(added)
  <2>1. upTo(n) = added
    OBVIOUS
  <2> QED
    BY <1>2, <2>1
<1> QED
  BY <1>2, <1>3, <1>4, <1>5, <1>6

(* Numbers up to a bound that go down without a gap are those up to their   *)
(* count.                                                                   *)
LEMMA CountOfInitials ==
    ASSUME NEW n \in Nat, NEW S \in SUBSET (1 .. n),
           \A i, j \in 1 .. n : i < j /\ j \in S => i \in S
    PROVE  /\ Cardinality(S) \in 0 .. n
           /\ \A i \in 1 .. n : i \in S <=> i <= Cardinality(S)
<1> DEFINE c == Cardinality(S)
<1>1. \A m \in Nat : IsFiniteSet(1 .. m) /\ Cardinality(1 .. m) = m
  <2> SUFFICES ASSUME NEW m \in Nat PROVE IsFiniteSet(1 .. m) /\ Cardinality(1 .. m) = m
    OBVIOUS
  <2>1. 1 \in Int /\ m \in Int
    OBVIOUS
  <2>2. IsFiniteSet(1 .. m) /\ Cardinality(1 .. m) = IF 1 > m THEN 0 ELSE m - 1 + 1
    BY <2>1, FS_Interval
  <2> QED
    BY <2>2
<1>2. IsFiniteSet(S) /\ c \in Nat /\ c <= n
  <2>1. IsFiniteSet(S) /\ Cardinality(S) <= Cardinality(1 .. n)
    BY <1>1, FS_Subset
  <2> QED
    BY <1>1, <2>1, FS_CardinalityType
<1> HIDE DEF c
<1>3. ASSUME NEW i \in 1 .. n, i \in S PROVE i <= c
  <2>1. 1 .. i \subseteq S
    BY <1>3
  <2>2. Cardinality(1 .. i) <= Cardinality(S)
    BY <1>2, <2>1, FS_Subset
  <2> QED
    BY <1>1, <2>2 DEF c
<1>4. ASSUME NEW i \in 1 .. n, i \notin S PROVE ~(i <= c)
  <2> DEFINE m == i - 1
  <2>1. S \subseteq 1 .. m /\ m \in Nat
    BY <1>4
  <2>2. m < i
    OBVIOUS
  <2> HIDE DEF m
  <2>3. Cardinality(S) <= Cardinality(1 .. m)
    BY <1>1, <2>1, FS_Subset
  <2>4. c <= m
    BY <1>1, <2>1, <2>3 DEF c
  <2> QED
    BY <1>2, <2>1, <2>2, <2>4
<1> QED
  BY <1>2, <1>3, <1>4 DEF c

(* Every place of the new outline is that of a heading, or just before it.  *)
LEMMA OriginIsBetween ==
    ASSUME NEW h \in Seq(Levels), NEW added \in SUBSET (1 .. Len(h)),
           NEW k \in 1 .. (Len(h) + Cardinality(added))
    PROVE  /\ Origin(h, added, k) \in 1 .. Len(h)
           /\ \A i \in 1 .. Len(h) :
                 Origin(h, added, k) = i <=> Placed(added, i - 1) < k /\ k <= Placed(added, i)
<1> DEFINE n == Len(h)
<1> DEFINE S == {i \in 1 .. n : Placed(added, i) < k}
<1> DEFINE c == Cardinality(S)
<1>1. n \in Nat /\ DOMAIN h = 1 .. n
  OBVIOUS
<1>2. Origin(h, added, k) = 1 + c
  BY <1>1 DEF Origin
<1>3. /\ \A i \in 0 .. n : Placed(added, i) \in Nat
      /\ Placed(added, 0) = 0 /\ Placed(added, n) = n + Cardinality(added)
      /\ \A i, j \in 0 .. n : i < j => Placed(added, i) < Placed(added, j)
  BY <1>1, PlacesGrow
<1>4. k \in Nat /\ k >= 1 /\ k <= Placed(added, n)
  <2>1. Cardinality(added) \in Nat
    <3>1. IsFiniteSet(1 .. n) /\ added \subseteq 1 .. n
      BY <1>1, FS_Interval
    <3> HIDE DEF n
    <3>2. IsFiniteSet(added)
      BY <3>1, FS_Subset
    <3> QED
      BY <3>2, FS_CardinalityType
  <2> HIDE DEF n
  <2>2. k \in 1 .. (n + Cardinality(added))
    BY DEF n
  <2> QED
    BY <1>1, <1>3, <2>1, <2>2
<1> HIDE DEF n
<1>5. \A i \in 1 .. n : i \in S <=> Placed(added, i) < k
  OBVIOUS
<1>6. \A i, j \in 1 .. n : i < j /\ j \in S => i \in S
  BY <1>1, <1>3, <1>4, <1>5
<1>7. S \in SUBSET (1 .. n)
  OBVIOUS
<1> HIDE DEF S
<1>8. c \in 0 .. n /\ \A i \in 1 .. n : i \in S <=> i <= c
  BY <1>1, <1>6, <1>7, CountOfInitials
<1> HIDE DEF c
<1>9. c < n
  <2>1. n # 0
    BY <1>3, <1>4
  <2>2. n \in 1 .. n /\ ~(n \in S)
    BY <1>1, <1>3, <1>4, <1>5, <2>1
  <2> QED
    BY <1>8, <2>2
<1>10. ASSUME NEW i \in 1 .. n
       PROVE  1 + c = i <=> Placed(added, i - 1) < k /\ k <= Placed(added, i)
  <2>1. k <= Placed(added, i) <=> ~(i <= c)
    BY <1>1, <1>3, <1>4, <1>5, <1>8
  <2>2. CASE i = 1
    BY <1>1, <1>3, <1>4, <1>8, <2>1, <2>2
  <2>3. CASE i # 1
    <3>1. i - 1 \in 1 .. n
      BY <1>1, <2>3
    <3>2. Placed(added, i - 1) < k <=> i - 1 <= c
      BY <1>5, <1>8, <3>1
    <3> QED
      BY <1>1, <1>8, <2>1, <3>2
  <2> QED
    BY <2>2, <2>3
<1> QED
  BY <1>1, <1>2, <1>8, <1>9, <1>10 DEF n

\* The level heading i is given, and the headings of a page that had a top.
Relevel(h, kept, added, i) ==
    CASE i \in Skips(h) \ added  -> NextLevel(h, i)
      [] i \in Tops(h) \ {kept} -> 2
      [] OTHER                  -> h[i]
Outline(h, kept, added) ==
    [k \in 1 .. Len(h) + Cardinality(added) |->
        IF Origin(h, added, k) \in added /\ k < Placed(added, Origin(h, added, k))
        THEN NextLevel(h, Origin(h, added, k))
        ELSE Relevel(h, kept, added, Origin(h, added, k))]

(* The headings a hint asks for, in these terms.                            *)
LEMMA RetitledIsOutline ==
    ASSUME NEW h, NEW kept, NEW added
    PROVE  Retitled(h, kept, added) = IF Tops(h) = {} THEN <<1>> \o Outline(h, kept, added)
                                                      ELSE Outline(h, kept, added)
BY DEF Retitled, Outline, Relevel, Origin, Placed

(* A heading that skips has one before it, and its next level is a level    *)
(* below the top.                                                           *)
LEMMA SkipsHaveParents ==
    ASSUME NEW h \in Seq(Levels), NEW i \in Skips(h)
    PROVE  /\ i \in 2 .. Len(h) /\ h[i - 1] \in Levels /\ h[i] \in Levels
           /\ h[i] > h[i - 1] + 1
           /\ NextLevel(h, i) = h[i - 1] + 1 /\ NextLevel(h, i) \in Levels /\ NextLevel(h, i) > 1
<1>1. Len(h) \in Nat /\ DOMAIN h = 1 .. Len(h) /\ \A j \in 1 .. Len(h) : h[j] \in Levels
  OBVIOUS
<1>2. i \in 1 .. Len(h) /\ i # 1 /\ h[i] > h[i - 1] + 1
  BY <1>1 DEF Skips
<1>3. i - 1 \in 1 .. Len(h)
  BY <1>1, <1>2
<1>4. h[i] \in Levels /\ h[i - 1] \in Levels
  BY <1>1, <1>2, <1>3
<1> QED
  BY <1>2, <1>4 DEF NextLevel, Levels

(* The new outline is one, as long as the old one and what is added.        *)
LEMMA OutlineTyped ==
    ASSUME NEW h \in Seq(Levels), NEW kept, NEW added \in SUBSET Skips(h)
    PROVE  /\ Outline(h, kept, added) \in Seq(Levels)
           /\ Len(Outline(h, kept, added)) = Len(h) + Cardinality(added)
           /\ \A i \in 1 .. Len(h) : Relevel(h, kept, added, i) \in Levels
<1> DEFINE long == Len(h) + Cardinality(added)
<1> DEFINE own == Outline(h, kept, added)
<1>1. Len(h) \in Nat /\ DOMAIN h = 1 .. Len(h) /\ \A i \in 1 .. Len(h) : h[i] \in Levels
  OBVIOUS
<1>2. added \in SUBSET (1 .. Len(h))
  BY SkipsHaveParents
<1>3. long \in Nat
  <2>1. IsFiniteSet(1 .. Len(h))
    BY <1>1, FS_Interval
  <2>2. Cardinality(added) \in Nat
    BY <1>2, <2>1, FS_Subset, FS_CardinalityType
  <2> QED
    BY <1>1, <2>2
<1>4. ASSUME NEW i \in 1 .. Len(h) PROVE Relevel(h, kept, added, i) \in Levels
  <2>1. 2 \in Levels /\ h[i] \in Levels
    BY <1>1 DEF Levels
  <2>2. \/ i \in Skips(h) /\ Relevel(h, kept, added, i) = NextLevel(h, i)
        \/ Relevel(h, kept, added, i) = 2
        \/ Relevel(h, kept, added, i) = h[i]
    BY DEF Relevel
  <2> QED
    BY <2>1, <2>2, SkipsHaveParents
<1>5. ASSUME NEW k \in 1 .. long PROVE own[k] \in Levels
  <2> DEFINE o == Origin(h, added, k)
  <2>1. o \in 1 .. Len(h)
    BY <1>2, OriginIsBetween
  <2>2. own[k] = IF o \in added /\ k < Placed(added, o)
                 THEN NextLevel(h, o) ELSE Relevel(h, kept, added, o)
    BY DEF Outline
  <2> HIDE DEF o, own
  <2> QED
    BY <1>4, <2>1, <2>2, SkipsHaveParents
<1>6. own = [k \in 1 .. long |-> own[k]]
  BY DEF Outline
<1> HIDE DEF own, long
<1>7. own \in [1 .. long -> Levels]
  BY <1>5, <1>6
<1>8. own \in Seq(Levels) /\ Len(own) = long
  BY <1>3, <1>7
<1> QED
  BY <1>4, <1>8 DEF own, long

(* Two neighbours of the new outline are a heading and the one added before *)
(* it, or two that were neighbours, or one and what is added behind it.     *)
LEMMA OutlineSteps ==
    ASSUME NEW h \in Seq(Levels), NEW kept, NEW added \in SUBSET Skips(h),
           NEW j \in 2 .. (Len(h) + Cardinality(added))
    PROVE  \E i \in 1 .. Len(h) :
              \/ /\ i \in added
                 /\ Outline(h, kept, added)[j - 1] = NextLevel(h, i)
                 /\ Outline(h, kept, added)[j] = Relevel(h, kept, added, i)
              \/ /\ i > 1 /\ i \notin added
                 /\ Outline(h, kept, added)[j - 1] = Relevel(h, kept, added, i - 1)
                 /\ Outline(h, kept, added)[j] = Relevel(h, kept, added, i)
              \/ /\ i > 1 /\ i \in added
                 /\ Outline(h, kept, added)[j - 1] = Relevel(h, kept, added, i - 1)
                 /\ Outline(h, kept, added)[j] = NextLevel(h, i)
<1> DEFINE n == Len(h)
<1> DEFINE long == Len(h) + Cardinality(added)
<1> DEFINE At(k) == Placed(added, k)
<1> DEFINE From(k) == Origin(h, added, k)
<1> DEFINE own == Outline(h, kept, added)
<1> DEFINE l == j - 1
<1> DEFINE i == From(j)
<1>1. n \in Nat
  OBVIOUS
<1>2. added \in SUBSET (1 .. n) /\ 1 \notin added
  BY SkipsHaveParents
<1>3. long \in Nat
  <2>1. IsFiniteSet(1 .. n)
    BY <1>1, FS_Interval
  <2> HIDE DEF n
  <2>2. Cardinality(added) \in Nat
    BY <1>2, <2>1, FS_Subset, FS_CardinalityType
  <2> QED
    BY <1>1, <2>2 DEF n
<1>4. j \in 1 .. long /\ l \in 1 .. long /\ j \in Nat /\ l \in Nat /\ l = j - 1
  BY <1>3
<1>5. /\ \A k \in 0 .. n : At(k) \in Nat
      /\ At(0) = 0
      /\ \A k \in 1 .. n : At(k) = At(k - 1) + IF k \in added THEN 2 ELSE 1
      /\ \A k, m \in 0 .. n : k < m => At(k) < At(m)
  BY <1>1, <1>2, PlacesGrow
<1>6. \A k \in 1 .. long :
         /\ From(k) \in 1 .. n
         /\ \A m \in 1 .. n : From(k) = m <=> At(m - 1) < k /\ k <= At(m)
  BY <1>2, OriginIsBetween
<1>7. \A k \in 1 .. long :
         own[k] = IF From(k) \in added /\ k < At(From(k))
                  THEN NextLevel(h, From(k)) ELSE Relevel(h, kept, added, From(k))
  BY DEF Outline
<1> HIDE DEF n, long, At, From, own, l
<1>8. i \in 1 .. n /\ At(i - 1) < j /\ j <= At(i) /\ At(i) \in Nat /\ At(i - 1) \in Nat
      /\ At(i) = At(i - 1) + IF i \in added THEN 2 ELSE 1
  <2>1. i \in 1 .. n
    BY <1>4, <1>6
  <2>2. i \in 0 .. n /\ i - 1 \in 0 .. n
    BY <1>1, <2>1
  <2> HIDE DEF i
  <2>3. At(i - 1) < j /\ j <= At(i)
    BY <1>4, <1>6, <2>1 DEF i
  <2> QED
    BY <1>5, <2>1, <2>2, <2>3
<1> HIDE DEF i
<1>9. own[j] = IF i \in added /\ j < At(i) THEN NextLevel(h, i) ELSE Relevel(h, kept, added, i)
  BY <1>4, <1>7 DEF i
<1>10. CASE i \in added /\ j = At(i)
  <2>1. At(i - 1) < l /\ l <= At(i) /\ l < At(i)
    BY <1>4, <1>8, <1>10
  <2>2. From(l) = i
    BY <1>4, <1>6, <1>8, <2>1
  <2>3. own[l] = NextLevel(h, i)
    BY <1>4, <1>7, <1>10, <2>1, <2>2
  <2>4. own[j] = Relevel(h, kept, added, i)
    BY <1>8, <1>9, <1>10
  <2> QED
    BY <1>8, <1>10, <2>3, <2>4 DEF own, l, n
<1>11. CASE l = At(i - 1) /\ (i \in added <=> j < At(i))
  <2>1. i # 1
    BY <1>4, <1>5, <1>11
  <2>2. i - 1 \in 1 .. n /\ i > 1
    BY <1>1, <1>8, <2>1
  <2> DEFINE m == i - 1
  <2>3. m \in 1 .. n /\ m - 1 \in 0 .. n /\ m \in 0 .. n /\ m - 1 < m
    BY <1>1, <2>2
  <2>4. l = At(m)
    BY <1>11
  <2> HIDE DEF m
  <2>5. At(m - 1) < At(m) /\ At(m) \in Nat /\ At(m - 1) \in Nat
    BY <1>5, <2>3
  <2>6. From(l) = m
    BY <1>4, <1>6, <2>3, <2>4, <2>5
  <2>7. own[l] = Relevel(h, kept, added, m)
    BY <1>4, <1>7, <2>4, <2>5, <2>6
  <2>8. IF i \in added THEN own[j] = NextLevel(h, i) ELSE own[j] = Relevel(h, kept, added, i)
    BY <1>9, <1>11
  <2> QED
    BY <1>8, <2>2, <2>7, <2>8 DEF own, l, n, m
<1>12. (i \in added /\ j = At(i)) \/ (l = At(i - 1) /\ (i \in added <=> j < At(i)))
  BY <1>4, <1>8
<1> QED
  BY <1>10, <1>11, <1>12

(* Headings that follow their hints are headings.                           *)
LEMMA HeadingsTyped ==
    ASSUME NEW h \in Seq(Levels), NEW kept, NEW added \in SUBSET Skips(h)
    PROVE  Retitled(h, kept, added) \in Seq(Levels)
<1>1. Outline(h, kept, added) \in Seq(Levels)
  BY OutlineTyped
<1>2. <<1>> \in Seq(Levels)
  <2>1. 1 \in Levels
    BY DEF Levels
  <2> QED
    BY <2>1
<1>3. <<1>> \o Outline(h, kept, added) \in Seq(Levels)
  BY <1>1, <1>2
<1> QED
  BY <1>1, <1>3, RetitledIsOutline

(* A draft is still one with other numbers of a draft in it, as far as its  *)
(* keyword fits its body.                                                   *)
LEMMA ChangedTyped ==
    ASSUME NEW d, DraftTyped(d), NEW change, NEW e,
           e = Changed(d, change),
           "title" \in DOMAIN change => change.title \in Nat,
           "meta" \in DOMAIN change => change.meta \in Nat,
           "internal" \in DOMAIN change => change.internal \in Nat,
           "external" \in DOMAIN change => change.external \in Nat,
           "absent" \in DOMAIN change => change.absent \in Nat,
           "blank" \in DOMAIN change => change.blank \in Nat,
           "easy" \in DOMAIN change => change.easy \in BOOLEAN,
           "headings" \in DOMAIN change => change.headings \in Seq(Levels),
           "words" \in DOMAIN change => change.words \in Nat,
           "uses" \in DOMAIN change => change.uses \in Nat,
           "phrase" \in DOMAIN change => change.phrase \in Nat,
           e.uses * e.phrase <= e.words
    PROVE  DraftTyped(e)
<1>1. DOMAIN d = SeoFields
  BY DEF DraftTyped, IsSeoDraft
<1>2. \A f \in SeoFields : e[f] = IF f \in DOMAIN change THEN change[f] ELSE d[f]
  BY <1>1 DEF Changed
<1>3. IsSeoDraft(e)
  BY <1>1 DEF Changed, IsSeoDraft
<1>4. e.title \in Nat /\ e.meta \in Nat /\ e.internal \in Nat /\ e.external \in Nat
  BY <1>2 DEF DraftTyped, SeoFields
<1>5. e.absent \in Nat /\ e.blank \in Nat /\ e.headings \in Seq(Levels)
  BY <1>2 DEF DraftTyped, SeoFields
<1>6. e.words \in Nat /\ e.uses \in Nat /\ e.phrase \in Nat
  BY <1>2 DEF DraftTyped, SeoFields
<1>7. e.easy \in BOOLEAN
  <2>1. d.easy \in BOOLEAN /\ "easy" \in SeoFields
    BY DEF DraftTyped, SeoFields
  <2> QED
    BY <1>2, <2>1, Zenon
<1> QED
  BY <1>3, <1>4, <1>5, <1>6, <1>7 DEF DraftTyped

(* A draft that follows every hint of its score is a draft.                 *)
LEMMA RevisedTyped ==
    ASSUME NEW d, DraftTyped(d), NEW e \in Revised(d) PROVE DraftTyped(e)
<1> DEFINE Flawed(code) == score_page(d)[code] # "info"
<1> DEFINE Titles == IF Flawed("title_length") THEN Lengths \cap TITLE_TARGET ELSE {d.title}
<1> DEFINE Metas == IF Flawed("meta_length") THEN Lengths \cap META_TARGET ELSE {d.meta}
<1> DEFINE within == Max({d.internal, MIN_INTERNAL_LINKS})
<1> DEFINE without == Max({d.external, MIN_EXTERNAL_LINKS})
<1> DEFINE Blocks == IF Flawed("schema_invalid") THEN {d.blocks \cup {WellFormed}} ELSE {d.blocks}
<1> DEFINE Changes == [title: Titles, meta: Metas, headings: HeadingHints(d.headings),
                       easy: {TRUE}, internal: {within}, external: {without}, absent: {0},
                       blank: 0 .. d.absent + d.blank, blocks: Blocks]
<1>1. Revised(d) = {Changed(worded, change) : worded \in DensityHints(d), change \in Changes}
  BY DEF Revised
<1>2. Titles \subseteq Nat /\ Metas \subseteq Nat
  BY SeoAssumption DEF DraftTyped
<1>3. within \in Nat /\ without \in Nat
  <2>1. d.internal \in Int /\ d.external \in Int
        /\ MIN_INTERNAL_LINKS \in Int /\ MIN_EXTERNAL_LINKS \in Int
        /\ d.internal \in Nat /\ d.external \in Nat
        /\ MIN_INTERNAL_LINKS \in Nat /\ MIN_EXTERNAL_LINKS \in Nat
    BY DEF DraftTyped, MIN_INTERNAL_LINKS, MIN_EXTERNAL_LINKS
  <2>2. within \in {d.internal, MIN_INTERNAL_LINKS} /\ without \in {d.external, MIN_EXTERNAL_LINKS}
    BY <2>1, GreaterOfTwo, Zenon
  <2> HIDE DEF within, without
  <2> QED
    BY <2>1, <2>2
<1>4. 0 .. d.absent + d.blank \subseteq Nat
  BY DEF DraftTyped
<1>5. HeadingHints(d.headings) \subseteq Seq(Levels)
  <2> SUFFICES ASSUME NEW headings \in HeadingHints(d.headings) PROVE headings \in Seq(Levels)
    OBVIOUS
  <2>1. \E kept \in (IF Tops(d.headings) = {} THEN {0} ELSE Tops(d.headings)) :
           \E added \in SUBSET Skips(d.headings) :
              headings = Retitled(d.headings, kept, added)
    BY DEF HeadingHints
  <2>2. PICK kept : \E added \in SUBSET Skips(d.headings) :
                       headings = Retitled(d.headings, kept, added)
    BY <2>1
  <2>3. PICK added \in SUBSET Skips(d.headings) : headings = Retitled(d.headings, kept, added)
    BY <2>2
  <2>4. d.headings \in Seq(Levels)
    BY DEF DraftTyped
  <2> QED
    BY <2>3, <2>4, HeadingsTyped
<1> HIDE DEF Titles, Metas, within, without, Blocks, Changes
<1>6. PICK worded \in DensityHints(d), change \in Changes : e = Changed(worded, change)
  BY <1>1
<1> USE DEF Changes
<1>7. DraftTyped(worded)
  BY DensityHintsHelp
<1>8. /\ DOMAIN change = {"title", "meta", "headings", "easy", "internal", "external",
                         "absent", "blank", "blocks"}
      /\ change.title \in Titles /\ change.meta \in Metas /\ change.internal = within
      /\ change.headings \in HeadingHints(d.headings) /\ change.external = without
      /\ change.absent = 0 /\ change.blank \in 0 .. d.absent + d.blank
  OBVIOUS
<1>9. change.easy = TRUE
  OBVIOUS
<1> HIDE DEF Changes
<1>10. e.words = worded.words /\ e.uses = worded.uses /\ e.phrase = worded.phrase
  BY <1>6, <1>7, <1>8 DEF Changed, DraftTyped, IsSeoDraft, SeoFields
<1>11. e.uses * e.phrase <= e.words
  BY <1>7, <1>10 DEF DraftTyped
<1>12. /\ change.title \in Nat /\ change.meta \in Nat /\ change.internal \in Nat
       /\ change.external \in Nat /\ change.absent \in Nat /\ change.blank \in Nat
  <2>1. change.title \in Nat /\ change.meta \in Nat
    BY <1>2, <1>8
  <2>2. change.internal \in Nat /\ change.external \in Nat
    BY <1>3, <1>8
  <2>3. change.absent \in Nat
    BY <1>8
  <2>4. change.blank \in Nat
    BY <1>4, <1>8
  <2> QED
    BY <2>1, <2>2, <2>3, <2>4
<1>13. change.headings \in Seq(Levels)
  BY <1>5, <1>8
<1>14. "words" \notin DOMAIN change /\ "uses" \notin DOMAIN change /\ "phrase" \notin DOMAIN change
  BY <1>8
<1>15. change.easy \in BOOLEAN
  BY <1>9
<1> QED
  BY <1>6, <1>7, <1>11, <1>12, <1>13, <1>14, <1>15, ChangedTyped

(* The page with nothing to report.                                         *)
LEMMA FlawlessIsTyped ==
    /\ DraftTyped(Flawless) /\ Flawless.words = 400 /\ Flawless.uses = 5 /\ Flawless.phrase = 1
<1> DEFINE levels == <<1, 2>>
<1> DEFINE marked == {WellFormed}
<1>1. levels \in Seq(Levels)
  <2>1. 1 \in Levels /\ 2 \in Levels
    BY DEF Levels
  <2> HIDE DEF Levels
  <2> QED
    BY <2>1
<1>2. Flawless = [title |-> 55, meta |-> 150, phrase |-> 1, words |-> 400, uses |-> 5,
                  easy |-> TRUE, headings |-> levels, internal |-> 1, external |-> 2,
                  absent |-> 0, blank |-> 0, blocks |-> marked]
  BY DEF Flawless
<1> HIDE DEF levels, marked
<1>3. /\ IsSeoDraft(Flawless) /\ Flawless.words = 400 /\ Flawless.uses = 5 /\ Flawless.phrase = 1
      /\ Flawless.headings = levels /\ Flawless.title = 55 /\ Flawless.meta = 150
      /\ Flawless.internal = 1 /\ Flawless.external = 2
      /\ Flawless.absent = 0 /\ Flawless.blank = 0
  BY <1>2 DEF IsSeoDraft, SeoFields
<1>4. Flawless.easy = TRUE
  BY <1>2
<1>5. Flawless.easy \in BOOLEAN
  BY <1>4
<1> QED
  BY <1>1, <1>3, <1>5 DEF DraftTyped

(* Every draft there may be at the start is one.                            *)
LEMMA DraftsTyped == \A d \in Drafts : DraftTyped(d)
<1> SUFFICES ASSUME NEW codes, NEW d \in FirstDrafts(codes), d.uses * d.phrase <= d.words
             PROVE  DraftTyped(d)
  BY DEF Drafts
<1> DEFINE Ranging(code, values, value) == IF code \in codes THEN values ELSE {value}
<1> DEFINE Outlines == UNION {[1 .. n -> 1 .. 6] : n \in 0 .. MaxHeadings}
<1> DEFINE Titles    == Ranging("title_length", Lengths, 55)
<1> DEFINE Metas     == Ranging("meta_length", Lengths, 150)
<1> DEFINE Keywords  == Ranging("keyword_density", Phrases, 1)
<1> DEFINE BodyLengths == Ranging("keyword_density", BodyWords, 400)
<1> DEFINE Counts    == Ranging("keyword_density", 0 .. MaxUses, 5)
<1> DEFINE Readings  == Ranging("readability", BOOLEAN, TRUE)
<1> DEFINE Headings  == Ranging("heading_tree", Outlines, <<1, 2>>)
<1> DEFINE Internals == Ranging("internal_links", 0 .. 1, 1)
<1> DEFINE Externals == Ranging("external_links", 0 .. 2, 2)
<1> DEFINE Absent    == Ranging("image_alt", 0 .. 1, 0)
<1> DEFINE Blank     == Ranging("image_alt", 0 .. 1, 0)
<1> DEFINE Marked    == Ranging("schema_invalid", {{}, {Unaddressed}}, {WellFormed})
<1>1. FirstDrafts(codes) =
        [title: Titles, meta: Metas, phrase: Keywords, words: BodyLengths, uses: Counts, easy: Readings,
         headings: Headings, internal: Internals, external: Externals, absent: Absent, blank: Blank,
         blocks: Marked]
  BY DEF FirstDrafts
<1>2. Titles \subseteq Nat /\ Metas \subseteq Nat /\ Keywords \subseteq Nat /\ BodyLengths \subseteq Nat
  BY SeoAssumption
<1>3. Counts \subseteq Nat /\ Internals \subseteq Nat /\ Externals \subseteq Nat
      /\ Absent \subseteq Nat /\ Blank \subseteq Nat
  BY SeoAssumption
<1>4. Headings \subseteq Seq(Levels)
  <2>1. Outlines \subseteq Seq(Levels)
    <3> SUFFICES ASSUME NEW h \in Outlines PROVE h \in Seq(Levels)
      OBVIOUS
    <3>1. PICK n \in 0 .. MaxHeadings : h \in [1 .. n -> Levels]
      BY DEF Levels
    <3>2. n \in Nat
      BY SeoAssumption
    <3> QED
      BY <3>1, <3>2
  <2>2. <<1, 2>> \in Seq(Levels)
    <3>1. 1 \in Levels /\ 2 \in Levels
      BY DEF Levels
    <3> HIDE DEF Levels
    <3> QED
      BY <3>1
  <2> HIDE DEF Outlines
  <2> QED
    BY <2>1, <2>2
<1>5. Readings \subseteq BOOLEAN
  OBVIOUS
<1> HIDE DEF Titles, Metas, Keywords, BodyLengths, Counts, Readings, Headings, Internals, Externals,
             Absent, Blank, Marked
<1>6. /\ IsSeoDraft(d) /\ d.title \in Titles /\ d.meta \in Metas /\ d.phrase \in Keywords
      /\ d.words \in BodyLengths /\ d.uses \in Counts /\ d.headings \in Headings
      /\ d.internal \in Internals /\ d.external \in Externals /\ d.absent \in Absent
      /\ d.blank \in Blank
  BY <1>1 DEF IsSeoDraft, SeoFields
<1>7. d.easy \in Readings
  BY <1>1
<1>8. d.easy \in BOOLEAN
  BY <1>5, <1>7
<1> QED
  BY <1>2, <1>3, <1>4, <1>6, <1>8 DEF DraftTyped

(* Every site there may be at the start.                                    *)
LEMMA SitesTyped ==
    /\ \A p \in SitePages : SitePageTyped(GoodSite[p])
    /\ \A s \in Sites : \A p \in SitePages : SitePageTyped(s[p])
<1>1. ASSUME NEW p \in SitePages
      PROVE  GoodPage(p).title = p /\ GoodPage(p).meta = p /\ GoodPage(p).h1s = 1
             /\ GoodPage(p).links = SitePages
  BY DEF GoodPage
<1>2. ASSUME NEW p \in SitePages PROVE SitePageTyped(GoodPage(p))
  BY <1>1 DEF SitePageTyped, SiteTexts, FittingTexts
<1>3. ASSUME NEW faulty, NEW s \in Built(faulty), NEW p \in SitePages PROVE SitePageTyped(s[p])
  <2> DEFINE Ranging(f, values) == IF f \in faulty THEN [SitePages -> values]
                                                  ELSE {[q \in SitePages |-> GoodPage(q)[f]]}
  <2> DEFINE Titles == Ranging("title", SiteTexts)
  <2> DEFINE Metas  == Ranging("meta", SiteTexts)
  <2> DEFINE Tops1  == Ranging("h1s", 0 .. 2)
  <2> DEFINE Flaws  == Ranging("flaws", SUBSET {"thin_content", "image_alt", "schema_missing"})
  <2> DEFINE Linked == Ranging("links", SUBSET SitePages)
  <2> DEFINE Faults == [title: Titles, meta: Metas, h1s: Tops1, flaws: Flaws, links: Linked]
  <2>1. Built(faulty) = {[q \in SitePages |-> [f \in Respects |-> x[f][q]]] : x \in Faults}
    BY DEF Built
  <2>2. Titles \subseteq [SitePages -> SiteTexts] /\ Metas \subseteq [SitePages -> SiteTexts]
    <3>1. [q \in SitePages |-> GoodPage(q)["title"]] \in [SitePages -> SiteTexts]
          /\ [q \in SitePages |-> GoodPage(q)["meta"]] \in [SitePages -> SiteTexts]
      BY <1>2 DEF SitePageTyped
    <3> QED
      BY <3>1
  <2>3. Tops1 \subseteq [SitePages -> 0 .. 2] /\ Linked \subseteq [SitePages -> SUBSET SitePages]
    <3>1. [q \in SitePages |-> GoodPage(q)["h1s"]] \in [SitePages -> 0 .. 2]
      BY <1>2 DEF SitePageTyped
    <3>2. [q \in SitePages |-> GoodPage(q)["links"]] \in [SitePages -> SUBSET SitePages]
      BY <1>2 DEF SitePageTyped
    <3> QED
      BY <3>1, <3>2
  <2> HIDE DEF Titles, Metas, Tops1, Flaws, Linked
  <2>4. PICK x \in Faults : s = [q \in SitePages |-> [f \in Respects |-> x[f][q]]]
    BY <2>1
  <2>5. x.title \in Titles /\ x.meta \in Metas /\ x.h1s \in Tops1 /\ x.links \in Linked
    BY <2>4
  <2>6. /\ s[p].title = x.title[p] /\ s[p].meta = x.meta[p] /\ s[p].h1s = x.h1s[p]
        /\ s[p].links = x.links[p]
    BY <2>4 DEF Respects
  <2>7. x.title[p] \in SiteTexts /\ x.meta[p] \in SiteTexts /\ x.h1s[p] \in 0 .. 2
        /\ x.links[p] \in SUBSET SitePages
    BY <2>2, <2>3, <2>5
  <2> QED
    BY <2>6, <2>7 DEF SitePageTyped
<1> QED
  BY <1>2, <1>3 DEF GoodSite, Sites

(* The audit's hints are followed.                                          *)
LEMMA ReviseSiteTyped == ASSUME SeoInv, ReviseSite PROVE SeoInv'
<1>1. revisions < Patience /\ revisions' = revisions + 1 /\ draftPage' = draftPage
  BY DEF ReviseSite
<1>2. /\ \A text, flagged, sharing : Rewritten(text, flagged, sharing) \subseteq [SitePages -> SiteTexts]
      /\ \A linked, lost : Relinked(linked, lost) \subseteq [SitePages -> SUBSET SitePages]
  BY DEF Rewritten, Relinked
<1> DEFINE RevisedTo(titles, metas, to) ==
        site' = [p \in SitePages |->
                    [title |-> titles[p], meta |-> metas[p], h1s |-> 1, flaws |-> {},
                     links |-> to[p]]]
<1> DEFINE Mistitled == {p \in SitePages : _title_finding(p) # {}}
<1> DEFINE Misworded == {p \in SitePages : _meta_finding(p) # {}}
<1>3. PICK sameTitle \in Examples(SharedTitles), sameMeta \in Examples(SharedMetas),
           lost \in Examples(_orphans) :
         \E titles \in Rewritten(TitlesOfSite, Mistitled \cup sameTitle, sameTitle),
            metas \in Rewritten(MetasOfSite, Misworded \cup sameMeta, sameMeta),
            to \in Relinked(LinksOfSite, lost) : RevisedTo(titles, metas, to)
  BY DEF ReviseSite
<1> HIDE DEF Mistitled, Misworded, RevisedTo
<1>4. PICK titles \in [SitePages -> SiteTexts], metas \in [SitePages -> SiteTexts],
           to \in [SitePages -> SUBSET SitePages] : RevisedTo(titles, metas, to)
  BY <1>2, <1>3
<1>5. ASSUME NEW p \in SitePages PROVE SitePageTyped(site'[p])
  BY <1>4 DEF SitePageTyped, RevisedTo
<1>6. revisions' \in 0 .. Patience
  BY <1>1, SeoAssumption DEF SeoInv
<1> QED
  BY <1>1, <1>5, <1>6 DEF SeoInv

(* A first draft and a first site are typed.                                *)
LEMMA SeoInvStarts == SeoInit => SeoInv
<1> SUFFICES ASSUME SeoInit PROVE SeoInv
  OBVIOUS
<1>1. 0 \in 0 .. Patience
  BY SeoAssumption
<1> QED
  BY <1>1, DraftsTyped, FlawlessIsTyped, SitesTyped DEF SeoInit, SeoInv

(* Whatever hints are followed, the numbers read off a page stay numbers of *)
(* a page, its headings headings, and no more of its body is keyword than   *)
(* it has words (SeoTypeOK).                                                *)
THEOREM SeoTypeCorrect == SeoSpec => []SeoTypeOK
<1>1. SeoInit => SeoInv
  BY SeoInvStarts
<1>2. SeoInv /\ [SeoNext]_seoVars => SeoInv'
  <2> SUFFICES ASSUME SeoInv, [SeoNext]_seoVars PROVE SeoInv'
    OBVIOUS
  <2>1. CASE ReviseDraft
    <3>1. /\ revisions < Patience /\ revisions' = revisions + 1 /\ site' = site
          /\ draftPage' \in Revised(draftPage)
      BY <2>1 DEF ReviseDraft
    <3>2. revisions' \in 0 .. Patience
      BY <3>1, SeoAssumption DEF SeoInv
    <3>3. DraftTyped(draftPage')
      BY <3>1, RevisedTyped DEF SeoInv
    <3> QED
      BY <3>1, <3>2, <3>3 DEF SeoInv
  <2>2. CASE ReviseSite
    BY <2>2, ReviseSiteTyped
  <2>3. CASE UNCHANGED seoVars
    BY <2>3 DEF seoVars, SeoInv
  <2> QED
    BY <2>1, <2>2, <2>3 DEF SeoNext
<1>3. SeoInv => SeoTypeOK
  <2> SUFFICES ASSUME SeoInv PROVE SeoTypeOK
    OBVIOUS
  <2>1. DOMAIN draftPage.headings = 1 .. Len(draftPage.headings)
        /\ Range(draftPage.headings) \subseteq 1 .. 6
    BY DEF SeoInv, DraftTyped, Levels, Range
  <2>2. {draftPage.title, draftPage.meta, draftPage.words, draftPage.uses, draftPage.internal,
         draftPage.external, draftPage.absent, draftPage.blank} \subseteq Nat
    BY DEF SeoInv, DraftTyped
  <2>3. draftPage.phrase \in Nat /\ draftPage.uses * draftPage.phrase <= draftPage.words
        /\ draftPage.easy \in BOOLEAN /\ revisions \in 0 .. Patience
    BY DEF SeoInv, DraftTyped
  <2>4. \A p \in SitePages :
          /\ site[p].title \in SiteTexts /\ site[p].meta \in SiteTexts /\ site[p].h1s \in 0 .. 2
          /\ site[p].links \subseteq SitePages
    BY DEF SeoInv, SitePageTyped
  <2> QED
    BY <2>1, <2>2, <2>3, <2>4 DEF SeoTypeOK
<1> QED
  BY <1>1, <1>2, <1>3, PTL DEF SeoSpec

(* Where the headings of an outline skip a level, the lower one was not     *)
(* there before, or its parent was retagged: the parent is then a level     *)
(* below one that was skipped from.                                         *)
LEMMA OutlineSkips ==
    ASSUME NEW h \in Seq(Levels), NEW kept, NEW added \in SUBSET Skips(h), NEW b \in Nat,
           \A i \in Skips(h) : h[i - 1] >= b,
           NEW j \in Skips(Outline(h, kept, added))
    PROVE  Outline(h, kept, added)[j - 1] >= b + 1
<1> DEFINE own == Outline(h, kept, added)
<1> DEFINE Level(i) == Relevel(h, kept, added, i)
<1> DEFINE Next(i) == NextLevel(h, i)
<1> DEFINE n == Len(h)
<1>1. /\ own \in Seq(Levels) /\ Len(own) = n + Cardinality(added)
      /\ \A i \in 1 .. n : Level(i) \in Levels
  BY OutlineTyped
<1>2. j \in 2 .. (n + Cardinality(added)) /\ own[j] > own[j - 1] + 1
  BY <1>1, SkipsHaveParents
<1>3. \E i \in 1 .. n :
         \/ i \in added /\ own[j - 1] = Next(i) /\ own[j] = Level(i)
         \/ i > 1 /\ i \notin added /\ own[j - 1] = Level(i - 1) /\ own[j] = Level(i)
         \/ i > 1 /\ i \in added /\ own[j - 1] = Level(i - 1) /\ own[j] = Next(i)
  BY <1>2, OutlineSteps
<1>4. \A i \in Skips(h) :
         /\ i \in 2 .. n /\ Next(i) \in Nat /\ Next(i) >= b + 1 /\ Next(i) = h[i - 1] + 1
         /\ h[i - 1] \in Nat /\ h[i] \in Nat /\ h[i] > h[i - 1] + 1
  BY SkipsHaveParents DEF Levels
<1>5. n \in Nat /\ \A i \in 1 .. n : h[i] \in Nat /\ h[i] >= 1
  BY DEF Levels
<1>6. \A i \in 1 .. n :
         \/ i \in Skips(h) \ added /\ Level(i) = Next(i)
         \/ i \notin Skips(h) \ added /\ h[i] = 1 /\ Level(i) = 2
         \/ i \notin Skips(h) \ added /\ Level(i) = h[i]
  <2> SUFFICES ASSUME NEW i \in 1 .. n
               PROVE  \/ i \in Skips(h) \ added /\ Level(i) = Next(i)
                      \/ i \notin Skips(h) \ added /\ h[i] = 1 /\ Level(i) = 2
                      \/ i \notin Skips(h) \ added /\ Level(i) = h[i]
    OBVIOUS
  <2>1. Level(i) = CASE i \in Skips(h) \ added  -> Next(i)
                     [] i \in Tops(h) \ {kept} -> 2
                     [] OTHER                  -> h[i]
    BY DEF Relevel
  <2>2. i \in Tops(h) => h[i] = 1
    BY DEF Tops
  <2>3. i \in Skips(h) => i \notin Tops(h)
    BY <1>4, <1>5, <2>2
  <2> HIDE DEF Level, Next
  <2> QED
    BY <2>1, <2>2, <2>3
<1>7. \A i \in 2 .. n : i \notin Skips(h) => h[i] <= h[i - 1] + 1
  <2> SUFFICES ASSUME NEW i \in 2 .. n, i \notin Skips(h) PROVE h[i] <= h[i - 1] + 1
    OBVIOUS
  <2>1. i \in DOMAIN h \ {1} /\ ~(h[i] > h[i - 1] + 1)
    BY DEF Skips
  <2>2. i - 1 \in 1 .. n /\ i \in 1 .. n
    BY <1>5
  <2>3. h[i] \in Nat /\ h[i - 1] \in Nat
    BY <1>5, <2>2
  <2> QED
    BY <2>1, <2>3
<1>8. \A i \in 1 .. n : Level(i) \in Nat /\ Level(i) >= 1
  BY <1>1 DEF Levels
<1>9. added \subseteq Skips(h)
  OBVIOUS
<1> HIDE DEF own, Level, Next, n
<1>10. PICK i \in 1 .. n :
         \/ i \in added /\ own[j - 1] = Next(i) /\ own[j] = Level(i)
         \/ i > 1 /\ i \notin added /\ own[j - 1] = Level(i - 1) /\ own[j] = Level(i)
         \/ i > 1 /\ i \in added /\ own[j - 1] = Level(i - 1) /\ own[j] = Next(i)
  BY <1>3
<1>11. CASE i \in added /\ own[j - 1] = Next(i)
  <2>1. i \in Skips(h)
    BY <1>9, <1>11
  <2>2. own[j - 1] >= b + 1
    BY <1>4, <1>11, <2>1
  <2> QED
    BY <2>2 DEF own
<1>12. CASE i > 1 /\ own[j - 1] = Level(i - 1) /\ own[j] <= h[i - 1] + 1
  <2> DEFINE m == i - 1
  <2>1. m \in 1 .. n
    BY <1>5, <1>12
  <2>2. own[j - 1] = Level(m) /\ own[j] <= h[m] + 1
    BY <1>12
  <2> HIDE DEF m
  <2>3. h[m] \in Nat /\ h[m] >= 1 /\ Level(m) \in Nat
    BY <1>5, <1>8, <2>1
  <2>4. own[j] > Level(m) + 1
    BY <1>2, <2>2
  <2>5. own[j] \in Nat
    BY <1>4, <1>8, <1>9, <1>10
  <2>6. Level(m) < h[m]
    BY <2>2, <2>3, <2>4, <2>5
  <2>7. m \in Skips(h) /\ Level(m) = Next(m)
    BY <1>6, <2>1, <2>3, <2>6
  <2> QED
    BY <1>4, <2>2, <2>7 DEF own
<1>13. CASE i > 1 /\ i \in added /\ own[j - 1] = Level(i - 1) /\ own[j] = Next(i)
  BY <1>4, <1>9, <1>12, <1>13
<1>14. CASE i > 1 /\ i \notin added /\ own[j - 1] = Level(i - 1) /\ own[j] = Level(i)
  <2>1. i \in 2 .. n /\ i - 1 \in 1 .. n
    BY <1>5, <1>14
  <2>2. h[i - 1] \in Nat /\ h[i - 1] >= 1 /\ h[i] \in Nat
    BY <1>5, <2>1
  <2>3. CASE i \in Skips(h)
    BY <1>4, <1>6, <1>12, <1>14, <2>3, <2>2
  <2>4. CASE i \notin Skips(h) /\ Level(i) = h[i]
    BY <1>7, <1>12, <1>14, <2>1, <2>4
  <2>5. CASE Level(i) = 2
    BY <1>12, <1>14, <2>2, <2>5
  <2> QED
    BY <1>6, <2>3, <2>4, <2>5
<1> QED
  BY <1>10, <1>11, <1>13, <1>14

(* A page with a top keeps one, and it is its only one.                     *)
LEMMA OutlineKeepsOneTop ==
    ASSUME NEW h \in Seq(Levels), NEW kept \in Tops(h), NEW added \in SUBSET Skips(h)
    PROVE  Tops(Outline(h, kept, added)) = {Placed(added, kept)}
<1> DEFINE own == Outline(h, kept, added)
<1> DEFINE Level(i) == Relevel(h, kept, added, i)
<1> DEFINE Next(i) == NextLevel(h, i)
<1> DEFINE n == Len(h)
<1> DEFINE long == Len(h) + Cardinality(added)
<1> DEFINE At(k) == Placed(added, k)
<1> DEFINE From(k) == Origin(h, added, k)
<1>1. n \in Nat /\ DOMAIN h = 1 .. n /\ \A i \in 1 .. n : h[i] \in Levels
  OBVIOUS
<1>2. added \in SUBSET (1 .. n)
  BY SkipsHaveParents
<1>3. own \in Seq(Levels) /\ Len(own) = long
  BY OutlineTyped
<1>4. DOMAIN own = 1 .. long /\ long \in Nat
  BY <1>3
<1>5. /\ \A k \in 0 .. n : At(k) \in Nat
      /\ At(0) = 0 /\ At(n) = long
      /\ \A k \in 1 .. n : At(k) = At(k - 1) + IF k \in added THEN 2 ELSE 1
      /\ \A k, m \in 0 .. n : k < m => At(k) < At(m)
  BY <1>1, <1>2, PlacesGrow
<1>6. \A k \in 1 .. long :
         /\ From(k) \in 1 .. n
         /\ \A m \in 1 .. n : From(k) = m <=> At(m - 1) < k /\ k <= At(m)
  BY <1>2, OriginIsBetween
<1>7. \A k \in 1 .. long :
         own[k] = IF From(k) \in added /\ k < At(From(k)) THEN Next(From(k)) ELSE Level(From(k))
  BY DEF Outline
<1>8. kept \in 1 .. n /\ h[kept] = 1
  BY <1>1 DEF Tops
<1>9. kept \notin Skips(h) /\ kept \notin added
  <2>1. \A i \in Skips(h) : h[i] > 1
    BY SkipsHaveParents DEF Levels
  <2> QED
    BY <1>8, <2>1
<1>10. Level(kept) = 1
  BY <1>8, <1>9 DEF Relevel
<1>11. \A i \in 1 .. n : Level(i) = 1 => i = kept
  <2> SUFFICES ASSUME NEW i \in 1 .. n, Level(i) = 1 PROVE i = kept
    OBVIOUS
  <2>1. i \notin Skips(h) \ added
    BY SkipsHaveParents DEF Relevel
  <2>2. i \notin Tops(h) \ {kept}
    BY <2>1 DEF Relevel
  <2>3. h[i] = 1
    BY <2>1, <2>2 DEF Relevel
  <2> QED
    BY <1>1, <2>2, <2>3 DEF Tops
<1>12. \A i \in added : Next(i) # 1
  BY SkipsHaveParents
<1> HIDE DEF own, Level, Next, n, long, At, From
<1>13. kept \in 0 .. n /\ kept - 1 \in 0 .. n /\ kept - 1 < kept /\ n \in 0 .. n
  BY <1>1, <1>8
<1>14. At(kept) \in 1 .. long /\ At(kept - 1) < At(kept) /\ At(kept) = At(kept - 1) + 1
       /\ At(kept - 1) \in Nat /\ At(kept) \in Nat
  BY <1>1, <1>4, <1>5, <1>8, <1>9, <1>13
<1>15. own[At(kept)] = 1
  <2>1. From(At(kept)) = kept
    BY <1>6, <1>8, <1>14
  <2> QED
    BY <1>7, <1>9, <1>10, <1>14, <2>1
<1>16. ASSUME NEW k \in 1 .. long, own[k] = 1 PROVE k = At(kept)
  <2>1. From(k) = kept
    BY <1>6, <1>7, <1>11, <1>12, <1>16
  <2>2. At(kept - 1) < k /\ k <= At(kept)
    BY <1>6, <1>8, <2>1
  <2> QED
    BY <1>14, <2>2
<1>17. Tops(own) = {At(kept)}
  BY <1>4, <1>14, <1>15, <1>16 DEF Tops
<1> QED
  BY <1>17 DEF own, At

(* A page without one has none but the one it is given.                     *)
LEMMA OutlineWithoutTop ==
    ASSUME NEW h \in Seq(Levels), Tops(h) = {}, NEW kept, NEW added \in SUBSET Skips(h)
    PROVE  Tops(Outline(h, kept, added)) = {}
<1> DEFINE own == Outline(h, kept, added)
<1>1. own \in Seq(Levels) /\ Len(own) = Len(h) + Cardinality(added)
  BY OutlineTyped
<1>2. added \in SUBSET (1 .. Len(h))
  BY SkipsHaveParents
<1>3. ASSUME NEW k \in DOMAIN own PROVE own[k] # 1
  <2> DEFINE o == Origin(h, added, k)
  <2>1. k \in 1 .. (Len(h) + Cardinality(added))
    BY <1>1
  <2>2. o \in 1 .. Len(h)
    BY <1>2, <2>1, OriginIsBetween
  <2>3. \/ own[k] = NextLevel(h, o) /\ o \in added
        \/ own[k] = Relevel(h, kept, added, o)
    BY <2>1 DEF Outline
  <2>4. h[o] # 1
    BY <2>2 DEF Tops
  <2>5. \/ o \in Skips(h) /\ Relevel(h, kept, added, o) = NextLevel(h, o)
        \/ Relevel(h, kept, added, o) = h[o]
    BY DEF Relevel
  <2> HIDE DEF o, own
  <2>6. o \in Skips(h) => NextLevel(h, o) # 1
    BY SkipsHaveParents
  <2> QED
    BY <2>3, <2>4, <2>5, <2>6
<1> QED
  BY <1>3 DEF Tops

\* No heading skips a level but below one of level b at least.
SkipsFrom(h, b) == \A i \in Skips(h) : h[i - 1] >= b

(* What a heading's hint chooses.                                           *)
LEMMA HintsOfHeadings ==
    ASSUME NEW h, NEW new \in HeadingHints(h)
    PROVE  \E kept, added : /\ kept \in IF Tops(h) = {} THEN {0} ELSE Tops(h)
                            /\ added \in SUBSET Skips(h)
                            /\ new = Retitled(h, kept, added)
BY DEF HeadingHints

(* Headings that follow their hints have one top, and skip levels further   *)
(* down than before; if they had no top, they get one, and may skip below.  *)
LEMMA HeadingHintsAdvance ==
    ASSUME NEW h \in Seq(Levels), NEW new \in HeadingHints(h), NEW b \in Nat, SkipsFrom(h, b)
    PROVE  /\ new \in Seq(Levels) /\ Cardinality(Tops(new)) = 1
           /\ SkipsFrom(new, 1)
           /\ Tops(h) # {} => SkipsFrom(new, b + 1)
<1>1. PICK kept, added : /\ kept \in IF Tops(h) = {} THEN {0} ELSE Tops(h)
                         /\ added \in SUBSET Skips(h)
                         /\ new = Retitled(h, kept, added)
  BY HintsOfHeadings
<1> DEFINE own == Outline(h, kept, added)
<1>2. new \in Seq(Levels)
  BY <1>1, HeadingsTyped
<1>3. SkipsFrom(new, 1)
  <2>1. \A i \in Skips(new) : new[i - 1] \in Levels
    BY <1>2, SkipsHaveParents
  <2> QED
    BY <2>1 DEF SkipsFrom, Levels
<1>4. CASE Tops(h) = {}
  <2>1. new = <<1>> \o own
    BY <1>1, <1>4, RetitledIsOutline
  <2>2. own \in Seq(Levels)
    BY <1>1, OutlineTyped
  <2>3. \A k \in DOMAIN own : own[k] # 1
    <3>1. Tops(own) = {}
      BY <1>1, <1>4, OutlineWithoutTop
    <3> QED
      BY <3>1 DEF Tops
  <2> HIDE DEF own
  <2>4. Len(own) \in Nat /\ DOMAIN own = 1 .. Len(own) /\ DOMAIN new = 1 .. Len(own) + 1
        /\ \A k \in DOMAIN new : new[k] = IF k = 1 THEN 1 ELSE own[k - 1]
    BY <2>1, <2>2
  <2>5. Tops(new) = {1}
    BY <2>3, <2>4 DEF Tops
  <2> QED
    BY <1>2, <1>3, <1>4, <2>5, FS_Singleton
<1>5. CASE Tops(h) # {}
  <2>1. new = own /\ kept \in Tops(h)
    BY <1>1, <1>5, RetitledIsOutline
  <2>2. Tops(new) = {Placed(added, kept)}
    BY <1>1, <2>1, OutlineKeepsOneTop
  <2>3. SkipsFrom(new, b + 1)
    BY <1>1, <2>1, OutlineSkips DEF SkipsFrom
  <2> QED
    BY <1>2, <1>3, <2>2, <2>3, FS_Singleton
<1> QED
  BY <1>4, <1>5

(* Headings with nothing to report are left alone.                          *)
LEMMA GoodHeadingsStay ==
    ASSUME NEW h \in Seq(Levels), NEW new \in HeadingHints(h),
           Cardinality(Tops(h)) = 1, Skips(h) = {}
    PROVE  new = h
<1>1. PICK top : Tops(h) = {top}
  <2>1. IsFiniteSet(1 .. Len(h)) /\ Tops(h) \subseteq 1 .. Len(h)
    BY FS_Interval DEF Tops
  <2>2. IsFiniteSet(Tops(h))
    BY <2>1, FS_Subset
  <2> QED
    BY <2>2, FS_Singleton
<1>2. PICK kept, added : /\ kept \in IF Tops(h) = {} THEN {0} ELSE Tops(h)
                         /\ added \in SUBSET Skips(h)
                         /\ new = Retitled(h, kept, added)
  BY HintsOfHeadings
<1>3. added = {} /\ kept = top
  BY <1>1, <1>2
<1>4. new = Outline(h, kept, added)
  BY <1>1, <1>2, RetitledIsOutline
<1>5. Cardinality(added) = 0 /\ \A i \in 1 .. Len(h) : Placed(added, i) = i
  <2>1. Cardinality({}) = 0
    BY FS_EmptySet
  <2>2. \A i : added \cap 1 .. i = {}
    BY <1>3
  <2> QED
    BY <1>3, <2>1, <2>2 DEF Placed
<1>6. ASSUME NEW i \in 1 .. Len(h) PROVE Relevel(h, kept, added, i) = h[i]
  BY <1>1, <1>3 DEF Relevel
<1>7. ASSUME NEW k \in 1 .. Len(h) PROVE Origin(h, added, k) = k
  <2>1. k \in 1 .. (Len(h) + Cardinality(added)) /\ k - 1 \in 0 .. Len(h)
    BY <1>5
  <2>2. added \in SUBSET (1 .. Len(h))
    BY <1>3
  <2>3. Placed(added, k) = k /\ Placed(added, k - 1) < k
    <3>1. Placed(added, k) = k
      BY <1>5
    <3>2. \A i, j \in 0 .. Len(h) : i < j => Placed(added, i) < Placed(added, j)
      <4>1. Len(h) \in Nat
        OBVIOUS
      <4> QED
        BY <2>2, <4>1, PlacesGrow
    <3> DEFINE m == k - 1
    <3>3. k \in 0 .. Len(h) /\ m \in 0 .. Len(h) /\ m < k
      OBVIOUS
    <3> HIDE DEF m
    <3>4. Placed(added, m) < k
      BY <3>1, <3>2, <3>3
    <3> QED
      BY <3>1, <3>4 DEF m
  <2> QED
    BY <2>1, <2>2, <2>3, OriginIsBetween
<1>8. Outline(h, kept, added) = [k \in 1 .. Len(h) |-> h[k]]
  <2>1. Len(h) + Cardinality(added) = Len(h)
    BY <1>5
  <2>2. \A k \in 1 .. Len(h) :
          (IF Origin(h, added, k) \in added /\ k < Placed(added, Origin(h, added, k))
           THEN NextLevel(h, Origin(h, added, k))
           ELSE Relevel(h, kept, added, Origin(h, added, k))) = h[k]
    BY <1>3, <1>6, <1>7
  <2> QED
    BY <2>1, <2>2 DEF Outline
<1>9. h = [k \in 1 .. Len(h) |-> h[k]]
  OBVIOUS
<1> QED
  BY <1>4, <1>8, <1>9

(* Below the fifth level there is only one more.                            *)
LEMMA NothingSkipsFromFive ==
    ASSUME NEW h \in Seq(Levels), NEW b \in Nat, b >= 5, SkipsFrom(h, b)
    PROVE  Skips(h) = {}
<1> SUFFICES ASSUME NEW i \in Skips(h) PROVE FALSE
  OBVIOUS
<1>1. h[i - 1] >= b /\ h[i - 1] \in Levels /\ h[i] \in Levels /\ h[i] > h[i - 1] + 1
  BY SkipsHaveParents DEF SkipsFrom
<1> QED
  BY <1>1 DEF Levels

\* An answer of a rule, and one that is no worse than another.
SeoCodes      == DOMAIN RULE_WEIGHTS
SeoSeverities == {"info", "warn", "error"}
NoWorse(was, is) == is = "info" \/ (is = "warn" /\ was # "info") \/ was = "error"

(* What a draft is whose every hint was followed.                           *)
LEMMA RevisedIs ==
    ASSUME NEW d, DraftTyped(d), NEW e \in Revised(d)
    PROVE  /\ e.title \in TITLE_TARGET /\ e.meta \in META_TARGET /\ e.easy = TRUE
           /\ e.internal >= 1 /\ e.external >= 2
           /\ e.absent = 0 /\ e.blank \in 0 .. d.absent + d.blank
           /\ e.headings \in HeadingHints(d.headings)
           /\ check_schema(e) = "info"
           /\ e.words > 0 /\ e.phrase = d.phrase /\ (d.words > 0 /\ d.phrase > 0 => e.uses > 0)
           /\ check_keyword_density(d) = "info" => check_keyword_density(e) = "info"
<1> DEFINE Flawed(code) == score_page(d)[code] # "info"
<1> DEFINE Titles == IF Flawed("title_length") THEN Lengths \cap TITLE_TARGET ELSE {d.title}
<1> DEFINE Metas == IF Flawed("meta_length") THEN Lengths \cap META_TARGET ELSE {d.meta}
<1> DEFINE within == Max({d.internal, MIN_INTERNAL_LINKS})
<1> DEFINE without == Max({d.external, MIN_EXTERNAL_LINKS})
<1> DEFINE Blocks == IF Flawed("schema_invalid") THEN {d.blocks \cup {WellFormed}} ELSE {d.blocks}
<1> DEFINE Changes == [title: Titles, meta: Metas, headings: HeadingHints(d.headings),
                       easy: {TRUE}, internal: {within}, external: {without}, absent: {0},
                       blank: 0 .. d.absent + d.blank, blocks: Blocks]
<1>1. Revised(d) = {Changed(worded, change) : worded \in DensityHints(d), change \in Changes}
  BY DEF Revised
<1>2. Titles \subseteq TITLE_TARGET /\ Metas \subseteq META_TARGET
  <2>1. score_page(d)["title_length"] = check_title_length(d)
        /\ score_page(d)["meta_length"] = check_meta_length(d)
    BY DEF score_page
  <2>2. check_title_length(d) = "info" => d.title \in TITLE_TARGET
    BY DEF check_title_length
  <2>3. check_meta_length(d) = "info" => d.meta \in META_TARGET
    BY DEF check_meta_length
  <2> QED
    BY <2>1, <2>2, <2>3
<1>3. within >= 1 /\ without >= 2
  <2>1. d.internal \in Int /\ d.external \in Int /\ 1 \in Int /\ 2 \in Int
        /\ MIN_INTERNAL_LINKS = 1 /\ MIN_EXTERNAL_LINKS = 2
    BY DEF DraftTyped, MIN_INTERNAL_LINKS, MIN_EXTERNAL_LINKS
  <2>2. Max({d.internal, 1}) >= 1 /\ Max({d.external, 2}) >= 2
    BY <2>1, GreaterOfTwo
  <2> QED
    BY <2>1, <2>2
<1>4. ASSUME NEW blocks \in Blocks PROVE \E block \in blocks : validate_jsonld(block)
  <2>1. score_page(d)["schema_invalid"] = check_schema(d)
    BY DEF score_page
  <2>2. CASE check_schema(d) = "info"
    BY <2>1, <2>2 DEF check_schema
  <2>3. CASE check_schema(d) # "info"
    <3>1. WellFormed \in blocks
      BY <2>1, <2>3
    <3>2. validate_jsonld(WellFormed)
      BY DEF validate_jsonld, WellFormed, RequiredOf
    <3> QED
      BY <3>1, <3>2
  <2> QED
    BY <2>2, <2>3
<1> HIDE DEF Titles, Metas, within, without, Blocks, Changes
<1>5. PICK worded \in DensityHints(d), change \in Changes : e = Changed(worded, change)
  BY <1>1
<1> USE DEF Changes
<1>6. DraftTyped(worded)
  BY DensityHintsHelp
<1>7. /\ DOMAIN change = {"title", "meta", "headings", "easy", "internal", "external",
                         "absent", "blank", "blocks"}
      /\ change.title \in Titles /\ change.meta \in Metas /\ change.internal = within
      /\ change.headings \in HeadingHints(d.headings) /\ change.external = without
      /\ change.absent = 0 /\ change.blank \in 0 .. d.absent + d.blank
      /\ change.blocks \in Blocks
  OBVIOUS
<1>8. change.easy = TRUE
  OBVIOUS
<1> HIDE DEF Changes
<1>9. /\ e.title = change.title /\ e.meta = change.meta /\ e.internal = change.internal
      /\ e.headings = change.headings /\ e.external = change.external
      /\ e.absent = change.absent /\ e.blank = change.blank /\ e.blocks = change.blocks
      /\ e.words = worded.words /\ e.uses = worded.uses /\ e.phrase = worded.phrase
  BY <1>5, <1>6, <1>7 DEF Changed, DraftTyped, IsSeoDraft, SeoFields
<1>10. e.easy = TRUE
  <2>1. "easy" \in DOMAIN worded /\ "easy" \in DOMAIN change
    BY <1>6, <1>7 DEF DraftTyped, IsSeoDraft, SeoFields
  <2>2. e.easy = change.easy
    BY <1>5, <2>1 DEF Changed
  <2> QED
    BY <1>8, <2>2
<1>11. e.title \in TITLE_TARGET /\ e.meta \in META_TARGET
  BY <1>2, <1>7, <1>9
<1>12. check_schema(e) = "info"
  BY <1>4, <1>7, <1>9 DEF check_schema
<1>13. check_keyword_density(e) = check_keyword_density(worded)
  BY <1>9 DEF check_keyword_density, below_band, above_band
<1>14. e.words > 0 /\ e.phrase = d.phrase /\ (d.words > 0 /\ d.phrase > 0 => e.uses > 0)
       /\ (check_keyword_density(d) = "info" => check_keyword_density(e) = "info")
  BY <1>9, <1>13, DensityHintsHelp
<1>15. e.internal >= 1 /\ e.external >= 2
  BY <1>3, <1>7, <1>9
<1> QED
  BY <1>7, <1>9, <1>10, <1>11, <1>12, <1>14, <1>15

(* What the nine rules answer.                                              *)
LEMMA RulesAnswer ==
    ASSUME NEW d
    PROVE  /\ score_page(d).title_length = check_title_length(d)
           /\ score_page(d).meta_length = check_meta_length(d)
           /\ score_page(d).heading_tree = check_heading_tree(d)
           /\ score_page(d).keyword_density = check_keyword_density(d)
           /\ score_page(d).readability = check_readability(d)
           /\ score_page(d).internal_links = check_internal_links(d)
           /\ score_page(d).external_links = check_external_links(d)
           /\ score_page(d).image_alt = check_image_alt(d)
           /\ score_page(d).schema_invalid = check_schema(d)
           /\ DOMAIN score_page(d) = SeoCodes
BY DEF score_page, SeoCodes, RULE_WEIGHTS

(* The codes of the nine rules.                                             *)
LEMMA NineCodes ==
    SeoCodes = {"title_length", "heading_tree", "keyword_density", "internal_links", "meta_length",
              "readability", "schema_invalid", "external_links", "image_alt"}
BY DEF SeoCodes, RULE_WEIGHTS

(* Each answers with a severity.                                            *)
LEMMA AnswersAreSeverities ==
    ASSUME NEW d, DraftTyped(d), NEW code \in SeoCodes PROVE score_page(d)[code] \in SeoSeverities
<1>1. check_title_length(d) \in SeoSeverities /\ check_meta_length(d) \in SeoSeverities
  <2>1. check_title_length(d) \in SeoSeverities
    BY DEF check_title_length, SeoSeverities
  <2>2. check_meta_length(d) \in SeoSeverities
    BY DEF check_meta_length, SeoSeverities
  <2> QED
    BY <2>1, <2>2
<1>2. check_heading_tree(d) \in SeoSeverities /\ check_readability(d) \in SeoSeverities
  BY DEF check_heading_tree, check_readability, SeoSeverities
<1>3. check_keyword_density(d) \in SeoSeverities
  BY DEF check_keyword_density, SeoSeverities
<1>4. check_internal_links(d) \in SeoSeverities /\ check_external_links(d) \in SeoSeverities
  BY DEF check_internal_links, check_external_links, SeoSeverities
<1>5. check_image_alt(d) \in SeoSeverities /\ check_schema(d) \in SeoSeverities
  BY DEF check_image_alt, check_schema, SeoSeverities
<1> QED
  BY <1>1, <1>2, <1>3, <1>4, <1>5, RulesAnswer, NineCodes

(* Following the hints makes no rule's answer worse.                        *)
LEMMA RevisedNoWorse ==
    ASSUME NEW d, DraftTyped(d), NEW e \in Revised(d), NEW code \in SeoCodes
    PROVE  NoWorse(score_page(d)[code], score_page(e)[code])
<1>1. check_title_length(e) = "info" /\ check_meta_length(e) = "info"
  <2>1. e.title \in TITLE_TARGET /\ e.meta \in META_TARGET
    BY RevisedIs
  <2>2. e.meta # 0
    BY <2>1 DEF META_TARGET
  <2>3. check_title_length(e) = "info"
    BY <2>1 DEF check_title_length
  <2>4. check_meta_length(e) = "info"
    BY <2>1, <2>2 DEF check_meta_length
  <2> QED
    BY <2>3, <2>4
<1>2. NoWorse(check_heading_tree(d), check_heading_tree(e))
  <2>1. e.headings \in HeadingHints(d.headings) /\ d.headings \in Seq(Levels)
    BY RevisedIs DEF DraftTyped
  <2>2. CASE check_heading_tree(d) = "info"
    <3>1. e.headings = d.headings
      BY <2>1, <2>2, GoodHeadingsStay DEF check_heading_tree
    <3> QED
      BY <2>2, <3>1 DEF check_heading_tree, NoWorse
  <2>3. CASE check_heading_tree(d) = "error"
    BY <2>3 DEF NoWorse
  <2> QED
    BY <2>2, <2>3 DEF check_heading_tree
<1>3. NoWorse(check_keyword_density(d), check_keyword_density(e))
  <2>1. e.words > 0 /\ e.phrase = d.phrase /\ (d.words > 0 /\ d.phrase > 0 => e.uses > 0)
        /\ (check_keyword_density(d) = "info" => check_keyword_density(e) = "info")
    BY RevisedIs
  <2>2. d.words \in Nat /\ d.phrase \in Nat /\ d.uses \in Nat /\ e.words \in Nat /\ e.uses \in Nat
    BY RevisedTyped DEF DraftTyped
  <2>3. CASE d.words = 0 \/ d.phrase = 0
    BY <2>3 DEF check_keyword_density, NoWorse
  <2>4. CASE d.words # 0 /\ d.phrase # 0
    <3>1. e.words > 0 /\ e.uses # 0 /\ e.words # 0 /\ e.phrase # 0
      BY <2>1, <2>2, <2>4
    <3>2. check_keyword_density(e) \in {"info", "warn"}
      BY <3>1 DEF check_keyword_density
    <3> QED
      BY <2>1, <3>2 DEF NoWorse
  <2> QED
    BY <2>3, <2>4
<1>4. check_readability(e) = "info"
  BY RevisedIs DEF check_readability
<1>5. check_internal_links(e) = "info" /\ check_external_links(e) = "info"
  BY RevisedIs DEF check_internal_links, check_external_links, MIN_INTERNAL_LINKS,
                   MIN_EXTERNAL_LINKS
<1>6. NoWorse(check_image_alt(d), check_image_alt(e))
  <2>1. e.absent = 0 /\ e.blank \in 0 .. d.absent + d.blank
    BY RevisedIs
  <2>2. d.absent \in Nat /\ d.blank \in Nat
    BY DEF DraftTyped
  <2>3. d.absent + d.blank = 0 => e.absent + e.blank = 0
    BY <2>1, <2>2
  <2> QED
    BY <2>3 DEF check_image_alt, NoWorse
<1>7. check_schema(e) = "info"
  BY RevisedIs
<1> QED
  BY <1>1, <1>2, <1>3, <1>4, <1>5, <1>6, <1>7, RulesAnswer, NineCodes DEF NoWorse

(* An answer that is no worse costs no more.                                *)
LEMMA NoWorseCostsNoMore ==
    ASSUME NEW code \in SeoCodes, NEW was \in SeoSeverities, NEW is \in SeoSeverities,
           NoWorse(was, is)
    PROVE  penalty_for(code, was) \in Nat /\ penalty_for(code, is) \in Nat
           /\ penalty_for(code, is) <= penalty_for(code, was)
<1>1. RULE_WEIGHTS[code] \in Nat
  BY NineCodes DEF RULE_WEIGHTS
<1>2. /\ penalty_for(code, "error") = 2 * RULE_WEIGHTS[code]
      /\ penalty_for(code, "warn") = RULE_WEIGHTS[code]
      /\ penalty_for(code, "info") = 0
  BY DEF penalty_for
<1>3. is = "info" \/ was = "error" \/ (is = "warn" /\ was = "warn")
  BY DEF NoWorse, SeoSeverities
<1> DEFINE w == RULE_WEIGHTS[code]
<1>4. w \in Nat /\ 2 * w \in Nat /\ 0 <= w /\ w <= 2 * w /\ 0 <= 2 * w
  BY <1>1
<1>5. \/ was = "error" \/ was = "warn" \/ was = "info"
  BY DEF SeoSeverities
<1>6. is = "error" \/ is = "warn" \/ is = "info"
  BY DEF SeoSeverities
<1> QED
  BY <1>2, <1>3, <1>4, <1>5, <1>6

(* The penalty, term by term.                                               *)
LEMMA PenaltyIs ==
    ASSUME NEW answers
    PROVE  penalty(answers) =
              penalty_for("title_length", answers["title_length"])
              + penalty_for("meta_length", answers["meta_length"])
              + penalty_for("heading_tree", answers["heading_tree"])
              + penalty_for("keyword_density", answers["keyword_density"])
              + penalty_for("readability", answers["readability"])
              + penalty_for("internal_links", answers["internal_links"])
              + penalty_for("external_links", answers["external_links"])
              + penalty_for("image_alt", answers["image_alt"])
              + penalty_for("schema_invalid", answers["schema_invalid"])
BY DEF penalty

(* A answers that is no worse code by code has no lower score, and no error  *)
(* the other has not.                                                       *)
LEMMA NoWorseScoresNoLower ==
    ASSUME NEW was \in [SeoCodes -> SeoSeverities], NEW is \in [SeoCodes -> SeoSeverities],
           \A code \in SeoCodes : NoWorse(was[code], is[code])
    PROVE  /\ score(was) \in Nat /\ score(is) >= score(was)
           /\ ErrorsOf(is) \subseteq ErrorsOf(was)
<1> DEFINE cost(answers, code) == penalty_for(code, answers[code])
<1>1. ASSUME NEW code \in SeoCodes
      PROVE  /\ cost(was, code) \in Nat /\ cost(is, code) \in Nat
             /\ cost(is, code) <= cost(was, code)
  <2>1. was[code] \in SeoSeverities /\ is[code] \in SeoSeverities /\ NoWorse(was[code], is[code])
    OBVIOUS
  <2> QED
    BY <2>1, NoWorseCostsNoMore
<1>2. \A answers : penalty(answers) =
          cost(answers, "title_length") + cost(answers, "meta_length") + cost(answers, "heading_tree")
          + cost(answers, "keyword_density") + cost(answers, "readability")
          + cost(answers, "internal_links") + cost(answers, "external_links")
          + cost(answers, "image_alt") + cost(answers, "schema_invalid")
  BY PenaltyIs
<1> HIDE DEF cost
<1>3. penalty(is) \in Nat /\ penalty(was) \in Nat /\ penalty(is) <= penalty(was)
  BY <1>1, <1>2, NineCodes
<1> DEFINE p == penalty(was)
<1> DEFINE q == penalty(is)
<1> DEFINE a == (200 - p + 1) \div 2
<1> DEFINE b == (200 - q + 1) \div 2
<1>4. score(was) = Max({0, a}) /\ score(is) = Max({0, b})
  BY DEF score
<1>5. p \in Nat /\ q \in Nat /\ q <= p
  BY <1>3
<1> HIDE DEF p, q
<1>6. 0 \in Int /\ a \in Int /\ b \in Int /\ a <= b
  BY <1>5
<1> HIDE DEF a, b
<1>7. Max({0, a}) \in {0, a} /\ Max({0, a}) >= 0 /\ Max({0, b}) >= 0 /\ Max({0, b}) >= b
      /\ Max({0, b}) \in {0, b}
  BY <1>6, GreaterOfTwo, Zenon
<1>8. score(was) \in Nat /\ score(is) >= score(was)
  BY <1>4, <1>6, <1>7
<1>9. ErrorsOf(is) \subseteq ErrorsOf(was)
  <2>1. DOMAIN was = SeoCodes /\ DOMAIN is = SeoCodes
    OBVIOUS
  <2>2. \A code \in SeoCodes : is[code] = "error" => was[code] = "error"
    BY DEF NoWorse
  <2> QED
    BY <2>1, <2>2 DEF ErrorsOf
<1> QED
  BY <1>8, <1>9

(* What the keyword and the images may still cost does not fail a page.     *)
LEMMA TwoWarningsPass ==
    ASSUME NEW answers \in [SeoCodes -> SeoSeverities],
           \A code \in SeoCodes : \/ answers[code] = "info"
                                  \/ answers[code] = "warn" /\ code \in {"keyword_density", "image_alt"}
    PROVE  passed(answers)
<1> DEFINE cost(code) == penalty_for(code, answers[code])
<1>1. \A code \in SeoCodes \ {"keyword_density", "image_alt"} : cost(code) = 0
  BY DEF penalty_for
<1>2. cost("keyword_density") \in {0, 12} /\ cost("image_alt") \in {0, 8}
  BY NineCodes DEF penalty_for, RULE_WEIGHTS
<1>3. penalty(answers) = cost("title_length") + cost("meta_length") + cost("heading_tree")
          + cost("keyword_density") + cost("readability")
          + cost("internal_links") + cost("external_links")
          + cost("image_alt") + cost("schema_invalid")
  BY PenaltyIs
<1> HIDE DEF cost
<1>4. penalty(answers) \in {0, 8, 12, 20}
  BY <1>1, <1>2, <1>3, NineCodes
<1> DEFINE p == penalty(answers)
<1> DEFINE a == (200 - p + 1) \div 2
<1>5. score(answers) = Max({0, a})
  BY DEF score
<1>6. p \in {0, 8, 12, 20}
  BY <1>4
<1> HIDE DEF p
<1>7. 0 \in Int /\ a \in Int /\ a >= 85
  BY <1>6
<1> HIDE DEF a
<1>8. Max({0, a}) >= a /\ Max({0, a}) \in {0, a}
  BY <1>7, GreaterOfTwo, Zenon
<1>9. score(answers) >= PASS_SCORE
  BY <1>5, <1>7, <1>8 DEF PASS_SCORE
<1>10. ErrorsOf(answers) = {}
  BY DEF ErrorsOf
<1> QED
  BY <1>9, <1>10 DEF passed

(* A report has a severity for every code.                                  *)
LEMMA ReportsTyped ==
    ASSUME NEW d, DraftTyped(d) PROVE score_page(d) \in [SeoCodes -> SeoSeverities]
<1>1. \A code \in SeoCodes : score_page(d)[code] \in SeoSeverities
  BY AnswersAreSeverities
<1>2. score_page(d) = [code \in SeoCodes |-> score_page(d)[code]]
  BY NineCodes DEF score_page
<1> QED
  BY <1>1, <1>2

(* The page with nothing to report passes.                                  *)
LEMMA FlawlessPasses == passed(score_page(Flawless))
<1> DEFINE d == Flawless
<1> DEFINE levels == <<1, 2>>
<1> DEFINE marked == {WellFormed}
<1>1. Flawless = [title |-> 55, meta |-> 150, phrase |-> 1, words |-> 400, uses |-> 5,
                  easy |-> TRUE, headings |-> levels, internal |-> 1, external |-> 2,
                  absent |-> 0, blank |-> 0, blocks |-> marked]
  BY DEF Flawless
<1> HIDE DEF levels, marked
<1>2. /\ d.headings = levels /\ d.title = 55 /\ d.meta = 150 /\ d.internal = 1 /\ d.external = 2
      /\ d.absent = 0 /\ d.blank = 0 /\ d.blocks = marked
      /\ d.words = 400 /\ d.uses = 5 /\ d.phrase = 1
  BY <1>1
<1>3. d.easy = TRUE
  BY <1>1
<1> HIDE DEF d
<1>4. check_title_length(d) = "info"
  BY <1>2 DEF check_title_length, TITLE_TARGET
<1>5. check_meta_length(d) = "info"
  BY <1>2 DEF check_meta_length, META_TARGET
<1>6. check_heading_tree(d) = "info"
  <2>1. DOMAIN levels = {1, 2} /\ levels[1] = 1 /\ levels[2] = 2
    BY DEF levels
  <2>2. Tops(levels) = {1} /\ Skips(levels) = {}
    BY <2>1 DEF Tops, Skips
  <2> QED
    BY <1>2, <2>2, FS_Singleton DEF check_heading_tree
<1>7. check_keyword_density(d) = "info"
  <2>1. ~below_band(d) /\ ~above_band(d)
    BY <1>2 DEF below_band, above_band, DENSITY_MIN_PER_10K, DENSITY_MAX_PER_10K
  <2> QED
    BY <1>2, <2>1 DEF check_keyword_density
<1>8. check_readability(d) = "info"
  BY <1>2, <1>3 DEF check_readability
<1>9. check_internal_links(d) = "info" /\ check_external_links(d) = "info"
  BY <1>2 DEF check_internal_links, check_external_links, MIN_INTERNAL_LINKS, MIN_EXTERNAL_LINKS
<1>10. check_image_alt(d) = "info"
  BY <1>2 DEF check_image_alt
<1>11. check_schema(d) = "info"
  <2>1. validate_jsonld(WellFormed)
    BY DEF validate_jsonld, WellFormed, RequiredOf
  <2> QED
    BY <1>2, <2>1 DEF check_schema, marked
<1>12. \A code \in SeoCodes : score_page(d)[code] = "info"
  BY <1>4, <1>5, <1>6, <1>7, <1>8, <1>9, <1>10, <1>11, RulesAnswer, NineCodes
<1>13. score_page(d) \in [SeoCodes -> SeoSeverities]
  BY FlawlessIsTyped, ReportsTyped DEF d
<1>14. passed(score_page(d))
  BY <1>12, <1>13, TwoWarningsPass
<1> QED
  BY <1>14 DEF d

\* No page has a finding of its own; and what the audit finds of them all.
SoundPages == \A p \in SitePages : _audit_page(p) = {}
SoundSite  == SoundPages /\ SharedTitles = {} /\ SharedMetas = {} /\ _orphans = {}

(* An audit finds nothing when there is nothing to find.                    *)
LEMMA AuditFindsAll == audit_site = {} <=> SoundSite
<1> DEFINE titled == [code |-> "duplicate_title", pages |-> SharedTitles]
<1> DEFINE described == [code |-> "duplicate_meta", pages |-> SharedMetas]
<1> DEFINE lost == [code |-> "orphan_pages", pages |-> _orphans]
<1> DEFINE of(p) == {[code |-> c, pages |-> {p}] : c \in _audit_page(p)}
<1>1. audit_site = {f \in {titled, described, lost} : f.pages # {}} \cup UNION {of(p) : p \in SitePages}
  BY DEF audit_site, _site_findings
<1>2. titled.pages = SharedTitles /\ described.pages = SharedMetas /\ lost.pages = _orphans
  OBVIOUS
<1>3. \A p \in SitePages : of(p) = {} <=> _audit_page(p) = {}
  OBVIOUS
<1> HIDE DEF titled, described, lost, of
<1>4. {f \in {titled, described, lost} : f.pages # {}} = {}
         <=> SharedTitles = {} /\ SharedMetas = {} /\ _orphans = {}
  BY <1>2
<1>5. UNION {of(p) : p \in SitePages} = {} <=> SoundPages
  BY <1>3 DEF SoundPages
<1> QED
  BY <1>1, <1>4, <1>5 DEF SoundSite

(* The site with nothing to report.                                         *)
LEMMA GoodSiteIsClean == ASSUME site = GoodSite PROVE audit_site = {}
<1>1. \A p \in SitePages :
        /\ site[p].title = p /\ site[p].meta = p /\ site[p].h1s = 1 /\ site[p].flaws = {}
        /\ site[p].links = SitePages
  BY DEF GoodSite, GoodPage
<1>2. \A p \in SitePages : p # NoText /\ p # Overlong
  BY SeoAssumption
<1>3. ASSUME NEW p \in SitePages PROVE _audit_page(p) = {}
  BY <1>1, <1>2 DEF _audit_page, _title_finding, _meta_finding, _h1_finding, _page_flags,
                    _internal_links_finding
<1>4. _orphans = {}
  <2>1. \A p \in SitePages : p \in UNION {site[q].links : q \in SitePages}
    BY <1>1
  <2> QED
    BY <2>1 DEF _orphans
<1>5. SharedTitles = {} /\ SharedMetas = {}
  BY <1>1 DEF SharedTitles, SharedMetas, SharesTitle, SharesMeta
<1> QED
  BY <1>3, <1>4, <1>5, AuditFindsAll DEF SoundPages, SoundSite

(* Texts rewritten as asked fit.                                            *)
LEMMA RewrittenFits ==
    ASSUME NEW text, NEW flagged, NEW sharing, NEW new \in Rewritten(text, flagged, sharing),
           NEW p \in SitePages, p \notin flagged => text[p] \notin {NoText, Overlong}
    PROVE  new[p] \notin {NoText, Overlong}
<1>1. IF p \in flagged THEN new[p] \in FittingTexts ELSE new[p] = text[p]
  BY DEF Rewritten
<1> QED
  BY <1>1, SeoAssumption DEF FittingTexts

(* Where only pages that share a text get another, two pages that share one *)
(* afterwards kept the one they shared.                                     *)
LEMMA RewrittenDiffers ==
    ASSUME NEW text, NEW sharing, NEW new \in Rewritten(text, sharing, sharing),
           NEW p \in SitePages, NEW q \in SitePages, p # q, new[p] = new[q]
    PROVE  p \notin sharing /\ new[p] = text[p] /\ text[p] = text[q]
<1>1. /\ IF p \in sharing THEN new[p] \in FittingTexts ELSE new[p] = text[p]
      /\ IF q \in sharing THEN new[q] \in FittingTexts ELSE new[q] = text[q]
  BY DEF Rewritten
<1>2. /\ p \in sharing => new[p] # text[q] /\ (q \in sharing => new[p] # new[q])
      /\ q \in sharing => new[q] # text[p] /\ (p \in sharing => new[q] # new[p])
  BY DEF Rewritten
<1> QED
  BY <1>1, <1>2

(* Links made as asked reach every page named.                              *)
LEMMA RelinkedReaches ==
    ASSUME NEW lost \in SUBSET SitePages, NEW to \in Relinked(LinksOfSite, lost)
    PROVE  /\ \A p \in SitePages : to[p] # {}
           /\ \A p \in lost : \E q \in SitePages : p \in to[q]
           /\ \A p \in SitePages : site[p].links \subseteq to[p]
<1>1. \A p \in SitePages :
        /\ LinksOfSite[p] \subseteq to[p]
        /\ _internal_links_finding(p) # {} => to[p] \ {p} # {}
        /\ p \in lost => \E q \in SitePages \ {p} : p \in to[q]
  BY DEF Relinked
<1>2. \A p \in SitePages : LinksOfSite[p] = site[p].links
  BY DEF LinksOfSite
<1>3. \A p \in SitePages : _internal_links_finding(p) = {} => site[p].links # {}
  BY DEF _internal_links_finding
<1> QED
  BY <1>1, <1>2, <1>3

(* What is left when the pages named are seen to.                           *)
LEMMA NamedAreSeenTo ==
    ASSUME NEW before \in SUBSET SitePages, NEW named \in Examples(before),
           NEW after, after \subseteq before \ named
    PROVE  Fewer(after, before)
<1>1. IsFiniteSet(before) /\ IsFiniteSet(SitePages)
  BY SeoAssumption, FS_Subset
<1>2. CASE Cardinality(before) <= MAX_EXAMPLES
  BY <1>2 DEF Examples, Fewer
<1>3. CASE ~(Cardinality(before) <= MAX_EXAMPLES)
  <2>1. named \subseteq before /\ Cardinality(named) = MAX_EXAMPLES
    BY <1>3 DEF Examples
  <2>2. IsFiniteSet(named) /\ IsFiniteSet(before \ named)
    BY <1>1, <2>1, FS_Subset
  <2>3. Cardinality(before \ named) = Cardinality(before) - Cardinality(before \cap named)
    BY <1>1, FS_Difference
  <2>4. before \cap named = named
    BY <2>1
  <2>5. Cardinality(after) <= Cardinality(before \ named)
    BY <2>2, FS_Subset
  <2>6. IsFiniteSet(after)
    BY <2>2, FS_Subset
  <2>7. Cardinality(after) \in Nat /\ Cardinality(before) \in Nat /\ MAX_EXAMPLES \in Nat
    BY <1>1, <2>6, SeoAssumption, FS_CardinalityType
  <2>8. Cardinality(before \ named) = Cardinality(before) - MAX_EXAMPLES
    BY <2>1, <2>3, <2>4
  <2>9. Cardinality(after) + MAX_EXAMPLES <= Cardinality(before)
    BY <2>5, <2>7, <2>8
  <2>10. after \subseteq before
    OBVIOUS
  <2> QED
    BY <2>9, <2>10 DEF Fewer
<1> QED
  BY <1>2, <1>3

\* What may be left of the pages of a finding after so many rounds that named some.
Left(named, rounds) ==
    named = {} \/ Cardinality(named) + rounds * MAX_EXAMPLES <= Cardinality(SitePages)

(* It gets less.                                                            *)
LEMMA FewerAreLeft ==
    ASSUME NEW before \in SUBSET SitePages, NEW after, Fewer(after, before),
           NEW rounds \in Nat, Left(before, rounds)
    PROVE  Left(after, rounds + 1)
<1>1. CASE after = {}
  BY <1>1 DEF Left
<1>2. CASE after # {}
  <2>1. before # {} /\ Cardinality(after) + MAX_EXAMPLES <= Cardinality(before)
        /\ Cardinality(before) + rounds * MAX_EXAMPLES <= Cardinality(SitePages)
    BY <1>2 DEF Fewer, Left
  <2>2. IsFiniteSet(before) /\ IsFiniteSet(after) /\ IsFiniteSet(SitePages)
    BY SeoAssumption, FS_Subset DEF Fewer
  <2>3. Cardinality(after) \in Nat /\ Cardinality(before) \in Nat /\ Cardinality(SitePages) \in Nat
        /\ MAX_EXAMPLES \in Nat
    BY <2>2, SeoAssumption, FS_CardinalityType
  <2>4. (rounds + 1) * MAX_EXAMPLES = rounds * MAX_EXAMPLES + MAX_EXAMPLES
        /\ rounds * MAX_EXAMPLES \in Nat
    BY <2>3
  <2> QED
    BY <2>1, <2>3, <2>4 DEF Left
<1> QED
  BY <1>1, <1>2

(* At first it may be all pages.                                            *)
LEMMA AllMayBeLeft == ASSUME NEW named \in SUBSET SitePages PROVE Left(named, 0)
<1>1. IsFiniteSet(SitePages) /\ IsFiniteSet(named) /\ Cardinality(named) <= Cardinality(SitePages)
  BY SeoAssumption, FS_Subset
<1>2. Cardinality(named) \in Nat /\ MAX_EXAMPLES \in Nat
  BY <1>1, SeoAssumption, FS_CardinalityType
<1>3. Cardinality(named) + 0 * MAX_EXAMPLES = Cardinality(named)
  BY <1>2
<1> QED
  BY <1>1, <1>3 DEF Left

(* And in the end it is none.                                               *)
LEMMA NoneAreLeft ==
    ASSUME NEW named \in SUBSET SitePages, NEW rounds \in Nat, Left(named, rounds),
           rounds * MAX_EXAMPLES >= Cardinality(SitePages)
    PROVE  named = {}
<1> SUFFICES ASSUME named # {} PROVE FALSE
  OBVIOUS
<1>1. IsFiniteSet(SitePages) /\ IsFiniteSet(named)
  BY SeoAssumption, FS_Subset
<1>2. Cardinality(named) \in Nat /\ Cardinality(named) # 0 /\ Cardinality(SitePages) \in Nat
      /\ rounds * MAX_EXAMPLES \in Nat
  BY <1>1, SeoAssumption, FS_CardinalityType, FS_EmptySet
<1> QED
  BY <1>2 DEF Left

(* A site that follows its audit has no finding of one page left, and fewer *)
(* orphans; and if it had no such finding, fewer pages share a text.        *)
LEMMA ReviseSiteHelps ==
    ASSUME ReviseSite
    PROVE  /\ SoundPages' /\ Fewer(_orphans', _orphans)
           /\ SoundPages => Fewer(SharedTitles', SharedTitles) /\ Fewer(SharedMetas', SharedMetas)
<1> DEFINE RevisedTo(titles, metas, to) ==
        site' = [p \in SitePages |->
                    [title |-> titles[p], meta |-> metas[p], h1s |-> 1, flaws |-> {},
                     links |-> to[p]]]
<1> DEFINE Mistitled == {p \in SitePages : _title_finding(p) # {}}
<1> DEFINE Misworded == {p \in SitePages : _meta_finding(p) # {}}
<1>1. PICK sameTitle \in Examples(SharedTitles), sameMeta \in Examples(SharedMetas),
           lost \in Examples(_orphans) :
         \E titles \in Rewritten(TitlesOfSite, Mistitled \cup sameTitle, sameTitle),
            metas \in Rewritten(MetasOfSite, Misworded \cup sameMeta, sameMeta),
            to \in Relinked(LinksOfSite, lost) : RevisedTo(titles, metas, to)
  BY DEF ReviseSite
<1> HIDE DEF Mistitled, Misworded, RevisedTo
<1>2. PICK titles \in Rewritten(TitlesOfSite, Mistitled \cup sameTitle, sameTitle),
           metas \in Rewritten(MetasOfSite, Misworded \cup sameMeta, sameMeta),
           to \in Relinked(LinksOfSite, lost) : RevisedTo(titles, metas, to)
  BY <1>1
<1>3. \A p \in SitePages :
        /\ site'[p].title = titles[p] /\ site'[p].meta = metas[p] /\ site'[p].h1s = 1
        /\ site'[p].flaws = {} /\ site'[p].links = to[p]
  BY <1>2 DEF RevisedTo
<1>4. \A p \in SitePages : TitlesOfSite[p] = site[p].title /\ MetasOfSite[p] = site[p].meta
  BY DEF TitlesOfSite, MetasOfSite
<1>5. ASSUME NEW p \in SitePages
      PROVE  titles[p] \notin {NoText, Overlong} /\ metas[p] \notin {NoText, Overlong}
  <2>1. p \notin Mistitled \cup sameTitle => TitlesOfSite[p] \notin {NoText, Overlong}
    BY <1>4 DEF Mistitled, _title_finding
  <2>2. p \notin Misworded \cup sameMeta => MetasOfSite[p] \notin {NoText, Overlong}
    BY <1>4 DEF Misworded, _meta_finding
  <2> QED
    BY <1>2, <2>1, <2>2, RewrittenFits
<1>6. \A named \in SUBSET SitePages : Examples(named) \subseteq SUBSET named
  BY DEF Examples
<1>7. _orphans \in SUBSET SitePages /\ SharedTitles \in SUBSET SitePages
      /\ SharedMetas \in SUBSET SitePages
  BY DEF _orphans, SharedTitles, SharedMetas
<1>8. lost \in SUBSET SitePages
  BY <1>6, <1>7
<1>9. /\ \A p \in SitePages : to[p] # {}
      /\ \A p \in lost : \E q \in SitePages : p \in to[q]
      /\ \A p \in SitePages : site[p].links \subseteq to[p]
  BY <1>2, <1>8, RelinkedReaches
<1>10. ASSUME NEW p \in SitePages PROVE _audit_page(p)' = {}
  <2>1. _title_finding(p)' = {} /\ _meta_finding(p)' = {}
    BY <1>3, <1>5 DEF _title_finding, _meta_finding
  <2>2. _h1_finding(p)' = {}
    BY <1>3 DEF _h1_finding
  <2>3. _page_flags(p)' = {}
    BY <1>3 DEF _page_flags
  <2>4. _internal_links_finding(p)' = {}
    BY <1>3, <1>9 DEF _internal_links_finding
  <2> QED
    BY <2>1, <2>2, <2>3, <2>4 DEF _audit_page
<1>11. Fewer(_orphans', _orphans)
  <2>1. _orphans' \subseteq _orphans \ lost
    <3> SUFFICES ASSUME NEW p \in _orphans' PROVE p \in _orphans \ lost
      OBVIOUS
    <3>1. /\ ~(Cardinality(SitePages) < 2) /\ p \in SitePages /\ p # StartPage
          /\ \A q \in SitePages : p \notin site'[q].links
      BY DEF _orphans
    <3>2. \A q \in SitePages : p \notin to[q] /\ p \notin site[q].links
      BY <1>3, <1>9, <3>1
    <3>3. p \in _orphans
      BY <3>1, <3>2 DEF _orphans
    <3> QED
      BY <1>9, <3>2, <3>3
  <2> DEFINE after == _orphans'
  <2>2. after \subseteq _orphans \ lost
    BY <2>1
  <2> HIDE DEF after
  <2>3. Fewer(after, _orphans)
    BY <1>7, <2>2, NamedAreSeenTo
  <2> QED
    BY <2>3 DEF after
<1>12. ASSUME SoundPages
       PROVE  Fewer(SharedTitles', SharedTitles) /\ Fewer(SharedMetas', SharedMetas)
  <2>1. \A p \in SitePages : _title_finding(p) = {} /\ _meta_finding(p) = {}
    BY <1>12 DEF SoundPages, _audit_page
  <2>2. /\ titles \in Rewritten(TitlesOfSite, sameTitle, sameTitle)
        /\ metas \in Rewritten(MetasOfSite, sameMeta, sameMeta)
    <3>1. Mistitled \cup sameTitle = sameTitle /\ Misworded \cup sameMeta = sameMeta
      BY <2>1 DEF Mistitled, Misworded
    <3> QED
      BY <1>2, <3>1
  <2>3. \A p \in SitePages : site[p].title # NoText /\ site[p].meta # NoText
    BY <2>1 DEF _title_finding, _meta_finding
  <2>4. SharedTitles' \subseteq SharedTitles \ sameTitle
    <3> SUFFICES ASSUME NEW p \in SharedTitles' PROVE p \in SharedTitles \ sameTitle
      OBVIOUS
    <3>1. PICK q \in SitePages \ {p} : p \in SitePages /\ site'[q].title = site'[p].title
      BY DEF SharedTitles, SharesTitle
    <3>2. titles[p] = titles[q]
      BY <1>3, <3>1
    <3>3. p \notin sameTitle /\ TitlesOfSite[p] = TitlesOfSite[q]
      BY <2>2, <3>1, <3>2, RewrittenDiffers
    <3> QED
      BY <1>4, <2>3, <3>1, <3>3 DEF SharedTitles, SharesTitle
  <2>5. SharedMetas' \subseteq SharedMetas \ sameMeta
    <3> SUFFICES ASSUME NEW p \in SharedMetas' PROVE p \in SharedMetas \ sameMeta
      OBVIOUS
    <3>1. PICK q \in SitePages \ {p} : p \in SitePages /\ site'[q].meta = site'[p].meta
      BY DEF SharedMetas, SharesMeta
    <3>2. metas[p] = metas[q]
      BY <1>3, <3>1
    <3>3. p \notin sameMeta /\ MetasOfSite[p] = MetasOfSite[q]
      BY <2>2, <3>1, <3>2, RewrittenDiffers
    <3> QED
      BY <1>4, <2>3, <3>1, <3>3 DEF SharedMetas, SharesMeta
  <2> DEFINE titled == SharedTitles'
  <2> DEFINE worded == SharedMetas'
  <2>6. titled \subseteq SharedTitles \ sameTitle /\ worded \subseteq SharedMetas \ sameMeta
    BY <2>4, <2>5
  <2> HIDE DEF titled, worded
  <2>7. Fewer(titled, SharedTitles) /\ Fewer(worded, SharedMetas)
    BY <1>7, <2>6, NamedAreSeenTo
  <2> QED
    BY <2>7 DEF titled, worded
<1> QED
  BY <1>10, <1>11, <1>12 DEF SoundPages

(* It is what an audit finds after a step as well.                          *)
LEMMA AuditStillFindsAll == (audit_site = {} <=> SoundSite)'
BY AuditFindsAll, PTL

\* What r rounds of hints, one at least, have made of a draft.
Rounded(d, r) ==
    /\ d.title \in TITLE_TARGET /\ d.meta \in META_TARGET /\ d.easy = TRUE
    /\ d.internal >= 1 /\ d.external >= 2 /\ d.absent = 0
    /\ check_schema(d) = "info"
    /\ d.words > 0 /\ (r >= 2 /\ d.phrase > 0 => d.uses > 0)
    /\ Cardinality(Tops(d.headings)) = 1 /\ SkipsFrom(d.headings, r)

(* The next round.                                                          *)
LEMMA NextRound ==
    ASSUME NEW d, DraftTyped(d), NEW e \in Revised(d), NEW r \in Nat,
           r >= 1 => Rounded(d, r)
    PROVE  Rounded(e, r + 1)
<1>1. /\ e.title \in TITLE_TARGET /\ e.meta \in META_TARGET /\ e.easy = TRUE
      /\ e.internal >= 1 /\ e.external >= 2 /\ e.absent = 0
      /\ e.headings \in HeadingHints(d.headings) /\ check_schema(e) = "info"
      /\ e.words > 0 /\ e.phrase = d.phrase /\ (d.words > 0 /\ d.phrase > 0 => e.uses > 0)
  BY RevisedIs
<1>2. d.headings \in Seq(Levels)
  BY DEF DraftTyped
<1>3. Cardinality(Tops(e.headings)) = 1 /\ SkipsFrom(e.headings, r + 1)
  <2>1. CASE r = 0
    <3>1. SkipsFrom(d.headings, 0)
      BY <1>2, SkipsHaveParents DEF SkipsFrom, Levels
    <3>2. 0 \in Nat /\ r + 1 = 1
      BY <2>1
    <3> QED
      BY <1>1, <1>2, <3>1, <3>2, HeadingHintsAdvance
  <2>2. CASE r # 0
    <3>1. Cardinality(Tops(d.headings)) = 1 /\ SkipsFrom(d.headings, r)
      BY <2>2 DEF Rounded
    <3>2. Tops(d.headings) # {}
      BY <3>1, FS_EmptySet
    <3> QED
      BY <1>1, <1>2, <3>1, <3>2, HeadingHintsAdvance
  <2> QED
    BY <2>1, <2>2
<1>4. r + 1 >= 2 /\ e.phrase > 0 => e.uses > 0
  BY <1>1 DEF Rounded
<1> QED
  BY <1>1, <1>3, <1>4 DEF Rounded

(* After two rounds only headings may be in error, and a keyword that is    *)
(* missing; after five only the latter is.                                  *)
LEMMA RoundsAreEnough ==
    ASSUME NEW d, DraftTyped(d), NEW r \in Nat, r >= 2, Rounded(d, r)
    PROVE  /\ ErrorsOf(score_page(d))
                \subseteq IF d.phrase = 0 THEN {"heading_tree", "keyword_density"} ELSE {"heading_tree"}
           /\ r >= 5 => IF d.phrase = 0 THEN ErrorsOf(score_page(d)) = {"keyword_density"}
                                       ELSE passed(score_page(d))
<1> DEFINE answers == score_page(d)
<1>1. answers \in [SeoCodes -> SeoSeverities]
  BY ReportsTyped
<1>2. answers.title_length = "info" /\ answers.meta_length = "info"
  <2>1. d.title \in TITLE_TARGET /\ d.meta \in META_TARGET
    BY DEF Rounded
  <2>2. d.meta # 0
    BY <2>1 DEF META_TARGET
  <2>3. check_title_length(d) = "info"
    BY <2>1 DEF check_title_length
  <2>4. check_meta_length(d) = "info"
    BY <2>1, <2>2 DEF check_meta_length
  <2> QED
    BY <2>3, <2>4, RulesAnswer
<1>3. IF d.phrase = 0 THEN answers.keyword_density = "error"
                      ELSE answers.keyword_density \in {"info", "warn"}
  <2>1. d.phrase = 0 => check_keyword_density(d) = "error"
    BY DEF check_keyword_density
  <2>2. ASSUME d.phrase # 0 PROVE check_keyword_density(d) \in {"info", "warn"}
    <3>1. d.words > 0 /\ d.uses > 0 /\ d.words \in Nat /\ d.uses \in Nat
      BY <2>2 DEF Rounded, DraftTyped
    <3>2. d.words # 0 /\ d.uses # 0
      BY <3>1
    <3> QED
      BY <2>2, <3>2 DEF check_keyword_density
  <2> QED
    BY <2>1, <2>2, RulesAnswer
<1>4. answers.readability = "info"
  BY RulesAnswer DEF Rounded, check_readability
<1>5. answers.internal_links = "info" /\ answers.external_links = "info"
  BY RulesAnswer DEF Rounded, check_internal_links, check_external_links, MIN_INTERNAL_LINKS,
                     MIN_EXTERNAL_LINKS
<1>6. answers.image_alt \in {"info", "warn"}
  BY RulesAnswer DEF check_image_alt
<1>7. answers.schema_invalid = "info"
  BY RulesAnswer DEF Rounded
<1>8. r >= 5 => answers.heading_tree = "info"
  <2> SUFFICES ASSUME r >= 5 PROVE answers.heading_tree = "info"
    OBVIOUS
  <2>1. d.headings \in Seq(Levels) /\ SkipsFrom(d.headings, r) /\ Cardinality(Tops(d.headings)) = 1
    BY DEF DraftTyped, Rounded
  <2>2. Skips(d.headings) = {}
    BY <2>1, NothingSkipsFromFive
  <2> QED
    BY <2>1, <2>2, RulesAnswer DEF check_heading_tree
<1>9. DOMAIN answers = SeoCodes
  BY RulesAnswer
<1> HIDE DEF answers
<1>10. ErrorsOf(answers)
         \subseteq IF d.phrase = 0 THEN {"heading_tree", "keyword_density"} ELSE {"heading_tree"}
  BY <1>2, <1>3, <1>4, <1>5, <1>6, <1>7, <1>9, NineCodes DEF ErrorsOf
<1>11. ASSUME r >= 5, d.phrase # 0 PROVE passed(answers)
  <2>1. \A code \in SeoCodes : \/ answers[code] = "info"
                               \/ answers[code] = "warn" /\ code \in {"keyword_density", "image_alt"}
    BY <1>2, <1>3, <1>4, <1>5, <1>6, <1>7, <1>8, <1>11, NineCodes
  <2> QED
    BY <1>1, <2>1, TwoWarningsPass
<1>12. ASSUME r >= 5, d.phrase = 0 PROVE ErrorsOf(answers) = {"keyword_density"}
  <2>1. "heading_tree" \notin ErrorsOf(answers)
    BY <1>8, <1>12 DEF ErrorsOf
  <2>2. "keyword_density" \in ErrorsOf(answers)
    BY <1>3, <1>9, <1>12, NineCodes DEF ErrorsOf
  <2> QED
    BY <1>10, <1>12, <2>1, <2>2
<1> QED
  BY <1>10, <1>11, <1>12 DEF answers

(* The page with nothing to report is as after any round.                   *)
LEMMA FlawlessIsRounded == ASSUME NEW r \in Nat PROVE Rounded(Flawless, r)
<1> DEFINE d == Flawless
<1> DEFINE levels == <<1, 2>>
<1> DEFINE marked == {WellFormed}
<1>1. Flawless = [title |-> 55, meta |-> 150, phrase |-> 1, words |-> 400, uses |-> 5,
                  easy |-> TRUE, headings |-> levels, internal |-> 1, external |-> 2,
                  absent |-> 0, blank |-> 0, blocks |-> marked]
  BY DEF Flawless
<1> HIDE DEF levels, marked
<1>2. /\ d.headings = levels /\ d.title = 55 /\ d.meta = 150 /\ d.internal = 1 /\ d.external = 2
      /\ d.absent = 0 /\ d.blocks = marked /\ d.words = 400 /\ d.uses = 5
  BY <1>1
<1>3. d.easy = TRUE
  BY <1>1
<1> HIDE DEF d
<1>4. Tops(levels) = {1} /\ Skips(levels) = {}
  <2>1. DOMAIN levels = {1, 2} /\ levels[1] = 1 /\ levels[2] = 2
    BY DEF levels
  <2> QED
    BY <2>1 DEF Tops, Skips
<1>5. Cardinality(Tops(d.headings)) = 1 /\ SkipsFrom(d.headings, r)
  <2>1. Cardinality(Tops(levels)) = 1
    BY <1>4, FS_Singleton
  <2>2. SkipsFrom(levels, r)
    BY <1>4 DEF SkipsFrom
  <2> QED
    BY <1>2, <2>1, <2>2
<1>6. check_schema(d) = "info"
  <2>1. validate_jsonld(WellFormed)
    BY DEF validate_jsonld, WellFormed, RequiredOf
  <2> QED
    BY <1>2, <2>1 DEF check_schema, marked
<1>7. d.title \in TITLE_TARGET /\ d.meta \in META_TARGET /\ d.internal >= 1 /\ d.external >= 2
      /\ d.absent = 0 /\ d.words > 0 /\ d.uses > 0
  BY <1>2 DEF TITLE_TARGET, META_TARGET
<1>8. Rounded(d, r)
  BY <1>3, <1>5, <1>6, <1>7 DEF Rounded
<1> QED
  BY <1>8 DEF d

\* A behaviour follows the hints of one of the two, the other is without: so the rounds are
\* those of the draft, or of the site.
AdviceInv ==
    /\ SeoInv
    /\ audit_site = {} \/ draftPage = Flawless
    /\ revisions >= 1 =>
          /\ Rounded(draftPage, revisions) /\ SoundPages
          /\ Left(SharedTitles, revisions - 1) /\ Left(SharedMetas, revisions - 1)
          /\ Left(_orphans, revisions - 1)

(* The pages findings of the site are about are its own.                    *)
LEMMA AffectedAreOfTheSite ==
    _orphans \in SUBSET SitePages /\ SharedTitles \in SUBSET SitePages
    /\ SharedMetas \in SUBSET SitePages
BY DEF _orphans, SharedTitles, SharedMetas

(* After a step as well.                                                    *)
LEMMA AffectedStayOfTheSite ==
    (_orphans \in SUBSET SitePages /\ SharedTitles \in SUBSET SitePages
     /\ SharedMetas \in SUBSET SitePages)'
BY AffectedAreOfTheSite, PTL

(* A round of the draft's hints: the site has nothing to report.            *)
LEMMA ReviseDraftHelps ==
    ASSUME AdviceInv, ReviseDraft
    PROVE  /\ AdviceInv' /\ revisions' \in Nat /\ draftPage' \in Revised(draftPage)
           /\ SoundSite /\ SoundSite'
<1>1. /\ revisions < Patience /\ revisions' = revisions + 1 /\ site' = site
      /\ draftPage' \in Revised(draftPage) /\ ~passed(score_page(draftPage))
  BY DEF ReviseDraft
<1>2. audit_site = {}
  BY <1>1, FlawlessPasses DEF AdviceInv
<1>3. audit_site' = {}
  BY <1>1, <1>2 DEF audit_site, _site_findings, SharedTitles, SharedMetas, SharesTitle, SharesMeta,
                    _orphans, _audit_page, _title_finding, _meta_finding, _h1_finding, _page_flags,
                    _internal_links_finding
<1>4. SoundSite /\ SoundSite'
  BY <1>2, <1>3, AuditFindsAll, AuditStillFindsAll
<1>5. revisions \in Nat /\ revisions' \in 0 .. Patience /\ revisions' \in Nat
  BY <1>1, SeoAssumption DEF AdviceInv, SeoInv
<1>6. DraftTyped(draftPage) /\ DraftTyped(draftPage')
  BY <1>1, RevisedTyped DEF AdviceInv, SeoInv
<1>7. SeoInv'
  BY <1>1, <1>5, <1>6 DEF AdviceInv, SeoInv
<1>8. Rounded(draftPage', revisions + 1)
  BY <1>1, <1>5, <1>6, NextRound DEF AdviceInv
<1>9. AdviceInv'
  <2>1. \A rounds : Left({}, rounds)
    BY DEF Left
  <2> HIDE DEF Rounded, SeoInv
  <2> QED
    BY <1>1, <1>3, <1>4, <1>7, <1>8, <2>1 DEF AdviceInv, SoundSite
<1> QED
  BY <1>1, <1>4, <1>5, <1>9

(* A round of the site's: the draft has nothing to report.                  *)
LEMMA ReviseSiteLeavesTheDraft ==
    ASSUME AdviceInv, ReviseSite
    PROVE  /\ AdviceInv' /\ revisions' \in Nat /\ draftPage' = draftPage /\ draftPage = Flawless
           /\ SoundPages' /\ Fewer(_orphans', _orphans)
           /\ revisions' > 1 => Fewer(SharedTitles', SharedTitles) /\ Fewer(SharedMetas', SharedMetas)
<1>1. revisions < Patience /\ revisions' = revisions + 1 /\ draftPage' = draftPage
      /\ audit_site # {}
  BY DEF ReviseSite
<1>2. draftPage = Flawless
  BY <1>1 DEF AdviceInv
<1>3. /\ SoundPages' /\ Fewer(_orphans', _orphans)
      /\ SoundPages => Fewer(SharedTitles', SharedTitles) /\ Fewer(SharedMetas', SharedMetas)
  BY ReviseSiteHelps
<1>4. revisions \in Nat /\ revisions' \in Nat
  BY <1>1 DEF AdviceInv, SeoInv
<1>5. revisions >= 1 => Fewer(SharedTitles', SharedTitles) /\ Fewer(SharedMetas', SharedMetas)
  BY <1>3 DEF AdviceInv
<1>6. SeoInv'
  BY ReviseSiteTyped DEF AdviceInv
<1>7. Rounded(draftPage', revisions')
  BY <1>1, <1>2, <1>4, FlawlessIsRounded
<1>8. Left(SharedTitles', revisions) /\ Left(SharedMetas', revisions) /\ Left(_orphans', revisions)
  <2> DEFINE titled == SharedTitles'
  <2> DEFINE worded == SharedMetas'
  <2> DEFINE lost == _orphans'
  <2>1. titled \in SUBSET SitePages /\ worded \in SUBSET SitePages /\ lost \in SUBSET SitePages
    BY AffectedStayOfTheSite
  <2>2. Fewer(lost, _orphans) /\ (revisions >= 1 => Fewer(titled, SharedTitles) /\ Fewer(worded, SharedMetas))
    BY <1>3, <1>5
  <2> HIDE DEF titled, worded, lost
  <2>3. CASE revisions = 0
    BY <2>1, <2>3, AllMayBeLeft DEF titled, worded, lost
  <2>4. CASE revisions # 0
    <3>1. revisions - 1 \in Nat /\ revisions >= 1 /\ (revisions - 1) + 1 = revisions
      BY <1>4, <2>4
    <3>2. Left(SharedTitles, revisions - 1) /\ Left(SharedMetas, revisions - 1)
          /\ Left(_orphans, revisions - 1)
      BY <3>1 DEF AdviceInv
    <3>3. Left(titled, (revisions - 1) + 1) /\ Left(worded, (revisions - 1) + 1)
          /\ Left(lost, (revisions - 1) + 1)
      BY <2>2, <3>1, <3>2, AffectedAreOfTheSite, FewerAreLeft
    <3> QED
      BY <3>1, <3>3 DEF titled, worded, lost
  <2> QED
    BY <2>3, <2>4
<1>9. revisions' > 1 => revisions >= 1
  BY <1>1, <1>4
<1>10. revisions' - 1 = revisions
  BY <1>1, <1>4
<1> HIDE DEF Rounded, SeoInv
<1>11. AdviceInv'
  BY <1>1, <1>2, <1>3, <1>6, <1>7, <1>8, <1>10 DEF AdviceInv
<1> QED
  BY <1>1, <1>2, <1>3, <1>4, <1>5, <1>9, <1>11

(* The invariant holds at the start.                                        *)
LEMMA AdviceInvStarts == SeoInit => AdviceInv
<1> SUFFICES ASSUME SeoInit PROVE AdviceInv
  OBVIOUS
<1>1. SeoInv
  BY SeoInvStarts
<1>2. audit_site = {} \/ draftPage = Flawless
  BY GoodSiteIsClean DEF SeoInit
<1>3. revisions = 0
  BY DEF SeoInit
<1> QED
  BY <1>1, <1>2, <1>3 DEF AdviceInv

(* Every step keeps it.                                                     *)
LEMMA AdviceInvIsKept == AdviceInv /\ [SeoNext]_seoVars => AdviceInv'
<1> SUFFICES ASSUME AdviceInv, [SeoNext]_seoVars PROVE AdviceInv'
  OBVIOUS
<1>1. CASE ReviseDraft
  BY <1>1, ReviseDraftHelps
<1>2. CASE ReviseSite
  BY <1>2, ReviseSiteLeavesTheDraft
<1>3. CASE UNCHANGED seoVars
  <2>1. draftPage' = draftPage /\ site' = site /\ revisions' = revisions
    BY <1>3 DEF seoVars
  <2>2. SharedTitles' = SharedTitles /\ SharedMetas' = SharedMetas /\ _orphans' = _orphans
    BY <2>1 DEF SharedTitles, SharedMetas, SharesTitle, SharesMeta, _orphans
  <2>3. \A p \in SitePages : _audit_page(p)' = _audit_page(p)
    BY <2>1 DEF _audit_page, _title_finding, _meta_finding, _h1_finding, _page_flags,
                _internal_links_finding
  <2>4. SoundPages' = SoundPages
    BY <2>3 DEF SoundPages
  <2>5. (audit_site = {})' <=> audit_site = {}
    BY <2>2, <2>4, AuditFindsAll, AuditStillFindsAll DEF SoundSite
  <2>6. SeoInv'
    BY <2>1 DEF AdviceInv, SeoInv
  <2> HIDE DEF SeoInv, Rounded
  <2> QED
    BY <2>1, <2>2, <2>4, <2>5, <2>6 DEF AdviceInv
<1> QED
  BY <1>1, <1>2, <1>3 DEF SeoNext

\* What AdviceHelps says of a step.
HelpedBy ==
    /\ score(score_page(draftPage')) >= score(score_page(draftPage))
    /\ ErrorsOf(score_page(draftPage')) \subseteq ErrorsOf(score_page(draftPage))
    /\ \A p \in SitePages : _audit_page(p)' = {}
    /\ Fewer(_orphans', _orphans)
    /\ revisions' > 1 =>
          /\ ErrorsOf(score_page(draftPage'))
                \subseteq IF draftPage.phrase = 0 THEN {"heading_tree", "keyword_density"}
                                                 ELSE {"heading_tree"}
          /\ Fewer(SharedTitles', SharedTitles) /\ Fewer(SharedMetas', SharedMetas)

(* From a state of the invariant every step helps.                          *)
LEMMA AdviceStepHelps == ASSUME AdviceInv, SeoNext PROVE HelpedBy
<1>1. DraftTyped(draftPage)
  BY DEF AdviceInv, SeoInv
<1>2. CASE ReviseDraft
  <2>1. AdviceInv' /\ revisions' \in Nat /\ draftPage' \in Revised(draftPage)
        /\ SoundSite /\ SoundSite'
    BY <1>2, ReviseDraftHelps
  <2> DEFINE e == draftPage'
  <2>2. DraftTyped(e) /\ e \in Revised(draftPage)
    BY <1>1, <2>1, RevisedTyped
  <2>3. revisions' >= 2 => Rounded(e, revisions')
    BY <2>1 DEF AdviceInv
  <2> HIDE DEF e
  <2>4. \A code \in SeoCodes : NoWorse(score_page(draftPage)[code], score_page(e)[code])
    BY <1>1, <2>2, RevisedNoWorse
  <2>5. score(score_page(e)) >= score(score_page(draftPage))
        /\ ErrorsOf(score_page(e)) \subseteq ErrorsOf(score_page(draftPage))
    BY <1>1, <2>2, <2>4, ReportsTyped, NoWorseScoresNoLower
  <2>6. e.phrase = draftPage.phrase
    BY <1>1, <2>2, RevisedIs
  <2>7. revisions' > 1 =>
          ErrorsOf(score_page(e)) \subseteq IF draftPage.phrase = 0
                                           THEN {"heading_tree", "keyword_density"}
                                           ELSE {"heading_tree"}
    BY <2>1, <2>2, <2>3, <2>6, RoundsAreEnough
  <2>8. /\ \A p \in SitePages : _audit_page(p)' = {}
        /\ Fewer(_orphans', _orphans) /\ Fewer(SharedTitles', SharedTitles)
        /\ Fewer(SharedMetas', SharedMetas)
    BY <2>1 DEF SoundSite, SoundPages, Fewer
  <2> QED
    BY <2>5, <2>7, <2>8 DEF HelpedBy, e
<1>3. CASE ReviseSite
  <2>1. /\ draftPage' = draftPage /\ draftPage = Flawless
        /\ SoundPages' /\ Fewer(_orphans', _orphans)
        /\ revisions' > 1 => Fewer(SharedTitles', SharedTitles) /\ Fewer(SharedMetas', SharedMetas)
    BY <1>3, ReviseSiteLeavesTheDraft
  <2>2. ErrorsOf(score_page(draftPage)) = {}
    BY <2>1, FlawlessPasses DEF passed
  <2> DEFINE answers == score_page(draftPage)
  <2>3. answers \in [SeoCodes -> SeoSeverities]
    BY <1>1, ReportsTyped
  <2>4. score_page(draftPage') = answers
    BY <2>1
  <2> HIDE DEF answers
  <2>5. \A code \in SeoCodes : NoWorse(answers[code], answers[code])
    BY <2>3 DEF NoWorse, SeoSeverities
  <2>6. score(answers) >= score(answers)
    BY <2>3, <2>5, NoWorseScoresNoLower
  <2>7. \A p \in SitePages : _audit_page(p)' = {}
    BY <2>1 DEF SoundPages
  <2> QED
    BY <2>1, <2>2, <2>4, <2>6, <2>7 DEF HelpedBy, answers
<1> QED
  BY <1>2, <1>3 DEF SeoNext

(* A state of the invariant that saw enough rounds has nothing to revise.   *)
LEMMA AdviceInvComesToRest == AdviceInv => AdviceComesToRest
<1> SUFFICES ASSUME AdviceInv PROVE AdviceComesToRest
  OBVIOUS
<1>1. revisions \in Nat /\ DraftTyped(draftPage)
  BY DEF AdviceInv, SeoInv
<1>2. ASSUME revisions >= 5
      PROVE  IF draftPage.phrase = 0 THEN ErrorsOf(score_page(draftPage)) = {"keyword_density"}
                                     ELSE passed(score_page(draftPage))
  <2>1. revisions >= 1 /\ revisions >= 2
    BY <1>1, <1>2
  <2>2. Rounded(draftPage, revisions)
    BY <2>1 DEF AdviceInv
  <2> QED
    BY <1>1, <1>2, <2>1, <2>2, RoundsAreEnough
<1>3. ASSUME revisions > 1, (revisions - 1) * MAX_EXAMPLES >= Cardinality(SitePages)
      PROVE  audit_site = {}
  <2>1. revisions - 1 \in Nat /\ revisions >= 1
    BY <1>1, <1>3
  <2>2. SharedTitles = {} /\ SharedMetas = {} /\ _orphans = {}
    BY <1>3, <2>1, NoneAreLeft, AffectedAreOfTheSite DEF AdviceInv
  <2>3. SoundPages
    BY <2>1 DEF AdviceInv
  <2> QED
    BY <2>2, <2>3, AuditFindsAll DEF SoundSite
<1> QED
  BY <1>2, <1>3 DEF AdviceComesToRest

(* The pages with nothing to report, and no hints followed.                 *)
LEMMA IdleAdvice ==
    ASSUME draftPage = Flawless, site = GoodSite, revisions = 0 PROVE AdviceInv
<1>1. 0 \in 0 .. Patience
  BY SeoAssumption
<1>2. SeoInv
  BY <1>1, FlawlessIsTyped, SitesTyped DEF SeoInv
<1> QED
  BY <1>2 DEF AdviceInv

(* What AdviceHelps says, of a step from the invariant.                     *)
LEMMA AdviceInvHelps ==
    AdviceInv /\ AdviceInv' /\ [SeoNext]_seoVars =>
        [ revisions' > revisions =>
            /\ score(score_page(draftPage')) >= score(score_page(draftPage))
            /\ ErrorsOf(score_page(draftPage')) \subseteq ErrorsOf(score_page(draftPage))
            /\ \A p \in SitePages : _audit_page(p)' = {}
            /\ Fewer(_orphans', _orphans)
            /\ revisions' > 1 =>
                  /\ ErrorsOf(score_page(draftPage'))
                        \subseteq IF draftPage.phrase = 0 THEN {"heading_tree", "keyword_density"}
                                                         ELSE {"heading_tree"}
                  /\ Fewer(SharedTitles', SharedTitles) /\ Fewer(SharedMetas', SharedMetas)
            /\ AdviceComesToRest' ]_seoVars
<1>1. AdviceInv /\ [SeoNext]_seoVars => [HelpedBy]_seoVars
  BY AdviceStepHelps
<1>2. AdviceInv' => AdviceComesToRest'
  BY AdviceInvComesToRest, PTL
<1> QED
  BY <1>1, <1>2 DEF HelpedBy

(* Following the hints of a score never lowers it and brings no new error;  *)
(* two rounds leave none but of headings and of a keyword that is missing.  *)
(* Following those of an audit leaves no finding of one page, and fewer     *)
(* orphans, and from the second round on fewer shared texts, by as many as  *)
(* it named (AdviceHelps).                                                  *)
THEOREM AdviceAlwaysHelps == SeoSpec => AdviceHelps
BY AdviceInvStarts, AdviceInvIsKept, AdviceInvHelps, PTL DEF SeoSpec, AdviceHelps

(* Five rounds of hints are enough for any draft whose keyword is given,    *)
(* and leave the error of a missing one alone otherwise; a site is done     *)
(* when after the first round as many pages could be named as it has        *)
(* (AdviceComesToRest).                                                     *)
THEOREM FiveRoundsAreEnough == SeoSpec => []AdviceComesToRest
BY AdviceInvStarts, AdviceInvIsKept, AdviceInvComesToRest, PTL DEF SeoSpec

-----------------------------------------------------------------------------
(* The listing of a business, and what its audit finds.                     *)

NapFields    == {"legal_name", "trading_name", "street", "house_number", "postcode", "city",
                 "phone", "email", "opening_hours"}
Severities   == {"error", "warn", "info"}
IsFinding(f) == f.field \in NapFields /\ f.severity \in Severities
AllFindings(found) == \A f \in found : IsFinding(f)

\* The fields of profile and listing, and what the audit says of them.
NapInv ==
    /\ DOMAIN confirmed = NapFields /\ DOMAIN listing = NapFields
    /\ AllFindings(findings)

(* Nobody's record has every field.                                         *)
LEMMA NobodysFields == DOMAIN Nobody = NapFields
BY DEF Nobody, NapFields

(* A finding about a field, of a severity.                                  *)
LEMMA FindingIsOne ==
    ASSUME NEW field \in NapFields, NEW value, NEW kind, NEW severity \in Severities
    PROVE  IsFinding(Finding(field, value, kind, severity))
<1>1. /\ Finding(field, value, kind, severity).field = field
      /\ Finding(field, value, kind, severity).severity = severity
  BY DEF Finding
<1> QED
  BY <1>1 DEF IsFinding

(* What a compared field is found to be.                                    *)
LEMMA FieldFindingsTyped ==
    ASSUME NEW field \in _COMPARED_FIELDS, NEW value, NEW canonical, NEW raw, NEW found
    PROVE  AllFindings(_field_finding(field, value, canonical, raw, found))
<1>1. field \in NapFields
  BY DEF _COMPARED_FIELDS, _MISSING_REPORTED, NapFields
<1>2. "info" \in Severities /\ "warn" \in Severities /\ "error" \in Severities
  BY DEF Severities
<1>3. _MISMATCH_SEVERITY(field) \in Severities
  BY <1>2 DEF _MISMATCH_SEVERITY
<1> DEFINE unread == IF field = "postcode" THEN "error" ELSE "warn"
<1>4. unread \in Severities
  BY <1>2
<1> HIDE DEF unread
<1>5. ASSUME NEW f \in _field_finding(field, value, canonical, raw, found)
      PROVE  \/ f = Finding(field, value, "missing", "info")
             \/ f = Finding(field, value, "unverifiable", unread)
             \/ f = Finding(field, value, "extension", "info")
             \/ f = Finding(field, value, "mismatch", _MISMATCH_SEVERITY(field))
  BY DEF _field_finding, unread
<1> QED
  BY <1>1, <1>2, <1>3, <1>4, <1>5, FindingIsOne DEF AllFindings

(* What the names are found to be.                                          *)
LEMMA NamesAreFound ==
    ASSUME NEW display, NEW canonical, NEW shown, NEW found
    PROVE  AllFindings(_name_findings(display, canonical, shown, found))
<1>1. ASSUME NEW f \in _name_findings(display, canonical, shown, found) PROVE IsFinding(f)
  <2> DEFINE names == {"legal_name", "trading_name"}
  <2> DEFINE preferred == IF display.trading_name # Empty THEN "trading_name" ELSE "legal_name"
  <2>1. preferred \in names /\ "info" \in Severities /\ "warn" \in Severities
    BY DEF Severities
  <2> DEFINE accepted == {canonical[n] : n \in names} \ {Empty}
  <2> DEFINE others == {n \in names : shown[n] # Empty /\ found[n] \notin accepted}
  <2> DEFINE said == {Finding(n, OrElse(display[n], display[preferred]), "mismatch", "warn") :
                         n \in others}
  <2>2. \/ f \in {Finding(preferred, display[preferred], "missing", "info")}
        \/ f \in said
    BY DEF _name_findings
  <2>3. others \subseteq names
    OBVIOUS
  <2> HIDE DEF others
  <2>4. \/ f = Finding(preferred, display[preferred], "missing", "info")
        \/ \E n \in names :
              f = Finding(n, OrElse(display[n], display[preferred]), "mismatch", "warn")
    BY <2>2, <2>3
  <2>5. names \subseteq NapFields
    BY DEF NapFields
  <2> HIDE DEF names, preferred
  <2> QED
    BY <2>1, <2>4, <2>5, FindingIsOne
<1> QED
  BY <1>1 DEF AllFindings

(* Every finding of the audit names a field and has a severity.             *)
LEMMA AuditFinds == \A raw, shown : AllFindings(audit_nap(raw, shown))
<1> SUFFICES ASSUME NEW raw, NEW shown, NEW f \in audit_nap(raw, shown) PROVE IsFinding(f)
  BY DEF AllFindings
<1> DEFINE names == NameFindings(raw, shown)
<1> DEFINE fields == UNION {FieldFindings(raw, shown, field) : field \in _COMPARED_FIELDS}
<1> DEFINE note == _annotation_note(normalise_nap(raw), shown)
<1>1. f \in names \/ f \in fields \/ f \in note
  BY DEF audit_nap
<1>2. CASE f \in names
  <2>1. AllFindings(names)
    BY NamesAreFound DEF NameFindings
  <2> QED
    BY <1>2, <2>1 DEF AllFindings
<1>3. CASE f \in fields
  <2>1. PICK field \in _COMPARED_FIELDS : f \in FieldFindings(raw, shown, field)
    BY <1>3
  <2>2. AllFindings(FieldFindings(raw, shown, field))
    BY <2>1, FieldFindingsTyped DEF FieldFindings
  <2> QED
    BY <2>1, <2>2 DEF AllFindings
<1>4. CASE f \in note
  <2>1. f = Finding("street", Empty, "annotation", "info")
    BY <1>4 DEF _annotation_note
  <2>2. "street" \in NapFields /\ "info" \in Severities
    BY DEF NapFields, Severities
  <2> QED
    BY <2>1, <2>2, FindingIsOne
<1> QED
  BY <1>1, <1>2, <1>3, <1>4

(* A profile at the start has every field, and so has a listing.            *)
LEMMA ProfilesAreWhole ==
    \A group \in {NameFields, Addresses, Places, Contacts, Hours} :
       \A raw \in group \cup {Nobody} : DOMAIN raw = NapFields
<1>1. \A fields, values : DOMAIN With(fields, values) = NapFields
  BY NobodysFields DEF With
<1>2. \A group \in {NameFields, Addresses, Places, Contacts, Hours} :
         \A raw \in group : \E fields, values : raw = With(fields, values)
  BY DEF NameFields, Addresses, Places, Contacts, Hours
<1> QED
  BY <1>1, <1>2, NobodysFields

(* The audit's findings and what it compares keep their types, whoever      *)
(* follows its hints in whatever order (NapTypeOK).                         *)
THEOREM NapTypeCorrect == NapSpec => []NapTypeOK
<1>1. NapInit => NapInv
  BY AuditFinds, ProfilesAreWhole DEF NapInit, NapInv
<1>2. NapInv /\ [NapNext]_napVars => NapInv'
  <2> SUFFICES ASSUME NapInv, [NapNext]_napVars PROVE NapInv'
    OBVIOUS
  <2>1. ASSUME NEW finding \in findings, Follow(finding) PROVE NapInv'
    <3>1. DOMAIN listing' = DOMAIN listing /\ confirmed' = confirmed
          /\ findings' = audit_nap(confirmed, listing')
      BY <2>1 DEF Follow
    <3>2. AllFindings(findings')
      BY <3>1, AuditFinds
    <3> QED
      BY <3>1, <3>2 DEF NapInv, AllFindings
  <2>2. CASE UNCHANGED napVars
    BY <2>2 DEF napVars, NapInv, AllFindings
  <2> QED
    BY <2>1, <2>2 DEF NapNext
<1>3. NapInv => NapTypeOK
  BY NobodysFields DEF NapInv, NapTypeOK, AllFindings, IsFinding, Severities
<1> QED
  BY <1>1, <1>2, <1>3, PTL DEF NapSpec

-----------------------------------------------------------------------------
(* A hint that is followed.                                                 *)

IsNap(x) == x = [f \in NapFields |-> x[f]]

\* Findings that cost points.
Costly(found) == {f \in found : f.severity # "info"}

\* A profile whose address and email can be written down.
Writable(raw) ==
    /\ IsNap(raw)
    /\ raw.street \in Maybe(StreetTexts) /\ raw.house_number \in Maybe(NumberTexts)
    /\ raw.email \in Maybe(EmailTexts) \cup {NotReadable}

\* The profile can be written down, the listing has every field, and the findings are those of
\* the last audit.
HintInv ==
    /\ Writable(confirmed) /\ IsNap(listing)
    /\ findings = audit_nap(confirmed, listing)

(* A text that is there is one part long, and an empty one has none.        *)
LEMMA OneIsNotEmpty == \A x : <<x>> # Empty /\ <<x>>[1] = x
BY DEF Empty

(* What the comparison reads of each field.                                 *)
LEMMA ComparedForms ==
    ASSUME NEW raw, IsNap(raw)
    PROVE  LET form == comparison_form(raw)
           IN  /\ form.legal_name = normalise_business_name(raw.legal_name)
               /\ form.trading_name = normalise_business_name(raw.trading_name)
               /\ form.city = raw.city
               /\ form.street = street_name(raw.street)
               /\ form.house_number = normalise_house_number(
                      OrElse(strip_number(raw.house_number), inline_number(raw.street)))
               /\ form.postcode = Readable(raw.postcode) /\ form.phone = Readable(raw.phone)
               /\ form.email = normalise_email(raw.email)
               /\ form.opening_hours = normalise_opening_hours(raw.opening_hours)
BY DEF IsNap, NapFields, comparison_form

(* What is displayed of each field.                                         *)
LEMMA DisplayedForms ==
    ASSUME NEW raw, IsNap(raw)
    PROVE  LET shown == normalise_nap(raw)
           IN  /\ shown.street = _display_address(raw).street
               /\ shown.house_number = _display_address(raw).house_number
               /\ shown.email = OrElse(normalise_email(raw.email), raw.email)
               /\ \A g \in NapFields \ {"street", "house_number", "email"} : shown[g] = raw[g]
<1>1. raw = [f \in NapFields |-> raw[f]]
  BY DEF IsNap
<1>2. "street" \in NapFields /\ "house_number" \in NapFields /\ "email" \in NapFields
  BY DEF NapFields
<1> DEFINE s == _display_address(raw).street
<1> DEFINE h == _display_address(raw).house_number
<1> DEFINE e == OrElse(normalise_email(raw.email), raw.email)
<1>3. normalise_nap(raw) = [raw EXCEPT !.street = s, !.house_number = h, !.email = e]
  BY DEF normalise_nap
<1> HIDE DEF s, h, e
<1> DEFINE shown == normalise_nap(raw)
<1>4. /\ shown.street = s /\ shown.house_number = h /\ shown.email = e
      /\ \A g \in NapFields \ {"street", "house_number", "email"} : shown[g] = raw[g]
  BY <1>1, <1>2, <1>3
<1> QED
  BY <1>4 DEF s, h, e

(* What a finding about a compared field says, and when there is none.      *)
LEMMA FieldFindingSays ==
    ASSUME NEW field, NEW value, NEW canonical, NEW raw, NEW found
    PROVE  LET said == _field_finding(field, value, canonical, raw, found)
           IN  /\ \A f \in said : /\ f.field = field /\ f.value = value
                                  /\ f.kind # "annotation" /\ canonical # Empty
                                  /\ raw = Empty => f.severity = "info"
               /\ canonical = found /\ (raw = Empty => field \notin _MISSING_REPORTED)
                     => said = {}
<1> DEFINE said == _field_finding(field, value, canonical, raw, found)
<1>1. ASSUME NEW f \in said PROVE /\ f.field = field /\ f.value = value
                                  /\ f.kind # "annotation" /\ canonical # Empty
                                  /\ raw = Empty => f.severity = "info"
  BY DEF _field_finding, Finding
<1>2. ASSUME canonical = found, raw = Empty => field \notin _MISSING_REPORTED PROVE said = {}
  <2>1. _matches(field, canonical, found)
    BY <1>2 DEF _matches
  <2> QED
    BY <1>2, <2>1 DEF _field_finding
<1> HIDE DEF said
<1> QED
  BY <1>1, <1>2 DEF said

(* A finding of the audit is about the names, about one compared field, or  *)
(* it is the note about an address that is otherwise right.                 *)
LEMMA AuditSays ==
    ASSUME NEW raw, NEW shown, NEW e
    PROVE  e \in audit_nap(raw, shown) <=>
              \/ e \in NameFindings(raw, shown)
              \/ \E g \in _COMPARED_FIELDS : e \in FieldFindings(raw, shown, g)
              \/ /\ e \in _annotation_note(normalise_nap(raw), shown)
                 /\ FieldFindings(raw, shown, "street") = {} /\ FieldFindings(raw, shown, "house_number") = {}
<1> DEFINE F(g) == FieldFindings(raw, shown, g)
<1> DEFINE fields == UNION {F(g) : g \in _COMPARED_FIELDS}
<1> DEFINE N == NameFindings(raw, shown)
<1> DEFINE A == _annotation_note(normalise_nap(raw), shown)
<1>1. audit_nap(raw, shown) = N \cup fields \cup
         (IF \E f \in fields : f.field \in {"street", "house_number"} THEN {} ELSE A)
  BY DEF audit_nap
<1>2. \A g : \A f \in F(g) : f.field = g
  BY FieldFindingSays DEF FieldFindings
<1>3. "street" \in _COMPARED_FIELDS /\ "house_number" \in _COMPARED_FIELDS
  BY DEF _COMPARED_FIELDS, _MISSING_REPORTED
<1> HIDE DEF F, N, A
<1>4. \A f : f \in fields <=> \E g \in _COMPARED_FIELDS : f \in F(g)
  OBVIOUS
<1> HIDE DEF fields
<1>5. (\E f \in fields : f.field \in {"street", "house_number"})
         <=> ~ (F("street") = {} /\ F("house_number") = {})
  BY <1>2, <1>3, <1>4
<1>6. e \in audit_nap(raw, shown) <=>
         \/ e \in N
         \/ \E g \in _COMPARED_FIELDS : e \in F(g)
         \/ e \in A /\ F("street") = {} /\ F("house_number") = {}
  BY <1>1, <1>4, <1>5
<1> QED
  BY <1>6 DEF F, N, A

(* A name pasted from the profile is accepted, if there is more to it than  *)
(* a legal form: no complaint about it is left, and there is no new one.    *)
LEMMA NamesFollowed ==
    ASSUME NEW raw, IsNap(raw), NEW shown, IsNap(shown), NEW after, IsNap(after),
           NEW finding \in NameFindings(raw, shown),
           normalise_business_name(finding.value) # Empty,
           \A n \in {"legal_name", "trading_name"} :
              after[n] = IF n = finding.field THEN finding.value ELSE shown[n]
    PROVE  /\ NameFindings(raw, after) \subseteq NameFindings(raw, shown)
           /\ \A f \in NameFindings(raw, after) : f.field # finding.field
           /\ finding.field \in {"legal_name", "trading_name"}
<1> DEFINE names == {"legal_name", "trading_name"}
<1> DEFINE Fold(x) == normalise_business_name(x)
<1> DEFINE display == normalise_nap(raw)
<1> DEFINE canonical == comparison_form(raw)
<1> DEFINE accepted == {canonical[n] : n \in names} \ {Empty}
<1> DEFINE preferred == IF display.trading_name # Empty THEN "trading_name" ELSE "legal_name"
<1> DEFINE Nameless(x) == \A n \in names : x[n] = Empty
<1> DEFINE Odd(x) == {n \in names : x[n] # Empty /\ comparison_form(x)[n] \notin accepted}
<1> DEFINE One(n) == Finding(n, OrElse(display[n], display[preferred]), "mismatch", "warn")
<1> DEFINE Lost == Finding(preferred, display[preferred], "missing", "info")
<1>1. \A x : NameFindings(raw, x) =
                IF accepted = {} THEN {}
                ELSE IF Nameless(x) THEN {Lost} ELSE {One(n) : n \in Odd(x)}
  BY DEF NameFindings, _name_findings
<1>2. \A n \in names : display[n] = raw[n]
  BY DisplayedForms DEF NapFields
<1>3. \A n \in names : /\ canonical[n] = Fold(raw[n])
                       /\ comparison_form(shown)[n] = Fold(shown[n])
                       /\ comparison_form(after)[n] = Fold(after[n])
  BY ComparedForms
<1>4. Fold(Empty) = Empty
  BY DEF normalise_business_name
<1>5. Lost.field = preferred /\ Lost.value = display[preferred] /\ preferred \in names
  BY DEF Finding
<1>6. \A n : One(n).field = n /\ One(n).value = OrElse(display[n], display[preferred])
  BY DEF Finding
<1>7. \A n \in names : Fold(raw[n]) # Empty => Fold(raw[n]) \in accepted
  BY <1>3
<1>8. Empty \notin accepted
  OBVIOUS
<1>10. /\ \A n : n \in Odd(shown) <=>
                 n \in names /\ shown[n] # Empty /\ Fold(shown[n]) \notin accepted
       /\ \A n : n \in Odd(after) <=>
                 n \in names /\ after[n] # Empty /\ Fold(after[n]) \notin accepted
  BY <1>3
<1> HIDE DEF accepted, preferred, One, Lost, display, canonical, Odd, Fold
<1>11. Fold(finding.value) # Empty /\ finding.value # Empty
  BY <1>4 DEF Fold
<1>12. accepted # {}
  BY <1>1
<1>13. \A x, f : f \in NameFindings(raw, x) <=>
                   \/ Nameless(x) /\ f = Lost
                   \/ ~ Nameless(x) /\ \E n \in Odd(x) : f = One(n)
  BY <1>1, <1>12
<1>14. CASE finding = Lost /\ Nameless(shown)
  <2>1. finding.field = preferred /\ Fold(finding.value) \in accepted
    BY <1>2, <1>5, <1>7, <1>11, <1>14
  <2>2. ~ Nameless(after)
    BY <1>5, <1>11, <2>1
  <2>3. Odd(after) = {}
    <3> SUFFICES ASSUME NEW n \in Odd(after) PROVE FALSE
      OBVIOUS
    <3>1. n \in names /\ after[n] # Empty /\ Fold(after[n]) \notin accepted
      BY <1>10
    <3> QED
      BY <1>14, <2>1, <3>1
  <2> QED
    BY <1>5, <1>13, <2>1, <2>2, <2>3
<1>15. ASSUME NEW n \in Odd(shown), finding = One(n), ~ Nameless(shown)
       PROVE  /\ NameFindings(raw, after) \subseteq NameFindings(raw, shown)
              /\ \A f \in NameFindings(raw, after) : f.field # finding.field
              /\ finding.field \in {"legal_name", "trading_name"}
  <2>1. finding.field = n /\ n \in names
    BY <1>6, <1>10, <1>15
  <2>2. finding.value = raw[n] \/ finding.value = raw[preferred]
    BY <1>2, <1>5, <1>6, <1>15, <2>1 DEF OrElse
  <2>3. Fold(finding.value) \in accepted
    BY <1>5, <1>7, <1>11, <2>1, <2>2
  <2>4. ~ Nameless(after)
    BY <1>11, <2>1
  <2>5. Odd(after) \subseteq Odd(shown) /\ n \notin Odd(after)
    <3>1. n \notin Odd(after)
      BY <1>10, <2>1, <2>3
    <3>2. ASSUME NEW m \in Odd(after) PROVE m \in Odd(shown)
      <4>1. m \in names /\ m # n
        BY <1>10, <3>1, <3>2
      <4>2. after[m] = shown[m]
        BY <2>1, <4>1
      <4> QED
        BY <1>10, <3>2, <4>2
    <3> QED
      BY <3>1, <3>2
  <2>6. \A f \in NameFindings(raw, after) : \E m \in Odd(after) : f = One(m)
    BY <1>13, <2>4
  <2>7. \A m \in Odd(shown) : One(m) \in NameFindings(raw, shown)
    BY <1>13, <1>15
  <2> QED
    BY <1>6, <2>1, <2>5, <2>6, <2>7
<1> QED
  BY <1>13, <1>14, <1>15

(* A field that is not pasted is compared as before, the house number only  *)
(* if the street is not pasted either: its number may stand in the street.  *)
LEMMA OthersAsBefore ==
    ASSUME NEW raw, NEW shown, IsNap(shown), NEW after, IsNap(after), NEW g \in _COMPARED_FIELDS,
           after[g] = shown[g], g = "house_number" => after.street = shown.street
    PROVE  FieldFindings(raw, after, g) = FieldFindings(raw, shown, g)
<1>1. comparison_form(after)[g] = comparison_form(shown)[g]
  BY ComparedForms DEF _COMPARED_FIELDS, _MISSING_REPORTED
<1>2. FoundRaw(after, g) = FoundRaw(shown, g)
  BY DEF FoundRaw, _COMPARED_FIELDS, _MISSING_REPORTED
<1> QED
  BY <1>1, <1>2 DEF FieldFindings

(* The names are compared by what stands in the two name fields.            *)
LEMMA SameNamesSameFindings ==
    ASSUME NEW raw, NEW shown, IsNap(shown), NEW after, IsNap(after),
           after.legal_name = shown.legal_name, after.trading_name = shown.trading_name
    PROVE  NameFindings(raw, after) = NameFindings(raw, shown)
<1> DEFINE names == {"legal_name", "trading_name"}
<1> DEFINE display == normalise_nap(raw)
<1> DEFINE accepted == {comparison_form(raw)[n] : n \in names} \ {Empty}
<1> DEFINE Odd(x) == {n \in names : x[n] # Empty /\ comparison_form(x)[n] \notin accepted}
<1> DEFINE Nameless(x) == \A n \in names : x[n] = Empty
<1> DEFINE preferred == IF display.trading_name # Empty THEN "trading_name" ELSE "legal_name"
<1> DEFINE One(n) == Finding(n, OrElse(display[n], display[preferred]), "mismatch", "warn")
<1> DEFINE Lost == Finding(preferred, display[preferred], "missing", "info")
<1>1. \A x : NameFindings(raw, x) =
                IF accepted = {} THEN {}
                ELSE IF Nameless(x) THEN {Lost} ELSE {One(n) : n \in Odd(x)}
  BY DEF NameFindings, _name_findings
<1>2. \A n \in names : comparison_form(after)[n] = comparison_form(shown)[n]
  BY ComparedForms
<1>3. Odd(after) = Odd(shown) /\ (Nameless(after) <=> Nameless(shown))
  BY <1>2
<1> HIDE DEF Odd, Nameless, accepted, One, Lost
<1> QED
  BY <1>1, <1>3

(* An email address that is shown without a prefix reads as itself.         *)
LEMMA EmailFollowed ==
    ASSUME NEW text \in Maybe(EmailTexts) \cup {NotReadable}, normalise_email(text) # Empty,
           ~ (normalise_email(text)[1].mailto > 0)
    PROVE  normalise_email(OrElse(normalise_email(text), text)) = normalise_email(text)
<1>1. PICK e \in EmailTexts : text = <<e>>
  BY DEF normalise_email, Maybe, OneOf
<1> DEFINE bare == [e EXCEPT !.mailto = IF @ = 0 THEN 0 ELSE @ - 1]
<1>2. normalise_email(text) = <<bare>>
  BY <1>1, OneIsNotEmpty DEF normalise_email
<1>3. bare \in [address : Variants, mailto : Nat]
  BY DEF EmailTexts
<1> HIDE DEF bare
<1>4. bare.mailto = 0
  BY <1>2, <1>3, OneIsNotEmpty
<1>5. <<bare>> \notin {Empty, NotReadable} /\ <<bare>>[1] = bare
  BY DEF Empty, NotReadable
<1>6. OrElse(normalise_email(text), text) = <<bare>>
  BY <1>2 DEF OrElse
<1>7. [bare EXCEPT !.mailto = IF @ = 0 THEN 0 ELSE @ - 1] = bare
  BY <1>3, <1>4
<1> QED
  BY <1>2, <1>5, <1>6, <1>7 DEF normalise_email

(* A field other than the address's two is pasted as the profile has it,    *)
(* and compares as the profile does, if it is no email that says "mailto:"  *)
(* still.                                                                   *)
LEMMA PlainFieldFollowed ==
    ASSUME NEW raw, Writable(raw), NEW after, IsNap(after),
           NEW g \in _COMPARED_FIELDS \ {"street", "house_number"},
           after[g] = normalise_nap(raw)[g], comparison_form(raw)[g] # Empty,
           ~ (g = "email" /\ normalise_email(raw.email)[1].mailto > 0)
    PROVE  FieldFindings(raw, after, g) = {}
<1>1. comparison_form(after)[g] = comparison_form(raw)[g]
  <2>1. IsNap(raw) /\ raw.email \in Maybe(EmailTexts) \cup {NotReadable}
    BY DEF Writable
  <2>2. CASE g = "email"
    <3>1. normalise_email(raw.email) # Empty /\ ~ (normalise_email(raw.email)[1].mailto > 0)
      BY <2>1, <2>2, ComparedForms
    <3>2. after.email = OrElse(normalise_email(raw.email), raw.email)
      BY <2>1, <2>2, DisplayedForms
    <3>3. normalise_email(after.email) = normalise_email(raw.email)
      BY <2>1, <3>1, <3>2, EmailFollowed
    <3> QED
      BY <2>1, <2>2, <3>3, ComparedForms
  <2>3. CASE g # "email"
    <3>1. after[g] = raw[g]
      BY <2>1, <2>3, DisplayedForms DEF NapFields, _COMPARED_FIELDS, _MISSING_REPORTED
    <3> QED
      BY <2>1, <2>3, <3>1, ComparedForms DEF _COMPARED_FIELDS, _MISSING_REPORTED
  <2> QED
    BY <2>2, <2>3
<1>2. FoundRaw(after, g) = after[g]
  BY DEF FoundRaw
<1>3. ASSUME g \in _MISSING_REPORTED PROVE after[g] # Empty
  <2>1. IsNap(raw)
    BY DEF Writable
  <2>2. after[g] = raw[g] /\ (g = "city" \/ Readable(raw[g]) # Empty)
    BY <1>3, <2>1, ComparedForms, DisplayedForms DEF NapFields, _MISSING_REPORTED
  <2>3. g = "city" => raw[g] # Empty
    BY <2>1, ComparedForms
  <2> QED
    BY <2>2, <2>3 DEF Readable
<1> QED
  BY <1>1, <1>2, <1>3, FieldFindingSays DEF FieldFindings

(* A street whose numbers were one number has none left in its name.        *)
LEMMA NoNumberLeft == Front(<<>>) = <<>>
<1>1. SubSeq(<<>>, 1, Len(<<>>) - 1) = <<>>
  BY SubSeqEmpty
<1> QED
  BY <1>1 DEF Front

(* The street is pasted without a number, and compares as the profile's     *)
(* street does, if its name does not end in a number too.  A number that    *)
(* stood in the street is missing then, which costs nothing; one that       *)
(* stands in its own field stays as it was.                                 *)
LEMMA StreetFollowed ==
    ASSUME NEW raw, IsNap(raw), raw.street # Empty, street_name(raw.street)[1].numbers = <<>>,
           NEW shown, IsNap(shown), NEW after, IsNap(after),
           after.street = _display_address(raw).street, after.house_number = shown.house_number
    PROVE  /\ FieldFindings(raw, after, "street") = {}
           /\ \/ FieldFindings(raw, after, "house_number") = FieldFindings(raw, shown, "house_number")
              \/ \A f \in FieldFindings(raw, after, "house_number") : f.severity = "info"
<1> DEFINE name == raw.street[1].name
<1>1. PICK kept : after.street = <<[name |-> name, numbers |-> street_name(raw.street)[1].numbers,
                                    notes |-> kept]>>
  BY DEF _display_address
<1>2. PICK line : after.street = <<line>> /\ line.name = name /\ line.numbers = <<>>
  BY <1>1
<1>3. after.street # Empty /\ after.street[1] = line
  BY <1>2, OneIsNotEmpty
<1> DEFINE bare == [name |-> name, numbers |-> <<>>]
<1>4. street_name(after.street) = <<bare>>
  BY <1>2, <1>3, NoNumberLeft DEF street_name
<1>5. street_name(raw.street) = <<bare>>
  <2> DEFINE part == [name |-> name, numbers |-> Front(raw.street[1].numbers)]
  <2>1. street_name(raw.street) = <<part>>
    BY DEF street_name
  <2>2. part.numbers = street_name(raw.street)[1].numbers
    <3> HIDE DEF part
    <3> QED
      BY <2>1, OneIsNotEmpty
  <2>3. part.numbers = Front(raw.street[1].numbers)
    OBVIOUS
  <2>4. Front(raw.street[1].numbers) = <<>>
    BY <2>2, <2>3
  <2> QED
    BY <2>1, <2>4
<1>6. <<bare>> # Empty
  BY OneIsNotEmpty
<1> HIDE DEF bare
<1>7. FieldFindings(raw, after, "street") = {}
  <2>1. comparison_form(after).street = comparison_form(raw).street
    BY <1>4, <1>5, ComparedForms
  <2>2. FoundRaw(after, "street") # Empty
    BY <1>4, <1>6 DEF FoundRaw
  <2> QED
    BY <2>1, <2>2, FieldFindingSays DEF FieldFindings
<1>8. inline_number(after.street) = Empty
  BY <1>2, <1>3 DEF inline_number
<1>9. CASE shown.house_number = Empty
  <2>1. strip_number(after.house_number) = Empty
    BY <1>9 DEF strip_number
  <2>2. FoundRaw(after, "house_number") = Empty
    BY <1>8, <2>1 DEF FoundRaw, OrElse
  <2> QED
    BY <1>7, <2>2, FieldFindingSays DEF FieldFindings
<1>10. CASE shown.house_number # Empty
  <2>1. strip_number(shown.house_number) # Empty
    BY <1>10, OneIsNotEmpty DEF strip_number
  <2>2. FoundRaw(after, "house_number") = FoundRaw(shown, "house_number")
    BY <2>1 DEF FoundRaw, OrElse
  <2>3. comparison_form(after).house_number = comparison_form(shown).house_number
    BY <2>1, ComparedForms DEF OrElse
  <2> QED
    BY <1>7, <2>2, <2>3 DEF FieldFindings
<1> QED
  BY <1>7, <1>9, <1>10

(* Annotations are sequences.                                               *)
LEMMA NotesAreSequences == Notes \subseteq Seq(Floors \cup Wings)
<1>1. _MAX_ANNOTATIONS \in Nat
  BY DEF _MAX_ANNOTATIONS
<1> SUFFICES ASSUME NEW marks \in Notes PROVE marks \in Seq(Floors \cup Wings)
  OBVIOUS
<1>2. PICK n \in 0 .. _MAX_ANNOTATIONS : marks \in [1 .. n -> Floors \cup Wings]
  BY DEF Notes, Lists
<1>3. n \in Nat
  BY <1>1
<1> QED
  BY <1>2, <1>3, SeqDef

(* What an annotated address keeps of its annotations: all of none, the     *)
(* first of some behind a range, none behind a number.                      *)
LEMMA KeptOfNotes ==
    ASSUME NEW number, NEW S, NEW marks \in Seq(S)
    PROVE  LET kept == Kept([number |-> number, notes |-> marks])
           IN  SubSeq(marks, 1, kept) = IF number \in Bare \/ marks = <<>> THEN <<>> ELSE <<marks[1]>>
<1> DEFINE text == [number |-> number, notes |-> marks]
<1>1. text.number = number /\ text.notes = marks
  OBVIOUS
<1>2. CASE number \in Bare \/ marks = <<>>
  <2>1. Kept(text) = 0
    BY <1>1, <1>2 DEF Kept, _keeps_a_real_address
  <2>2. SubSeq(marks, 1, 0) = <<>>
    BY SubSeqEmpty
  <2> QED
    BY <1>2, <2>1, <2>2
<1>3. CASE ~ (number \in Bare \/ marks = <<>>)
  <2>1. Kept(text) = 1
    BY <1>1, <1>3 DEF Kept, _keeps_a_real_address
  <2>2. Len(marks) \in Nat /\ Len(marks) # 0
    BY <1>3, EmptySeq
  <2>3. \A i \in 1 .. 1 : marks[i] \in S
    BY <2>2, ElementOfSeq
  <2>4. /\ SubSeq(marks, 1, 1) \in Seq(S) /\ Len(SubSeq(marks, 1, 1)) = 1
        /\ SubSeq(marks, 1, 1)[1] = marks[1]
    BY <2>3, SubSeqProperties
  <2>5. SubSeq(marks, 1, 1) = <<marks[1]>>
    <3>1. marks[1] \in S
      BY <2>3
    <3>2. <<marks[1]>> \in Seq(S) /\ Len(<<marks[1]>>) = 1 /\ <<marks[1]>>[1] = marks[1]
      BY <3>1
    <3>3. \A i \in 1 .. 1 : i = 1
      OBVIOUS
    <3> QED
      BY <2>4, <3>2, <3>3, SeqEqual
  <2> QED
    BY <1>3, <2>1, <2>5
<1> QED
  BY <1>2, <1>3

(* Stripped, a house number is the number with what it keeps.               *)
LEMMA StrippedNumber ==
    ASSUME NEW number, NEW S, NEW marks \in Seq(S)
    PROVE  strip_number(<<[number |-> number, notes |-> marks]>>) =
              <<[number |-> number,
                 notes  |-> IF number \in Bare \/ marks = <<>> THEN <<>> ELSE <<marks[1]>>]>>
<1> DEFINE text == [number |-> number, notes |-> marks]
<1> DEFINE first == SubSeq(marks, 1, Kept(text))
<1>1. <<text>> # Empty /\ <<text>>[1] = text
  BY OneIsNotEmpty
<1>2. strip_number(<<text>>) = <<[text EXCEPT !.notes = SubSeq(@, 1, Kept(text))]>>
  <2> HIDE DEF text
  <2> QED
    BY <1>1 DEF strip_number
<1>3. [text EXCEPT !.notes = SubSeq(@, 1, Kept(text))] = [number |-> number, notes |-> first]
  <2>1. text.number = number /\ text.notes = marks
        /\ text = [number |-> text.number, notes |-> text.notes]
    OBVIOUS
  <2>2. first = SubSeq(text.notes, 1, Kept(text))
    BY <2>1
  <2> HIDE DEF text, first
  <2>3. [text EXCEPT !.notes = first] = [number |-> number, notes |-> first]
    BY <2>1
  <2> QED
    BY <2>2, <2>3
<1>4. first = IF number \in Bare \/ marks = <<>> THEN <<>> ELSE <<marks[1]>>
  BY KeptOfNotes
<1> HIDE DEF first
<1> QED
  BY <1>2, <1>3, <1>4

(* What is stripped of an address are annotations.                          *)
LEMMA StrippedNotesAreNotes ==
    ASSUME NEW street \in Maybe(StreetTexts), NEW house \in Maybe(NumberTexts)
    PROVE  StrippedNotes(street, house) \in Seq(Floors \cup Wings)
<1> DEFINE S == Floors \cup Wings
<1>1. CASE street # Empty /\ street[1].notes # <<>>
  <2>1. PICK text \in StreetTexts : street = <<text>>
    BY <1>1 DEF Maybe, OneOf
  <2>2. street[1].notes \in Notes
    BY <2>1 DEF StreetTexts
  <2> QED
    BY <1>1, <2>2, NotesAreSequences DEF StrippedNotes
<1>2. CASE ~ (street # Empty /\ street[1].notes # <<>>) /\ house = Empty
  BY <1>2, EmptySeq DEF StrippedNotes
<1>3. CASE ~ (street # Empty /\ street[1].notes # <<>>) /\ house # Empty
  <2>1. PICK text \in NumberTexts : house = <<text>>
    BY <1>3 DEF Maybe, OneOf
  <2>2. house[1] = text /\ text.notes \in Seq(S)
    BY <2>1, NotesAreSequences DEF NumberTexts
  <2>3. StrippedNotes(street, house) = SubSeq(text.notes, Kept(text) + 1, Len(text.notes))
    BY <1>3, <2>2 DEF StrippedNotes
  <2>4. Kept(text) \in {0, 1}
    BY DEF Kept
  <2>5. Len(text.notes) \in Nat /\ \A i \in 1 .. Len(text.notes) : text.notes[i] \in S
    BY <2>2, LenProperties, ElementOfSeq
  <2>6. \A i \in Kept(text) + 1 .. Len(text.notes) : text.notes[i] \in S
    BY <2>4, <2>5
  <2> QED
    BY <2>3, <2>4, <2>5, <2>6, SubSeqProperties
<1> QED
  BY <1>1, <1>2, <1>3

(* A house number that is known keeps at most one annotation, and none      *)
(* behind a single number.                                                  *)
LEMMA KnownNumber ==
    ASSUME NEW raw, Writable(raw),
           OrElse(strip_number(raw.house_number), inline_number(raw.street)) # Empty
    PROVE  \E number : \E marks \in Seq(Floors \cup Wings) :
              /\ OrElse(strip_number(raw.house_number), inline_number(raw.street)) =
                    <<[number |-> number, notes |-> marks]>>
              /\ number \in Bare => marks = <<>>
              /\ marks = <<>> \/ marks = <<marks[1]>>
<1> DEFINE S == Floors \cup Wings
<1> DEFINE known == OrElse(strip_number(raw.house_number), inline_number(raw.street))
<1>1. <<>> \in Seq(S)
  BY EmptySeq
<1>2. CASE raw.house_number # Empty
  <2>1. PICK text \in NumberTexts : raw.house_number = <<text>>
    BY <1>2 DEF Writable, Maybe, OneOf
  <2>2. text = [number |-> text.number, notes |-> text.notes] /\ text.notes \in Seq(S)
    BY NotesAreSequences DEF NumberTexts
  <2> DEFINE kept == IF text.number \in Bare \/ text.notes = <<>> THEN <<>> ELSE <<text.notes[1]>>
  <2>3. strip_number(raw.house_number) = <<[number |-> text.number, notes |-> kept]>>
    BY <2>1, <2>2, StrippedNumber
  <2>4. kept \in Seq(S)
    <3>1. CASE text.number \in Bare \/ text.notes = <<>>
      BY <1>1, <3>1
    <3>2. CASE ~ (text.number \in Bare \/ text.notes = <<>>)
      <4>1. Len(text.notes) \in Nat \ {0}
        BY <2>2, <3>2, EmptySeq
      <4>2. text.notes[1] \in S
        BY <2>2, <4>1, ElementOfSeq
      <4> QED
        BY <3>2, <4>2
    <3> QED
      BY <3>1, <3>2
  <2>5. kept = <<>> \/ kept = <<kept[1]>>
    OBVIOUS
  <2>6. text.number \in Bare => kept = <<>>
    OBVIOUS
  <2> HIDE DEF kept
  <2>7. known = <<[number |-> text.number, notes |-> kept]>>
    BY <2>3, OneIsNotEmpty DEF OrElse
  <2> QED
    BY <2>4, <2>5, <2>6, <2>7
<1>3. CASE raw.house_number = Empty
  <2>1. known = inline_number(raw.street)
    BY <1>3 DEF OrElse, strip_number
  <2>2. PICK number : known = <<[number |-> number, notes |-> <<>>]>>
    BY <2>1 DEF inline_number
  <2> QED
    BY <1>1, <2>2
<1> QED
  BY <1>2, <1>3

(* The house number is pasted with the notes it is displayed with, and      *)
(* compares as the profile's does, unless it is a range with a floor.       *)
LEMMA NumberFollowed ==
    ASSUME NEW raw, Writable(raw), comparison_form(raw).house_number # Empty,
           ~ RangeWithFloor(raw),
           NEW after, IsNap(after), after.house_number = _display_address(raw).house_number
    PROVE  FieldFindings(raw, after, "house_number") = {}
<1> DEFINE S == Floors \cup Wings
<1> DEFINE known == OrElse(strip_number(raw.house_number), inline_number(raw.street))
<1> DEFINE said == StrippedNotes(raw.street, raw.house_number)
<1>1. comparison_form(raw).house_number = normalise_house_number(known)
  BY ComparedForms DEF Writable
<1>2. known # Empty
  BY <1>1 DEF normalise_house_number
<1>3. PICK number : \E own \in Seq(S) :
              /\ known = <<[number |-> number, notes |-> own]>>
              /\ number \in Bare => own = <<>>
              /\ own = <<>> \/ own = <<own[1]>>
  BY <1>2, KnownNumber
<1>4. PICK own \in Seq(S) :
              /\ known = <<[number |-> number, notes |-> own]>>
              /\ number \in Bare => own = <<>>
              /\ own = <<>> \/ own = <<own[1]>>
  BY <1>3
<1>5. said \in Seq(S)
  BY StrippedNotesAreNotes DEF Writable
<1> DEFINE all == own \o said
<1>6. known[1] = [number |-> number, notes |-> own]
  BY <1>4, OneIsNotEmpty
<1>7. after.house_number = <<[number |-> number, notes |-> all]>>
  <2> HIDE DEF known, said
  <2>1. known[1].notes \o said = all
    BY <1>6
  <2>2. _display_address(raw).house_number = <<[known[1] EXCEPT !.notes = known[1].notes \o said]>>
    BY <1>2 DEF _display_address, known, said
  <2> HIDE DEF all
  <2>3. [known[1] EXCEPT !.notes = all] = [number |-> number, notes |-> all]
    BY <1>6
  <2> QED
    BY <2>1, <2>2, <2>3
<1>8. all \in Seq(S)
  BY <1>5, ConcatProperties
<1> DEFINE first == IF number \in Bare \/ all = <<>> THEN <<>> ELSE <<all[1]>>
<1>9. strip_number(after.house_number) = <<[number |-> number, notes |-> first]>>
  BY <1>7, <1>8, StrippedNumber
<1>10. own = <<>> => all = said
  BY <1>5, ConcatEmptySeq
<1>11. own # <<>> => all # <<>> /\ all[1] = own[1]
  <2> SUFFICES ASSUME own # <<>> PROVE all # <<>> /\ all[1] = own[1]
    OBVIOUS
  <2>1. Len(own) \in Nat \ {0} /\ Len(said) \in Nat
    BY <1>5, EmptySeq, LenProperties
  <2>2. Len(all) = Len(own) + Len(said)
        /\ \A i \in 1 .. Len(own) + Len(said) :
              all[i] = IF i <= Len(own) THEN own[i] ELSE said[i - Len(own)]
    BY <1>5, ConcatProperties
  <2>3. Len(all) # 0 /\ 1 \in 1 .. Len(own) + Len(said) /\ 1 <= Len(own)
    BY <2>1, <2>2
  <2> QED
    BY <2>2, <2>3, EmptySeq
<1>12. /\ number \in Bare \/ known[1].notes # <<>> \/ said = <<>> \/ said[1] \notin Floors
       /\ known[1].number = number /\ known[1].notes = own
  <2>1. known[1].number = number /\ known[1].notes = own
    BY <1>6
  <2> QED
    BY <1>2, <2>1 DEF RangeWithFloor
<1>13. Range(first) \cap Floors = Range(own) \cap Floors
  <2>1. CASE own # <<>>
    BY <1>4, <1>11, <2>1
  <2>2. CASE own = <<>>
    <3>1. first = <<>> \/ (first = <<said[1]>> /\ said[1] \notin Floors)
      BY <1>10, <1>12, <2>2
    <3>2. Range(<<>>) = {} /\ \A x : Range(<<x>>) = {x}
      BY DEF Range
    <3> QED
      BY <2>2, <3>1, <3>2
  <2> QED
    BY <2>1, <2>2
<1>14. normalise_house_number(strip_number(after.house_number)) = normalise_house_number(known)
  <2>1. \A marks : normalise_house_number(<<[number |-> number, notes |-> marks]>>) =
                      <<[number |-> number, floors |-> Range(marks) \cap Floors]>>
    <3> SUFFICES ASSUME NEW marks
                 PROVE  normalise_house_number(<<[number |-> number, notes |-> marks]>>) =
                          <<[number |-> number, floors |-> Range(marks) \cap Floors]>>
      OBVIOUS
    <3> DEFINE text == [number |-> number, notes |-> marks]
    <3>1. text.number = number /\ text.notes = marks
      OBVIOUS
    <3>2. normalise_house_number(<<text>>) =
            <<[number |-> text.number, floors |-> Range(text.notes) \cap Floors]>>
      <4> HIDE DEF text
      <4> QED
        BY OneIsNotEmpty DEF normalise_house_number
    <3> QED
      BY <3>1, <3>2
  <2> HIDE DEF first, known
  <2> QED
    BY <1>4, <1>9, <1>13, <2>1
<1> HIDE DEF known, all, first, said
<1>15. strip_number(after.house_number) # Empty
  BY <1>9, OneIsNotEmpty
<1>16. comparison_form(after).house_number = comparison_form(raw).house_number
       /\ FoundRaw(after, "house_number") # Empty
  BY <1>1, <1>14, <1>15, ComparedForms DEF FoundRaw, OrElse
<1> QED
  BY <1>16, FieldFindingSays DEF FieldFindings

(* What is said of the names is one of three things, about one of them.     *)
LEMMA NameFindingsAreThree ==
    ASSUME NEW raw, NEW shown
    PROVE  \E x, y, z : NameFindings(raw, shown) \subseteq {x, y, z}
<1> DEFINE names == {"legal_name", "trading_name"}
<1> DEFINE display == normalise_nap(raw)
<1> DEFINE preferred == IF display.trading_name # Empty THEN "trading_name" ELSE "legal_name"
<1> DEFINE One(n) == Finding(n, OrElse(display[n], display[preferred]), "mismatch", "warn")
<1> DEFINE Lost == Finding(preferred, display[preferred], "missing", "info")
<1> DEFINE said == NameFindings(raw, shown)
<1>1. \A f \in said : f = Lost \/ \E n \in names : f = One(n)
  BY DEF NameFindings, _name_findings
<1> HIDE DEF One, Lost, said
<1>2. said \subseteq {Lost, One("legal_name"), One("trading_name")}
  BY <1>1
<1> QED
  BY <1>2 DEF said

(* It is about one of the names, and no note.                              *)
LEMMA NameFindingsAreOfNames ==
    ASSUME NEW raw, NEW shown, NEW f \in NameFindings(raw, shown)
    PROVE  f.field \in {"legal_name", "trading_name"} /\ f.kind # "annotation"
<1> DEFINE names == {"legal_name", "trading_name"}
<1> DEFINE display == normalise_nap(raw)
<1> DEFINE preferred == IF display.trading_name # Empty THEN "trading_name" ELSE "legal_name"
<1> DEFINE One(n) == Finding(n, OrElse(display[n], display[preferred]), "mismatch", "warn")
<1> DEFINE Lost == Finding(preferred, display[preferred], "missing", "info")
<1>1. f = Lost \/ \E n \in names : f = One(n)
  BY DEF NameFindings, _name_findings
<1>2. /\ \A n : One(n).field = n /\ One(n).kind = "mismatch"
      /\ Lost.field \in names /\ Lost.kind = "missing"
  BY DEF Finding
<1> QED
  BY <1>1, <1>2

(* The note about an address costs nothing and says so.                     *)
LEMMA NotesCostNothing ==
    \A display, shown : \A f \in _annotation_note(display, shown) :
       f.field = "street" /\ f.kind = "annotation" /\ f.severity = "info"
BY DEF _annotation_note, Finding

\* Nothing that costs points is new after field k was pasted, and k is at most noted.
Improves(raw, shown, after, k) ==
    /\ Costly(audit_nap(raw, after)) \subseteq Costly(audit_nap(raw, shown))
    /\ \A f \in audit_nap(raw, after) : f.field = k => f.kind = "annotation"

(* Nothing that costs points is new when it is new in no field, and a field *)
(* about which nothing is left to say is at most noted.                     *)
LEMMA AuditImproves ==
    ASSUME NEW raw, NEW shown, NEW after, NEW k \in NapFields,
           NameFindings(raw, after) \subseteq
              NameFindings(raw, shown),
           \A f \in NameFindings(raw, after) : f.field # k,
           \A g \in _COMPARED_FIELDS :
              Costly(FieldFindings(raw, after, g)) \subseteq Costly(FieldFindings(raw, shown, g)),
           k \in _COMPARED_FIELDS => FieldFindings(raw, after, k) = {}
    PROVE  Improves(raw, shown, after, k)
<1>1. ASSUME NEW f \in Costly(audit_nap(raw, after)) PROVE f \in Costly(audit_nap(raw, shown))
  <2>1. f \in audit_nap(raw, after) /\ f.severity # "info"
    BY <1>1 DEF Costly
  <2>2. f \notin _annotation_note(normalise_nap(raw), after)
    BY <2>1, NotesCostNothing
  <2>3. CASE f \in NameFindings(raw, after)
    BY <2>1, <2>3, AuditSays DEF Costly
  <2>4. ASSUME NEW g \in _COMPARED_FIELDS, f \in FieldFindings(raw, after, g)
        PROVE  f \in Costly(audit_nap(raw, shown))
    <3>1. f \in Costly(FieldFindings(raw, shown, g))
      BY <2>1, <2>4 DEF Costly
    <3> QED
      BY <3>1, AuditSays DEF Costly
  <2> QED
    BY <2>1, <2>2, <2>3, <2>4, AuditSays
<1>2. ASSUME NEW f \in audit_nap(raw, after), f.field = k PROVE f.kind = "annotation"
  <2>1. \A g \in _COMPARED_FIELDS : f \in FieldFindings(raw, after, g) => g = k
    BY <1>2, FieldFindingSays DEF FieldFindings
  <2>2. f \in _annotation_note(normalise_nap(raw), after)
    BY <1>2, <2>1, AuditSays
  <2> QED
    BY <2>2, NotesCostNothing
<1> QED
  BY <1>1, <1>2 DEF Improves

(* A hint that is followed leaves no complaint about its field and adds     *)
(* nothing that costs points, whatever the profile and the listing say.     *)
LEMMA FollowedHelps ==
    ASSUME NEW raw, Writable(raw), NEW shown, IsNap(shown),
           NEW finding \in audit_nap(raw, shown), finding.kind # "annotation",
           finding.field \in NapFields, NEW after, IsNap(after),
           after[finding.field] = finding.value,
           \A g \in NapFields \ {finding.field} : after[g] = shown[g],
           ~ NeverRight(raw, finding)
    PROVE  Improves(raw, shown, after, finding.field)
<1> DEFINE k == finding.field
<1>1. /\ IsNap(raw) /\ IsNap(after) /\ after[k] = finding.value
      /\ \A g \in NapFields \ {k} : after[g] = shown[g]
  BY DEF Writable
<1>2. _COMPARED_FIELDS = NapFields \ {"legal_name", "trading_name"}
      /\ {"legal_name", "trading_name", "street", "house_number"} \subseteq NapFields
  BY DEF NapFields, _COMPARED_FIELDS, _MISSING_REPORTED
<1>3. CASE finding \in NameFindings(raw, shown)
  <2>1. k \in {"legal_name", "trading_name"}
    BY <1>3, NameFindingsAreOfNames
  <2>2. \A n \in {"legal_name", "trading_name"} :
           after[n] = IF n = k THEN finding.value ELSE shown[n]
    BY <1>1, <1>2, <2>1
  <2>3. normalise_business_name(finding.value) # Empty
    BY <2>1 DEF NeverRight
  <2>4. /\ NameFindings(raw, after) \subseteq NameFindings(raw, shown)
        /\ \A f \in NameFindings(raw, after) : f.field # k
    BY <1>1, <1>3, <2>2, <2>3, NamesFollowed
  <2>5. \A g \in _COMPARED_FIELDS : FieldFindings(raw, after, g) = FieldFindings(raw, shown, g)
    <3>1. \A g \in _COMPARED_FIELDS : after[g] = shown[g]
      BY <1>1, <1>2, <2>1
    <3>2. after.street = shown.street
      BY <1>1, <1>2, <2>1
    <3> HIDE DEF k
    <3> QED
      BY <1>1, <3>1, <3>2, OthersAsBefore
  <2>6. \A g \in _COMPARED_FIELDS :
           Costly(FieldFindings(raw, after, g)) \subseteq Costly(FieldFindings(raw, shown, g))
    BY <2>5
  <2>7. k \in NapFields /\ k \notin _COMPARED_FIELDS
    BY <1>2, <2>1
  <2> HIDE DEF k
  <2>8. Improves(raw, shown, after, k)
    BY <2>4, <2>6, <2>7, AuditImproves
  <2> QED
    BY <2>8 DEF k
<1>4. ASSUME NEW g \in _COMPARED_FIELDS, finding \in FieldFindings(raw, shown, g)
      PROVE  Improves(raw, shown, after, k)
  <2>1. k = g /\ finding.value = normalise_nap(raw)[g] /\ comparison_form(raw)[g] # Empty
    BY <1>4, FieldFindingSays DEF FieldFindings
  <2>2. NameFindings(raw, after) = NameFindings(raw, shown)
    BY <1>1, <1>2, <2>1, SameNamesSameFindings
  <2>3. \A f \in NameFindings(raw, after) : f.field # k
    BY <1>2, <2>1, NameFindingsAreOfNames
  <2>4. /\ FieldFindings(raw, after, g) = {}
        /\ \A h \in _COMPARED_FIELDS \ {g} :
              Costly(FieldFindings(raw, after, h)) \subseteq Costly(FieldFindings(raw, shown, h))
    <3>1. \A h \in _COMPARED_FIELDS \ {g, "house_number"} :
             FieldFindings(raw, after, h) = FieldFindings(raw, shown, h)
      <4>1. \A h \in _COMPARED_FIELDS \ {g, "house_number"} : after[h] = shown[h]
        BY <1>1, <1>2, <2>1
      <4> HIDE DEF k
      <4> QED
        BY <1>1, <4>1, OthersAsBefore
    <3>2. CASE g = "street"
      <4>1. raw.street # Empty
        BY <1>1, <2>1, <3>2, ComparedForms DEF street_name
      <4>2. street_name(raw.street)[1].numbers = <<>>
        BY <2>1, <3>2 DEF NeverRight
      <4>3. /\ after.street = _display_address(raw).street
            /\ after.house_number = shown.house_number
        BY <1>1, <1>2, <2>1, <3>2, DisplayedForms
      <4>4. /\ FieldFindings(raw, after, "street") = {}
            /\ \/ FieldFindings(raw, after, "house_number") =
                     FieldFindings(raw, shown, "house_number")
               \/ \A f \in FieldFindings(raw, after, "house_number") : f.severity = "info"
        BY <1>1, <4>1, <4>2, <4>3, StreetFollowed
      <4>5. Costly(FieldFindings(raw, after, "house_number")) \subseteq
               Costly(FieldFindings(raw, shown, "house_number"))
        BY <4>4 DEF Costly
      <4> QED
        BY <3>1, <3>2, <4>4, <4>5
    <3>3. CASE g = "house_number"
      <4>1. after.house_number = _display_address(raw).house_number
        BY <1>1, <2>1, <3>3, DisplayedForms
      <4>2. FieldFindings(raw, after, "house_number") = {}
        BY <1>1, <2>1, <3>3, <4>1, NumberFollowed DEF NeverRight
      <4> QED
        BY <3>1, <3>3, <4>2
    <3>4. CASE g \notin {"street", "house_number"}
      <4>1. after[g] = normalise_nap(raw)[g]
        BY <1>1, <2>1
      <4>2. ~ (g = "email" /\ normalise_email(raw.email)[1].mailto > 0)
        BY <2>1 DEF NeverRight
      <4>3. FieldFindings(raw, after, g) = {}
        BY <1>1, <2>1, <3>4, <4>1, <4>2, PlainFieldFollowed
      <4>4. FieldFindings(raw, after, "house_number") = FieldFindings(raw, shown, "house_number")
        <5>1. after.street = shown.street /\ after.house_number = shown.house_number
              /\ "house_number" \in _COMPARED_FIELDS
          BY <1>1, <1>2, <2>1, <3>4
        <5> HIDE DEF k
        <5> QED
          BY <1>1, <5>1, OthersAsBefore
      <4> QED
        BY <3>1, <4>3, <4>4
    <3> QED
      BY <3>2, <3>3, <3>4
  <2>5. \A h \in _COMPARED_FIELDS :
           Costly(FieldFindings(raw, after, h)) \subseteq Costly(FieldFindings(raw, shown, h))
    BY <2>4 DEF Costly
  <2> QED
    BY <1>2, <2>1, <2>2, <2>3, <2>4, <2>5, AuditImproves
<1>5. finding \notin _annotation_note(normalise_nap(raw), shown)
  BY NotesCostNothing
<1> QED
  BY <1>3, <1>4, <1>5, AuditSays

(* The audit finds finitely many things.                                    *)
LEMMA AuditIsFinite == \A raw, shown : IsFiniteSet(audit_nap(raw, shown))
<1> SUFFICES ASSUME NEW raw, NEW shown PROVE IsFiniteSet(audit_nap(raw, shown))
  OBVIOUS
<1> DEFINE N == NameFindings(raw, shown)
<1> DEFINE F(g) == FieldFindings(raw, shown, g)
<1> DEFINE A == _annotation_note(normalise_nap(raw), shown)
<1>1. \A x, y, z : IsFiniteSet({x, y, z})
  <2> SUFFICES ASSUME NEW x, NEW y, NEW z PROVE IsFiniteSet({x, y, z})
    OBVIOUS
  <2>1. IsFiniteSet({x}) /\ IsFiniteSet({y}) /\ IsFiniteSet({z})
    BY FS_Singleton
  <2>2. IsFiniteSet({x} \cup {y})
    BY <2>1, FS_Union
  <2>3. IsFiniteSet(({x} \cup {y}) \cup {z})
    BY <2>1, <2>2, FS_Union
  <2>4. ({x} \cup {y}) \cup {z} = {x, y, z}
    OBVIOUS
  <2> QED
    BY <2>3, <2>4
<1>2. IsFiniteSet(N)
  <2>1. \E x, y, z : N \subseteq {x, y, z}
    BY NameFindingsAreThree
  <2>2. PICK x, y, z : N \subseteq {x, y, z}
    BY <2>1
  <2> HIDE DEF N
  <2>3. IsFiniteSet({x, y, z}) /\ N \in SUBSET {x, y, z}
    BY <1>1, <2>2
  <2> QED
    BY <2>3, FS_Subset
<1>3. \A g : IsFiniteSet(F(g))
  <2> SUFFICES ASSUME NEW g PROVE IsFiniteSet(F(g))
    OBVIOUS
  <2>1. F(g) = {} \/ \E x : F(g) = {x}
    BY DEF FieldFindings, _field_finding
  <2> HIDE DEF F
  <2>2. IsFiniteSet({}) /\ \A x : IsFiniteSet({x})
    BY FS_EmptySet, FS_Singleton
  <2> QED
    BY <2>1, <2>2
<1>4. IsFiniteSet(A)
  <2>1. A = {} \/ \E x : A = {x}
    BY DEF _annotation_note
  <2> HIDE DEF A
  <2>2. IsFiniteSet({}) /\ \A x : IsFiniteSet({x})
    BY FS_EmptySet, FS_Singleton
  <2> QED
    BY <2>1, <2>2
<1>5. audit_nap(raw, shown) \subseteq
         N \cup (F("street") \cup (F("house_number") \cup (F("postcode") \cup (F("city") \cup
         (F("phone") \cup (F("email") \cup (F("opening_hours") \cup A)))))))
  BY AuditSays DEF _COMPARED_FIELDS, _MISSING_REPORTED
<1> HIDE DEF N, F, A
<1> DEFINE S1 == F("opening_hours") \cup A
           S2 == F("email") \cup S1
           S3 == F("phone") \cup S2
           S4 == F("city") \cup S3
           S5 == F("postcode") \cup S4
           S6 == F("house_number") \cup S5
           S7 == F("street") \cup S6
<1>6. audit_nap(raw, shown) \in SUBSET (N \cup S7)
  BY <1>5
<1>7. \A S, T : IsFiniteSet(S) /\ IsFiniteSet(T) => IsFiniteSet(S \cup T)
  BY FS_Union
<1>8. IsFiniteSet(S1)
  BY <1>3, <1>4, <1>7
<1> HIDE DEF S1
<1>9. IsFiniteSet(S2) /\ IsFiniteSet(S3)
  BY <1>3, <1>7, <1>8
<1> HIDE DEF S2, S3
<1>10. IsFiniteSet(S4) /\ IsFiniteSet(S5)
  BY <1>3, <1>7, <1>9
<1> HIDE DEF S4, S5
<1>11. IsFiniteSet(S6) /\ IsFiniteSet(S7)
  BY <1>3, <1>7, <1>10
<1> HIDE DEF S6, S7
<1>12. IsFiniteSet(N \cup S7)
  BY <1>2, <1>7, <1>11
<1> QED
  BY <1>6, <1>12, FS_Subset

(* The score does not drop when nothing that costs points is new.           *)
LEMMA FewerFindingsScoreNoLess ==
    ASSUME NEW F, IsFiniteSet(F), NEW G, IsFiniteSet(G), Costly(G) \subseteq Costly(F)
    PROVE  consistency_score(G) >= consistency_score(F)
<1> DEFINE Of(S, severity) == {f \in S : f.severity = severity}
<1>1. Of(G, "error") \in SUBSET Of(F, "error") /\ Of(G, "warn") \in SUBSET Of(F, "warn")
  BY DEF Costly
<1>2. \A severity : Of(F, severity) \in SUBSET F /\ Of(G, severity) \in SUBSET G
  OBVIOUS
<1> HIDE DEF Of
<1>3. \A severity : IsFiniteSet(Of(F, severity)) /\ IsFiniteSet(Of(G, severity))
  BY <1>2, FS_Subset
<1>4. \A severity : Cardinality(Of(F, severity)) \in Nat /\ Cardinality(Of(G, severity)) \in Nat
  BY <1>3, FS_CardinalityType
<1>5. /\ Cardinality(Of(G, "error")) <= Cardinality(Of(F, "error"))
      /\ Cardinality(Of(G, "warn")) <= Cardinality(Of(F, "warn"))
  BY <1>1, <1>3, FS_Subset
<1>6. _PENALTY("error") = 15 /\ _PENALTY("warn") = 5 /\ _PENALTY("info") = 0
  BY DEF _PENALTY
<1> DEFINE Lost(S) == 15 * Cardinality(Of(S, "error")) + 5 * Cardinality(Of(S, "warn"))
                          + 0 * Cardinality(Of(S, "info"))
<1>7. \A S : consistency_score(S) = IF Lost(S) > 100 THEN 0 ELSE 100 - Lost(S)
  BY <1>6 DEF consistency_score, Of
<1>8. Lost(F) \in Nat /\ Lost(G) \in Nat /\ Lost(G) <= Lost(F)
  BY <1>4, <1>5
<1> HIDE DEF Lost
<1> QED
  BY <1>7, <1>8

(* A profile's address and email can be written down: they are of the one   *)
(* group that has them, or there are none.                                  *)
LEMMA ProfilesAreReadable ==
    \A group \in {NameFields, Addresses, Places, Contacts, Hours} : \A raw \in group \cup {Nobody} :
       Writable(raw)
<1>1. /\ Empty \in Maybe(StreetTexts) /\ Empty \in Maybe(NumberTexts)
      /\ Empty \in Maybe(EmailTexts)
  BY DEF Maybe
<1>2. /\ Nobody = [f \in NapFields |-> Nobody[f]]
      /\ Nobody.street = Empty /\ Nobody.house_number = Empty /\ Nobody.email = Empty
  BY DEF Nobody, NapFields
<1>3. "street" \in NapFields /\ "house_number" \in NapFields /\ "email" \in NapFields
  BY DEF NapFields
<1>4. \A fields, values :
         LET raw == With(fields, values)
         IN  /\ IsNap(raw)
             /\ raw.street = IF "street" \in fields THEN values.street ELSE Empty
             /\ raw.house_number = IF "house_number" \in fields THEN values.house_number ELSE Empty
             /\ raw.email = IF "email" \in fields THEN values.email ELSE Empty
  BY <1>2, <1>3, NobodysFields DEF With, IsNap
<1> HIDE DEF IsNap
<1>5. Writable(Nobody)
  BY <1>1, <1>2 DEF IsNap, Writable
<1>6. \A raw \in Addresses : Writable(raw)
  <2> SUFFICES ASSUME NEW raw \in Addresses PROVE Writable(raw)
    OBVIOUS
  <2>1. PICK v \in [street : Maybe(StreetTexts), house_number : Maybe(NumberTexts)] :
            raw = With({"street", "house_number"}, v)
    BY DEF Addresses
  <2>2. v.street \in Maybe(StreetTexts) /\ v.house_number \in Maybe(NumberTexts)
    OBVIOUS
  <2> QED
    BY <1>1, <1>4, <2>1, <2>2 DEF Writable
<1>7. \A raw \in Contacts : Writable(raw)
  <2> SUFFICES ASSUME NEW raw \in Contacts PROVE Writable(raw)
    OBVIOUS
  <2>1. PICK v \in [phone : Maybe(PhoneTexts) \cup {NotReadable},
                    email : Maybe(EmailTexts) \cup {NotReadable}] :
            raw = With({"phone", "email"}, v)
    BY DEF Contacts
  <2>2. v.email \in Maybe(EmailTexts) \cup {NotReadable}
    OBVIOUS
  <2> QED
    BY <1>1, <1>4, <2>1, <2>2 DEF Writable
<1>8. \A raw \in NameFields \cup Places \cup Hours : Writable(raw)
  <2> SUFFICES ASSUME NEW raw \in NameFields \cup Places \cup Hours PROVE Writable(raw)
    OBVIOUS
  <2>1. \E fields, values : /\ raw = With(fields, values)
                            /\ fields \cap {"street", "house_number", "email"} = {}
    BY DEF NameFields, Places, Hours
  <2> QED
    BY <1>1, <1>4, <2>1 DEF Writable
<1> QED
  BY <1>5, <1>6, <1>7, <1>8

(* The findings are always those of the last audit, and the profile stays   *)
(* one whose address can be written down.                                   *)
LEMMA FindingsAreOfTheAudit ==
    /\ NapInit => HintInv
    /\ HintInv /\ [NapNext]_napVars => HintInv'
<1>1. NapInit => HintInv
  <2> SUFFICES ASSUME NapInit PROVE HintInv
    OBVIOUS
  <2>1. PICK group \in {NameFields, Addresses, Places, Contacts, Hours} :
            confirmed \in group /\ listing \in group \cup {Nobody}
    BY DEF NapInit
  <2>2. Writable(confirmed) /\ Writable(listing)
    BY <2>1, ProfilesAreReadable
  <2> QED
    BY <2>2 DEF NapInit, HintInv, Writable
<1>2. HintInv /\ [NapNext]_napVars => HintInv'
  <2> SUFFICES ASSUME HintInv, [NapNext]_napVars PROVE HintInv'
    OBVIOUS
  <2>1. ASSUME NEW finding \in findings, Follow(finding) PROVE HintInv'
    <3>1. /\ listing' = [listing EXCEPT ![finding.field] = finding.value]
          /\ findings' = audit_nap(confirmed, listing') /\ confirmed' = confirmed
      BY <2>1 DEF Follow
    <3>2. finding.field \in NapFields
      BY AuditFinds DEF HintInv, AllFindings, IsFinding
    <3>3. IsNap(listing')
      BY <3>1, <3>2 DEF HintInv, IsNap
    <3> QED
      BY <3>1, <3>3 DEF HintInv
  <2>2. CASE UNCHANGED napVars
    BY <2>2 DEF napVars, HintInv
  <2> QED
    BY <2>1, <2>2 DEF NapNext
<1> QED
  BY <1>1, <1>2

(* A step that follows a hint helps.                                        *)
LEMMA StepsHelp ==
    ASSUME HintInv, NapNext, NEW finding \in findings, finding.kind # "annotation",
           listing' = [listing EXCEPT ![finding.field] = finding.value]
    PROVE  \/ NeverRight(confirmed, finding)
           \/ /\ consistency_score(findings') >= consistency_score(findings)
              /\ \A f \in findings' : f.field = finding.field => f.kind = "annotation"
<1> SUFFICES ASSUME ~ NeverRight(confirmed, finding)
             PROVE  /\ consistency_score(findings') >= consistency_score(findings)
                    /\ \A f \in findings' : f.field = finding.field => f.kind = "annotation"
  OBVIOUS
<1>1. findings = audit_nap(confirmed, listing) /\ findings' = audit_nap(confirmed, listing')
  BY DEF NapNext, Follow, HintInv
<1>2. finding.field \in NapFields /\ finding \in audit_nap(confirmed, listing)
  BY <1>1, AuditFinds DEF AllFindings, IsFinding
<1>3. Writable(confirmed) /\ IsNap(listing)
  BY DEF HintInv
<1>4. /\ IsNap(listing') /\ listing'[finding.field] = finding.value
      /\ \A g \in NapFields \ {finding.field} : listing'[g] = listing[g]
  BY <1>2, <1>3 DEF IsNap
<1>5. Improves(confirmed, listing, listing', finding.field)
  BY <1>2, <1>3, <1>4, FollowedHelps
<1>6. IsFiniteSet(findings) /\ IsFiniteSet(findings')
  BY <1>1, AuditIsFinite
<1> QED
  BY <1>1, <1>5, <1>6, FewerFindingsScoreNoLess DEF Improves

(* A hint that is followed helps (HintsHelp): whatever the profile and the  *)
(* listing say, its field is not complained about again and the score does  *)
(* not drop, but for the four things that no listing can say back           *)
(* (engines/nap/audit.py, normalise.py).                                    *)
THEOREM HintsAlwaysHelp == NapSpec => HintsHelp
<1>1. HintInv /\ [NapNext]_napVars =>
         [ \A finding \in findings :
             /\ finding.kind # "annotation"
             /\ listing' = [listing EXCEPT ![finding.field] = finding.value]
             => \/ NeverRight(confirmed, finding)
                \/ /\ consistency_score(findings') >= consistency_score(findings)
                   /\ \A f \in findings' :
                         f.field = finding.field => f.kind = "annotation" ]_napVars
  BY StepsHelp
<1> QED
  BY <1>1, FindingsAreOfTheAudit, PTL DEF NapSpec, HintsHelp

=============================================================================
