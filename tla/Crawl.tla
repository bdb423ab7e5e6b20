-------------------------------- MODULE Crawl --------------------------------
(***************************************************************************)
(* One crawl of a site: engines/crawl/fetch.crawl_site, its fetcher and    *)
(* the links parse_page hands it.                                          *)
(*                                                                         *)
(* The site's pages are numbered as the crawl first hears of them; page 0  *)
(* is the start.  What a request answers, and where a page links, is the   *)
(* site's choice, made when the crawl asks.                                *)
(***************************************************************************)
EXTENDS Naturals, Sequences, FiniteSets, SequencesExt

CONSTANTS
    MaxUrls,        \* bound: pages of the site the crawl may hear of
    MaxLinks,       \* bound: links of the site's pages and moved urls, together
    MaxPages,       \* DEFAULT_MAX_PAGES
    MaxDepth,       \* DEFAULT_MAX_DEPTH
    MAX_REDIRECTS,
    MaxMoved        \* bound: urls of the site that answer from another url

ASSUME CrawlAssumption ==
    /\ {MaxUrls, MaxLinks, MaxPages, MaxDepth, MAX_REDIRECTS, MaxMoved} \subseteq Nat
    /\ MaxUrls > 0

VARIABLES
    frontier,       \* the urls to request, each with its depth
    seen,           \* the urls that were ever put on the frontier
    hop,            \* the fetch under way
    landed,         \* the page that answered the request for a url, if one did
    links,          \* the links of each page of the site that was parsed
    pages,          \* CrawlResult.pages, by the url they were read from
    truncated       \* CrawlResult.truncated, once the crawl is over

crawlVars == <<frontier, seen, hop, landed, links, pages, truncated>>

-----------------------------------------------------------------------------

Urls    == 0 .. MaxUrls - 1
OffSite == MaxUrls          \* a page of another host
Untried == MaxUrls + 1
Failed  == MaxUrls + 2
Unread  == {OffSite}
NoHop   == [url |-> OffSite, depth |-> 0, at |-> OffSite, redirects |-> 0]

\* _site_key: every numbered page is of the start's host.
OfThisSite(url) == url \in Urls

\* The pages the crawl has heard of, by a link or by a redirect.
Heard == seen \cup {u \in Urls : links[u] # Unread \/ u = hop.at}

\* The pages the crawl has not heard of yet, in the order it will.
NextUnheard(n) == {u \in Urls \ Heard : Cardinality({v \in Urls \ Heard : v < u}) < n}
Unheard        == NextUnheard(1)

\* The urls that answered from another url, or are about to.
Moved ==
    {u \in Urls : (u = hop.url /\ hop.at # u) \/ landed[u] \in (Urls \cup {OffSite}) \ {u}}

LinksSoFar == {link \in Urls \X Urls : link[2] \in links[link[1]]}

\* _links: a page's own-site links, without repeats: pages heard of and new ones, in any mixture.
LinksOfAPage ==
    {found \in {old \cup NextUnheard(n) : old \in SUBSET Heard, n \in 0 .. MaxUrls} :
        Cardinality(LinksSoFar) + Cardinality(Moved) + Cardinality(found) <= MaxLinks}

CrawlInit ==
    /\ frontier = <<[url |-> 0, depth |-> 0]>>
    /\ seen = {0}
    /\ hop = NoHop
    /\ landed = [u \in Urls |-> Untried]
    /\ links = [u \in Urls |-> Unread]
    /\ pages = << >>
    /\ truncated = "crawling"

-----------------------------------------------------------------------------
(* The crawl's steps *)

\* Faulty variant: the newest entry in place of the oldest.
LastOfTheFrontier(queue) == Len(queue)
NextOf(queue)            == 1

\* The while loop pops the head of the frontier.
TakeNext ==
    /\ hop = NoHop
    /\ truncated = "crawling"
    /\ frontier # << >> /\ Len(pages) < MaxPages
    /\ LET next == frontier[NextOf(frontier)]
       IN  hop' = [url |-> next.url, depth |-> next.depth, at |-> next.url, redirects |-> 0]
    /\ frontier' = RemoveAt(frontier, NextOf(frontier))
    /\ UNCHANGED <<seen, landed, links, pages, truncated>>

\* _fetch follows a redirect by hand; the next hop is checked and asked like the first.
Redirect ==
    /\ hop # NoHop /\ hop.redirects < MAX_REDIRECTS
    /\ Cardinality(Moved) < MaxMoved
    /\ Cardinality(LinksSoFar) + Cardinality(Moved) < MaxLinks
    /\ \E to \in Heard \cup Unheard \cup {OffSite} :
           hop' = [hop EXCEPT !.at = to, !.redirects = @ + 1]
    /\ UNCHANGED <<frontier, seen, landed, links, pages, truncated>>

\* Any CrawlError: an address that is not safe, a robots.txt that forbids it, a status, a type,
\* a size, a timeout, one redirect too many.  It is one entry of result.errors.
FetchFails ==
    /\ hop # NoHop
    /\ landed' = [landed EXCEPT ![hop.url] = Failed]
    /\ hop' = NoHop
    /\ UNCHANGED <<frontier, seen, links, pages, truncated>>

\* The page is another host's: dropped, and no error.
LandsElsewhere ==
    /\ hop # NoHop /\ ~OfThisSite(hop.at)
    /\ landed' = [landed EXCEPT ![hop.url] = OffSite]
    /\ hop' = NoHop
    /\ UNCHANGED <<frontier, seen, links, pages, truncated>>

\* Faulty variant: the loop over the links ends at one that was seen, here the page's first.
UpToASeenLink(found, depth) ==
    IF depth >= MaxDepth \/ found \cap seen # {} THEN {} ELSE found

\* The links that go on the frontier: new ones, of a page that is not at the last level.
Followed(found, depth) == IF depth >= MaxDepth THEN {} ELSE found \ seen

\* Document order is the site's choice, but for the pages it is the first to name: they are
\* numbered in that order.  It matters once: what a page links to is new when it is first read
\* above the last level, and never again.
InDocumentOrder(new) ==
    {order \in Surjection(1 .. Cardinality(new), new) :
        \A i, j \in DOMAIN order : {order[i], order[j]} \cap Heard = {} /\ i < j => order[i] < order[j]}

ReadPage ==
    /\ hop # NoHop /\ OfThisSite(hop.at)
    /\ \E found \in IF links[hop.at] = Unread THEN LinksOfAPage ELSE {links[hop.at]} :
       \E new \in InDocumentOrder(Followed(found, hop.depth)) :
           /\ links' = [links EXCEPT ![hop.at] = found]
           /\ seen' = seen \cup Followed(found, hop.depth)
           /\ frontier' = frontier \o
                  [i \in DOMAIN new |-> [url |-> new[i], depth |-> hop.depth + 1]]
    /\ pages' = Append(pages, hop.at)
    /\ landed' = [landed EXCEPT ![hop.url] = hop.at]
    /\ hop' = NoHop
    /\ UNCHANGED truncated

CrawlEnds ==
    /\ hop = NoHop
    /\ truncated = "crawling"
    /\ frontier = << >> \/ Len(pages) >= MaxPages
    /\ truncated' = IF frontier # << >> THEN "truncated" ELSE "complete"
    /\ UNCHANGED <<frontier, seen, hop, landed, links, pages>>

CrawlNext ==
    \/ TakeNext
    \/ Redirect
    \/ FetchFails
    \/ LandsElsewhere
    \/ ReadPage
    \/ CrawlEnds

CrawlSpec == CrawlInit /\ [][CrawlNext]_crawlVars

-----------------------------------------------------------------------------
(* Properties *)

\* Every variable has its type.
CrawlTypeOK ==
    /\ frontier \in Seq([url : Urls, depth : 0 .. MaxDepth])
    /\ seen \subseteq Urls
    /\ hop \in [url : 0 .. MaxUrls, depth : 0 .. MaxDepth, at : 0 .. MaxUrls,
                redirects : 0 .. MAX_REDIRECTS]
    /\ landed \in [Urls -> Urls \cup {OffSite, Untried, Failed}]
    /\ links \in [Urls -> (SUBSET Urls) \cup {Unread}]
    /\ pages \in Seq(Urls)
    /\ truncated \in {"crawling", "truncated", "complete"}

\* A walk of n links from the start, each of them on the page that answered for the url before.
Walks(n) ==
    {walk \in [0 .. n -> Urls] :
        /\ walk[0] = 0
        /\ \A i \in 0 .. n - 1 :
              landed[walk[i]] \in Urls /\ walk[i + 1] \in links[landed[walk[i]]]}

\* A crawl that does not call itself truncated has asked for every page within MaxDepth links
\* of the start.  A page is expanded at the depth it was FIRST heard of at, so this rests on the
\* frontier giving the nearest first: were it heard of too deep, its own links would be dropped
\* without a word and HARVEST would read the crawl as complete.
NothingWithinReachIsMissed ==
    truncated = "complete" =>
        \A n \in 0 .. MaxDepth : \A walk \in Walks(n) : landed[walk[n]] # Untried

=============================================================================
