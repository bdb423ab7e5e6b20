------------------------------ MODULE SeoAudit ------------------------------
(***************************************************************************)
(* engines/seo: the score VALIDATE gives a draft, whose hints GENERATE is  *)
(* told to follow exactly and to change nothing else, and the audit of the *)
(* pages a business already has, whose hints its owner may follow.         *)
(*                                                                         *)
(* The rules read numbers off a page, and the page is those numbers here:  *)
(* lengths, levels, counts.  A hint is the change it asks for.  A revision *)
(* makes every change the report asks for, each computed from the page as  *)
(* it was judged, as the hints are.                                        *)
(***************************************************************************)
EXTENDS Integers, Sequences, FiniteSets, SequencesExt, FiniteSetsExt

CONSTANTS
    Lengths,        \* characters of a title or description; 0, there is none
    Phrases,        \* words of a keyword; 0, none was supplied
    BodyWords,      \* words of a body as first written
    MaxUses,        \* bound: uses of the keyword as first written
    MaxHeadings,    \* bound: headings of a draft
    MaxFlawed,      \* bound: rules a first draft may fail
    SitePages,      \* pages the crawl stored, the start page among them
    StartPage,
    MAX_EXAMPLES,   \* pages a finding about the site names
    MaxFaulty,      \* bound: respects in which the pages of a site may fail at first
    NewTexts,       \* bound: further texts its owner may write
    Patience        \* bound: revisions of one page

\* What is said of the text of a page that has none, or one beyond its limit.
NoText   == "none"
Overlong == "too long"

ASSUME SeoAssumption ==
    /\ Lengths \cup Phrases \cup BodyWords \subseteq Nat
    /\ {MaxUses, MaxHeadings, MaxFlawed, MaxFaulty, Patience} \subseteq Nat
    /\ MAX_EXAMPLES \in Nat \ {0}
    /\ IsFiniteSet(SitePages) /\ StartPage \in SitePages
    /\ {NoText, Overlong} \cap (SitePages \cup NewTexts) = {}

VARIABLES
    draftPage,        \* the page VALIDATE scores
    site,           \* the pages HARVEST audits
    revisions       \* how often the hints were followed

seoVars == <<draftPage, site, revisions>>

-----------------------------------------------------------------------------
(* The rules of a draft: each gives the severity of its finding *)

TITLE_TARGET == 50 .. 60
TITLE_HARD   == 30 .. 70
META_TARGET  == 140 .. 160

check_title_length(d) ==
    CASE d.title \in TITLE_TARGET -> "info"
      [] d.title \in TITLE_HARD \ TITLE_TARGET -> "warn"
      [] OTHER -> "error"

check_meta_length(d) ==
    CASE d.meta = 0 -> "error" [] d.meta \in META_TARGET -> "info" [] OTHER -> "warn"

\* The share of the body's words the keyword's make up, in ten thousandths.
DENSITY_MIN_PER_10K == 80
DENSITY_MAX_PER_10K == 250

\* Faulty variant.
RoundedDown(a, b) == a \div b

_ceil_div(a, b) == -((-a) \div b)
min_occurrences(d) == _ceil_div(DENSITY_MIN_PER_10K * d.words, 10000 * d.phrase)
max_occurrences(d) == (DENSITY_MAX_PER_10K * d.words) \div (10000 * d.phrase)
below_band(d) == d.uses * d.phrase * 10000 < DENSITY_MIN_PER_10K * d.words
above_band(d) == d.uses * d.phrase * 10000 > DENSITY_MAX_PER_10K * d.words

\* A keyword of no word cannot be scored, whatever the body says.
check_keyword_density(d) ==
    CASE d.phrase = 0 \/ d.words = 0 -> "error"
      [] d.phrase # 0 /\ d.words # 0 /\ ~below_band(d) /\ ~above_band(d) -> "info"
      [] d.phrase # 0 /\ d.words # 0 /\ d.uses = 0 -> "error"
      [] OTHER -> "warn"

check_readability(d) == IF d.words > 0 /\ d.easy THEN "info" ELSE "warn"

Tops(h)  == {i \in DOMAIN h : h[i] = 1}
Skips(h) == {i \in DOMAIN h \ {1} : h[i] > h[i - 1] + 1}
check_heading_tree(d) ==
    IF Cardinality(Tops(d.headings)) = 1 /\ Skips(d.headings) = {} THEN "info" ELSE "error"

MIN_INTERNAL_LINKS == 1
MIN_EXTERNAL_LINKS == 2
check_internal_links(d) == IF d.internal >= MIN_INTERNAL_LINKS THEN "info" ELSE "error"
check_external_links(d) == IF d.external >= MIN_EXTERNAL_LINKS THEN "info" ELSE "warn"

\* An image without an alt attribute, or with a blank one.
check_image_alt(d) == IF d.absent + d.blank = 0 THEN "info" ELSE "warn"

\* validate_jsonld: a block counts with its context, a type, and what its type requires.
RequiredOf(type) == CASE type = "FAQPage" -> {"mainEntity"}
                      [] type = "LocalBusiness" -> {"name", "address"}
                      [] type = "Article" -> {"headline"}
                      [] OTHER -> {}
validate_jsonld(block) == block.context /\ RequiredOf(block.type) \subseteq block.props

check_schema(d) == IF \E block \in d.blocks : validate_jsonld(block) THEN "info" ELSE "warn"

-----------------------------------------------------------------------------
(* The score *)

score_page(d) ==
    [title_length    |-> check_title_length(d),    meta_length    |-> check_meta_length(d),
     heading_tree    |-> check_heading_tree(d),    keyword_density |-> check_keyword_density(d),
     readability     |-> check_readability(d),     internal_links |-> check_internal_links(d),
     external_links  |-> check_external_links(d),  image_alt      |-> check_image_alt(d),
     schema_invalid  |-> check_schema(d)]

RULE_WEIGHTS ==
    [title_length |-> 15, heading_tree |-> 15, keyword_density |-> 12, internal_links |-> 12,
     meta_length |-> 10, readability |-> 10, schema_invalid |-> 10, external_links |-> 8,
     image_alt |-> 8]

PASS_SCORE == 85

\* penalty_for, in half points.
penalty_for(code, severity) ==
    CASE severity = "error" -> 2 * RULE_WEIGHTS[code]
      [] severity = "warn"  -> RULE_WEIGHTS[code]
      [] OTHER              -> 0

penalty(report) ==
    LET of(code) == penalty_for(code, report[code]) IN
    of("title_length") + of("meta_length") + of("heading_tree") + of("keyword_density")
    + of("readability") + of("internal_links") + of("external_links") + of("image_alt")
    + of("schema_invalid")

\* Halves are rounded up.
score(report) == Max({0, (200 - penalty(report) + 1) \div 2})

ErrorsOf(report) == {code \in DOMAIN report : report[code] = "error"}
passed(report)   == score(report) >= PASS_SCORE /\ ErrorsOf(report) = {}

-----------------------------------------------------------------------------
(* The hints of a draft *)

\* "Change it to <h{parent + 1}> or add an intervening <h{parent + 1}>."
NextLevel(h, i) == h[i - 1] + 1

\* Of the headings that skip, those in added get an intervening one and the others are
\* retagged; all tops but the one kept become second-level; a page without a top gets one.
\* Heading i ends up at place(i), and an intervening one before it.
Retitled(h, kept, added) ==
    LET level(i) == CASE i \in Skips(h) \ added  -> NextLevel(h, i)
                      [] i \in Tops(h) \ {kept} -> 2
                      [] OTHER                  -> h[i]
        place(i) == i + Cardinality(added \cap 1 .. i)
        from(k)    == 1 + Cardinality({i \in DOMAIN h : place(i) < k})
        own      == [k \in 1 .. Len(h) + Cardinality(added) |->
                       IF from(k) \in added /\ k < place(from(k)) THEN NextLevel(h, from(k))
                                                            ELSE level(from(k))]
    IN  IF Tops(h) = {} THEN <<1>> \o own ELSE own
HeadingHints(h) ==
    {Retitled(h, kept, added) :
        kept \in IF Tops(h) = {} THEN {0} ELSE Tops(h), added \in SUBSET Skips(h)}

\* What the hints make of the body as it was measured.  A page without one is given one, by
\* the hint of its readability too.  Uses are added to it, or give way to one word each; a
\* body too short for any count is first expanded, at least to where one fits.  A keyword
\* that is missing is asked of the request, which no draft can answer.
Expanded(d) == _ceil_div(10000 * d.phrase, DENSITY_MAX_PER_10K)
Using(d, uses) == [d EXCEPT !.uses = uses, !.words = @ + (uses - d.uses) * d.phrase]
FittingCounts(d) == min_occurrences(d) .. max_occurrences(d)
DensityHints(d) ==
    IF check_keyword_density(d) = "info" THEN {d}
    ELSE IF d.words = 0 THEN {[d EXCEPT !.words = w, !.uses = 0] : w \in BodyWords \ {0}}
    ELSE IF d.phrase = 0 THEN {d}
    ELSE IF FittingCounts(d) = {}
    THEN LET Longer(w) == [d EXCEPT !.words = w] IN
         UNION {{[Longer(w) EXCEPT !.uses = n] : n \in FittingCounts(Longer(w))} :
                   w \in {Expanded(d)} \cup {b \in BodyWords : b >= Expanded(d)}}
    ELSE IF d.uses = 0 THEN {Using(d, n) : n \in FittingCounts(d)}
    ELSE IF below_band(d) THEN {Using(d, d.uses + Max({min_occurrences(d) - d.uses, 1}))}
    ELSE {[d EXCEPT !.uses = max_occurrences(d),
                    !.words = @ - (d.uses - max_occurrences(d)) * (d.phrase - 1)]}

WellFormed == [context |-> TRUE, type |-> "Article", props |-> {"headline"}]

\* A page with some of what is read off it replaced.
Changed(page, change) ==
    [f \in DOMAIN page |-> IF f \in DOMAIN change THEN change[f] ELSE page[f]]

\* The drafts that follow every hint and change nothing else.  A missing alt text is written,
\* or left blank on an image that is decorative, as its hint allows.
Revised(d) ==
    LET judged == score_page(d) Flawed(code) == judged[code] # "info" IN
    {Changed(worded, change) :
        worded \in DensityHints(d),
        change \in
            [title    : IF Flawed("title_length") THEN Lengths \cap TITLE_TARGET ELSE {d.title},
             meta     : IF Flawed("meta_length") THEN Lengths \cap META_TARGET ELSE {d.meta},
             headings : HeadingHints(d.headings),
             easy     : {TRUE},
             internal : {Max({d.internal, MIN_INTERNAL_LINKS})},
             external : {Max({d.external, MIN_EXTERNAL_LINKS})},
             absent   : {0},
             blank    : 0 .. d.absent + d.blank,
             blocks   : IF Flawed("schema_invalid") THEN {d.blocks \cup {WellFormed}}
                                                    ELSE {d.blocks}]}

-----------------------------------------------------------------------------
(* The audit of a site *)

\* The texts of titles and descriptions.  A page whose text is its alone may have its name.
FittingTexts == SitePages \cup NewTexts
SiteTexts == FittingTexts \cup {NoText, Overlong}

_title_finding(p) ==
    CASE site[p].title = NoText -> {"title_missing"}
      [] site[p].title = Overlong -> {"title_length"}
      [] OTHER -> {}
_meta_finding(p) ==
    CASE site[p].meta = NoText -> {"meta_missing"}
      [] site[p].meta = Overlong -> {"meta_length"}
      [] OTHER -> {}
_h1_finding(p) ==
    CASE site[p].h1s = 0 -> {"h1_missing"} [] site[p].h1s = 1 -> {} [] OTHER -> {"h1_multiple"}

\* Here a blank alt text is a description: it says the image carries no meaning.
_page_flags(p) ==
    {flag \in {"thin_content", "image_alt", "schema_missing"} : flag \in site[p].flaws}

\* A link to the page itself is one of its internal links.
_internal_links_finding(p) == IF site[p].links = {} THEN {"internal_links"} ELSE {}

_audit_page(p) == _title_finding(p) \cup _meta_finding(p) \cup _h1_finding(p)
                  \cup _page_flags(p) \cup _internal_links_finding(p)

\* _duplicate_finding: the pages whose text another page has as well; no text is not a text.
SharesTitle(p) ==
    site[p].title # NoText /\ (\E q \in SitePages \ {p} : site[q].title = site[p].title)
SharesMeta(p) ==
    site[p].meta # NoText /\ (\E q \in SitePages \ {p} : site[q].meta = site[p].meta)
SharedTitles == {p \in SitePages : SharesTitle(p)}
SharedMetas  == {p \in SitePages : SharesMeta(p)}

\* Faulty variant: the addresses are compared as they are written.
ComparedRaw == IF Cardinality(SitePages) < 2 THEN {} ELSE SitePages \ {StartPage}

\* The pages that no page, they themselves included, links to.
_orphans ==
    IF Cardinality(SitePages) < 2 THEN {}
    ELSE SitePages \ ({StartPage} \cup UNION {site[p].links : p \in SitePages})

\* A finding, and the pages it is about.
_site_findings ==
    {f \in {[code |-> "duplicate_title", pages |-> SharedTitles],
           [code |-> "duplicate_meta", pages |-> SharedMetas],
           [code |-> "orphan_pages", pages |-> _orphans]} : f.pages # {}}

audit_site ==
    _site_findings \cup UNION {{[code |-> c, pages |-> {p}] : c \in _audit_page(p)} : p \in SitePages}

\* The pages a finding about the site names: the first of them in the order of the crawl,
\* which the links made since the last audit may have changed.
Examples(pages) ==
    IF Cardinality(pages) <= MAX_EXAMPLES THEN {pages}
    ELSE {named \in SUBSET pages : Cardinality(named) = MAX_EXAMPLES}

-----------------------------------------------------------------------------
(* The hints of an audit *)

\* The rewritten texts of the pages flagged, each fitting; a page named for sharing its text
\* gets one of its own, which neither a page had nor another such page gets.
Rewritten(text, flagged, sharing) ==
    {new \in [SitePages -> SiteTexts] :
        /\ \A p \in SitePages :
              IF p \in flagged THEN new[p] \in FittingTexts ELSE new[p] = text[p]
        /\ \A p \in sharing, q \in SitePages :
              q # p => new[p] # text[q] /\ (q \in sharing => new[p] # new[q])}

\* A page that links nowhere links to another one; every orphan named is linked from another.
Relinked(links, orphans) ==
    {new \in [SitePages -> SUBSET SitePages] :
        \A p \in SitePages :
            /\ links[p] \subseteq new[p]
            /\ _internal_links_finding(p) # {} => new[p] \ {p} # {}
            /\ _internal_links_finding(p) = {} => new[p] \ links[p] \subseteq orphans \ {p}
            /\ p \in orphans => \E q \in SitePages \ {p} : p \in new[q]}

TitlesOfSite == [p \in SitePages |-> site[p].title]
MetasOfSite  == [p \in SitePages |-> site[p].meta]
LinksOfSite  == [p \in SitePages |-> site[p].links]

-----------------------------------------------------------------------------
(* The pages at the start *)

Flawless == [title |-> 55, meta |-> 150, phrase |-> 1, words |-> 400, uses |-> 5, easy |-> TRUE,
             headings |-> <<1, 2>>, internal |-> 1, external |-> 2, absent |-> 0, blank |-> 0,
             blocks |-> {WellFormed}]
Unaddressed == [context |-> TRUE, type |-> "LocalBusiness", props |-> {"name"}]

\* Drafts with nothing to report but by these rules: a text has no uses of no keyword.
FirstDrafts(codes) ==
    LET Ranging(code, values, value) == IF code \in codes THEN values ELSE {value} IN
    [title    : Ranging("title_length", Lengths, 55),
     meta     : Ranging("meta_length", Lengths, 150),
     phrase   : Ranging("keyword_density", Phrases, 1),
     words    : Ranging("keyword_density", BodyWords, 400),
     uses     : Ranging("keyword_density", 0 .. MaxUses, 5),
     easy     : Ranging("readability", BOOLEAN, TRUE),
     headings : Ranging("heading_tree", UNION {[1 .. n -> 1 .. 6] : n \in 0 .. MaxHeadings}, <<1, 2>>),
     internal : Ranging("internal_links", 0 .. 1, 1),
     external : Ranging("external_links", 0 .. 2, 2),
     absent   : Ranging("image_alt", 0 .. 1, 0),
     blank    : Ranging("image_alt", 0 .. 1, 0),
     blocks   : Ranging("schema_invalid", {{}, {Unaddressed}}, {WellFormed})]

Drafts ==
    {d \in UNION {FirstDrafts(codes) : codes \in
                     {flawed \in SUBSET DOMAIN RULE_WEIGHTS : Cardinality(flawed) <= MaxFlawed}} :
        d.uses * d.phrase <= d.words /\ (d.phrase = 0 => d.uses = 0)}

\* A site with nothing to report, and sites with faults in these respects.
GoodPage(p) == [title |-> p, meta |-> p, h1s |-> 1, flaws |-> {}, links |-> SitePages]
GoodSite == [p \in SitePages |-> GoodPage(p)]
Respects == {"title", "meta", "h1s", "flaws", "links"}
Built(faulty) ==
    LET Ranging(f, values) == IF f \in faulty THEN [SitePages -> values]
                                            ELSE {[p \in SitePages |-> GoodPage(p)[f]]} IN
    {[p \in SitePages |-> [f \in Respects |-> s[f][p]]] : s \in
        [title: Ranging("title", SiteTexts), meta: Ranging("meta", SiteTexts),
         h1s: Ranging("h1s", 0 .. 2),
         flaws: Ranging("flaws", SUBSET {"thin_content", "image_alt", "schema_missing"}),
         links: Ranging("links", SUBSET SitePages)]}
Sites == UNION {Built(faulty) : faulty \in {fs \in SUBSET Respects : Cardinality(fs) <= MaxFaulty}}

SeoInit ==
    /\ revisions = 0
    /\ \/ draftPage \in Drafts /\ site = GoodSite
       \/ draftPage = Flawless /\ site \in Sites

-----------------------------------------------------------------------------
(* The steps *)

\* GENERATE with the hints of the draft VALIDATE refused.
ReviseDraft ==
    /\ ~passed(score_page(draftPage)) /\ revisions < Patience
    /\ draftPage' \in Revised(draftPage)
    /\ revisions' = revisions + 1
    /\ UNCHANGED site

\* The owner with the hints of an audit that found something, for the pages it names.
ReviseSite ==
    /\ audit_site # {} /\ revisions < Patience
    /\ \E sameTitle \in Examples(SharedTitles), sameMeta \in Examples(SharedMetas),
          orphans \in Examples(_orphans) :
       \E titles \in Rewritten(TitlesOfSite,
                               {p \in SitePages : _title_finding(p) # {}} \cup sameTitle, sameTitle),
          metas \in Rewritten(MetasOfSite,
                              {p \in SitePages : _meta_finding(p) # {}} \cup sameMeta, sameMeta),
          links \in Relinked(LinksOfSite, orphans) :
        site' = [p \in SitePages |->
                    [title |-> titles[p], meta |-> metas[p], h1s |-> 1, flaws |-> {},
                     links |-> links[p]]]
    /\ revisions' = revisions + 1
    /\ UNCHANGED draftPage

SeoNext == ReviseDraft \/ ReviseSite
SeoSpec == SeoInit /\ [][SeoNext]_seoVars

-----------------------------------------------------------------------------
(* What must hold *)

\* Every variable has its type.
SeoTypeOK ==
    /\ revisions \in 0 .. Patience
    /\ {draftPage.title, draftPage.meta, draftPage.words, draftPage.uses, draftPage.internal,
        draftPage.external, draftPage.absent, draftPage.blank} \subseteq Nat
    /\ draftPage.phrase \in Nat /\ draftPage.uses * draftPage.phrase <= draftPage.words
    /\ draftPage.easy \in BOOLEAN
    /\ DOMAIN draftPage.headings = 1 .. Len(draftPage.headings)
    /\ Range(draftPage.headings) \subseteq 1 .. 6
    /\ \A p \in SitePages :
          /\ site[p].title \in SiteTexts /\ site[p].meta \in SiteTexts /\ site[p].h1s \in 0 .. 2
          /\ site[p].links \subseteq SitePages

\* Advice comes to rest: five rounds of hints are enough for every draft, but one whose
\* request names no keyword, which keeps that one error for ever.  A heading's hint is computed
\* from the level its parent had, which the same round may change, so a round can make a
\* skip; but of a lower heading each time.  A site is done when, after a first round, as many
\* pages could be named as it has: five pages are done after two rounds.
AdviceComesToRest ==
    /\ revisions >= 5 => IF draftPage.phrase = 0
                         THEN ErrorsOf(score_page(draftPage)) = {"keyword_density"}
                         ELSE passed(score_page(draftPage))
    /\ revisions > 1 /\ (revisions - 1) * MAX_EXAMPLES >= Cardinality(SitePages) => audit_site = {}

\* Of these pages as many are left as could not be named, and no other joined them.
Fewer(after, before) ==
    /\ after \subseteq before
    /\ after = {} \/ Cardinality(after) + MAX_EXAMPLES <= Cardinality(before)

\* The hints are worth following: a draft that follows every hint of its score, and changes
\* nothing else, never scores lower and has no error it did not have; two rounds leave no
\* error but of headings and of a keyword that is missing, and five none of headings.  A site
\* that follows its audit has no finding left of one page; its orphans get fewer by those the
\* audit named, and so, from the second round on, do the pages that share a text: in the
\* first two may be given the same.  The rules are judged apart while their hints change one
\* page, so following one may undo what another asked for.
AdviceHelps ==
    [][ revisions' > revisions =>
          /\ score(score_page(draftPage')) >= score(score_page(draftPage))
          /\ ErrorsOf(score_page(draftPage')) \subseteq ErrorsOf(score_page(draftPage))
          /\ \A p \in SitePages : _audit_page(p)' = {}
          /\ Fewer(_orphans', _orphans)
          /\ revisions' > 1 =>
                /\ ErrorsOf(score_page(draftPage'))
                      \subseteq IF draftPage.phrase = 0 THEN {"heading_tree", "keyword_density"}
                                                       ELSE {"heading_tree"}
                /\ Fewer(SharedTitles', SharedTitles) /\ Fewer(SharedMetas', SharedMetas)
          /\ AdviceComesToRest' ]_seoVars

=============================================================================
