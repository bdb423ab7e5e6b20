------------------------------ MODULE LeadLoop ------------------------------
(***************************************************************************)
(* From a published piece to a lead: engines/landing, landing_service, the *)
(* links of services/link_service and api/links, the pages of api/pages,   *)
(* the forms of api/leads, and the rows of db/adapters/lead_store and      *)
(* content_store.                                                          *)
(*                                                                         *)
(* A publication is one execution of publish_landing_page or               *)
(* publish_distribution.  It commits the piece, then each link, then each  *)
(* link's target, one transaction after another, so visitors walk through  *)
(* what is half published and a crash leaves it so.  A visitor follows at  *)
(* most one link and sends at most one form.                               *)
(*                                                                         *)
(* Nothing obliges a step to be taken.  A process that dies, a store call  *)
(* that raises, a click whose write is swallowed (_record_click_safely), a *)
(* form refused or quietly ignored: each is a behaviour that goes no       *)
(* further there.                                                          *)
(***************************************************************************)
EXTENDS Naturals, Sequences, FiniteSets

CONSTANTS
    Publications,       \* executions that publish a piece and its links
    Visitors,
    Codes,              \* short codes new_code() may draw
    Businesses,
    MaxCtas,            \* bound: links of a piece
    MAX_CODE_ATTEMPTS

NoCode  == "no code"
NoOwner == "no business"

ASSUME LeadLoopAssumption ==
    /\ IsFiniteSet(Visitors) /\ IsFiniteSet(Codes)
    /\ MaxCtas \in Nat /\ MAX_CODE_ATTEMPTS \in Nat \ {0}
    /\ NoCode \notin Codes /\ NoOwner \notin Businesses

VARIABLES
    publication,    \* what each publication has done; its piece's row is part of it
    short_links,    \* the rows of short_links, by code
    link_clicks,    \* the rows of link_clicks
    leads,          \* the rows of leads
    visitor         \* what each visitor and the requests made for them have done

leadVars == <<publication, short_links, link_clicks, leads, visitor>>

-----------------------------------------------------------------------------
(* Rows *)

\* The piece is live from the moment it exists: an article is stored approved, a landing
\* page published.  ctas says of each whether create_link takes its channel.
Unpublished == [step |-> "idle", owner |-> NoOwner, surface |-> "none", answerable |-> FALSE,
                ctas |-> << >>, minted |-> << >>, tries |-> 0]

\* ref is the code in the target's query, once the link has been retargeted.
NoLink == [owner |-> NoOwner, by |-> CHOOSE p \in Publications : TRUE, ref |-> NoCode,
           click_count |-> 0]

\* resolve: the code's row, whosever it is.
Exists(code) == code # NoCode /\ short_links[code].owner # NoOwner

\* list_hub_ctas: a link is listed with its row, whether or not it has its target yet.
hub(owner) == {c \in Codes : Exists(c) /\ short_links[c].owner = owner}

\* told is whether the link had been handed out; resent, whether the form came back once.
Newcomer == [step |-> "away", code |-> NoCode, ref |-> NoCode, page |-> NoLink.by,
             click |-> "none", human |-> TRUE, told |-> FALSE, resent |-> FALSE,
             link |-> NoCode]

LeadInit ==
    /\ publication = [p \in Publications |-> Unpublished]
    /\ short_links = [c \in Codes |-> NoLink]
    /\ link_clicks = {}
    /\ leads = {}
    /\ visitor = [v \in Visitors |-> Newcomer]

SetPublication(p, new) == publication' = [publication EXCEPT ![p] = new]
SetVisitor(v, new)     == visitor' = [visitor EXCEPT ![v] = new]

Page(p)   == publication[p].surface = "landing_page"
Minted(p) == {publication[p].minted[i] : i \in DOMAIN publication[p].minted}
HandedOut(code) == \E p \in Publications : publication[p].step = "told" /\ code \in Minted(p)

-----------------------------------------------------------------------------
(* The page's spec and its checks: a text is there or blank, and a check says whether it *)
(* finds an error.  A warning lowers the score, on which publishing does not depend.     *)

FormFieldName  == {"name", "email", "phone"}
KNOWN_CHANNELS == {"facebook", "linkedin"}
Channels       == KNOWN_CHANNELS \cup {"unheard of"}

LandingPageSpec(most) ==
    [headline: BOOLEAN, offer: BOOLEAN, primary_cta: BOOLEAN, consent_text: BOOLEAN,
     proof_points: SUBSET {"sourced", "unsourced", "empty"},
     form_fields: UNION {[1 .. n -> FormFieldName] : n \in 0 .. 2},
     ctas: UNION {[1 .. n -> [channel: Channels, text: BOOLEAN]] : n \in 0 .. most}]

Repeats(s) == \E i, j \in DOMAIN s : i < j /\ s[i] = s[j]

_check_headline(spec)      == ~spec.headline
_check_offer(spec)         == ~spec.offer
_check_proof_sources(spec) == spec.proof_points \cap {"unsourced", "empty"} # {}
_check_form_fields(spec)   == spec.form_fields = << >> \/ Repeats(spec.form_fields)

REACHABLE_FIELDS == {"email", "phone"}
_check_reachability(spec)  == \A i \in DOMAIN spec.form_fields :
                                 spec.form_fields[i] \notin REACHABLE_FIELDS

_check_primary_cta(spec)   == ~spec.primary_cta
_check_consent(spec)       == ~spec.consent_text

\* Only what has a text counts as an ask; the others are not looked at.
_check_channel_ctas(spec) ==
    LET Written(cta) == cta.text  usable == SelectSeq(spec.ctas, Written)
        channels == [i \in DOMAIN usable |-> usable[i].channel] IN
    \/ usable = << >>
    \/ \E i \in DOMAIN channels : channels[i] \notin KNOWN_CHANNELS
    \/ Repeats(channels)

\* check_landing_page has an error to report.
HasErrors(spec) ==
    \/ _check_headline(spec)    \/ _check_offer(spec)       \/ _check_proof_sources(spec)
    \/ _check_form_fields(spec) \/ _check_reachability(spec) \/ _check_primary_cta(spec)
    \/ _check_consent(spec)     \/ _check_channel_ctas(spec)

\* render_landing_page raises rather than render a page without these.
_refusals(spec) == spec.form_fields = << >> \/ ~spec.primary_cta \/ ~spec.consent_text

\* What the rest depends on: whether _form renders a field to answer to, and of every cta,
\* those without a text among them, whether its channel has tags.
Laid(spec) ==
    [answerable |-> \E i \in DOMAIN spec.form_fields : spec.form_fields[i] \in REACHABLE_FIELDS,
     ctas |-> [i \in DOMAIN spec.ctas |-> spec.ctas[i].channel \in KNOWN_CHANNELS]]

Publishable ==
    {Laid(spec) : spec \in {s \in LandingPageSpec(MaxCtas) : ~HasErrors(s) /\ ~_refusals(s)}}

\* What the distribution's plan may ask for; only its texts and channels were seen to be there.
Plans == UNION {[1 .. n -> BOOLEAN] : n \in 1 .. MaxCtas}

-----------------------------------------------------------------------------
(* Publishing *)

Begin(p, surface, answerable, ctas) ==
    /\ publication[p].step = "idle"
    /\ \E owner \in Businesses :
          SetPublication(p, [Unpublished EXCEPT !.step = "minting", !.owner = owner,
                              !.surface = surface, !.answerable = answerable,
                              !.ctas = ctas])
    /\ UNCHANGED <<short_links, link_clicks, leads, visitor>>

\* A spec with an error leaves no trace.
publish_landing_page(p) ==
    \E page \in Publishable : Begin(p, "landing_page", page.answerable, page.ctas)

\* So does a destination of another origin than the business's site.
publish_distribution(p) ==
    \E ctas \in Plans : Begin(p, "article", FALSE, ctas)

\* create_link: a channel that has no tags raises; a drawn code that is taken is drawn again,
\* until the attempts are used up.
create_link(p) ==
    LET now == publication[p] next == Len(now.minted) + 1 IN
    /\ now.step = "minting" /\ next <= Len(now.ctas)
    /\ \E code \in Codes :
          IF ~now.ctas[next] \/ Exists(code)
          THEN /\ SetPublication(p, [now EXCEPT !.tries = @ + 1,
                      !.step = IF ~now.ctas[next] \/ now.tries + 1 = MAX_CODE_ATTEMPTS
                               THEN "raised" ELSE @])
               /\ UNCHANGED short_links
          ELSE /\ SetPublication(p, [now EXCEPT !.step = "retargeting", !.tries = 0,
                                                !.minted = Append(@, code)])
               /\ short_links' = [short_links EXCEPT ![code] =
                                    [NoLink EXCEPT !.owner = now.owner, !.by = p]]
    /\ UNCHANGED <<link_clicks, leads, visitor>>

\* with_ref: the target carries the code of the link that leads to it.
with_ref(code) == code

retarget_link(p) ==
    LET now == publication[p] code == now.minted[Len(now.minted)] IN
    /\ now.step = "retargeting"
    /\ short_links' = [short_links EXCEPT ![code].ref = with_ref(code)]
    /\ SetPublication(p, [now EXCEPT !.step = "minting"])
    /\ UNCHANGED <<link_clicks, leads, visitor>>

\* Every link stands: the addresses go into the run's checkpoint or the ledger's outcome.
Tell(p) ==
    LET now == publication[p] IN
    /\ now.step = "minting" /\ Len(now.minted) = Len(now.ctas)
    /\ SetPublication(p, [now EXCEPT !.step = "told"])
    /\ UNCHANGED <<short_links, link_clicks, leads, visitor>>

-----------------------------------------------------------------------------
(* Following a link *)

\* follow: the redirect goes where the row points now, to a page of ours or to the business's
\* own site, and the click is written after the answer.  An unknown code changes nothing.
follow(v) ==
    /\ visitor[v].step = "away"
    /\ \E owner \in Businesses, human \in BOOLEAN : \E code \in hub(owner) :
          LET link == short_links[code] IN
          SetVisitor(v, [Newcomer EXCEPT
              !.step = IF Page(link.by) THEN "reading" ELSE "gone",
              !.code = code, !.ref = link.ref, !.page = link.by, !.click = "pending",
              !.human = human, !.told = HandedOut(code)])
    /\ UNCHANGED <<publication, short_links, link_clicks, leads>>

\* _COUNT_CLICK: incremented in the database.
click_count(v) == short_links[visitor[v].code].click_count + 1

\* record_click: the row and, for a human, the counter in one transaction.
record_click(v) ==
    LET now == visitor[v] IN
    /\ now.click = "pending"
    /\ link_clicks' = link_clicks \cup {[by |-> v, code |-> now.code, is_bot |-> ~now.human]}
    /\ short_links' = IF now.human
                      THEN [short_links EXCEPT ![now.code].click_count = click_count(v)]
                      ELSE short_links
    /\ SetVisitor(v, [now EXCEPT !.click = "done"])
    /\ UNCHANGED <<publication, leads>>

-----------------------------------------------------------------------------
(* The page and its form *)

\* landing_page: the ref of the address goes into the form.  An address may also be typed,
\* with any code in it or none.
landing_page(v) ==
    /\ visitor[v].step = "away"
    /\ \E p \in Publications, ref \in Codes \cup {NoCode} :
          /\ Page(p)
          /\ SetVisitor(v, [Newcomer EXCEPT !.step = "reading", !.page = p, !.ref = ref])
    /\ UNCHANGED <<publication, short_links, link_clicks, leads>>

\* Faulty variant: any link that exists is credited, whosever it is.
AnyLink(owner, ref) == IF Exists(ref) THEN ref ELSE NoCode

\* A code of another business, or of nobody, is dropped and the lead is kept.
_attributed_link(owner, ref) ==
    IF Exists(ref) /\ short_links[ref].owner = owner THEN ref ELSE NoCode

\* LeadSubmission takes an email address that looks like one or a phone number.  Of these a
\* person can send what the page has a field for, and the browser lets other things through:
\* an address without a dot, or no address.
Usable(page) == publication[page].answerable

\* submit_form: too many, too large, or the field filled in that no human sees: no trace is
\* left and the visitor goes no further.
submit_form(v) ==
    LET now == visitor[v] IN
    /\ now.step = "reading" /\ Usable(now.page)
    /\ SetVisitor(v, [now EXCEPT !.step = "storing",
                         !.link = _attributed_link(publication[now.page].owner, now.ref)])
    /\ UNCHANGED <<publication, short_links, link_clicks, leads>>

\* _answer: what the schema refuses is sent back to the page's own address, which carries no
\* code, and the form is shown again.
SendBack(v) ==
    LET now == visitor[v] IN
    /\ now.step = "reading"
    /\ SetVisitor(v, [now EXCEPT !.ref = NoCode, !.resent = TRUE])
    /\ UNCHANGED <<publication, short_links, link_clicks, leads>>

\* _assert_link_visible: the row level policy shows a business its own links.
LinkVisible(link, owner) == link = NoCode \/ short_links[link].owner = owner

\* create_lead: a link its business cannot see is an error.
create_lead(v) ==
    LET now == visitor[v] owner == publication[now.page].owner IN
    /\ now.step = "storing"
    /\ IF LinkVisible(now.link, owner)
       THEN /\ SetVisitor(v, [now EXCEPT !.step = "received"])
            /\ leads' = leads \cup {[by |-> v, owner |-> owner, piece |-> now.page,
                                     short_link |-> now.link]}
       ELSE /\ SetVisitor(v, [now EXCEPT !.step = "unknown_link"])
            /\ UNCHANGED leads
    /\ UNCHANGED <<publication, short_links, link_clicks>>

-----------------------------------------------------------------------------

LeadNext ==
    \/ \E p \in Publications :
          \/ publish_landing_page(p) \/ publish_distribution(p)
          \/ create_link(p) \/ retarget_link(p) \/ Tell(p)
    \/ \E v \in Visitors :
          \/ follow(v) \/ record_click(v)
          \/ landing_page(v) \/ submit_form(v) \/ SendBack(v) \/ create_lead(v)

LeadSpec == LeadInit /\ [][LeadNext]_leadVars

-----------------------------------------------------------------------------
(* Properties *)

LeadTypeOK ==
    /\ \A p \in Publications :
          /\ publication[p].step \in {"idle", "minting", "retargeting", "told", "raised"}
          /\ Len(publication[p].minted) <= Len(publication[p].ctas)
          /\ publication[p].tries \in 0 .. MAX_CODE_ATTEMPTS
    /\ \A c \in Codes : short_links[c].ref \in {NoCode, c}
    /\ link_clicks \subseteq [by: Visitors, code: Codes, is_bot: BOOLEAN]
    /\ leads \subseteq [by: Visitors, owner: Businesses, piece: Publications,
                        short_link: Codes \cup {NoCode}]

\* A page that is published can be answered, whatever its spec.  A visitor whose form was
\* taken has one lead, with the business of the page; if a link that had been handed out
\* brought them and their first form was the one taken, the lead names it.  And no form is
\* lost because of the code it carried, be it another business's (check_landing_page,
\* submit_form, _attributed_link).
LeadsReachTheirOwner ==
    \A v \in Visitors :
        LET mine == {l \in leads : l.by = v} IN
        /\ visitor[v].step # "unknown_link"
        /\ visitor[v].step = "reading" => Usable(visitor[v].page)
        /\ visitor[v].step = "received" =>
              \E l \in mine :
                  /\ mine = {l}
                  /\ l.owner = publication[visitor[v].page].owner
                  /\ l.short_link # NoCode => short_links[l.short_link].owner = l.owner
                  /\ visitor[v].told /\ ~visitor[v].resent => l.short_link = visitor[v].code

=============================================================================
