------------------------------ MODULE Delivery ------------------------------
(***************************************************************************)
(* What becomes of a run's posts: REPACK renders them and keeps them       *)
(* within the channels' rules, the review screen shows them, EXPORT sends  *)
(* what was approved and writes a report, the owner is told, MEASURE and   *)
(* the review screen read the report.                                      *)
(*                                                                         *)
(* A body is a sequence of words: an inline hashtag, or one of the two     *)
(* words that make a forbidden claim when they stand together.  A drive    *)
(* may die anywhere in EXPORT; the row is then still parked, and a second  *)
(* approval drives EXPORT again over the same checkpoint and ledger        *)
(* (how often a key is sent is Actuation's subject, which run approves     *)
(* what is AgentGraph's).                                                  *)
(***************************************************************************)
EXTENDS Naturals, Sequences, FiniteSets, SequencesExt, FiniteSetsExt, Filtering

CONSTANTS
    Names,          \* what the model calls the channels
    Canonical,      \* the channel the aliases among them stand for
    Aliases,        \* CHANNEL_ALIASES
    Unspecified,    \* the names no channel spec covers
    HardMax,        \* hard_max_chars, in words
    MaxTags,        \* hashtags_max
    MaxWords,       \* bound: words of a body as the model wrote it
    MaxShared,      \* bound: words of all bodies when there are several
    MaxPlain,       \* bound: words of one post that are no hashtag
    MaxPosts,       \* bound: posts the model returns
    WeeklyCap,
    MaxDrives       \* bound: drives that enter EXPORT

ASSUME DeliveryAssumption ==
    /\ Canonical \in Names
    /\ Aliases \subseteq Names \ {Canonical} /\ Unspecified \subseteq Names \ Aliases
    /\ {HardMax, MaxTags, MaxWords, MaxShared, MaxPlain, MaxPosts, WeeklyCap, MaxDrives} \subseteq Nat

VARIABLES
    posts,          \* posts of the model's answer that REPACK has rendered or withheld
    renderings,     \* state["renderings"], in the order of its keys
    stage,          \* where the run is between REPACK and its last checkpoint
    export,         \* the drive that is in EXPORT
    posted,         \* the rows of actions, one per key
    live,           \* the keys that reached a platform
    told,           \* what the owner's notices said was published
    saved,          \* checkpoint["published"]
    validating      \* whether the tool channel.validate is wired and not revoked at REPACK

deliveryVars == <<posts, renderings, stage, export, posted, live, told, saved, validating>>

-----------------------------------------------------------------------------
(* Text and channels *)

Tag   == "#"
Words == {"claim", "ed", Tag}

\* What the model may write next.
WordsSoFar ==
    Cardinality({spot \in (DOMAIN renderings) \X (1 .. MaxWords) :
                    spot[2] \in DOMAIN renderings[spot[1]].body})
Bodies ==
    {body \in UNION {[1 .. n -> Words] : n \in 1 .. MaxWords} :
        /\ renderings # << >> => WordsSoFar + Len(body) <= MaxShared
        /\ Cardinality({i \in DOMAIN body : body[i] # Tag}) <= MaxPlain}

canonical_channel(name) == IF name \in Aliases THEN Canonical ELSE name
HasSpec(name)           == canonical_channel(name) \notin Unspecified

\* check_claims: the forbidden phrase, its words side by side.
Claims(body) == \E i \in 1 .. Len(body) - 1 : body[i] = "claim" /\ body[i + 1] = "ed"

TagsIn(body) == Cardinality({i \in DOMAIN body : body[i] = Tag})

\* Only a body over the platform's limit is cut.
Trimmed(name, body) ==
    IF HasSpec(name) /\ Len(body) > HardMax THEN SubSeq(body, 1, HardMax) ELSE body

\* enforce_hashtags: the earliest tags stay; a tag that goes joins what stood around it.
WithinTags(body) ==
    {i \in DOMAIN body : body[i] = Tag => TagsIn(SubSeq(body, 1, i)) <= MaxTags}

\* With channel.validate revoked the tags of the text stay as the model wrote them.
InRange(name, body) ==
    IF HasSpec(name) /\ validating THEN Picked(body, WithinTags(body)) ELSE body

\* The claims are looked for in the text as it was before its tags were brought in range.
WithheldEarly(name, body) == Claims(Trimmed(name, body))

\* A post is withheld for what its final text says.
Withheld(name, body) == Claims(InRange(name, Trimmed(name, body)))

-----------------------------------------------------------------------------
(* What the code derives from the checkpoint *)

\* The key of a post: its channel and its text.
PostKey(rendering) == [target |-> canonical_channel(rendering.name), body |-> rendering.body]

\* _publishable: one piece per rendering that has a body.
Pieces ==
    LET filled == Picked(renderings, {i \in DOMAIN renderings : renderings[i].body # << >>})
    IN  [i \in DOMAIN filled |-> PostKey(filled[i])]

\* _stored_posts, the review screen's own reading of the same column.
Shown == {PostKey(r) : r \in {q \in Range(renderings) : q.body # << >>}}

\* number counts the drives that entered EXPORT; fake, no publisher is configured.
NoDrive  == [number |-> 0, fake |-> FALSE, allowed |-> 0, refs |-> << >>]
NoReport == [refs |-> << >>, not_published |-> {}, simulated |-> FALSE, note |-> "none"]

Row(key) == CHOOSE row \in posted : row.key = key
Claimed(key) == \E row \in posted : row.key = key

\* published_since: attempts in flight count, and so does what was only simulated; others, what
\* the business's other runs and its calendar sent.
published_this_week == Cardinality({row \in posted : row.status \in {"in_flight", "succeeded"}})
headroom(others) ==
    LET published == others + published_this_week
    IN  IF WeeklyCap > published THEN WeeklyCap - published ELSE 0

\* A report is simulated only when all of it was.
SimulatedIfAll(refs) == refs # << >> /\ \A i \in DOMAIN refs : refs[i].fake

\* One destination without a credential makes the whole report simulated.
simulated(refs) == \E i \in DOMAIN refs : refs[i].fake

Succeeded(refs) == {refs[i].key : i \in {j \in DOMAIN refs : refs[j].status = "succeeded"}}

\* EXPORT's report: what the cap held back was never attempted.
ReportOf(refs) ==
    [refs          |-> refs,
     not_published |-> {Pieces[i] : i \in {j \in DOMAIN Pieces :
                           j > export.allowed \/ refs[j].status # "succeeded"}},
     simulated     |-> simulated(refs),
     note          |-> "exported"]

\* What the review screen and MEASURE count as published.
Delivered == Succeeded(saved.refs)

-----------------------------------------------------------------------------

DeliveryInit ==
    /\ posts = 0
    /\ renderings = << >>
    /\ stage = "repack"
    /\ export = NoDrive
    /\ posted = {} /\ live = {} /\ told = {}
    /\ saved = NoReport
    /\ validating \in BOOLEAN

\* renderings[name] = ...: a later post under the same name takes the earlier one's place.
Rendered(name, body) ==
    IF \E i \in DOMAIN renderings : renderings[i].name = name
    THEN [i \in DOMAIN renderings |->
             IF renderings[i].name = name THEN [name |-> name, body |-> body] ELSE renderings[i]]
    ELSE Append(renderings, [name |-> name, body |-> body])

\* REPACK takes the posts of the model's answer one by one.
RenderPost ==
    /\ stage = "repack" /\ posts < MaxPosts
    /\ \E name \in Names, body \in Bodies :
           renderings' = IF Withheld(name, body) THEN renderings
                         ELSE Rendered(name, InRange(name, Trimmed(name, body)))
    /\ posts' = posts + 1
    /\ UNCHANGED <<stage, export, posted, live, told, saved, validating>>

\* REVIEW parks the run; its posts do not change from here on.
Park ==
    /\ stage = "repack"
    /\ stage' = "parked"
    /\ UNCHANGED <<posts, renderings, export, posted, live, told, saved, validating>>

\* _export_refusal: nothing to publish, or the publisher revoked or not wired.
ExportRefused ==
    /\ stage = "parked" /\ export.number < MaxDrives
    /\ saved' = [NoReport EXCEPT !.not_published = Range(Pieces), !.note = "refused"]
    /\ export' = [NoDrive EXCEPT !.number = export.number + 1]
    /\ stage' = "over"
    /\ UNCHANGED <<posts, renderings, posted, live, told, validating>>

\* An approved drive enters EXPORT and takes its allowance of the week.
EnterExport ==
    /\ stage = "parked" /\ export.number < MaxDrives
    /\ Pieces # << >>
    /\ \E fake \in BOOLEAN, others \in 0 .. WeeklyCap :
           export' = [number |-> export.number + 1, fake |-> fake, refs |-> << >>,
                     allowed |-> Min({headroom(others), Len(Pieces)})]
    /\ stage' = "exporting"
    /\ UNCHANGED <<posts, renderings, posted, live, told, saved, validating>>

Upcoming(key) == stage = "exporting" /\ Len(export.refs) < export.allowed
              /\ key = Pieces[Len(export.refs) + 1]

\* _outcome_row: what actuate() answered, in the report's words.
Answered(key, status, fake) ==
    export' = [export EXCEPT !.refs = Append(@, [key |-> key, status |-> status, fake |-> fake])]

\* The key's row answers for it; an attempt in flight is refused.
Replay(key) ==
    /\ Upcoming(key) /\ Claimed(key)
    /\ IF Row(key).status = "in_flight" THEN Answered(key, "refused", FALSE)
       ELSE Answered(key, Row(key).status, Row(key).fake)
    /\ UNCHANGED <<posts, renderings, stage, posted, live, told, saved, validating>>

\* Settled, the row says what the answer says; that nothing left is kept for a success alone.
Settled(key, status, fake) ==
    /\ Answered(key, status, fake)
    /\ posted' = posted \cup {[key |-> key, status |-> status,
                               fake |-> fake /\ status = "succeeded"]}

\* SocialPostActuator: a rule of the channel or of the connection stops it; without a publisher
\* it says what it would have done; a platform may fail, and may have published all the same.
Perform(key) ==
    /\ Upcoming(key) /\ ~Claimed(key)
    /\ \/ Settled(key, "refused", export.fake) /\ UNCHANGED live
       \/ /\ HasSpec(key.target) /\ Len(key.body) <= HardMax
          /\ \/ export.fake /\ Settled(key, "succeeded", TRUE) /\ UNCHANGED live
             \/ ~export.fake /\ Settled(key, "succeeded", FALSE) /\ live' = live \cup {key}
             \/ ~export.fake /\ Settled(key, "failed", FALSE)
                /\ live' \in {live, live \cup {key}}
    /\ UNCHANGED <<posts, renderings, stage, told, saved, validating>>

\* The drive ends in the middle of an effect (its process dies, or its row cannot be settled):
\* the row stays in flight, the post may be out.  _perform reports the second as a failure.
Unsettled(key) ==
    /\ posted' = posted \cup {[key |-> key, status |-> "in_flight", fake |-> FALSE]}
    /\ \/ UNCHANGED live
       \/ ~export.fake /\ HasSpec(key.target) /\ Len(key.body) <= HardMax
          /\ live' = live \cup {key}

SettleFails(key) ==
    /\ Upcoming(key) /\ ~Claimed(key)
    /\ Unsettled(key)
    /\ Answered(key, "failed", FALSE)
    /\ UNCHANGED <<posts, renderings, stage, told, saved, validating>>

\* The process dies in EXPORT: the row is still parked and nothing of the drive is saved.
DieExporting ==
    /\ stage = "exporting"
    /\ stage' = "parked"
    /\ export' = [NoDrive EXCEPT !.number = export.number]
    /\ \/ UNCHANGED <<posted, live>>
       \/ \E key \in Range(Pieces) : Upcoming(key) /\ ~Claimed(key) /\ Unsettled(key)
    /\ UNCHANGED <<posts, renderings, told, saved, validating>>

\* ResendSender.send: the request may be accepted and still raise (no answer in time, a body
\* without an id); whether it is then counted as sent is the posted's business.
EmailLeaves == BOOLEAN

\* parse_owner_notice_payload refuses an unusable account address, sender or body before anything
\* leaves; without an API key OwnerNoticeActuator only says what it would have sent.
NoticeLeaves == {FALSE} \cup EmailLeaves

\* _notify_owner: one notice of the whole report, to the account holder, whatever became of the
\* posts; none without an identity or a notifier.
NotifyOwner(report) ==
    \E leaves \in NoticeLeaves :
        told' = IF leaves THEN told \cup {[published |-> Succeeded(report.refs),
                                           simulated |-> report.simulated]}
                ELSE told

\* The loop is over: the report is written and the owner is told.
Report ==
    /\ stage = "exporting" /\ Len(export.refs) = export.allowed
    /\ NotifyOwner(ReportOf(export.refs))
    /\ stage' = "reported"
    /\ UNCHANGED <<posts, renderings, export, posted, live, saved, validating>>

\* MEASURE reads the report and the drive's checkpoint is saved; or the drive dies first.
SaveReport ==
    /\ stage = "reported"
    /\ \/ saved' = ReportOf(export.refs) /\ stage' = "over" /\ UNCHANGED export
       \/ /\ UNCHANGED saved /\ stage' = "parked"
          /\ export' = [NoDrive EXCEPT !.number = export.number]
    /\ UNCHANGED <<posts, renderings, posted, live, told, validating>>

DeliveryNext ==
    \/ RenderPost
    \/ Park
    \/ ExportRefused
    \/ EnterExport
    \/ \E key \in Range(Pieces) : Replay(key) \/ Perform(key) \/ SettleFails(key)
    \/ DieExporting
    \/ Report
    \/ SaveReport

DeliverySpec == DeliveryInit /\ [][DeliveryNext]_deliveryVars

-----------------------------------------------------------------------------
(* Properties *)

PostKeys == [target : Names, body : Seq(Words)]

\* Every variable has its type.
DeliveryTypeOK ==
    /\ posts \in 0 .. MaxPosts
    /\ renderings \in Seq([name : Names, body : Seq(Words)])
    /\ stage \in {"repack", "parked", "exporting", "reported", "over"}
    /\ export.number \in 0 .. MaxDrives /\ export.allowed \in 0 .. MaxPosts
    /\ export.fake \in BOOLEAN /\ Len(export.refs) <= export.allowed
    /\ \A row \in posted : row.key \in PostKeys /\ row.fake \in BOOLEAN
    /\ live \subseteq PostKeys
    /\ saved.simulated \in BOOLEAN /\ saved.not_published \subseteq PostKeys
    /\ validating \in BOOLEAN

\* Whatever is on a platform is, word for word, a text the review screen shows, makes no forbidden
\* claim, and has at most the hashtags its channel takes if channel.validate was there to count
\* them.  Taking a surplus hashtag out of a sentence can bring the two halves of a claim together,
\* so the check has to see the text last.
WhatIsOutWasCleared ==
    \A key \in live :
        /\ key \in Shown
        /\ ~Claims(key.body)
        /\ validating => TagsIn(key.body) <= MaxTags

\* The saved report and the owner's notices are true of the platforms, whatever was replayed,
\* simulated in an earlier drive, or cut off: what is called published without a word about
\* simulation is out; and when the run entered EXPORT once, what its report calls not published
\* is not out, unless the report has its send as failed: a platform may fail to answer and have
\* published.
ReportIsTrue ==
    /\ ~saved.simulated => Delivered \subseteq live
    /\ \A notice \in told : ~notice.simulated => notice.published \subseteq live
    /\ (export.number = 1 /\ saved # NoReport) =>
           \A key \in saved.not_published \cap live :
               \/ key \in Delivered
               \/ \E i \in DOMAIN saved.refs :
                      saved.refs[i].key = key /\ saved.refs[i].status = "failed"

=============================================================================
