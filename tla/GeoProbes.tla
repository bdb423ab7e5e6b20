------------------------------ MODULE GeoProbes ------------------------------
(***************************************************************************)
(* services/geo_service and db/adapters/probe_store: a business's fixed    *)
(* question set is asked of the models, the answers are read, scored       *)
(* against the previous run, and stored.  Nothing names a run: the store   *)
(* decides from the clock whether a save is a new run or the retry of a    *)
(* recent one, and several runs of one business may be in flight (a resume *)
(* after a crash, two runs started together).                              *)
(*                                                                         *)
(* An answer's text is abstracted to what detection tells apart.  `cited`  *)
(* is read and counted exactly as `mentioned` is and is left out.          *)
(***************************************************************************)
EXTENDS Naturals, FiniteSets

CONSTANTS
    Probers,        \* who may have a probe run of the business in flight
    GeoModels,      \* the models a run asks
    Brands, Towns, Offers,  \* names, cities and services the owner may confirm
    Spoken,         \* bound: of the locales, those the owner may confirm
    Asked,          \* bound: of the categories, those a run asks
    Window,         \* RUN_DEDUPE_WINDOW
    GeoHorizon,     \* bound: the clock
    MaxSettings,    \* bound: edits of the profile and upgrades of the question set
    Endings,        \* bound: of the outcomes, those a probe may end in
    MaxRuns,        \* bound: probe runs
    Skipping        \* may a budget end a run early?  No caller in the app gives one.

ASSUME GeoProbesAssumption ==
    /\ IsFiniteSet(Probers) /\ IsFiniteSet(GeoModels) /\ IsFiniteSet(Offers)
    /\ Spoken \subseteq {"de", "en"}
    /\ Asked \subseteq {"best_in_city", "near_city", "cost", "reputation"}
    /\ {Window, GeoHorizon, MaxSettings, MaxRuns} \subseteq Nat
    /\ Skipping \in BOOLEAN

VARIABLES
    profile,        \* what the question set is built from
    geoClock,
    settings,       \* bound: edits so far
    runs,           \* bound: runs so far
    rows,           \* geo_results joined to geo_prompts
    prober          \* every run in flight

geoVars == <<profile, geoClock, settings, runs, rows, prober>>

-----------------------------------------------------------------------------
(* Questions *)

Locales == {"de", "en"}
BRAND_NAMING_CATEGORIES == {"comparison", "reputation"}

\* What the owner confirmed last, and the question set's version in this deployment.
Blank == ""
Profiles == [version: {1, 2}, locale: Locales, name: Brands \cup {Blank},
             city: Towns \cup {Blank}, services: SUBSET Offers]
Unconfirmed == [version |-> 1, locale |-> "de", name |-> Blank, city |-> Blank,
                services |-> {}]

\* A question's text is its template in a locale, and the brand, or the service, or the
\* service and the city that fill it in.
Question == [version: {1, 2}, locale: Locales, category: Asked,
             about: Brands \cup Offers \cup (Offers \X Towns)]

\* build_prompt_set: three questions per service, and one about the brand.  The fifth
\* category, comparison, has none: the executor passes no competitors.
build_prompt_set(p) ==
    LET About(c) == CASE c = "reputation" -> {p.name}
                      [] c = "cost" -> p.services
                      [] OTHER -> p.services \X {p.city} IN
    UNION {{[version |-> p.version, locale |-> p.locale, category |-> c, about |-> a] :
                a \in About(c)} : c \in Asked}

contains_brand(q) == q.category \in BRAND_NAMING_CATEGORIES

-----------------------------------------------------------------------------
(* Reading an answer *)

\* Whom an answer names, and whether it reads like a refusal or is empty.
Answers == [brand: BOOLEAN, rival: BOOLEAN, refusal: BOOLEAN]

classify_answer(a) == IF a.refusal /\ ~ (a.brand \/ a.rival) THEN "no_answer" ELSE "answered"

\* A response that named anybody answered, whatever it apologised for; a refusal or a
\* failed call measures nothing.
_read_answer(a) == IF classify_answer(a) = "no_answer" THEN "no_answer"
                   ELSE IF a.brand THEN "mentioned" ELSE "absent"

Outcomes == {_read_answer(a) : a \in Answers} \cup {"no_answer"}

-----------------------------------------------------------------------------
(* Scoring: `measured` maps (question, model) pairs to outcomes *)

Sample(measured, S) ==
    LET usable == {k \in S : measured[k] # "no_answer"} IN
    [usable |-> Cardinality(usable),
     mentions |-> Cardinality({k \in usable : measured[k] = "mentioned"})]

share_of_voice(measured) ==
    [fingerprint |-> {k[1] : k \in DOMAIN measured},
     all |-> Sample(measured, DOMAIN measured),
     unprompted |-> Sample(measured, {k \in DOMAIN measured : ~ contains_brand(k[1])})]

NoRun == [fingerprint |-> {}, all |-> [usable |-> 0, mentions |-> 0],
          unprompted |-> [usable |-> 0, mentions |-> 0]]

\* diff_share_of_voice: a movement is reported only between runs of the same questions,
\* and only from a baseline that measured something.
Comparable(previous, current) ==
    /\ previous # NoRun
    /\ previous.fingerprint = current.fingerprint
    /\ previous.all.usable > 0

-----------------------------------------------------------------------------
(* The store *)

Key(r) == <<r.question, r.model>>

Latest(S) == {r \in S : \A o \in S : o.at <= r.at}

\* businesses.locale: a column of its own, which nothing writes after the row is created.
ColumnLocale == "de"

\* latest_share_of_voice: the rows under the newest time, their questions' ids recomputed
\* with the locale in the column, whatever locale they were asked in.
latest_share_of_voice ==
    LET run == Latest(rows)
        Now(k) == <<[k[1] EXCEPT !.locale = ColumnLocale], k[2]>> IN
    IF run = {} THEN NoRun
    ELSE share_of_voice([k \in {Now(Key(r)) : r \in run} |->
                            (CHOOSE r \in run : Now(Key(r)) = k).outcome])

\* _RECENT_RUN: the times, recent enough, of rows of these very questions.
RecentRuns(questions, now) ==
    {r.at : r \in {o \in rows : o.question \in questions /\ o.at + Window >= now}}

Newest(times) == CHOOSE t \in times : \A u \in times : u <= t

\* Faulty variant: the questions' rows are only inserted when missing, never locked.
NobodyWaits(p, questions) == TRUE

\* _resolve_prompts: the upsert of a question holds its row until the save commits.  Two
\* saves whose sets name shared services in different orders may wait on each other; the
\* database then ends one of them, which is LoseProbe.
Unlocked(p, questions) ==
    \A o \in Probers \ {p} : prober[o].step \in {"resolved", "stamped", "written"} =>
        prober[o].saving \cap questions = {}

-----------------------------------------------------------------------------

Absentee == [step |-> "idle", asked |-> {}, baseline |-> NoRun, outcomes |-> << >>,
             saving |-> {}, at |-> 0, fresh |-> FALSE, missing |-> {},
             comparable |-> FALSE]

GeoInit ==
    /\ profile = Unconfirmed
    /\ geoClock = 1
    /\ settings = 0 /\ runs = 0
    /\ rows = {}
    /\ prober = [p \in Probers |-> Absentee]

Step(p, new) == prober' = [prober EXCEPT ![p] = new]

\* The baseline is read before anything is asked, hence before this run is stored.
StartProbe(p) ==
    /\ prober[p].step = "idle"
    /\ profile.name # Blank /\ profile.city # Blank
    /\ build_prompt_set(profile) # {}
    /\ Step(p, [prober[p] EXCEPT !.step = "asking", !.asked = build_prompt_set(profile),
                                 !.baseline = latest_share_of_voice])
    /\ runs < MaxRuns /\ runs' = runs + 1
    /\ UNCHANGED <<profile, geoClock, settings, rows>>

\* The pairs of a question and a model that are probed: all, unless a budget runs out.
Probed(questions) == IF Skipping THEN SUBSET (questions \X GeoModels)
                     ELSE {questions \X GeoModels}

\* A run with its score and its difference to the baseline; one without an answer is over.
Scored(now, measured) ==
    [now EXCEPT !.asked = {}, !.baseline = NoRun, !.outcomes = measured,
                !.saving = {k[1] : k \in DOMAIN measured},
                !.comparable = Comparable(now.baseline, share_of_voice(measured)),
                !.step = IF measured = << >> THEN "idle" ELSE "measured"]

\* _run_probes: every pair ends in an outcome; nothing a provider does raises.
FinishAsking(p) ==
    /\ prober[p].step = "asking"
    /\ \E ran \in Probed(prober[p].asked) : \E measured \in [ran -> Outcomes \cap Endings] :
          Step(p, Scored(prober[p], measured))
    /\ UNCHANGED <<profile, geoClock, settings, runs, rows>>

\* save_outcomes, a statement at a time: the questions, the time, the rows, the commit.
ResolvePrompts(p) ==
    /\ prober[p].step = "measured"
    /\ Unlocked(p, prober[p].saving)
    /\ Step(p, [prober[p] EXCEPT !.step = "resolved"])
    /\ UNCHANGED <<profile, geoClock, settings, runs, rows>>

\* _run_timestamp: the newest recent time, or a new one, and then the clock moves on.
\* `fresh` is auxiliary: which of the two it was.
Stamp(p) ==
    /\ prober[p].step = "resolved"
    /\ LET recent == RecentRuns(prober[p].saving, geoClock) IN
       IF recent # {}
       THEN /\ Step(p, [prober[p] EXCEPT !.step = "stamped", !.at = Newest(recent),
                                          !.fresh = FALSE])
            /\ UNCHANGED geoClock
       ELSE /\ Step(p, [prober[p] EXCEPT !.step = "stamped", !.at = geoClock,
                                          !.fresh = TRUE])
            /\ geoClock' = geoClock + 1
    /\ UNCHANGED <<profile, settings, runs, rows>>

\* Each outcome updates the row of its pair and time, or is to be inserted for want of one.
WriteRows(p) ==
    LET now == prober[p]
        Stored == {Key(r) : r \in {o \in rows : o.at = now.at}} IN
    /\ now.step = "stamped"
    /\ Step(p, [now EXCEPT !.step = "written", !.missing = DOMAIN now.outcomes \ Stored])
    /\ UNCHANGED <<profile, geoClock, settings, runs, rows>>

CommitRows(p) ==
    LET now == prober[p]
        Mine(r) == r.at = now.at /\ Key(r) \in DOMAIN now.outcomes \ now.missing
        Updated(r) == [r EXCEPT !.outcome = now.outcomes[Key(r)]] IN
    /\ now.step = "written"
    /\ rows' = {IF Mine(r) THEN Updated(r) ELSE r : r \in rows} \cup
               {[question |-> k[1], model |-> k[2], at |-> now.at, by |-> p,
                 fresh |-> now.fresh, outcome |-> now.outcomes[k]] : k \in now.missing}
    /\ Step(p, [Absentee EXCEPT !.comparable = now.comparable])
    /\ UNCHANGED <<profile, geoClock, settings, runs>>

\* The process stops, or the save raises: whatever was not committed is gone.
LoseProbe(p) ==
    /\ prober[p].step # "idle"
    /\ Step(p, Absentee)
    /\ UNCHANGED <<profile, geoClock, settings, runs, rows>>

Reprofile(new) ==
    /\ settings < MaxSettings
    /\ settings' = settings + 1
    /\ profile' = new
    /\ UNCHANGED <<geoClock, runs, rows, prober>>

\* The owner confirms a profile: name, city, services and locale are written together.
EditProfile ==
    \E new \in Profiles \ {profile} :
       /\ new.version = profile.version /\ new.locale \in Spoken
       /\ Reprofile(new)

\* A deployment ships a new question set.
NewPromptSet == profile.version = 1 /\ Reprofile([profile EXCEPT !.version = 2])

GeoTick ==
    /\ geoClock < GeoHorizon
    /\ geoClock' = geoClock + 1
    /\ UNCHANGED <<profile, settings, runs, rows, prober>>

GeoNext ==
    \/ \E p \in Probers :
          \/ StartProbe(p) \/ FinishAsking(p) \/ ResolvePrompts(p) \/ Stamp(p)
          \/ WriteRows(p) \/ CommitRows(p) \/ LoseProbe(p)
    \/ EditProfile
    \/ NewPromptSet
    \/ GeoTick

GeoSpec == GeoInit /\ [][GeoNext]_geoVars

-----------------------------------------------------------------------------
(* Properties *)

GeoTypeOK ==
    /\ profile \in Profiles
    /\ geoClock \in Nat
    /\ settings \in 0 .. MaxSettings /\ runs \in 0 .. MaxRuns
    /\ rows \subseteq [question: Question, model: GeoModels, at: Nat, by: Probers,
                       fresh: BOOLEAN, outcome: Outcomes]
    /\ DOMAIN prober = Probers
    /\ \A p \in Probers :
          /\ prober[p].step \in {"idle", "asking", "measured", "resolved", "stamped",
                                 "written"}
          /\ prober[p].asked \subseteq Question
          /\ prober[p].saving \subseteq Question
          /\ prober[p].at \in Nat
          /\ {prober[p].comparable, prober[p].fresh} \subseteq BOOLEAN

\* A re-sent run folds onto the one it retries: under one time a question has one answer of
\* a model, whatever runs were in flight together; and a run opens a time of its own only
\* if none of its questions was answered in the window before it.  (A run that joins another
\* may still answer a question twice within a window: the newest time among its questions
\* need not be the one under which each of them was answered.)
RunsAreAWindowApart ==
    \A r, o \in rows : r.question = o.question =>
        /\ r.model = o.model /\ r.at = o.at => r = o
        /\ o.fresh /\ r.at < o.at => o.at - r.at > Window

=============================================================================
