----------------------------- MODULE Evaluation -----------------------------
(***************************************************************************)
(* The evaluation harness, evals/run.py: every case is written twice,      *)
(* without documents (rag_off) and with what retrieval kept (rag_on), the  *)
(* two texts are scored by rule, and two model judges may score them as    *)
(* well: DeepEval as the cases go by, Ragas in a process of its own once   *)
(* all are written.  The report must not show a number nobody measured,    *)
(* nor blame the model for what the harness did to its text.               *)
(*                                                                         *)
(* A text is the figures it asserts (one claim each), the chunks it cites  *)
(* and how many hashtags it has; a chunk holds one figure and shares its   *)
(* name, and Unknown is no chunk.  A judge's score stands for the text it  *)
(* was given for.                                                          *)
(***************************************************************************)
EXTENDS Naturals, Sequences, FiniteSets, SequencesExt, FiniteSetsExt

CONSTANTS
    Facts,          \* the chunks of a case
    Unknown,
    HashtagsMax,
    MAX_SAMPLES,
    MaxCases,       \* bound: cases of the run
    MaxHashtags     \* bound: hashtags the model writes

ASSUME EvaluationAssumption ==
    /\ Unknown \notin Facts
    /\ {HashtagsMax, MAX_SAMPLES, MaxCases, MaxHashtags} \subseteq Nat

VARIABLES
    flags,          \* RunConfig: the options of the command line
    at,             \* the step of run() and run_case that comes next
    draft,          \* the case under way: the completion, what was retrieved, the arms
    caseRows,       \* the finished cases
    samples,        \* RagasArm._samples
    tally,          \* DeepEvalArm._measured
    notes,          \* the cases whose failed retrieval is noted
    report          \* what the report shows, once it is written

evalVars == <<flags, at, draft, caseRows, samples, tally, notes, report>>

-----------------------------------------------------------------------------
(* The texts and the rules they are scored by *)

Sources    == Facts \cup {Unknown}
EvalTexts  == [figures : SUBSET Sources, cites : SUBSET Sources, hashtags : 0 .. MaxHashtags]
EvalArms   == {"rag_off", "rag_on"}
Metrics    == {"faithfulness", "answer_relevancy"}
Unmeasured == <<>>
NotMeasured == [m \in Metrics |-> Unmeasured]

\* enforce_hashtags with the citations protected: the id in a citation holds
\* a # and is not a hashtag.
enforce_hashtags(text) == [text EXCEPT !.hashtags = Min({@, HashtagsMax})]

_enforce_channel_format(text) == enforce_hashtags(text)

score_grounding(text, cited, available) ==
    LET fabricated  == cited \ available
        unsupported == text.figures \ cited
    IN  [ fatal     |-> fabricated # {},
          passed    |-> fabricated = {} /\ unsupported = {},
          exercised |-> fabricated # {} \/ text.figures # {} ]

_grounding_triple(text, cited, retrieved) ==
    [ off    |-> score_grounding(text, {}, {}),
      on     |-> score_grounding(text, cited, retrieved),
      oracle |-> score_grounding(text, Facts, Facts) ]

score_format(text) ==
    [fatal |-> text.hashtags > HashtagsMax, passed |-> text.hashtags <= HashtagsMax]

ScoredAs(arm, text, retrieved) ==
    LET triple == _grounding_triple(text, text.cites, retrieved)
    IN  [ format    |-> score_format(text),
          grounding |-> IF arm = "rag_on" THEN triple.on ELSE triple.off ]

-----------------------------------------------------------------------------
(* The judges.  DeepEval's metric may fail or answer nothing usable, and   *)
(* the fake provider never answers anything a metric can read.             *)

Nothing == [none |-> TRUE]
NoCase  == [kept |-> {}, failed |-> FALSE, text |-> Nothing, off |-> Nothing, on |-> Nothing]

_measure(key) == IF flags.live THEN {Unmeasured, key} ELSE {Unmeasured}

\* DeepEvalArm.judge: without a context there is no faithfulness to measure.
judge(key, context) ==
    IF ~flags.deepeval THEN {Nothing}
    ELSE {[faithfulness |-> f, answer_relevancy |-> a] :
             f \in IF context # {} THEN _measure(key) ELSE {Unmeasured}, a \in _measure(key)}

Measured(judged) ==
    IF judged = Nothing THEN 0 ELSE Cardinality({m \in Metrics : judged[m] # Unmeasured})

\* RagasArm.record, up to its ceiling.
record(offered, key, context) ==
    IF flags.ragas /\ Len(offered) < MAX_SAMPLES
    THEN Append(offered, [key |-> key, contexts |-> context]) ELSE offered

TextKey(arm) == <<Len(caseRows) + 1, arm>>

\* The arm once its text is there: enforced, judged, recorded, scored.
FinishArm(arm, text, retrieved, judged) ==
    [text |-> _enforce_channel_format(text), judged |-> judged, judged_ragas |-> Nothing,
     results |-> ScoredAs(arm, _enforce_channel_format(text), retrieved)]

\* The row keeps of an arm what the report shows.
InReport(arm) == [judged |-> arm.judged, judged_ragas |-> arm.judged_ragas,
               fatal |-> arm.results.grounding.fatal \/ arm.results.format.fatal]

-----------------------------------------------------------------------------
(* run_case *)

\* run() takes the cases one by one.
AfterCase(n) == IF n < MaxCases THEN "rag_off" ELSE "resolve"

EvalInit ==
    /\ flags \in [live : BOOLEAN, deepeval : BOOLEAN, ragas : BOOLEAN]
    /\ at = AfterCase(0) /\ draft = NoCase
    /\ caseRows = <<>> /\ samples = <<>> /\ tally = 0 /\ notes = {} /\ report = Nothing

\* A refused or failed generation is not caught, nor is a missing DeepEval: the run
\* ends without a report and without what it has written so far.
ArmFails ==
    /\ at \in EvalArms
    /\ at' = "failed"
    /\ UNCHANGED <<flags, draft, caseRows, samples, tally, notes, report>>

WriteWithout ==
    /\ at = "rag_off"
    /\ \E text \in EvalTexts, judged \in judge(TextKey("rag_off"), {}) :
          /\ draft' = [NoCase EXCEPT
                          !.text = text, !.off = InReport(FinishArm("rag_off", text, {}, judged))]
          /\ tally' = tally + Measured(judged)
    /\ samples' = record(samples, TextKey("rag_off"), {})
    /\ at' = "retrieve"
    /\ UNCHANGED <<flags, caseRows, notes, report>>

\* retrieve keeps some chunks or none; its failure is kept as the arm's error.
Retrieve ==
    /\ at = "retrieve"
    /\ \/ \E kept \in SUBSET Facts : draft' = [draft EXCEPT !.kept = kept, !.text = Nothing]
       \/ draft' = [draft EXCEPT !.failed = TRUE, !.text = Nothing]
    /\ at' = "rag_on"
    /\ UNCHANGED <<flags, caseRows, samples, tally, notes, report>>

WriteWith ==
    /\ at = "rag_on"
    /\ \E text \in EvalTexts, judged \in judge(TextKey("rag_on"), draft.kept) :
          /\ draft' = [draft EXCEPT !.text = text,
                                    !.on = FinishArm("rag_on", text, draft.kept, judged)]
          /\ tally' = tally + Measured(judged)
    /\ samples' = record(samples, TextKey("rag_on"), draft.kept)
    /\ at' = "row"
    /\ UNCHANGED <<flags, caseRows, notes, report>>

AddRow ==
    /\ at = "row"
    /\ caseRows' = Append(caseRows, [kept |-> draft.kept, failed |-> draft.failed,
                             rag_off |-> draft.off, rag_on |-> InReport(draft.on)])
    /\ notes' = IF draft.failed THEN notes \cup {Len(caseRows) + 1} ELSE notes
    /\ draft' = NoCase
    /\ at' = AfterCase(Len(caseRows) + 1)
    /\ UNCHANGED <<flags, samples, tally, report>>

-----------------------------------------------------------------------------
(* RagasArm.resolve: one process judges all the samples, in their order.   *)
(* It may not start, not finish in time, write nothing of use or fail      *)
(* whole; what it does write may lack the scores of the last samples, and  *)
(* a score it could not compute is no number.                              *)

\* Which metrics of which sample have a number.  Of a text without a context Ragas
\* says that all of it is verified.
Reply == [1 .. Len(samples) -> [Metrics -> BOOLEAN]]

_outcome(scored, key) == IF scored THEN key ELSE Unmeasured

\* A faulty variant: the score of an empty context is taken at its word.
MapsWhatItIsGiven(reply) ==
    [i \in 1 .. Len(samples) |->
        [m \in Metrics |-> _outcome(reply[i][m], samples[i].key)]]

_map(reply) ==
    [i \in 1 .. Len(samples) |->
        [ faithfulness     |-> _outcome(reply[i]["faithfulness"] /\ samples[i].contexts # {},
                                        samples[i].key),
          answer_relevancy |-> _outcome(reply[i]["answer_relevancy"], samples[i].key) ]]

_all_not_measured == [i \in 1 .. Len(samples) |-> NotMeasured]

\* _with_ragas: the judgement of a text is looked up by its key.
_with_ragas(row, n, judged) ==
    LET Of(arm) == IF \E i \in DOMAIN judged : samples[i].key = <<n, arm>>
                   THEN judged[CHOOSE i \in DOMAIN judged : samples[i].key = <<n, arm>>]
                   ELSE Nothing
    IN  [row EXCEPT !.rag_off.judged_ragas = Of("rag_off"), !.rag_on.judged_ragas = Of("rag_on")]

Resolved(judged) ==
    caseRows' = IF judged = <<>> THEN caseRows
                ELSE [n \in DOMAIN caseRows |-> _with_ragas(caseRows[n], n, judged)]

\* Without --live there is no key to judge with.
CanSpawn == flags.live

\* _spawn: no process, no answer in time, no output, no JSON, or an error of its own.
SpawnFails == Resolved(_all_not_measured)

ResolveRagas ==
    /\ at = "resolve"
    /\ \/ ~flags.ragas /\ Resolved(<<>>)
       \/ flags.ragas /\ SpawnFails
       \/ flags.ragas /\ CanSpawn /\ \E reply \in Reply : Resolved(_map(reply))
    /\ at' = "report"
    /\ UNCHANGED <<flags, draft, samples, tally, notes, report>>

-----------------------------------------------------------------------------
(* render_report *)

ARM_OFF_CELL      == <<"dash">>
NOT_MEASURED_CELL == <<"n/m">>

_judged_cell(judged, metric) ==
    IF judged = Nothing THEN ARM_OFF_CELL
    ELSE IF judged[metric] = Unmeasured THEN NOT_MEASURED_CELL ELSE judged[metric]

Cells(field) ==
    [n \in DOMAIN caseRows |->
        [a \in EvalArms |-> [m \in Metrics |-> _judged_cell(caseRows[n][a][field], m)]]]

\* What the report says of each retrieval, and the texts it calls unpublishable.
RetrievalOutcomes == [n \in DOMAIN caseRows |->
                IF caseRows[n].failed THEN "error" ELSE ToString(Cardinality(caseRows[n].kept))]

Unpublishable == {c \in (DOMAIN caseRows) \X EvalArms : caseRows[c[1]][c[2]].fatal}

WriteReport ==
    /\ at = "report"
    /\ report' = [ deepeval |-> Cells("judged"), ragas |-> Cells("judged_ragas"),
                   measured |-> tally, outcomes |-> RetrievalOutcomes, fatal |-> Unpublishable,
                   notes |-> notes ]
    /\ at' = "done"
    /\ UNCHANGED <<flags, draft, caseRows, samples, tally, notes>>

EvalNext ==
    ArmFails \/ WriteWithout \/ Retrieve \/ WriteWith \/ AddRow \/ ResolveRagas \/ WriteReport

EvalSpec == EvalInit /\ [][EvalNext]_evalVars

-----------------------------------------------------------------------------
(* Properties *)

\* Types of the harness's state (run.py RunConfig, CaseRow; ragas_arm.py RagasArm).
EvalTypeOK ==
    /\ flags \in [live : BOOLEAN, deepeval : BOOLEAN, ragas : BOOLEAN]
    /\ at \in EvalArms \cup {"retrieve", "row", "resolve", "report", "done", "failed"}
    /\ draft.kept \subseteq Facts /\ draft.failed \in BOOLEAN
    /\ Len(caseRows) <= MaxCases /\ Len(samples) <= MAX_SAMPLES
    /\ tally \in Nat /\ notes \subseteq 1 .. MaxCases

\* What the report says of a text is about what the model wrote.  With documents it is
\* called a fabrication only if the model itself cited something retrieval did not keep:
\* the harness's own correction of the hashtags turns nothing into a citation
\* (run.py:640).  A number in a judged column was given by that judge for that very text,
\* faithfulness only for a text that had passages to be faithful to; without --live
\* nothing is a number, and the count in the header is the number of cells (judged.py:41,
\* ragas_arm.py:98).
ScoresAreOfTheModelsText ==
    /\ at = "row" => ( draft.on.results.grounding.fatal <=> draft.text.cites \ draft.kept # {} )
    /\ report # Nothing =>
        /\ \A judged \in {"deepeval", "ragas"}, n \in DOMAIN caseRows, a \in EvalArms,
             m \in Metrics :
              LET cell == report[judged][n][a][m]
              IN  cell \notin {ARM_OFF_CELL, NOT_MEASURED_CELL} =>
                      /\ cell = <<n, a>> /\ flags.live
                      /\ m = "faithfulness" => (a = "rag_on" /\ caseRows[n].kept # {})
        /\ report.measured = Cardinality({
              c \in (DOMAIN caseRows) \X EvalArms \X Metrics :
              report.deepeval[c[1]][c[2]][c[3]] \notin {ARM_OFF_CELL, NOT_MEASURED_CELL}})

=============================================================================
