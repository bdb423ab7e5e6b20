------------------------------- MODULE NodeTurn -------------------------------
(***************************************************************************)
(* A turn of a node that writes (GENERATE, in agents/nodes): it grounds    *)
(* itself in the business's documents (_retrieved, kb_service.retrieve)    *)
(* and then asks a model for its output (_ask), which may ask for tools    *)
(* first.  The toolbox (agents/tools) is the node's allowlist less what an *)
(* operator has revoked (services/tool_policy, api/admin_models), as the   *)
(* drive read it when it started.  The search and every model answer       *)
(* freely: a grader may invent labels, a model may call any tool it knows. *)
(***************************************************************************)
EXTENDS Naturals, Sequences, FiniteSets, Functions, FiniteSetsExt

CONSTANTS
    Chunks,             \* passages the search may find
    SearchLimit,        \* DEFAULT_SEARCH_LIMIT
    MinRelevant,        \* DEFAULT_MIN_RELEVANT
    MaxAttempts,        \* MAX_RETRIEVAL_ATTEMPTS
    MaxTraces,          \* MAX_RETRIEVAL_TRACES
    MaxToolRounds,      \* max_tool_rounds of _ask
    MaxGrades,          \* bound: entries of a grader's answer
    MaxTurns            \* bound: turns of the node in a drive

ASSUME NodeTurnAssumption ==
    /\ IsFiniteSet(Chunks)
    /\ {SearchLimit, MinRelevant, MaxAttempts, MaxTraces} \subseteq Nat \ {0}
    /\ {MaxToolRounds, MaxGrades, MaxTurns} \subseteq Nat

VARIABLES
    policy,         \* node_tool_policies: the node's revoked tools
    revoked,        \* the ones this drive read, or "unread" between drives
    wired,          \* the tools the deployment implements
    traces,         \* retrieval_traces of the checkpoint
    turn,           \* the turn
    turns           \* bound: turns so far

turnVars == <<policy, revoked, wired, traces, turn, turns>>

-----------------------------------------------------------------------------
(* The toolbox *)

\* NODE_TOOLS["GENERATE"].
Granted == {"kb.search", "web_search", "record_page"}

\* Tools a model may try to call: another node's, too.
Known == Granted \cup {"publish"}

allowed == Granted \ revoked
available(tool) == tool \in allowed /\ tool \in wired

\* put_tools refuses a tool the node does not hold; no row means nothing is revoked.
SetRevoked ==
    /\ policy' \in SUBSET Granted
    /\ UNCHANGED <<revoked, wired, traces, turn, turns>>

\* _load_revocations: a failure to read them is no revocation.
LoadRevocations ==
    /\ revoked = {"unread"}
    /\ revoked' \in {policy, {}}
    /\ UNCHANGED <<policy, wired, traces, turn, turns>>

-----------------------------------------------------------------------------
(* One retrieval *)

RestingTurn == [step |-> "resting", limit |-> SearchLimit, found |-> << >>, tried |-> << >>,
            vouched |-> {}, outcome |-> "none", cited |-> {}, round |-> 0, ran |-> {},
            refused |-> {}]

SetTurn(new) == turn' = new
Retrieving == UNCHANGED <<policy, revoked, wired, turns>>

\* A grader's answer: prose, or entries that name a label and a grade, of which one is not a
\* passage's label and one not a grade.
Grades == {"relevant", "partial", "irrelevant", "excellent"}
GradeAnswers(found) ==
    UNION {[1 .. n -> [label: 1 .. Len(found) + 1, grade: Grades]] : n \in 0 .. MaxGrades}

\* _parse_grades: entries for a passage that was offered, with a grade that exists.
Valid(answer, found) ==
    {i \in DOMAIN answer : /\ answer[i].label \in DOMAIN found
                           /\ answer[i].grade \in Grades \ {"excellent"}}

\* _grade: the last entry for a label stands, and no entry means irrelevant.
GradeOf(answer, found, label) ==
    LET said == {i \in Valid(answer, found) : answer[i].label = label} IN
    IF said = {} THEN "irrelevant" ELSE answer[Max(said)].grade

Graded(answer, found, grade) ==
    {found[k] : k \in {l \in DOMAIN found : GradeOf(answer, found, l) = grade}}

\* What the loop may read of an answer, beside what a grader said of a passage at any time.
Gradings(found) ==
    {[relevant |-> Graded(answer, found, "relevant"),
      partial  |-> Graded(answer, found, "partial"),
      said     |-> {found[answer[i].label] :
                       i \in {k \in Valid(answer, found) : answer[k].grade = "relevant"}}] :
        answer \in GradeAnswers(found)}

\* Faulty variant: the first attempt is the one that is reported.
FirstAttempt(tried) == tried[1]

\* _best_attempt: the most relevant passages, and of those the later attempt.
NotWorse(tried, i, j) ==
    LET a == Cardinality(tried[i].relevant)
        b == Cardinality(tried[j].relevant) IN a > b \/ (a = b /\ i >= j)

best_attempt(tried) ==
    tried[CHOOSE i \in DOMAIN tried : \A j \in DOMAIN tried : NotWorse(tried, i, j)]

\* append_retrieval_trace: the list is capped, and the numbers go on.
append_retrieval_trace(existing, cited) ==
    LET last == IF existing = << >> THEN 0 ELSE existing[Len(existing)].seq
        number == Max({last, Len(existing)}) + 1
        all == Append(existing, [seq |-> number, cited |-> cited]) IN
    SubSeq(all, Max({1, Len(all) - MaxTraces + 1}), Len(all))

\* retrieve returns: the passages it stands behind are the best attempt's relevant ones.
Return(now, outcome) ==
    LET cited == IF now.tried = << >> THEN {} ELSE best_attempt(now.tried).relevant IN
    /\ SetTurn([now EXCEPT !.step = "asking", !.outcome = outcome, !.cited = cited])
    /\ traces' = append_retrieval_trace(traces, cited)

\* _retrieved: a retrieval that raised leaves the node without passages.
Raised ==
    SetTurn([RestingTurn EXCEPT !.step = "asking", !.outcome = "failed"]) /\ UNCHANGED traces

\* The attempt is over: enough, exhausted, or a rewrite.
Judge(now, relevant, partial) ==
    LET then == [now EXCEPT !.tried = Append(@, [relevant |-> relevant,
                                                 partial |-> partial])] IN
    IF Cardinality(relevant) >= MinRelevant THEN Return(then, "sufficient")
    ELSE IF Len(then.tried) >= MaxAttempts THEN Return(then, "fallback_to_web")
    ELSE SetTurn([then EXCEPT !.step = "rewriting"]) /\ UNCHANGED traces

BeginTurn ==
    /\ turn.step = "resting" /\ turns < MaxTurns /\ revoked # {"unread"}
    /\ SetTurn([RestingTurn EXCEPT !.step = IF available("kb.search") THEN "deciding"
                                        ELSE "asking"])
    /\ turns' = turns + 1
    /\ UNCHANGED <<policy, revoked, wired, traces>>

\* _decide: prose is taken for a yes.
Decide ==
    /\ turn.step = "deciding"
    /\ \/ SetTurn([turn EXCEPT !.step = "searching"]) /\ UNCHANGED traces
       \/ Return(turn, "not_needed")
       \/ Raised
    /\ Retrieving

\* The nearest passages of the moment, nearest first.
Search ==
    /\ turn.step = "searching"
    /\ \/ \E n \in 1 .. turn.limit : \E found \in Injection(1 .. n, Chunks) :
             SetTurn([turn EXCEPT !.step = "grading", !.found = found]) /\ UNCHANGED traces
       \/ Judge(turn, {}, {})
       \/ Raised
    /\ Retrieving

Grade ==
    /\ turn.step = "grading"
    /\ \/ \E graded \in Gradings(turn.found) :
             Judge([turn EXCEPT !.vouched = @ \cup graded.said, !.found = << >>],
                   graded.relevant, graded.partial)
       \/ Raised
    /\ Retrieving

\* _rewrite, and a wider search.
Rewrite ==
    /\ turn.step = "rewriting"
    /\ \/ SetTurn([turn EXCEPT !.step = "searching", !.limit = 2 * @]) /\ UNCHANGED traces
       \/ Raised
    /\ Retrieving

-----------------------------------------------------------------------------
(* The exchange with the model *)

\* What a model is offered: its output tool, and others while rounds remain.
Offered == {"record_page"} \cup
           (IF turn.round < MaxToolRounds /\ available("web_search") THEN {"web_search"} ELSE {})

Asking == UNCHANGED <<policy, revoked, wired, traces, turns>>

\* offer: a node whose own output tool is revoked fails before it asks.
OwnToolRevoked ==
    /\ turn.step = "asking" /\ turn.round = 0 /\ "record_page" \notin allowed
    /\ SetTurn([turn EXCEPT !.step = "failed"])
    /\ Asking

\* _tool_arguments, _requested and _tool_result: the output ends the exchange, any other
\* tool that was offered runs, the rest is refused, and no call at all is prose.
AskModel ==
    /\ turn.step = "asking" /\ "record_page" \in allowed
    /\ \E called \in SUBSET Known :
          LET runs == IF "record_page" \in called THEN {} ELSE called \cap Offered IN
          SetTurn([turn EXCEPT
                      !.refused = @ \cup (called \ allowed),
                      !.ran = @ \cup runs,
                      !.round = @ + 1,
                      !.step = IF "record_page" \in called THEN "answered"
                               ELSE IF runs = {} THEN "failed" ELSE "asking"])
    /\ Asking

\* AllProvidersFailed: the node fails.
AskFails ==
    /\ turn.step = "asking" /\ "record_page" \in allowed
    /\ SetTurn([turn EXCEPT !.step = "failed"])
    /\ Asking

\* The node returns or raises; the run goes on to another turn, or the drive ends.
EndTurn ==
    /\ turn.step \in {"answered", "failed"}
    /\ SetTurn(RestingTurn)
    /\ \/ revoked' = {"unread"}
       \/ turn.step = "answered" /\ UNCHANGED revoked
    /\ UNCHANGED <<policy, wired, traces, turns>>

-----------------------------------------------------------------------------

TurnInit ==
    /\ policy = {} /\ revoked = {"unread"}
    /\ wired \in {{"kb.search"}, {"kb.search", "web_search"}, {}}
    /\ traces = << >>
    /\ turn = RestingTurn
    /\ turns = 0

TurnNext ==
    \/ SetRevoked \/ LoadRevocations
    \/ BeginTurn \/ Decide \/ Search \/ Grade \/ Rewrite
    \/ OwnToolRevoked \/ AskModel \/ AskFails \/ EndTurn

TurnSpec == TurnInit /\ [][TurnNext]_turnVars

-----------------------------------------------------------------------------
(* Properties *)

TurnTypeOK ==
    /\ policy \subseteq Granted /\ revoked \subseteq Granted \cup {"unread"}
    /\ wired \subseteq Granted
    /\ turn.step \in {"resting", "deciding", "searching", "grading", "rewriting", "asking",
                      "answered", "failed"}
    /\ turn.limit \in Nat /\ Range(turn.found) \subseteq Chunks
    /\ \A i \in DOMAIN turn.tried : UNION Range(turn.tried[i]) \subseteq Chunks
    /\ turn.outcome \in {"none", "sufficient", "fallback_to_web", "not_needed", "failed"}
    /\ (turn.cited \cup turn.vouched) \subseteq Chunks
    /\ turn.round \in 0 .. MaxToolRounds + 1
    /\ (turn.ran \cup turn.refused) \subseteq Known
    /\ \A i \in DOMAIN traces : traces[i].seq \in Nat /\ traces[i].cited \subseteq Chunks
    /\ turns \in 0 .. MaxTurns

\* A retrieval called sufficient cites enough passages, one that sends the node to the web
\* never met the threshold in any attempt, and either cites only what a grader was shown
\* and called relevant in so many words.
CitationsAreVouchedFor ==
    /\ turn.cited \subseteq turn.vouched
    /\ turn.outcome = "sufficient" => Cardinality(turn.cited) >= MinRelevant
    /\ turn.outcome = "fallback_to_web" =>
          \A i \in DOMAIN turn.tried : Cardinality(turn.tried[i].relevant) < MinRelevant

=============================================================================
