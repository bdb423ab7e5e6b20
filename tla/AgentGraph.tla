----------------------------- MODULE AgentGraph -----------------------------
(***************************************************************************)
(* The agent machine of app/agents: the eleven nodes of graph.ORDER, the   *)
(* caps, the bounded VALIDATE -> GENERATE retry, the human gate, and what  *)
(* the executor does with a drive's result -- ONE checkpoint when the      *)
(* driver returns, then the row is parked or closed.                       *)
(*                                                                         *)
(* Both drivers are here, because the configuration picks one: "builtin"   *)
(* is graph.run_graph, "langgraph" is state_graph.run_state_graph, and the *)
(* differences between them are the conditions on `runtime`.               *)
(*                                                                         *)
(* A text is abstracted to the stamp of the step that wrote it; a verdict  *)
(* is the pair of values VALIDATE stores.  One run, one drive at a time:   *)
(* two drives of a run at once are RunLifecycle's subject.                 *)
(***************************************************************************)
EXTENDS Naturals, FiniteSets

CONSTANTS
    Runtimes,   \* the drivers a deployment may select
    MaxSteps,   \* RunCaps.max_steps
    MaxUsd,     \* RunCaps.max_usd, in units of the smallest charge
    MaxLoops,   \* RunCaps.max_validate_loops
    Charges,    \* what one model call may cost, in the same units
    MaxDrives   \* bound: how many times the run is driven

ASSUME RuntimesAssumption == Runtimes \subseteq {"builtin", "langgraph"}
ASSUME CapsAssumption ==
    /\ MaxSteps \in Nat
    /\ MaxUsd \in Nat
    /\ MaxLoops \in Nat
    /\ MaxDrives \in Nat
    /\ Charges \subseteq Nat

VARIABLES
    runtime,    \* the driver this process was configured with
    st,         \* the AgentState of the live drive
    saved,      \* runs.checkpoint (new_state: what a missing one restores to)
    pc,         \* the node the driver is at, or IDLE, END, SAVED
    resume,     \* the flag the live drive was given
    row,        \* runs.state
    drives,     \* how many drives were started
    signed,     \* what a human was shown and approved
    sent        \* what EXPORT handed to an actuator that accepted it

vars == <<runtime, st, saved, pc, resume, row, drives, signed, sent>>

-----------------------------------------------------------------------------
(* graph.ORDER as positions: INTAKE 1, HARVEST 2, OPPORTUNITY 3, PLAN 4,    *)
(* GENERATE 5, CONVERT 6, VALIDATE 7, REPACK 8, REVIEW 9, EXPORT 10,        *)
(* MEASURE 11.  Only the nodes the drivers treat specially have a name.     *)

OPPORTUNITY == 3
GENERATE == 5
CONVERT == 6
VALIDATE == 7
REPACK == 8
REVIEW == 9
EXPORT == 10
LAST == 11
Nodes == 1..LAST

IDLE == 0     \* no drive
END == 12     \* the driver has returned
SAVED == 13   \* its state is checkpointed

\* A text is the stamp of the step that produced it; 0 is "no text yet".
Stamps == Nat

AgentState ==
    [visited : SUBSET Nodes,
     steps : 0..MaxSteps,
     cost : 0..MaxUsd,
     loops : 0..MaxLoops,
     topic : BOOLEAN,          \* state["opportunity"] is set
     topicFailed : BOOLEAN,    \* node_failure(state, "OPPORTUNITY")
     draft : Stamps,
     asks : Stamps,
     posts : Stamps,
     claims : {"unchecked", "clean", "banned"},
     seo : {"none", "pass", "weak"},
     judged : [draft : Stamps, asks : Stamps],   \* what the verdicts are about
     approver : {"none", "user"},
     blocked : BOOLEAN,        \* publication_blocked
     outcome : {"running", "awaiting_approval", "done", "partial"},
     reason : {"none", "max_steps", "max_usd", "no_topic", "topic_failed",
               "blocked", "quality"}]

new_state ==
    [visited |-> {}, steps |-> 0, cost |-> 0, loops |-> 0,
     topic |-> FALSE, topicFailed |-> FALSE,
     draft |-> 0, asks |-> 0, posts |-> 0,
     claims |-> "unchecked", seo |-> "none", judged |-> [draft |-> 0, asks |-> 0],
     approver |-> "none", blocked |-> FALSE,
     outcome |-> "running", reason |-> "none"]

\* What a human signs and what EXPORT hands out: the posts and the asks in them.
Copy(s) == [draft |-> s.draft, asks |-> s.asks, posts |-> s.posts]

Text(s) == [draft |-> s.draft, asks |-> s.asks]

\* Unique to this step of this drive.
Stamp == drives * (MaxSteps + 1) + st.steps + 1

-----------------------------------------------------------------------------
(* state.py: the caps, each refusing the step that would exceed it.         *)

step(s, n) == [s EXCEPT !.steps = @ + 1, !.visited = @ \union {n}]

CanStep(s) == s.steps + 1 <= MaxSteps

CanCharge(s, usd) == s.cost + usd <= MaxUsd

\* Faulty variant: the ceiling compared before the retry is counted.
CanLoopBeforeCounting(s) == s.loops <= MaxLoops

CanLoop(s) == s.loops + 1 <= MaxLoops

enter_validate_loop(s) == [s EXCEPT !.loops = @ + 1]

cap_exit(s, cap) == [s EXCEPT !.outcome = "partial", !.reason = cap]

-----------------------------------------------------------------------------
(* graph.py: what both drivers share.                                       *)

blocked_verdict(s) == s.claims = "banned"

\* Faulty variant: a banned claim no longer outranks a passing score.
weak_verdict_by_score(s) == s.seo # "pass"

weak_verdict(s) == blocked_verdict(s) \/ s.seo # "pass"

\* Faulty variant: GENERATE's exemption without its bound by the gate.
resumable_skip_unbounded(s, n) == n \in s.visited /\ n # GENERATE

\* A resume skips what the checkpoint says ran; GENERATE only behind REVIEW.
resumable_skip(s, n) ==
    /\ n \in s.visited
    /\ n = GENERATE => REVIEW \in s.visited

opportunity_exit(s) ==
    IF s.topicFailed
    THEN [s EXCEPT !.outcome = "partial", !.reason = "topic_failed"]
    ELSE [s EXCEPT !.outcome = "done", !.reason = "no_topic"]

validate_exit(s) ==
    IF blocked_verdict(s)
    THEN [s EXCEPT !.outcome = "partial", !.blocked = TRUE, !.reason = "blocked"]
    ELSE [s EXCEPT !.outcome = "partial", !.reason = "quality"]

Runs(s, n, resuming) == n \in Nodes /\ (resuming => ~resumable_skip(s, n))

\* Faulty variant: behind the gate, straight to its first node.
next_past_gate(s, n, resuming) ==
    IF resuming /\ REVIEW \in s.visited /\ n <= EXPORT
    THEN EXPORT
    ELSE CHOOSE m \in n..END :
            /\ m = END \/ Runs(s, m, resuming)
            /\ \A k \in n..END : Runs(s, k, resuming) => m <= k

\* _next_unvisited, which is also the head of run_graph's loop.
next_unvisited(s, n, resuming) ==
    CHOOSE m \in n..END :
        /\ m = END \/ Runs(s, m, resuming)
        /\ \A k \in n..END : Runs(s, k, resuming) => m <= k

\* The driver's answer when no node is left.
Finished(s) ==
    IF runtime = "builtin" \/ s.outcome = "running"
    THEN [s EXCEPT !.outcome = "done"]
    ELSE s

-----------------------------------------------------------------------------
(* One drive.                                                               *)

Return(s) == /\ st' = s
             /\ pc' = END

\* Carry on at the first node from n that has work.
Continue(s, n, resuming) ==
    LET next == next_unvisited(s, n, resuming)
    IN  IF next = END
        THEN Return(Finished(s))
        ELSE st' = s /\ pc' = next

\* state_graph._router reads an outcome left by an earlier drive; run_graph does not.
Halted(s) == runtime = "langgraph" /\ s.outcome # "running"

\* Where the drive goes once node n has left the state s.
Route(s, n) ==
    \/ /\ n = OPPORTUNITY /\ ~s.topic
       /\ Return(opportunity_exit(s))
    \/ /\ n = VALIDATE /\ weak_verdict(s) /\ ~CanLoop(s)
       /\ Return(validate_exit(s))
    \/ /\ n = VALIDATE /\ weak_verdict(s) /\ CanLoop(s) /\ ~Halted(s)
       /\ st' = enter_validate_loop(s) /\ pc' = GENERATE
    \/ /\ n = VALIDATE /\ weak_verdict(s) /\ CanLoop(s) /\ Halted(s)
       /\ Return(enter_validate_loop(s))
    \/ /\ n = REVIEW /\ ~Halted(s)
       /\ Return([s EXCEPT !.outcome = "awaiting_approval"])
    \/ /\ n = REVIEW /\ Halted(s)
       /\ Return(s)
    \/ /\ n # REVIEW
       /\ n = OPPORTUNITY => s.topic
       /\ n = VALIDATE => ~weak_verdict(s)
       /\ IF Halted(s) THEN Return(s) ELSE Continue(s, n + 1, resume)

\* The updates `done` of node n, charged usd: a refused charge ends the drive,
\* and run_graph then drops the updates where _wrap keeps them.
Charge(n, done, usd) ==
    IF CanCharge(done, usd)
    THEN Route([done EXCEPT !.cost = @ + usd], n)
    ELSE Return(cap_exit(IF runtime = "builtin" THEN step(st, n) ELSE done, "max_usd"))

Enter(n) == pc = n /\ CanStep(st)

rest == <<runtime, saved, resume, row, drives, signed>>

StepRefused ==
    /\ pc \in Nodes
    /\ ~CanStep(st)
    /\ Return(cap_exit(st, "max_steps"))
    /\ UNCHANGED <<rest, sent>>

\* A node that raises is recorded, charges nothing and the drive goes on.
\* REVIEW returns at once and cannot raise.
NodeCrash ==
    /\ \E n \in Nodes \ {REVIEW} :
        /\ Enter(n)
        /\ Route(IF n = OPPORTUNITY
                 THEN [step(st, n) EXCEPT !.topicFailed = TRUE]
                 ELSE step(st, n), n)
    /\ UNCHANGED <<rest, sent>>

\* INTAKE, HARVEST and MEASURE: nothing here depends on what they gather.
Gather ==
    /\ \E n \in {1, 2, LAST} : Enter(n) /\ Route(step(st, n), n)
    /\ UNCHANGED <<rest, sent>>

Opportunity ==
    /\ Enter(OPPORTUNITY)
    /\ \E found \in BOOLEAN, usd \in Charges :
        Charge(OPPORTUNITY, [step(st, OPPORTUNITY) EXCEPT !.topic = found], usd)
    /\ UNCHANGED <<rest, sent>>

Plan ==
    /\ Enter(4)
    /\ \E usd \in Charges : Charge(4, step(st, 4), usd)
    /\ UNCHANGED <<rest, sent>>

Generate ==
    /\ Enter(GENERATE)
    /\ \E usd \in Charges :
        Charge(GENERATE, [step(st, GENERATE) EXCEPT !.draft = Stamp], usd)
    /\ UNCHANGED <<rest, sent>>

Convert ==
    /\ Enter(CONVERT)
    /\ \E usd \in Charges :
        Charge(CONVERT, [step(st, CONVERT) EXCEPT !.asks = Stamp], usd)
    /\ UNCHANGED <<rest, sent>>

\* Two deterministic verdicts on the draft and the asks as they are now; no draft
\* scores 0, and no text at all makes no claim.
Validate ==
    /\ Enter(VALIDATE)
    /\ \E c \in {"clean", "banned"}, q \in {"pass", "weak"} :
        /\ st.draft = 0 => q = "weak"
        /\ st.draft = 0 /\ st.asks = 0 => c = "clean"
        /\ Route([step(st, VALIDATE) EXCEPT !.claims = c, !.seo = q, !.judged = Text(st)],
                 VALIDATE)
    /\ UNCHANGED <<rest, sent>>

\* Every post may be withheld (a banned claim, nothing returned): then there is none.
Repack ==
    /\ Enter(REPACK)
    /\ \E usd \in Charges, p \in {0, Stamp} :
        Charge(REPACK, [step(st, REPACK) EXCEPT !.posts = p], usd)
    /\ UNCHANGED <<rest, sent>>

Review ==
    /\ Enter(REVIEW)
    /\ Route(step(st, REVIEW), REVIEW)
    /\ UNCHANGED <<rest, sent>>

\* Faulty variant: the approval inferred from REVIEW being behind the run.
ExportOnceReviewed ==
    /\ Enter(EXPORT)
    /\ \E accepted \in BOOLEAN :
        sent' = IF REVIEW \in st.visited /\ st.posts # 0 /\ accepted
                THEN sent \union {Copy(st)}
                ELSE sent
    /\ Route(step(st, EXPORT), EXPORT)
    /\ UNCHANGED rest

\* Refused without an approver or a piece; else the actuator may accept or not.
Export ==
    /\ Enter(EXPORT)
    /\ \E accepted \in BOOLEAN :
        sent' = IF st.approver # "none" /\ st.posts # 0 /\ accepted
                THEN sent \union {Copy(st)}
                ELSE sent
    /\ Route(step(st, EXPORT), EXPORT)
    /\ UNCHANGED rest

DriveStep ==
    \/ StepRefused \/ NodeCrash \/ Gather \/ Opportunity \/ Plan \/ Generate
    \/ Convert \/ Validate \/ Repack \/ Review \/ Export

-----------------------------------------------------------------------------
(* The executor and the API around a drive.                                 *)

\* submit and _initial_state: a drive that resumes starts from the checkpoint,
\* and state_graph revives only the outcome of a run that was parked.
Begin(s, resuming) ==
    /\ pc = IDLE
    /\ drives < MaxDrives
    /\ drives' = drives + 1
    /\ resume' = resuming
    /\ Continue(IF resuming /\ runtime = "langgraph" /\ s.outcome = "awaiting_approval"
                THEN [s EXCEPT !.outcome = "running"]
                ELSE s, 1, resuming)

Start ==
    /\ drives = 0
    /\ Begin(new_state, FALSE)
    /\ UNCHANGED <<runtime, saved, row, signed, sent>>

\* A run with no checkpoint is resumed too: new_state, and the flag is still TRUE.
Resume ==
    /\ row \in {"queued", "running"}
    /\ Begin(saved, TRUE)
    /\ UNCHANGED <<runtime, saved, row, signed, sent>>

\* record_approval writes the approver into the checkpoint; the row stays parked.
Approve ==
    /\ row = "awaiting_approval"
    /\ saved' = [saved EXCEPT !.approver = "user"]
    /\ signed' = signed \union {Copy(saved)}
    /\ Begin([saved EXCEPT !.approver = "user"], TRUE)
    /\ UNCHANGED <<runtime, row, sent>>

Reject ==
    /\ pc = IDLE
    /\ row = "awaiting_approval"
    /\ row' = "closed"
    /\ UNCHANGED <<runtime, st, saved, pc, resume, drives, signed, sent>>

Checkpoint ==
    /\ pc = END
    /\ saved' = st
    /\ row' = "running"
    /\ pc' = SAVED
    /\ UNCHANGED <<runtime, st, resume, drives, signed, sent>>

Park ==
    /\ st.outcome = "awaiting_approval"
    /\ row' = "awaiting_approval"

\* Faulty variant: only a complete run is closed.
FinishDoneOnly ==
    /\ st.outcome = "done"
    /\ row' = "closed"

Finish ==
    /\ st.outcome \in {"done", "partial"}
    /\ row' = "closed"

Settle ==
    /\ pc = SAVED
    /\ Park \/ Finish
    /\ pc' = IDLE
    /\ UNCHANGED <<runtime, st, saved, resume, drives, signed, sent>>

\* The process dies; everything but the database row is gone.
Die ==
    /\ pc # IDLE
    /\ pc' = IDLE
    /\ st' = new_state
    /\ UNCHANGED <<runtime, saved, resume, row, drives, signed, sent>>

Init ==
    /\ runtime \in Runtimes
    /\ st = new_state
    /\ saved = new_state
    /\ pc = IDLE
    /\ resume = FALSE
    /\ row = "queued"
    /\ drives = 0
    /\ signed = {}
    /\ sent = {}

Next ==
    \/ DriveStep \/ Checkpoint \/ Settle \/ Die
    \/ Start \/ Resume \/ Approve \/ Reject

\* A live drive is a task of the event loop: it keeps taking steps.
Fairness == WF_vars(DriveStep) /\ WF_vars(Checkpoint) /\ WF_vars(Settle)

Spec == Init /\ [][Next]_vars /\ Fairness

-----------------------------------------------------------------------------
(* Properties.                                                              *)

Copies == [draft : Stamps, asks : Stamps, posts : Stamps]

\* The shape of the state, and RunCaps as bounds on it: no step, charge or retry
\* past its cap is ever applied (step, charge, enter_validate_loop).
TypeOK ==
    /\ runtime \in Runtimes
    /\ st \in AgentState
    /\ saved \in AgentState
    /\ pc \in Nodes \union {IDLE, END, SAVED}
    /\ resume \in BOOLEAN
    /\ row \in {"queued", "running", "awaiting_approval", "closed"}
    /\ drives \in 0..MaxDrives
    /\ signed \subseteq Copies
    /\ sent \subseteq Copies

\* Nothing leaves the process but the very texts a human was shown and approved:
\* no resume, crash or retry between REVIEW and EXPORT changes them (the bound on
\* GENERATE's exemption in resumable_skip, and export's refusal).
PublishedWasApproved == sent \subseteq signed

\* A drive that was not a resume brings to REVIEW only the draft and asks that
\* VALIDATE judged last, clean and passing -- even when VALIDATE itself crashed in a
\* later loop and left the verdicts of an earlier draft behind.
FreshDriveReviewsJudgedText ==
    ~resume /\ REVIEW \in st.visited =>
        st.judged = Text(st) /\ st.claims = "clean" /\ st.seo = "pass"

\* "claim_check still fails after 2 loops -> partial (REVIEW is NOT reached)": no
\* drive, resumed or not, brings a run whose claim check failed to REVIEW.
BlockedRunNeverReachesReview == REVIEW \in st.visited => ~blocked_verdict(st)

\* Once a checkpoint records the export, no later drive enters EXPORT: a run
\* revived after it published does not publish again (after_gate, resumable_skip).
ExportedOnceCheckpointed == EXPORT \in saved.visited => pc # EXPORT

\* An approved run has the steps left to publish and measure: the budget REVIEW
\* leaves covers what follows it, because nothing before it is repeated.  Only a
\* checkpoint that says a cap or an exit had already ended the run can run out.
ApprovedRunFinishes ==
    pc = END /\ st.approver = "user" /\ saved.reason = "none" =>
        LAST \in st.visited /\ st.outcome = "done"

\* A drive ends: whatever the verdicts, the crashes and the costs, it comes back
\* to a row that is parked, closed or resumable.
DriveEnds == (pc # IDLE) ~> (pc = IDLE)

\* The machine implements the gate: what is shown is the parked checkpoint's copy.
Gate == INSTANCE PublicationGate WITH
            shown <- IF row = "awaiting_approval" THEN {Copy(saved)} ELSE {}

\* Every step shows, signs, withdraws, sends something signed, or does nothing a
\* reader of the gate can see (run_graph's REVIEW, approve_run, export).
ImplementsGate == Gate!Spec
=============================================================================
