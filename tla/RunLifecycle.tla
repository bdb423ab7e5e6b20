---------------------------- MODULE RunLifecycle ----------------------------
(***************************************************************************)
(* One row of `runs` and everyone who writes it: the executors of the API  *)
(* and of the worker (services/run_executor), the resume, approve and       *)
(* reject routes (api/runs), and the worker's sweep (worker/scheduler).     *)
(*                                                                         *)
(* Every RunService write is a `get` in one transaction and an `update` of  *)
(* the WHOLE row in a second one, so a method is two steps here and what    *)
(* another actor does between them is lost or resurrected exactly as in the *)
(* database.  What a drive computes is AgentGraph's subject; here it is the *)
(* stage its state has reached and which drive wrote the text.              *)
(***************************************************************************)
EXTENDS Naturals, FiniteSets

CONSTANTS
    MaxDrives,     \* bound: drives submitted over the life of the run
    MaxRequests,   \* bound: requests that arrive
    Kinds,         \* the routes called: a subset of {"resume", "approve", "reject"}
    Starters       \* the processes that may start the run: {"api", "worker"}

ASSUME BoundsAssumption == MaxDrives \in Nat \ {0} /\ MaxRequests \in Nat
ASSUME KindsAssumption ==
    /\ Kinds \subseteq {"resume", "approve", "reject"}
    /\ Starters \subseteq {"api", "worker"}

Procs == {"api", "worker"}
Drives == 1..MaxDrives
Requests == 1..MaxRequests

VARIABLES
    row,         \* the stored run
    drive,       \* the drives: process, flag, position, in-memory state, row copy
    submitted,   \* how many drives were submitted
    live,        \* the processes whose executor has the run in _live
    request,     \* the requests: kind, position, row copy
    sweep,       \* the sweep has read this run as stranded and not yet written
    aged,        \* two hours have passed since the row was last written
    approved,    \* the texts record_approval wrote an approver on, and their stage
    viewed,      \* the texts that were parked when an approve request looked
    published,   \* the texts EXPORT handed to an actuator
    overlapped   \* two drives have been running at the same time

vars == <<row, drive, submitted, live, request, sweep, aged,
          approved, viewed, published, overlapped>>

-----------------------------------------------------------------------------
(* Values.                                                                  *)

Closed == {"done", "failed", "rejected"}   \* partial is closed as done is
States == Closed \union {"queued", "running", "awaiting_approval"}

\* A checkpoint: no checkpoint; stopped before REVIEW; at REVIEW; past EXPORT.
Stages == {"none", "early", "review", "over"}
Checkpoints ==
    [stage : Stages, text : 0..MaxDrives, approver : {"none", "user"}]
NoCheckpoint == [stage |-> "none", text |-> 0, approver |-> "none"]

Rows == [state : States, cp : Checkpoints, resumed : 0..MaxDrives]

\* The writes of a drive, each a read and then an update.
Writes == {"mark", "checkpoint", "park", "finish", "fail"}

DriveStates ==
    [proc : Procs, resume : BOOLEAN,
     at : {"unused", "begin", "driving", "read", "write", "ended", "dead"},
     op : Writes,            \* the write it is reading or writing for
     st : Checkpoints,       \* its AgentState
     parks : BOOLEAN,        \* the driver was interrupted at REVIEW
     copy : Rows]            \* the row it read, as it will write it back

BlankRow == [state |-> "queued", cp |-> NoCheckpoint, resumed |-> 0]

Unused == [proc |-> "api", resume |-> FALSE, at |-> "unused", op |-> "mark",
           st |-> NoCheckpoint, parks |-> FALSE, copy |-> BlankRow]

Running(d) == drive[d].at \notin {"unused", "ended", "dead"}

RequestStates ==
    [kind : {"none", "resume", "approve", "reject"},
     at : {"unused", "checking", "reading", "writing", "submitting",
           "answered", "refused", "dead"},
     copy : Rows]

NoRequest == [kind |-> "none", at |-> "unused", copy |-> BlankRow]

Open(r) == request[r].at \in {"checking", "reading", "writing", "submitting"}

-----------------------------------------------------------------------------
(* A drive: _guarded, _run_once and _execute.                               *)

\* submit: _live is written before the task exists; _live is a SET of run ids, so
\* a second drive of the run in one process leaves no second entry.
Submit(proc, resuming) ==
    /\ submitted < MaxDrives
    /\ submitted' = submitted + 1
    /\ drive' = [drive EXCEPT ![submitted + 1] =
                    [Unused EXCEPT !.proc = proc, !.resume = resuming, !.at = "begin"]]
    /\ live' = live \union {proc}
    /\ overlapped' = (overlapped \/ \E d \in Drives : Running(d))

driveRest == <<submitted, request, sweep, approved, viewed, overlapped>>

\* _initial_state: a fresh state, or the checkpoint, whose restoration is counted.
BeginDrive(d) ==
    /\ drive[d].at = "begin"
    /\ drive' = IF drive[d].resume /\ row.cp.stage # "none"
                THEN [drive EXCEPT ![d].at = "read", ![d].op = "mark", ![d].st = row.cp]
                ELSE [drive EXCEPT ![d].at = "driving"]
    /\ UNCHANGED <<driveRest, row, live, aged, published>>

\* The driver returned the state st.
Return(d, st, interrupted) ==
    drive' = [drive EXCEPT ![d].at = "read", ![d].op = "checkpoint",
                           ![d].st = st, ![d].parks = interrupted]

\* The driver stops before the gate (an exit, a cap), or brings a text to REVIEW.
BeforeGate(d) ==
    /\ drive[d].at = "driving"
    /\ drive[d].st.stage \in {"none", "early"}
    /\ \E stage \in {"early", "review"} :
        Return(d, [drive[d].st EXCEPT !.stage = stage, !.text = d], stage = "review")
    /\ UNCHANGED <<driveRest, row, live, aged, published>>

\* Faulty variant: whoever is behind the gate may publish.
BehindGateUnasked(d) ==
    /\ drive[d].at = "driving"
    /\ drive[d].st.stage = "review"
    /\ published' = published \union {drive[d].st.text}
    /\ Return(d, [drive[d].st EXCEPT !.stage = "over"], FALSE)
    /\ UNCHANGED <<driveRest, row, live, aged>>

\* Behind the gate: EXPORT publishes what the restored state holds, if it holds an
\* approver and an actuator accepts; MEASURE follows.
BehindGate(d) ==
    /\ drive[d].at = "driving"
    /\ drive[d].st.stage = "review"
    /\ \E accepted \in BOOLEAN :
        published' = IF drive[d].st.approver = "user" /\ accepted
                     THEN published \union {drive[d].st.text}
                     ELSE published
    /\ Return(d, [drive[d].st EXCEPT !.stage = "over"], FALSE)
    /\ UNCHANGED <<driveRest, row, live, aged>>

\* A checkpoint of a complete run: no node is left.
NothingLeft(d) ==
    /\ drive[d].at = "driving"
    /\ drive[d].st.stage = "over"
    /\ Return(d, drive[d].st, FALSE)
    /\ UNCHANGED <<driveRest, row, live, aged, published>>

\* Faulty variant: a drive that raised is driven again from its checkpoint.
RaiseRetries(d) ==
    /\ \/ drive[d].at \in {"begin", "driving"}
       \/ drive[d].at = "read" /\ drive[d].op # "fail"
    /\ drive' = [drive EXCEPT ![d].at = "begin"]
    /\ UNCHANGED <<driveRest, row, live, aged, published>>

\* _run_once's except: the drive raised, and the row is to say so.
Raise(d) ==
    /\ \/ drive[d].at \in {"begin", "driving"}
       \/ drive[d].at = "read" /\ drive[d].op # "fail"
    /\ drive' = [drive EXCEPT ![d].at = "read", ![d].op = "fail"]
    /\ UNCHANGED <<driveRest, row, live, aged, published>>

\* mark_resumed, checkpoint, await_approval, finish, and finish after a raise.
Written(d, r) ==
    CASE drive[d].op = "mark" -> [r EXCEPT !.resumed = @ + 1]
      [] drive[d].op = "checkpoint" -> [r EXCEPT !.cp = drive[d].st, !.state = "running"]
      [] drive[d].op = "park" -> [r EXCEPT !.state = "awaiting_approval"]
      [] drive[d].op = "finish" -> [r EXCEPT !.state = "done"]
      [] drive[d].op = "fail" -> [r EXCEPT !.state = "failed"]

ReadRow(d) ==
    /\ drive[d].at = "read"
    /\ drive' = [drive EXCEPT ![d].at = "write", ![d].copy = Written(d, row)]
    /\ UNCHANGED <<driveRest, row, live, aged, published>>

\* The update.  park, finish and fail are the last: _guarded then discards the run
\* from _live, whoever else in the process drives it.
WriteRow(d) ==
    /\ drive[d].at = "write"
    /\ row' = drive[d].copy
    /\ aged' = FALSE
    /\ CASE drive[d].op = "mark" ->
              /\ drive' = [drive EXCEPT ![d].at = "driving", ![d].copy = BlankRow]
              /\ live' = live
         [] drive[d].op = "checkpoint" ->
              /\ drive' = [drive EXCEPT
                              ![d].at = "read", ![d].copy = BlankRow,
                              ![d].op = IF drive[d].parks THEN "park" ELSE "finish"]
              /\ live' = live
         [] OTHER ->
              /\ drive' = [drive EXCEPT ![d] = [Unused EXCEPT !.at = "ended"]]
              /\ live' = live \ {drive[d].proc}
    /\ UNCHANGED <<driveRest, published>>

DriveStep(d) ==
    \/ BeginDrive(d) \/ BeforeGate(d) \/ BehindGate(d) \/ NothingLeft(d)
    \/ Raise(d) \/ ReadRow(d) \/ WriteRow(d)

-----------------------------------------------------------------------------
(* The routes of api/runs.  A request first reads the row; the checks are   *)
(* made on that copy.                                                       *)

SetRequest(r, at, copy) ==
    request' = [request EXCEPT ![r].at = at, ![r].copy = copy]

Refuse(r) == SetRequest(r, "refused", BlankRow)

requestRest == <<sweep, published>>

\* _require_own_run.
Arrive(r) ==
    /\ request[r].at = "unused"
    /\ \A earlier \in 1..(r - 1) : request[earlier].at # "unused"
    /\ \E kind \in Kinds :
        /\ request' = [request EXCEPT ![r] =
                          [kind |-> kind, at |-> "checking", copy |-> row]]
        /\ viewed' = IF kind = "approve" /\ row.state = "awaiting_approval"
                     THEN viewed \union {row.cp.text}
                     ELSE viewed
    /\ UNCHANGED <<requestRest, row, drive, submitted, live, aged, approved, overlapped>>

\* Faulty variant: resume_run forgets that a rejection is terminal.
RefusedButRejected == {"done", "failed", "awaiting_approval"}

Refused == Closed \union {"awaiting_approval"}

\* resume_run's refusals: the state read, and is_running for this process only.
CheckResume(r) ==
    /\ request[r].kind = "resume" /\ request[r].at = "checking"
    /\ IF request[r].copy.state \in Refused \/ "api" \in live
       THEN Refuse(r)
       ELSE SetRequest(r, "submitting", BlankRow)
    /\ UNCHANGED <<requestRest, row, drive, submitted, live, aged, approved, viewed,
                   overlapped>>

\* The monthly ceiling is awaited after those checks and may still refuse.
CeilingRefuses(r) ==
    /\ request[r].kind = "resume" /\ request[r].at = "submitting"
    /\ Refuse(r)
    /\ UNCHANGED <<requestRest, row, drive, submitted, live, aged, approved, viewed,
                   overlapped>>

\* approve_run and reject_run refuse what is not parked, then read the row again.
CheckDecision(r) ==
    /\ request[r].kind \in {"approve", "reject"} /\ request[r].at = "checking"
    /\ IF request[r].copy.state # "awaiting_approval"
       THEN Refuse(r)
       ELSE SetRequest(r, "reading", BlankRow)
    /\ UNCHANGED <<requestRest, row, drive, submitted, live, aged, approved, viewed,
                   overlapped>>

\* record_approval, and finish(outcome="rejected"), on the row as it is now.
ReadDecision(r) ==
    /\ request[r].at = "reading"
    /\ CASE request[r].kind = "reject" ->
              SetRequest(r, "writing", [row EXCEPT !.state = "rejected"])
         [] request[r].kind = "approve" ->
              IF row.cp.stage = "none"
              THEN Refuse(r)
              ELSE SetRequest(r, "writing", [row EXCEPT !.cp.approver = "user"])
    /\ UNCHANGED <<requestRest, row, drive, submitted, live, aged, approved, viewed,
                   overlapped>>

WriteDecision(r) ==
    /\ request[r].at = "writing"
    /\ row' = request[r].copy
    /\ aged' = FALSE
    /\ IF request[r].kind = "approve"
       THEN /\ approved' = approved \union {[stage |-> request[r].copy.cp.stage,
                                             text |-> request[r].copy.cp.text]}
            /\ SetRequest(r, "submitting", BlankRow)
       ELSE /\ approved' = approved
            /\ SetRequest(r, "answered", BlankRow)
    /\ UNCHANGED <<requestRest, drive, submitted, live, viewed, overlapped>>

\* executor.submit(..., resume=True), of a resume and of an approval alike.
SubmitResume(r) ==
    /\ request[r].at = "submitting"
    /\ Submit("api", TRUE)
    /\ SetRequest(r, "answered", BlankRow)
    /\ UNCHANGED <<requestRest, row, aged, approved, viewed>>

RequestStep(r) ==
    \/ CheckResume(r) \/ CeilingRefuses(r) \/ CheckDecision(r)
    \/ ReadDecision(r) \/ WriteDecision(r) \/ SubmitResume(r)

-----------------------------------------------------------------------------
(* The worker's sweep, time, and processes that die.                        *)

\* Between two database writes of one method no two hours pass.
Writing == \/ \E d \in Drives : drive[d].at \in {"read", "write"}
           \/ \E r \in Requests : Open(r)

Age ==
    /\ ~aged /\ ~Writing
    /\ aged' = TRUE
    /\ UNCHANGED <<row, drive, submitted, live, request, sweep, approved, viewed,
                   published, overlapped>>

\* Faulty variant: the sweep looks for runs that never started.
FindQueued ==
    /\ ~sweep /\ aged
    /\ row.state = "queued"
    /\ sweep' = TRUE
    /\ UNCHANGED <<row, drive, submitted, live, request, aged, approved, viewed,
                   published, overlapped>>

\* stranded_runs(): running, and not written for two hours.
FindStranded ==
    /\ ~sweep /\ aged
    /\ row.state = "running"
    /\ sweep' = TRUE
    /\ UNCHANGED <<row, drive, submitted, live, request, aged, approved, viewed,
                   published, overlapped>>

\* One conditional UPDATE of state alone, WHERE state = 'running'.
CloseStranded ==
    /\ sweep
    /\ sweep' = FALSE
    /\ IF row.state = "running"
       THEN row' = [row EXCEPT !.state = "failed"] /\ aged' = FALSE
       ELSE UNCHANGED <<row, aged>>
    /\ UNCHANGED <<drive, submitted, live, request, approved, viewed, published,
                   overlapped>>

\* A process dies with the run in its hands: its drives and requests stop there.
Die(proc) ==
    /\ \/ \E d \in Drives : Running(d) /\ drive[d].proc = proc
       \/ proc = "api" /\ \E r \in Requests : Open(r)
       \/ proc = "worker" /\ sweep
    /\ drive' = [d \in Drives |->
                    IF Running(d) /\ drive[d].proc = proc
                    THEN [Unused EXCEPT !.at = "dead"] ELSE drive[d]]
    /\ request' = [r \in Requests |->
                    IF Open(r) /\ proc = "api"
                    THEN [NoRequest EXCEPT !.at = "dead"] ELSE request[r]]
    /\ live' = live \ {proc}
    /\ sweep' = (sweep /\ proc # "worker")
    /\ UNCHANGED <<row, submitted, aged, approved, viewed, published, overlapped>>

-----------------------------------------------------------------------------

\* start_run or the scheduler's _start_run has created the row and submitted it.
Init ==
    /\ row = BlankRow
    /\ \E proc \in Starters :
        /\ drive = [d \in Drives |->
                        IF d = 1 THEN [Unused EXCEPT !.proc = proc, !.at = "begin"]
                        ELSE Unused]
        /\ live = {proc}
    /\ submitted = 1
    /\ request = [r \in Requests |-> NoRequest]
    /\ sweep = FALSE
    /\ aged = FALSE
    /\ approved = {}
    /\ viewed = {}
    /\ published = {}
    /\ overlapped = FALSE

Next ==
    \/ \E d \in Drives : DriveStep(d)
    \/ \E r \in Requests : Arrive(r) \/ RequestStep(r)
    \/ \E proc \in Procs : Die(proc)
    \/ Age \/ FindStranded \/ CloseStranded

\* Tasks of a live process go on; time passes; the worker keeps ticking, and is not
\* for ever killed between the two statements of its sweep.
Fairness ==
    /\ \A d \in Drives : WF_vars(DriveStep(d))
    /\ \A r \in Requests : WF_vars(RequestStep(r))
    /\ WF_vars(Age) /\ WF_vars(FindStranded) /\ SF_vars(CloseStranded)

Spec == Init /\ [][Next]_vars /\ Fairness

-----------------------------------------------------------------------------
(* Properties.                                                              *)

TypeOK ==
    /\ row \in Rows
    /\ drive \in [Drives -> DriveStates]
    /\ submitted \in 1..MaxDrives
    /\ row.resumed < submitted
    /\ live \subseteq Procs
    /\ request \in [Requests -> RequestStates]
    /\ sweep \in BOOLEAN /\ aged \in BOOLEAN /\ overlapped \in BOOLEAN
    /\ approved \subseteq [stage : Stages, text : 0..MaxDrives]
    /\ viewed \subseteq Drives \union {0}
    /\ published \subseteq Drives \union {0}

ApprovedTexts == {a.text : a \in approved}

\* However the drives, requests, deaths and whole-row writes interleave, what is
\* published is a text an approval was written on, provided no approval was written on
\* a draft that had not reached REVIEW: a lost or resurrected checkpoint carries its own
\* text and its own approver together (record_approval, EXPORT).  Unless two drives ran
\* at once, no approval is, and the text is also one that was parked when the approver's
\* request looked: nothing is put under a decision after it was taken (approve_run).
PublishedWasApproved ==
    /\ (\A a \in approved : a.stage # "early") => published \subseteq ApprovedTexts
    /\ ~overlapped => published \subseteq viewed \intersect ApprovedTexts

\* Nothing is under way: no drive, no request past its first read, no sweep.
Quiet ==
    /\ \A d \in Drives : ~Running(d)
    /\ \A r \in Requests : ~Open(r)
    /\ ~sweep

\* A decided run stays decided: once closed with nothing under way, no route and no
\* sweep changes its state again -- "a rejected run is not awaiting_approval any more
\* either" and must not fall past resume_run's refusals.
ClosedIsFinal == [](Quiet /\ row.state \in Closed => [](row.state \in Closed))

\* No run is left `running` for ever: its drive settles it or the sweep closes it,
\* also when the process died between the checkpoint and the settling write.
RunningIsSettled == (row.state = "running") ~> (row.state # "running")

\* "No executor guard ... the only window in which a parked run is still live is one
\* where nothing can overwrite the rejection": a rejection stays (reject_run).
RejectionSticks == [][row.state = "rejected" => row'.state = "rejected"]_vars

\* "Rewriting them on the resume that follows an approval would publish copy nobody
\* approved": whatever is published had an approval written on it (resumable_skip).
OnlyApprovedCopyIsPublished == published \subseteq ApprovedTexts

\* "It closes the duplicate that is actually reachable today: two requests to one
\* API": one process drives the run at most once (is_running).
OneDrivePerProcess ==
    \A d, e \in Drives :
        Running(d) /\ Running(e) /\ drive[d].proc = drive[e].proc => d = e
=============================================================================
