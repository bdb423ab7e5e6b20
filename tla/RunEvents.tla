------------------------------ MODULE RunEvents ------------------------------
(***************************************************************************)
(* What a drive of a run leaves behind while the graph works: the timeline *)
(* (services/run_executor's event drain, run_service.record_event, the     *)
(* run_events table), the cost ledger (services/usage_recorder, the        *)
(* model_usage table and the monthly ceiling read from it), and what a     *)
(* browser sees of the timeline (api/runs.stream_events).                  *)
(*                                                                         *)
(* One run.  A second drive of it belongs to another process: nothing      *)
(* stops one from starting while the first still works.                    *)
(***************************************************************************)
EXTENDS Naturals, FiniteSets, Sequences

CONSTANTS
    Drives,         \* the drives of the run
    Streams,        \* the browsers that watch it
    MaxEmitted,     \* bound: events a drive's graph emits
    MaxCalls,       \* bound: model calls the drives make together
    MonthlyCap      \* BUSINESS_MONTHLY_CAP_USD, in calls

ASSUME RunEventsAssumption ==
    /\ IsFiniteSet(Drives) /\ IsFiniteSet(Streams)
    /\ {MaxEmitted, MaxCalls, MonthlyCap} \subseteq Nat

VARIABLES
    runState,       \* runs.state
    timeline,       \* run_events: a set of [seq, event]
    ledger,         \* model_usage: how many rows each call has
    lostCalls,      \* history: calls whose row will never be written
    drive,          \* every drive
    stream          \* every browser

eventVars == <<runState, timeline, ledger, lostCalls, drive, stream>>

-----------------------------------------------------------------------------

TERMINAL == {"done", "failed"}

\* The executor's own first line is number 0; the graph's are 1, 2, ...
Event == [drive: Drives, n: 0 .. MaxEmitted, status: {"started", "done"}]
Call == Drives \X (1 .. MaxCalls)

Quiet == [step |-> "idle", emitted |-> 0, queue |-> << >>, writing |-> << >>, seq |-> 0,
          calls |-> 0, pending |-> {}, batch |-> {}, flushing |-> FALSE, raised |-> FALSE]

EventsInit ==
    /\ runState = "running"
    /\ timeline = {}
    /\ ledger = [c \in Call |-> 0]
    /\ lostCalls = {}
    /\ drive = [d \in Drives |-> Quiet]
    /\ stream = [s \in Streams |-> [step |-> "reading", seen |-> 0, got |-> {}]]

-----------------------------------------------------------------------------
(* The ledger *)

Spend == Cardinality({c \in Call : ledger[c] > 0})

\* monthly_cap_state: exactly at the ceiling counts as over.
Headroom == Spend < MonthlyCap

\* Faulty variant: the buffer is cleared once the rows are written.
KeepsBuffer(buffer) == buffer

\* flush: the buffer is emptied before the insert is attempted.
LeftInBuffer(buffer) == {}

-----------------------------------------------------------------------------
(* A drive *)

SetDrive(d, new) == drive' = [drive EXCEPT ![d] = new]

\* The routes and the scheduler ask for headroom before anything can reach a provider.
\* _record_provider_status is the first line of the timeline.
BeginRun(d) ==
    /\ drive[d].step = "idle"
    /\ runState \notin TERMINAL
    /\ Headroom
    /\ runState' = "running"
    /\ SetDrive(d, [Quiet EXCEPT !.step = "announcing",
                        !.writing = << [drive |-> d, n |-> 0, status |-> "started"] >>])
    /\ UNCHANGED <<timeline, ledger, lostCalls, stream>>

\* The router's synchronous sink, while the graph works.
CallModel(d) ==
    /\ drive[d].step = "driving"
    /\ Cardinality({c \in Call : c[2] <= drive[c[1]].calls}) < MaxCalls
    /\ LET n == drive[d].calls + 1 IN
       SetDrive(d, [drive[d] EXCEPT !.calls = n, !.pending = @ \cup {<<d, n>>}])
    /\ UNCHANGED <<runState, timeline, ledger, lostCalls, stream>>

\* The graph's synchronous sink only enqueues.
Emit(d) ==
    /\ drive[d].step = "driving"
    /\ drive[d].emitted < MaxEmitted
    /\ LET n == drive[d].emitted + 1 IN
       \E status \in {"started", "done"} :
          SetDrive(d, [drive[d] EXCEPT !.emitted = n,
                          !.queue = Append(@, [drive |-> d, n |-> n, status |-> status])])
    /\ UNCHANGED <<runState, timeline, ledger, lostCalls, stream>>

\* The graph returns or raises; either way the sentinel is queued.
EndGraph(d) ==
    /\ drive[d].step = "driving"
    /\ \E raised \in BOOLEAN :
          SetDrive(d, [drive[d] EXCEPT !.step = "closing", !.raised = raised])
    /\ UNCHANGED <<runState, timeline, ledger, lostCalls, stream>>

\* Whatever takes the buffer: a node's last event, or the flush after the drive.
TakeBuffer(now) == [now EXCEPT !.batch = now.pending, !.pending = LeftInBuffer(now.pending),
                               !.flushing = now.pending # {}]

\* _drain_events: one event at a time, and a flush first where a node ends.
TakeEvent(d) ==
    LET now == drive[d] IN
    /\ now.step \in {"driving", "closing"}
    /\ now.writing = << >> /\ now.queue # << >>
    /\ LET taken == [now EXCEPT !.writing = << Head(now.queue) >>, !.queue = Tail(@)] IN
       SetDrive(d, IF Head(now.queue).status = "done" THEN TakeBuffer(taken) ELSE taken)
    /\ UNCHANGED <<runState, timeline, ledger, lostCalls, stream>>

\* flush's transaction: every row of the batch, or none of them ever.
WriteLedger(d) ==
    LET now == drive[d] IN
    /\ now.flushing
    /\ \/ /\ ledger' = [c \in Call |-> ledger[c] + IF c \in now.batch THEN 1 ELSE 0]
          /\ UNCHANGED lostCalls
       \/ lostCalls' = lostCalls \cup now.batch /\ UNCHANGED ledger
    /\ SetDrive(d, [now EXCEPT !.batch = {}, !.flushing = FALSE])
    /\ UNCHANGED <<runState, timeline, stream>>

Highest == CHOOSE n \in 0 .. Cardinality(timeline) :
              /\ n = 0 \/ \E e \in timeline : e.seq = n
              /\ \A e \in timeline : e.seq <= n

\* next_seq: a transaction of its own.
NextSeq(d) ==
    /\ drive[d].writing # << >> /\ ~ drive[d].flushing /\ drive[d].seq = 0
    /\ SetDrive(d, [drive[d] EXCEPT !.seq = Highest + 1])
    /\ UNCHANGED <<runState, timeline, ledger, lostCalls, stream>>

\* Faulty variant: the table has no unique (run_id, seq).
NothingCollides(seq) == FALSE

Taken(seq) == \E e \in timeline : e.seq = seq

\* append_event: a collision or any other failure is logged and the line is gone.
AppendEvent(d) ==
    LET now == drive[d] IN
    /\ now.seq > 0
    /\ \/ /\ ~ Taken(now.seq)
          /\ timeline' = timeline \cup {[seq |-> now.seq, event |-> Head(now.writing)]}
       \/ UNCHANGED timeline
    /\ SetDrive(d, [now EXCEPT !.writing = << >>, !.seq = 0,
                        !.step = IF @ = "announcing" THEN "driving" ELSE @])
    /\ UNCHANGED <<runState, ledger, lostCalls, stream>>

Drained(now) == now.step = "closing" /\ now.writing = << >> /\ now.queue = << >>

\* The drain ended.  Only a drive that returned flushes what is left in the buffer.
FlushRest(d) ==
    /\ Drained(drive[d])
    /\ LET now == drive[d] IN
       IF now.raised
       THEN /\ SetDrive(d, [now EXCEPT !.step = "finishing", !.pending = {}])
            /\ lostCalls' = lostCalls \cup now.pending
       ELSE /\ SetDrive(d, [TakeBuffer(now) EXCEPT !.step = "finishing"])
            /\ UNCHANGED lostCalls
    /\ UNCHANGED <<runState, timeline, ledger, stream>>

\* await_approval or finish.
FinishRun(d) ==
    /\ drive[d].step = "finishing" /\ ~ drive[d].flushing
    /\ runState' \in IF drive[d].raised THEN {"failed"} ELSE TERMINAL \cup {"awaiting_approval"}
    /\ SetDrive(d, [Quiet EXCEPT !.step = "over", !.calls = drive[d].calls,
                                 !.pending = drive[d].pending])
    /\ UNCHANGED <<timeline, ledger, lostCalls, stream>>

\* The process stops: its queue and its buffer die with it, a statement in flight too.
StopProcess(d) ==
    /\ drive[d].step \notin {"idle", "over"}
    /\ lostCalls' = lostCalls \cup drive[d].pending \cup drive[d].batch
    /\ SetDrive(d, [Quiet EXCEPT !.step = "over", !.calls = drive[d].calls])
    /\ UNCHANGED <<runState, timeline, ledger, stream>>

-----------------------------------------------------------------------------
(* A browser *)

Newer(seen) == {e \in timeline : e.seq > seen}

\* One poll: the events after `seen`, in order; the connection may drop after any of them
\* and the browser comes back with the last number it got.
ReadEvents(s) ==
    LET now == stream[s] IN
    /\ now.step = "reading"
    /\ \E upTo \in {now.seen} \cup {e.seq : e \in Newer(now.seen)} :
          stream' = [stream EXCEPT ![s] =
              [step |-> IF Newer(upTo) = {} THEN "checking" ELSE "reading",
               seen |-> upTo,
               got  |-> now.got \cup {e \in Newer(now.seen) : e.seq <= upTo}]]
    /\ UNCHANGED <<runState, timeline, ledger, lostCalls, drive>>

\* Then the state; the stream's own timeout ends it so that the browser reconnects.
ReadState(s) ==
    /\ stream[s].step = "checking"
    /\ stream' = [stream EXCEPT ![s].step = IF runState \in TERMINAL THEN "ended" ELSE "reading"]
    /\ UNCHANGED <<runState, timeline, ledger, lostCalls, drive>>

EventsNext ==
    \/ \E d \in Drives :
          \/ BeginRun(d) \/ CallModel(d) \/ Emit(d) \/ EndGraph(d) \/ TakeEvent(d)
          \/ WriteLedger(d) \/ NextSeq(d) \/ AppendEvent(d) \/ FlushRest(d) \/ FinishRun(d)
          \/ StopProcess(d)
    \/ \E s \in Streams : ReadEvents(s) \/ ReadState(s)

EventsSpec == EventsInit /\ [][EventsNext]_eventVars

-----------------------------------------------------------------------------
(* Properties *)

EventsTypeOK ==
    /\ runState \in TERMINAL \cup {"running", "awaiting_approval"}
    /\ timeline \subseteq [seq: Nat \ {0}, event: Event]
    /\ ledger \in [Call -> Nat]
    /\ lostCalls \subseteq Call
    /\ DOMAIN drive = Drives
    /\ \A d \in Drives :
          /\ drive[d].step \in {"idle", "announcing", "driving", "closing", "finishing", "over"}
          /\ drive[d].pending \cup drive[d].batch \subseteq Call
          /\ Len(drive[d].queue) <= MaxEmitted /\ Len(drive[d].writing) <= 1
    /\ \A s \in Streams :
          /\ stream[s].step \in {"reading", "checking", "ended"}
          /\ stream[s].got \subseteq timeline

\* Every model call is accounted for once: it waits in a buffer, is being written, has its
\* one ledger row, or lost it to a failed insert, a drive that raised after its last node
\* event, or a stopped process.  Calls go on being booked while a flush is in flight.
EveryCallIsBookedOnce ==
    \A d \in Drives : \A n \in 1 .. drive[d].calls :
        LET c == <<d, n>>
            Here(S) == IF c \in S THEN 1 ELSE 0 IN
        ledger[c] + Here(drive[d].pending) + Here(drive[d].batch) + Here(lostCalls) = 1

\* A browser that keeps only the last number it got misses nothing below it, even while two
\* processes number events of one run: the numbers are taken and used in two transactions,
\* but whoever is late collides.  And a drive's events appear in the order it emitted them.
CursorSkipsNothing ==
    /\ \A s \in Streams : \A e \in timeline : e.seq <= stream[s].seen => e \in stream[s].got
    /\ \A e, f \in timeline :
          e.event.drive = f.event.drive /\ e.event.n < f.event.n => e.seq < f.seq

=============================================================================
