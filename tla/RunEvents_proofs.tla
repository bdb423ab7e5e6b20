-------------------------- MODULE RunEvents_proofs --------------------------
(***************************************************************************)
(* What RunEvents promises for every number of drives, browsers, events    *)
(* and calls.                                                              *)
(*                                                                         *)
(* The ledger: a call is in exactly one of five places -- not made yet, a  *)
(* buffer, a flush, its row, lost -- and a buffer is only taken when no    *)
(* flush of that drive is in flight (AccountInv).  The timeline: its       *)
(* numbers have no hole, a number somebody holds is at most the next one,  *)
(* and what a drive still has to write comes after what it wrote           *)
(* (TimelineInv).                                                          *)
(***************************************************************************)
EXTENDS RunEvents, FiniteSetTheorems, SequenceTheorems, TLAPS

DriveSteps == {"idle", "announcing", "driving", "closing", "finishing", "over"}

DriveStates ==
    [step : DriveSteps, emitted : 0 .. MaxEmitted, queue : Seq(Event), writing : Seq(Event), seq : Nat,
     calls : 0 .. MaxCalls, pending : SUBSET Call, batch : SUBSET Call,
     flushing : BOOLEAN, raised : BOOLEAN]

StreamStates ==
    [step : {"reading", "checking", "ended"}, seen : Nat, got : SUBSET [seq : Nat, event : Event]]

\* No flush is in flight when a buffer is taken: a drive waits for it before it numbers
\* the event it holds, and holds one event at a time.
FlushInv(d) ==
    /\ drive[d].flushing =>
          drive[d].step = "finishing" \/ (drive[d].writing # << >> /\ drive[d].seq = 0)
    /\ ~ drive[d].flushing => drive[d].batch = {}
    /\ drive[d].step \in {"idle", "over"} => ~ drive[d].flushing
    /\ drive[d].step = "idle" => drive[d].calls = 0
    /\ drive[d].step \in {"idle", "finishing", "over"} => drive[d].writing = << >>
    /\ drive[d].seq > 0 => drive[d].writing # << >>

\* Buffers and flushes hold calls of their own drive.
OwnCalls(d) ==
    \A e \in Drives, n \in 1 .. MaxCalls :
        <<e, n>> \in drive[d].pending \/ <<e, n>> \in drive[d].batch => e = d

\* A call that was made is in exactly one place, and one that was not is in none.
Holder(d, n) ==
    LET c == <<d, n>> IN
    /\ c \in drive[d].pending => c \notin drive[d].batch /\ c \notin lostCalls /\ ledger[c] = 0
    /\ c \in drive[d].batch => c \notin lostCalls /\ ledger[c] = 0
    /\ c \in lostCalls => ledger[c] = 0
    /\ ledger[c] \in {0, 1}
    /\ (c \in drive[d].pending \/ c \in drive[d].batch \/ c \in lostCalls \/ ledger[c] = 1)
          <=> n <= drive[d].calls

EventsTypes ==
    /\ drive \in [Drives -> DriveStates]
    /\ ledger \in [Call -> Nat]
    /\ lostCalls \subseteq Call
    /\ timeline \subseteq [seq : Nat, event : Event]
    /\ IsFiniteSet(timeline)
    /\ stream \in [Streams -> StreamStates]
    /\ runState \in TERMINAL \cup {"running", "awaiting_approval"}

AccountInv ==
    /\ \A d \in Drives : FlushInv(d) /\ OwnCalls(d)
    /\ \A d \in Drives, n \in 1 .. MaxCalls : Holder(d, n)

Size == Cardinality(timeline)

\* The events of a drive from this one on are not in the timeline yet.
Written(d) == drive[d].emitted - Len(drive[d].queue)

PendingInv(d) ==
    /\ drive[d].seq <= Size + 1
    /\ Len(drive[d].queue) <= drive[d].emitted
    /\ Len(drive[d].writing) <= 1
    /\ \A i \in 1 .. Len(drive[d].queue) :
          drive[d].queue[i].drive = d /\ drive[d].queue[i].n = Written(d) + i
    /\ drive[d].writing # << >> =>
          Head(drive[d].writing).drive = d /\ Head(drive[d].writing).n = Written(d)
    /\ drive[d].step = "idle" =>
          drive[d].writing = << >> /\ drive[d].queue = << >> /\ \A e \in timeline : e.event.drive # d
    /\ drive[d].step \in {"announcing", "driving", "closing"} =>
          \A e \in timeline : e.event.drive = d =>
              IF drive[d].writing # << >> THEN e.event.n < Written(d) ELSE e.event.n <= Written(d)

NoHole ==
    /\ \A e \in timeline : e.seq \in 1 .. Size
    /\ \A k \in 1 .. Size : \E e \in timeline : e.seq = k

StreamInv(s) ==
    /\ stream[s].seen \in 0 .. Size
    /\ stream[s].got \subseteq timeline
    /\ \A e \in timeline : e.seq <= stream[s].seen => e \in stream[s].got

InOrder ==
    \A e, f \in timeline :
        e.event.drive = f.event.drive /\ e.event.n < f.event.n => e.seq < f.seq

TimelineInv ==
    /\ NoHole /\ InOrder
    /\ \A d \in Drives : PendingInv(d)
    /\ \A s \in Streams : StreamInv(s)

-----------------------------------------------------------------------------
(* What a step changes of a drive.                                          *)

(* The bounds are numbers.                                                  *)
LEMMA Bounds == MaxEmitted \in Nat /\ MaxCalls \in Nat /\ IsFiniteSet(Drives)
BY RunEventsAssumption

(* A drive that has not begun, or is over, holds nothing.                   *)
LEMMA QuietIsTyped ==
    /\ Quiet \in DriveStates
    /\ Quiet.step = "idle" /\ Quiet.emitted = 0 /\ Quiet.queue = << >> /\ Quiet.writing = << >>
    /\ Quiet.seq = 0 /\ Quiet.calls = 0 /\ Quiet.pending = {} /\ Quiet.batch = {}
    /\ Quiet.flushing = FALSE
<1>1. << >> \in Seq(Event) /\ 0 \in 0 .. MaxEmitted /\ 0 \in 0 .. MaxCalls
  BY Bounds
<1>2. Quiet \in DriveStates
  BY <1>1 DEF Quiet, DriveStates, DriveSteps
<1> QED
  BY <1>2 DEF Quiet

(* Setting one drive leaves the others as they are.                         *)
LEMMA SetDriveEffect ==
    ASSUME EventsTypes, NEW d \in Drives, NEW new \in DriveStates, SetDrive(d, new)
    PROVE  /\ drive' \in [Drives -> DriveStates] /\ drive'[d] = new
           /\ \A e \in Drives : e # d => drive'[e] = drive[e]
BY DEF EventsTypes, SetDrive

(* A drive that begins holds its first line and nothing else.               *)
LEMMA BeginRunEffect ==
    ASSUME EventsTypes, NEW d \in Drives, BeginRun(d)
    PROVE  /\ drive' \in [Drives -> DriveStates]
           /\ \A e \in Drives : e # d => drive'[e] = drive[e]
           /\ drive[d].step = "idle" /\ drive'[d].step = "announcing"
           /\ drive'[d].emitted = 0 /\ drive'[d].queue = << >> /\ drive'[d].seq = 0
           /\ Len(drive'[d].writing) = 1
           /\ Head(drive'[d].writing).drive = d /\ Head(drive'[d].writing).n = 0
           /\ drive'[d].calls = 0 /\ drive'[d].pending = {} /\ drive'[d].batch = {}
           /\ drive'[d].flushing = FALSE
           /\ UNCHANGED <<timeline, ledger, lostCalls, stream>>
<1> DEFINE event == [drive |-> d, n |-> 0, status |-> "started"]
<1> DEFINE line == << event >>
<1> DEFINE new == [Quiet EXCEPT !.step = "announcing", !.writing = line]
<1>1. SetDrive(d, new) /\ drive[d].step = "idle" /\ UNCHANGED <<timeline, ledger, lostCalls, stream>>
  BY DEF BeginRun
<1>2. event \in Event /\ event.drive = d /\ event.n = 0
  BY Bounds DEF Event
<1> HIDE DEF event
<1>3. line \in Seq(Event) /\ Len(line) = 1 /\ Head(line) = event
  BY <1>2
<1> HIDE DEF line
<1>4. new \in DriveStates
  BY <1>3, QuietIsTyped DEF DriveStates, DriveSteps
<1>5. /\ new.step = "announcing" /\ new.writing = line
      /\ new.emitted = 0 /\ new.queue = << >> /\ new.seq = 0
      /\ new.calls = 0 /\ new.pending = {} /\ new.batch = {} /\ new.flushing = FALSE
  BY <1>3, QuietIsTyped DEF DriveStates
<1> HIDE DEF new
<1>6. drive' \in [Drives -> DriveStates] /\ drive'[d] = new
      /\ \A e \in Drives : e # d => drive'[e] = drive[e]
  BY <1>1, <1>4, SetDriveEffect
<1> QED
  BY <1>1, <1>2, <1>3, <1>5, <1>6

(* While fewer than MaxCalls calls were made, this drive has made fewer.    *)
LEMMA CallsBelowBound ==
    ASSUME EventsTypes, NEW d \in Drives,
           Cardinality({c \in Call : c[2] <= drive[c[1]].calls}) < MaxCalls
    PROVE  drive[d].calls \in Nat /\ drive[d].calls < MaxCalls
<1> DEFINE Made == {c \in Call : c[2] <= drive[c[1]].calls}
<1> DEFINE Own == {d} \X (1 .. MaxCalls)
<1>1. drive[d].calls \in 0 .. MaxCalls /\ MaxCalls \in Nat
  BY Bounds DEF EventsTypes, DriveStates
<1>2. SUFFICES ASSUME drive[d].calls = MaxCalls PROVE FALSE
  BY <1>1
<1>3. Own \subseteq Made
  BY <1>1, <1>2 DEF Call
<1>4. IsFiniteSet(1 .. MaxCalls) /\ Cardinality(1 .. MaxCalls) = MaxCalls
  BY <1>1, FS_Interval
<1>5. IsFiniteSet({d}) /\ Cardinality({d}) = 1
  BY FS_Singleton
<1>6. IsFiniteSet(Call)
  BY <1>4, Bounds, FS_Product DEF Call
<1>7. IsFiniteSet(Made)
  BY <1>6, FS_Subset
<1>8. Cardinality(Own) = 1 * MaxCalls
  <2>1. Cardinality(Own) = Cardinality({d}) * Cardinality(1 .. MaxCalls)
    BY <1>4, <1>5, FS_Product, Zenon
  <2> QED
    BY <1>4, <1>5, <2>1
<1>9. Cardinality(Own) <= Cardinality(Made)
  BY <1>3, <1>7, FS_Subset
<1>10. Cardinality(Made) \in Nat
  BY <1>7, FS_CardinalityType
<1> QED
  BY <1>1, <1>8, <1>9, <1>10

(* A call is made: it waits in the buffer.                                  *)
LEMMA CallModelEffect ==
    ASSUME EventsTypes, NEW d \in Drives, CallModel(d)
    PROVE  /\ drive' \in [Drives -> DriveStates]
           /\ \A e \in Drives : e # d => drive'[e] = drive[e]
           /\ drive[d].step = "driving" /\ drive'[d].step = "driving"
           /\ drive'[d].emitted = drive[d].emitted /\ drive'[d].queue = drive[d].queue
           /\ drive'[d].writing = drive[d].writing /\ drive'[d].seq = drive[d].seq
           /\ drive'[d].calls = drive[d].calls + 1 /\ drive[d].calls + 1 \in 1 .. MaxCalls
           /\ drive'[d].pending = drive[d].pending \union {<<d, drive[d].calls + 1>>}
           /\ drive'[d].batch = drive[d].batch /\ drive'[d].flushing = drive[d].flushing
           /\ UNCHANGED <<timeline, ledger, lostCalls, stream>>
<1> DEFINE n == drive[d].calls + 1
<1> DEFINE buffer == drive[d].pending \union {<<d, n>>}
<1> DEFINE new == [drive[d] EXCEPT !.calls = n, !.pending = buffer]
<1>1. SetDrive(d, new) /\ drive[d].step = "driving" /\ UNCHANGED <<timeline, ledger, lostCalls, stream>>
  BY DEF CallModel
<1>2. drive[d] \in DriveStates /\ n \in 1 .. MaxCalls
  <2>1. drive[d].calls \in Nat /\ drive[d].calls < MaxCalls
    BY CallsBelowBound DEF CallModel
  <2> QED
    BY <2>1, Bounds DEF EventsTypes
<1>3. buffer \subseteq Call
  BY <1>2 DEF DriveStates, Call
<1>a. n \in 0 .. MaxCalls
  BY <1>2, Bounds
<1> HIDE DEF n, buffer
<1>4. new \in DriveStates
  BY <1>2, <1>3, <1>a DEF DriveStates
<1>5. /\ new.step = drive[d].step /\ new.writing = drive[d].writing
      /\ new.emitted = drive[d].emitted /\ new.queue = drive[d].queue /\ new.seq = drive[d].seq
      /\ new.calls = n /\ new.pending = buffer /\ new.batch = drive[d].batch
  BY <1>2 DEF DriveStates
<1>b. new.flushing = drive[d].flushing
  BY <1>2, Zenon DEF DriveStates
<1> HIDE DEF new
<1>6. drive' \in [Drives -> DriveStates] /\ drive'[d] = new
      /\ \A e \in Drives : e # d => drive'[e] = drive[e]
  BY <1>1, <1>4, SetDriveEffect
<1>7. drive'[d].flushing = drive[d].flushing
  BY <1>6, <1>b, Zenon
<1>8. drive'[d].calls = n /\ drive'[d].pending = buffer
  BY <1>5, <1>6
<1> QED
  BY <1>1, <1>2, <1>5, <1>6, <1>7, <1>8 DEF n, buffer

(* An event is queued behind the others.                                    *)
LEMMA EmitEffect ==
    ASSUME EventsTypes, NEW d \in Drives, Emit(d)
    PROVE  /\ drive' \in [Drives -> DriveStates]
           /\ \A e \in Drives : e # d => drive'[e] = drive[e]
           /\ drive[d].step = "driving" /\ drive'[d].step = "driving"
           /\ drive'[d].emitted = drive[d].emitted + 1
           /\ \E event \in Event : /\ event.drive = d /\ event.n = drive[d].emitted + 1
                                   /\ drive'[d].queue = Append(drive[d].queue, event)
           /\ drive'[d].writing = drive[d].writing /\ drive'[d].seq = drive[d].seq
           /\ drive'[d].calls = drive[d].calls /\ drive'[d].pending = drive[d].pending
           /\ drive'[d].batch = drive[d].batch /\ drive'[d].flushing = drive[d].flushing
           /\ UNCHANGED <<timeline, ledger, lostCalls, stream>>
<1> DEFINE n == drive[d].emitted + 1
<1>1. PICK status \in {"started", "done"} :
         SetDrive(d, [drive[d] EXCEPT !.emitted = n,
                         !.queue = Append(@, [drive |-> d, n |-> n, status |-> status])])
  BY DEF Emit
<1> DEFINE event == [drive |-> d, n |-> n, status |-> status]
<1> DEFINE queue == Append(drive[d].queue, event)
<1> DEFINE new == [drive[d] EXCEPT !.emitted = n, !.queue = queue]
<1>2. /\ drive[d] \in DriveStates /\ n \in 0 .. MaxEmitted /\ drive[d].step = "driving"
      /\ UNCHANGED <<timeline, ledger, lostCalls, stream>>
  BY Bounds DEF Emit, EventsTypes, DriveStates
<1>3. event \in Event /\ event.drive = d /\ event.n = n
  BY <1>2 DEF Event
<1>4. SetDrive(d, new)
  BY <1>1
<1> HIDE DEF n, event
<1>5. queue \in Seq(Event)
  BY <1>2, <1>3 DEF DriveStates
<1> HIDE DEF queue
<1>6. new \in DriveStates
  BY <1>2, <1>5 DEF DriveStates
<1>7. /\ new.step = drive[d].step /\ new.writing = drive[d].writing
      /\ new.emitted = n /\ new.queue = queue /\ new.seq = drive[d].seq
      /\ new.calls = drive[d].calls /\ new.pending = drive[d].pending /\ new.batch = drive[d].batch
  BY <1>2 DEF DriveStates
<1>8. new.flushing = drive[d].flushing
  BY <1>2, Zenon DEF DriveStates
<1> HIDE DEF new
<1>9. drive' \in [Drives -> DriveStates] /\ drive'[d] = new
      /\ \A e \in Drives : e # d => drive'[e] = drive[e]
  BY <1>4, <1>6, SetDriveEffect
<1>10. drive'[d].flushing = drive[d].flushing
  BY <1>8, <1>9, Zenon
<1>11. drive'[d].emitted = drive[d].emitted + 1 /\ event.n = drive[d].emitted + 1
  BY <1>3, <1>7, <1>9 DEF n
<1>12. drive'[d].queue = Append(drive[d].queue, event)
  BY <1>7, <1>9 DEF queue
<1>13. \E ev \in Event : /\ ev.drive = d /\ ev.n = drive[d].emitted + 1
                         /\ drive'[d].queue = Append(drive[d].queue, ev)
  BY <1>3, <1>11, <1>12
<1> QED
  BY <1>2, <1>7, <1>9, <1>10, <1>11, <1>13

(* The graph ends: what it emitted and called stays as it is.               *)
LEMMA EndGraphEffect ==
    ASSUME EventsTypes, NEW d \in Drives, EndGraph(d)
    PROVE  /\ drive' \in [Drives -> DriveStates]
           /\ \A e \in Drives : e # d => drive'[e] = drive[e]
           /\ drive[d].step = "driving" /\ drive'[d].step = "closing"
           /\ drive'[d].emitted = drive[d].emitted /\ drive'[d].queue = drive[d].queue
           /\ drive'[d].writing = drive[d].writing /\ drive'[d].seq = drive[d].seq
           /\ drive'[d].calls = drive[d].calls /\ drive'[d].pending = drive[d].pending
           /\ drive'[d].batch = drive[d].batch /\ drive'[d].flushing = drive[d].flushing
           /\ UNCHANGED <<timeline, ledger, lostCalls, stream>>
<1>1. PICK raised \in BOOLEAN : SetDrive(d, [drive[d] EXCEPT !.step = "closing", !.raised = raised])
  BY DEF EndGraph
<1> DEFINE new == [drive[d] EXCEPT !.step = "closing", !.raised = raised]
<1>2. /\ drive[d] \in DriveStates /\ drive[d].step = "driving" /\ SetDrive(d, new)
      /\ UNCHANGED <<timeline, ledger, lostCalls, stream>>
  BY <1>1 DEF EndGraph, EventsTypes
<1>3. new \in DriveStates
  BY <1>2, Zenon DEF DriveStates, DriveSteps
<1>4. /\ new.step = "closing" /\ new.writing = drive[d].writing
      /\ new.emitted = drive[d].emitted /\ new.queue = drive[d].queue /\ new.seq = drive[d].seq
      /\ new.calls = drive[d].calls /\ new.pending = drive[d].pending /\ new.batch = drive[d].batch
  BY <1>2 DEF DriveStates
<1>5. new.flushing = drive[d].flushing
  BY <1>2, Zenon DEF DriveStates
<1> HIDE DEF new
<1>6. drive' \in [Drives -> DriveStates] /\ drive'[d] = new
      /\ \A e \in Drives : e # d => drive'[e] = drive[e]
  BY <1>2, <1>3, SetDriveEffect
<1>7. drive'[d].flushing = drive[d].flushing
  BY <1>5, <1>6, Zenon
<1> QED
  BY <1>2, <1>4, <1>6, <1>7

(* Taking the buffer moves every call in it to the flush.                   *)
LEMMA TakeBufferEffect ==
    ASSUME NEW now \in DriveStates
    PROVE  /\ TakeBuffer(now) \in DriveStates
           /\ TakeBuffer(now).step = now.step /\ TakeBuffer(now).emitted = now.emitted
           /\ TakeBuffer(now).queue = now.queue /\ TakeBuffer(now).writing = now.writing
           /\ TakeBuffer(now).seq = now.seq /\ TakeBuffer(now).calls = now.calls
           /\ TakeBuffer(now).pending = {} /\ TakeBuffer(now).batch = now.pending
           /\ TakeBuffer(now).flushing <=> now.pending # {}
<1> DEFINE some == now.pending # {}
<1> DEFINE new == [now EXCEPT !.batch = now.pending, !.pending = {}, !.flushing = some]
<1>1. TakeBuffer(now) = new
  BY DEF TakeBuffer, LeftInBuffer
<1>2. some \in BOOLEAN
  OBVIOUS
<1>3. some <=> now.pending # {}
  OBVIOUS
<1> HIDE DEF some
<1>4. new \in DriveStates
  <2>1. now.pending \in SUBSET Call /\ {} \in SUBSET Call
    BY DEF DriveStates
  <2> QED
    BY <1>2, <2>1, Zenon DEF DriveStates
<1>5. new.flushing = some
  BY Zenon DEF DriveStates
<1>6. /\ new.step = now.step /\ new.emitted = now.emitted
      /\ new.queue = now.queue /\ new.writing = now.writing
      /\ new.seq = now.seq /\ new.calls = now.calls
      /\ new.pending = {} /\ new.batch = now.pending
  BY DEF DriveStates
<1> HIDE DEF new
<1>7. TakeBuffer(now).flushing = some
  BY <1>1, <1>5, Zenon
<1> QED
  BY <1>1, <1>3, <1>4, <1>6, <1>7, Zenon

(* The head of the queue is taken to be written, and the buffer with it if a node ends. *)
LEMMA TakeEventEffect ==
    ASSUME EventsTypes, NEW d \in Drives, TakeEvent(d)
    PROVE  /\ drive' \in [Drives -> DriveStates]
           /\ \A e \in Drives : e # d => drive'[e] = drive[e]
           /\ drive[d].step \in {"driving", "closing"} /\ drive'[d].step = drive[d].step
           /\ drive[d].writing = << >> /\ drive[d].queue # << >>
           /\ Len(drive'[d].writing) = 1 /\ Head(drive'[d].writing) = Head(drive[d].queue)
           /\ drive'[d].queue = Tail(drive[d].queue)
           /\ drive'[d].emitted = drive[d].emitted /\ drive'[d].seq = drive[d].seq
           /\ drive'[d].calls = drive[d].calls
           /\ \/ /\ drive'[d].pending = drive[d].pending /\ drive'[d].batch = drive[d].batch
                 /\ drive'[d].flushing <=> drive[d].flushing
              \/ /\ drive'[d].pending = {} /\ drive'[d].batch = drive[d].pending
                 /\ drive'[d].flushing <=> drive[d].pending # {}
           /\ UNCHANGED <<timeline, ledger, lostCalls, stream>>
<1> DEFINE line == << Head(drive[d].queue) >>
<1> DEFINE rest == Tail(drive[d].queue)
<1> DEFINE taken == [drive[d] EXCEPT !.writing = line, !.queue = rest]
<1>1. /\ drive[d] \in DriveStates /\ drive[d].step \in {"driving", "closing"}
      /\ drive[d].writing = << >> /\ drive[d].queue # << >>
      /\ SetDrive(d, IF Head(drive[d].queue).status = "done" THEN TakeBuffer(taken) ELSE taken)
      /\ UNCHANGED <<timeline, ledger, lostCalls, stream>>
  BY DEF TakeEvent, EventsTypes
<1>2. line \in Seq(Event) /\ Len(line) = 1 /\ Head(line) = Head(drive[d].queue) /\ rest \in Seq(Event)
  BY <1>1 DEF DriveStates
<1> HIDE DEF line, rest
<1>3. taken \in DriveStates
  BY <1>1, <1>2 DEF DriveStates
<1>4. /\ taken.step = drive[d].step /\ taken.emitted = drive[d].emitted /\ taken.queue = rest
      /\ taken.writing = line /\ taken.seq = drive[d].seq /\ taken.calls = drive[d].calls
      /\ taken.pending = drive[d].pending /\ taken.batch = drive[d].batch
  BY <1>1 DEF DriveStates
<1>5. taken.flushing = drive[d].flushing
  BY <1>1, Zenon DEF DriveStates
<1> HIDE DEF taken
<1>6. CASE Head(drive[d].queue).status = "done"
  <2> DEFINE new == TakeBuffer(taken)
  <2>1. /\ new \in DriveStates /\ new.step = drive[d].step /\ new.emitted = drive[d].emitted
        /\ new.queue = rest /\ new.writing = line /\ new.seq = drive[d].seq
        /\ new.calls = drive[d].calls /\ new.pending = {} /\ new.batch = drive[d].pending
        /\ new.flushing <=> drive[d].pending # {}
    BY <1>3, <1>4, TakeBufferEffect
  <2>2. SetDrive(d, new)
    BY <1>1, <1>6
  <2> HIDE DEF new
  <2>3. drive' \in [Drives -> DriveStates] /\ drive'[d] = new
        /\ \A e \in Drives : e # d => drive'[e] = drive[e]
    BY <2>1, <2>2, SetDriveEffect
  <2> QED
    BY <1>1, <1>2, <2>1, <2>3 DEF rest
<1>7. CASE Head(drive[d].queue).status # "done"
  <2>1. SetDrive(d, taken)
    BY <1>1, <1>7
  <2>2. drive' \in [Drives -> DriveStates] /\ drive'[d] = taken
        /\ \A e \in Drives : e # d => drive'[e] = drive[e]
    BY <1>3, <2>1, SetDriveEffect
  <2>3. drive'[d].flushing <=> drive[d].flushing
    BY <1>5, <2>2
  <2> QED
    BY <1>1, <1>2, <1>4, <2>2, <2>3 DEF rest
<1> QED
  BY <1>6, <1>7

(* The flush ends: its calls have their rows, or never will.                *)
LEMMA WriteLedgerEffect ==
    ASSUME EventsTypes, NEW d \in Drives, WriteLedger(d)
    PROVE  /\ drive' \in [Drives -> DriveStates]
           /\ \A e \in Drives : e # d => drive'[e] = drive[e]
           /\ drive[d].flushing /\ ~ drive'[d].flushing /\ drive'[d].step = drive[d].step
           /\ drive'[d].emitted = drive[d].emitted /\ drive'[d].queue = drive[d].queue
           /\ drive'[d].writing = drive[d].writing /\ drive'[d].seq = drive[d].seq
           /\ drive'[d].calls = drive[d].calls /\ drive'[d].pending = drive[d].pending
           /\ drive'[d].batch = {}
           /\ \/ /\ ledger' = [c \in Call |-> ledger[c] + IF c \in drive[d].batch THEN 1 ELSE 0]
                 /\ UNCHANGED lostCalls
              \/ lostCalls' = lostCalls \union drive[d].batch /\ UNCHANGED ledger
           /\ UNCHANGED <<timeline, stream>>
<1> DEFINE new == [drive[d] EXCEPT !.batch = {}, !.flushing = FALSE]
<1>1. /\ drive[d] \in DriveStates /\ SetDrive(d, new) /\ drive[d].flushing
      /\ \/ /\ ledger' = [c \in Call |-> ledger[c] + IF c \in drive[d].batch THEN 1 ELSE 0]
            /\ UNCHANGED lostCalls
         \/ lostCalls' = lostCalls \union drive[d].batch /\ UNCHANGED ledger
      /\ UNCHANGED <<timeline, stream>>
  BY DEF WriteLedger, EventsTypes
<1>2. new \in DriveStates
  BY <1>1 DEF DriveStates
<1>3. /\ new.step = drive[d].step /\ new.writing = drive[d].writing
      /\ new.emitted = drive[d].emitted /\ new.queue = drive[d].queue /\ new.seq = drive[d].seq
      /\ new.calls = drive[d].calls /\ new.pending = drive[d].pending /\ new.batch = {}
      /\ ~ new.flushing
  BY <1>1 DEF DriveStates
<1> HIDE DEF new
<1>4. drive' \in [Drives -> DriveStates] /\ drive'[d] = new
      /\ \A e \in Drives : e # d => drive'[e] = drive[e]
  BY <1>1, <1>2, SetDriveEffect
<1> QED
  BY <1>1, <1>3, <1>4

(* Without a hole, the highest number is the number of lines.               *)
LEMMA HighestIsSize ==
    ASSUME EventsTypes, NoHole
    PROVE  Highest = Size /\ Size \in Nat
<1> DEFINE IsHighest(n) == /\ n = 0 \/ \E e \in timeline : e.seq = n
                           /\ \A e \in timeline : e.seq <= n
<1>1. Size \in Nat /\ \A e \in timeline : e.seq \in Nat
  BY FS_CardinalityType DEF EventsTypes, Size
<1>2. Size \in 0 .. Size /\ IsHighest(Size)
  BY <1>1 DEF NoHole
<1>3. ASSUME NEW n \in 0 .. Size, IsHighest(n) PROVE n = Size
  <2>1. CASE Size = 0
    BY <1>1, <2>1
  <2>2. CASE Size # 0
    <3>1. PICK e \in timeline : e.seq = Size
      BY <1>1, <2>2 DEF NoHole
    <3> QED
      BY <1>1, <1>3, <3>1
  <2> QED
    BY <2>1, <2>2
<1>4. Highest = CHOOSE n \in 0 .. Size : IsHighest(n)
  BY DEF Highest, Size
<1> HIDE DEF IsHighest
<1> QED
  BY <1>1, <1>2, <1>3, <1>4

(* A number is taken, and nothing says that it stays free.                  *)
LEMMA NextSeqEffect ==
    ASSUME EventsTypes, NoHole, NEW d \in Drives, NextSeq(d)
    PROVE  /\ drive' \in [Drives -> DriveStates]
           /\ \A e \in Drives : e # d => drive'[e] = drive[e]
           /\ drive[d].writing # << >> /\ ~ drive[d].flushing /\ drive'[d].step = drive[d].step
           /\ drive'[d].emitted = drive[d].emitted /\ drive'[d].queue = drive[d].queue
           /\ drive'[d].writing = drive[d].writing /\ drive'[d].seq = Size + 1
           /\ drive'[d].calls = drive[d].calls /\ drive'[d].pending = drive[d].pending
           /\ drive'[d].batch = drive[d].batch /\ ~ drive'[d].flushing
           /\ UNCHANGED <<timeline, ledger, lostCalls, stream>>
<1> DEFINE n == Size + 1
<1> DEFINE new == [drive[d] EXCEPT !.seq = n]
<1>1. Highest = Size /\ Size \in Nat
  BY HighestIsSize
<1>2. /\ drive[d] \in DriveStates /\ SetDrive(d, new) /\ n \in Nat
      /\ drive[d].writing # << >> /\ ~ drive[d].flushing
      /\ UNCHANGED <<timeline, ledger, lostCalls, stream>>
  BY <1>1 DEF NextSeq, EventsTypes
<1> HIDE DEF n
<1>3. new \in DriveStates
  BY <1>2 DEF DriveStates
<1>4. /\ new.step = drive[d].step /\ new.writing = drive[d].writing
      /\ new.emitted = drive[d].emitted /\ new.queue = drive[d].queue /\ new.seq = n
      /\ new.calls = drive[d].calls /\ new.pending = drive[d].pending /\ new.batch = drive[d].batch
  BY <1>2 DEF DriveStates
<1>5. new.flushing = drive[d].flushing
  BY <1>2, Zenon DEF DriveStates
<1> HIDE DEF new
<1>6. drive' \in [Drives -> DriveStates] /\ drive'[d] = new
      /\ \A e \in Drives : e # d => drive'[e] = drive[e]
  BY <1>2, <1>3, SetDriveEffect
<1>7. ~ drive'[d].flushing
  BY <1>2, <1>5, <1>6, Zenon
<1> QED
  BY <1>2, <1>4, <1>6, <1>7 DEF n

(* The line is in the timeline under a free number, or gone.                *)
LEMMA AppendEventEffect ==
    ASSUME EventsTypes, NEW d \in Drives, AppendEvent(d)
    PROVE  /\ drive' \in [Drives -> DriveStates]
           /\ \A e \in Drives : e # d => drive'[e] = drive[e]
           /\ drive[d].seq > 0 /\ drive'[d].writing = << >> /\ drive'[d].seq = 0
           /\ drive'[d].step = IF drive[d].step = "announcing" THEN "driving" ELSE drive[d].step
           /\ drive'[d].emitted = drive[d].emitted /\ drive'[d].queue = drive[d].queue
           /\ drive'[d].calls = drive[d].calls /\ drive'[d].pending = drive[d].pending
           /\ drive'[d].batch = drive[d].batch
           /\ drive'[d].flushing <=> drive[d].flushing
           /\ \/ /\ ~ Taken(drive[d].seq)
                 /\ timeline' = timeline \union {[seq |-> drive[d].seq, event |-> Head(drive[d].writing)]}
              \/ UNCHANGED timeline
           /\ UNCHANGED <<ledger, lostCalls, stream>>
<1> DEFINE next == IF drive[d].step = "announcing" THEN "driving" ELSE drive[d].step
<1> DEFINE new == [drive[d] EXCEPT !.writing = << >>, !.seq = 0, !.step = next]
<1>1. /\ drive[d] \in DriveStates /\ SetDrive(d, new) /\ drive[d].seq > 0
      /\ \/ /\ ~ Taken(drive[d].seq)
            /\ timeline' = timeline \union {[seq |-> drive[d].seq, event |-> Head(drive[d].writing)]}
         \/ UNCHANGED timeline
      /\ UNCHANGED <<ledger, lostCalls, stream>>
  BY DEF AppendEvent, EventsTypes
<1>2. next \in DriveSteps /\ << >> \in Seq(Event)
  BY <1>1 DEF DriveStates, DriveSteps
<1> HIDE DEF next
<1>3. new \in DriveStates
  BY <1>1, <1>2 DEF DriveStates
<1>4. /\ new.step = next /\ new.writing = << >> /\ new.seq = 0
      /\ new.emitted = drive[d].emitted /\ new.queue = drive[d].queue
      /\ new.calls = drive[d].calls /\ new.pending = drive[d].pending /\ new.batch = drive[d].batch
  BY <1>1, <1>2 DEF DriveStates
<1>5. new.flushing = drive[d].flushing
  BY <1>1, Zenon DEF DriveStates
<1> HIDE DEF new
<1>6. drive' \in [Drives -> DriveStates] /\ drive'[d] = new
      /\ \A e \in Drives : e # d => drive'[e] = drive[e]
  BY <1>1, <1>3, SetDriveEffect
<1>7. drive'[d].flushing <=> drive[d].flushing
  BY <1>5, <1>6, Zenon
<1> QED
  BY <1>1, <1>4, <1>6, <1>7 DEF next

(* A drive that returned flushes the rest of its buffer; one that raised drops it. *)
LEMMA FlushRestEffect ==
    ASSUME EventsTypes, NEW d \in Drives, FlushRest(d)
    PROVE  /\ drive' \in [Drives -> DriveStates]
           /\ \A e \in Drives : e # d => drive'[e] = drive[e]
           /\ drive[d].step = "closing" /\ drive[d].writing = << >>
           /\ drive'[d].step = "finishing"
           /\ drive'[d].emitted = drive[d].emitted /\ drive'[d].queue = drive[d].queue
           /\ drive'[d].writing = drive[d].writing /\ drive'[d].seq = drive[d].seq
           /\ drive'[d].calls = drive[d].calls /\ drive'[d].pending = {}
           /\ \/ /\ drive'[d].batch = drive[d].batch /\ lostCalls' = lostCalls \union drive[d].pending
                 /\ drive'[d].flushing <=> drive[d].flushing
              \/ /\ drive'[d].batch = drive[d].pending /\ lostCalls' = lostCalls
                 /\ drive'[d].flushing <=> drive[d].pending # {}
           /\ UNCHANGED <<timeline, ledger, stream>>
<1>1. /\ drive[d] \in DriveStates /\ drive[d].step = "closing" /\ drive[d].writing = << >>
      /\ UNCHANGED <<timeline, ledger, stream>>
  BY DEF FlushRest, Drained, EventsTypes
<1>2. CASE drive[d].raised
  <2> DEFINE new == [drive[d] EXCEPT !.step = "finishing", !.pending = {}]
  <2>1. SetDrive(d, new) /\ lostCalls' = lostCalls \union drive[d].pending
    BY <1>2 DEF FlushRest
  <2>2. new \in DriveStates
    BY <1>1 DEF DriveStates, DriveSteps
  <2>3. /\ new.step = "finishing" /\ new.writing = drive[d].writing /\ new.seq = drive[d].seq
        /\ new.emitted = drive[d].emitted /\ new.queue = drive[d].queue
        /\ new.calls = drive[d].calls /\ new.pending = {} /\ new.batch = drive[d].batch
    BY <1>1 DEF DriveStates
  <2>4. new.flushing = drive[d].flushing
    BY <1>1, Zenon DEF DriveStates
  <2> HIDE DEF new
  <2>5. drive' \in [Drives -> DriveStates] /\ drive'[d] = new
        /\ \A e \in Drives : e # d => drive'[e] = drive[e]
    BY <2>1, <2>2, SetDriveEffect
  <2>6. drive'[d].flushing <=> drive[d].flushing
    BY <2>4, <2>5, Zenon
  <2> QED
    BY <1>1, <2>1, <2>3, <2>5, <2>6
<1>3. CASE ~ drive[d].raised
  <2> DEFINE taken == TakeBuffer(drive[d])
  <2> DEFINE new == [taken EXCEPT !.step = "finishing"]
  <2>1. SetDrive(d, new) /\ lostCalls' = lostCalls
    BY <1>3 DEF FlushRest
  <2>2. /\ taken \in DriveStates /\ taken.emitted = drive[d].emitted
        /\ taken.queue = drive[d].queue /\ taken.writing = drive[d].writing
        /\ taken.seq = drive[d].seq /\ taken.calls = drive[d].calls
        /\ taken.pending = {} /\ taken.batch = drive[d].pending
        /\ taken.flushing <=> drive[d].pending # {}
    BY <1>1, TakeBufferEffect
  <2> HIDE DEF taken
  <2>3. new \in DriveStates
    BY <2>2 DEF DriveStates, DriveSteps
  <2>4. /\ new.step = "finishing" /\ new.writing = drive[d].writing /\ new.seq = drive[d].seq
        /\ new.emitted = drive[d].emitted /\ new.queue = drive[d].queue
        /\ new.calls = drive[d].calls /\ new.pending = {} /\ new.batch = drive[d].pending
    BY <2>2 DEF DriveStates
  <2>5. new.flushing = taken.flushing
    BY <2>2, Zenon DEF DriveStates
  <2> HIDE DEF new
  <2>6. drive' \in [Drives -> DriveStates] /\ drive'[d] = new
        /\ \A e \in Drives : e # d => drive'[e] = drive[e]
    BY <2>1, <2>3, SetDriveEffect
  <2>7. drive'[d].flushing <=> drive[d].pending # {}
    BY <2>2, <2>5, <2>6, Zenon
  <2> QED
    BY <1>1, <2>1, <2>4, <2>6, <2>7
<1> QED
  BY <1>2, <1>3

(* A drive is over: finished, or stopped with its process.                  *)
LEMMA OverEffect ==
    ASSUME EventsTypes, NEW d \in Drives, FinishRun(d) \/ StopProcess(d)
    PROVE  /\ drive' \in [Drives -> DriveStates]
           /\ \A e \in Drives : e # d => drive'[e] = drive[e]
           /\ drive'[d].step = "over" /\ drive'[d].emitted = 0 /\ drive'[d].queue = << >>
           /\ drive'[d].writing = << >> /\ drive'[d].seq = 0 /\ drive'[d].calls = drive[d].calls
           /\ drive'[d].batch = {} /\ drive'[d].flushing = FALSE
           /\ \/ /\ drive'[d].pending = drive[d].pending /\ lostCalls' = lostCalls
                 /\ ~ drive[d].flushing
              \/ /\ drive'[d].pending = {}
                 /\ lostCalls' = lostCalls \union drive[d].pending \union drive[d].batch
           /\ UNCHANGED <<timeline, ledger, stream>>
<1>1. drive[d] \in DriveStates /\ drive[d].calls \in 0 .. MaxCalls /\ drive[d].pending \subseteq Call
  BY DEF EventsTypes, DriveStates
<1>2. CASE FinishRun(d)
  <2> DEFINE new == [Quiet EXCEPT !.step = "over", !.calls = drive[d].calls, !.pending = drive[d].pending]
  <2>1. SetDrive(d, new) /\ ~ drive[d].flushing /\ UNCHANGED <<timeline, ledger, lostCalls, stream>>
    BY <1>2 DEF FinishRun
  <2>2. new \in DriveStates
    BY <1>1, QuietIsTyped DEF DriveStates, DriveSteps
  <2>3. /\ new.step = "over" /\ new.writing = << >> /\ new.seq = 0
        /\ new.emitted = 0 /\ new.queue = << >> /\ new.calls = drive[d].calls
        /\ new.pending = drive[d].pending /\ new.batch = {} /\ new.flushing = FALSE
    BY <1>1, QuietIsTyped DEF DriveStates
  <2> HIDE DEF new
  <2>4. drive' \in [Drives -> DriveStates] /\ drive'[d] = new
        /\ \A e \in Drives : e # d => drive'[e] = drive[e]
    BY <2>1, <2>2, SetDriveEffect
  <2> QED
    BY <2>1, <2>3, <2>4
<1>3. CASE StopProcess(d)
  <2> DEFINE new == [Quiet EXCEPT !.step = "over", !.calls = drive[d].calls]
  <2>1. /\ SetDrive(d, new) /\ UNCHANGED <<timeline, ledger, stream>>
        /\ lostCalls' = lostCalls \union drive[d].pending \union drive[d].batch
    BY <1>3 DEF StopProcess
  <2>2. new \in DriveStates
    BY <1>1, QuietIsTyped DEF DriveStates, DriveSteps
  <2>3. /\ new.step = "over" /\ new.writing = << >> /\ new.seq = 0
        /\ new.emitted = 0 /\ new.queue = << >> /\ new.calls = drive[d].calls
        /\ new.pending = {} /\ new.batch = {} /\ new.flushing = FALSE
    BY <1>1, QuietIsTyped DEF DriveStates
  <2> HIDE DEF new
  <2>4. drive' \in [Drives -> DriveStates] /\ drive'[d] = new
        /\ \A e \in Drives : e # d => drive'[e] = drive[e]
    BY <2>1, <2>2, SetDriveEffect
  <2> QED
    BY <2>1, <2>3, <2>4
<1> QED
  BY <1>2, <1>3

-----------------------------------------------------------------------------
(* The ledger.                                                              *)

(* A step that moves only calls of its own drive keeps the others' accounts. *)
LEMMA AccountKept ==
    ASSUME AccountInv, NEW d \in Drives,
           \A e \in Drives : e # d => drive'[e] = drive[e],
           FlushInv(d)', OwnCalls(d)', \A n \in 1 .. MaxCalls : Holder(d, n)',
           \A e \in Drives, n \in 1 .. MaxCalls : e # d =>
               /\ ledger'[<<e, n>>] = ledger[<<e, n>>]
               /\ <<e, n>> \in lostCalls' <=> <<e, n>> \in lostCalls
    PROVE  AccountInv'
<1>1. ASSUME NEW e \in Drives PROVE FlushInv(e)' /\ OwnCalls(e)'
  <2>1. CASE e = d
    BY <2>1
  <2>2. CASE e # d
    BY <2>2 DEF AccountInv, FlushInv, OwnCalls
  <2> QED
    BY <2>1, <2>2
<1>2. ASSUME NEW e \in Drives, NEW n \in 1 .. MaxCalls PROVE Holder(e, n)'
  <2>1. CASE e = d
    BY <2>1
  <2>2. CASE e # d
    <3>1. Holder(e, n) /\ drive'[e] = drive[e] /\ ledger'[<<e, n>>] = ledger[<<e, n>>]
          /\ (<<e, n>> \in lostCalls' <=> <<e, n>> \in lostCalls)
      BY <2>2 DEF AccountInv
    <3> QED
      BY <3>1 DEF Holder
  <2> QED
    BY <2>1, <2>2
<1> QED
  BY <1>1, <1>2 DEF AccountInv

(* A step that moves no call keeps the account.                             *)
LEMMA AccountUntouched ==
    ASSUME AccountInv, NEW d \in Drives,
           \A e \in Drives : e # d => drive'[e] = drive[e],
           FlushInv(d)', drive'[d].calls = drive[d].calls, drive'[d].pending = drive[d].pending,
           drive'[d].batch = drive[d].batch, UNCHANGED <<ledger, lostCalls>>
    PROVE  AccountInv'
<1>1. OwnCalls(d)' /\ \A n \in 1 .. MaxCalls : Holder(d, n)'
  BY DEF AccountInv, OwnCalls, Holder
<1> QED
  BY <1>1, AccountKept

(* Moving the buffer to the flush moves each call, when no flush is in flight. *)
LEMMA AccountTaken ==
    ASSUME AccountInv, NEW d \in Drives,
           \A e \in Drives : e # d => drive'[e] = drive[e],
           FlushInv(d)', drive[d].batch = {}, drive'[d].calls = drive[d].calls,
           drive'[d].pending = {}, drive'[d].batch = drive[d].pending,
           UNCHANGED <<ledger, lostCalls>>
    PROVE  AccountInv'
<1>1. OwnCalls(d)'
  BY DEF AccountInv, OwnCalls
<1>2. ASSUME NEW n \in 1 .. MaxCalls PROVE Holder(d, n)'
  BY DEF AccountInv, Holder
<1> QED
  BY <1>1, <1>2, AccountKept

(* What a drive drops is lost, and was lost by no one before.               *)
LEMMA AccountDropped ==
    ASSUME AccountInv, NEW d \in Drives, NEW dropped,
           \A e \in Drives : e # d => drive'[e] = drive[e],
           FlushInv(d)', drive'[d].calls = drive[d].calls,
           \A e \in Drives, n \in 1 .. MaxCalls : <<e, n>> \in dropped => e = d,
           \A n \in 1 .. MaxCalls :
              /\ <<d, n>> \in drive'[d].pending =>
                     <<d, n>> \in drive[d].pending /\ <<d, n>> \notin dropped
              /\ <<d, n>> \in drive'[d].batch =>
                     <<d, n>> \in drive[d].batch /\ <<d, n>> \notin dropped
              /\ <<d, n>> \in dropped => <<d, n>> \in drive[d].pending \/ <<d, n>> \in drive[d].batch
              /\ <<d, n>> \in drive[d].pending \/ <<d, n>> \in drive[d].batch =>
                     <<d, n>> \in drive'[d].pending \/ <<d, n>> \in drive'[d].batch \/ <<d, n>> \in dropped,
           \A e \in Drives, n \in 1 .. MaxCalls : e # d =>
               <<e, n>> \notin drive'[d].pending /\ <<e, n>> \notin drive'[d].batch,
           lostCalls' = lostCalls \union dropped, UNCHANGED ledger
    PROVE  AccountInv'
<1>1. OwnCalls(d)'
  BY DEF OwnCalls
<1>2. ASSUME NEW n \in 1 .. MaxCalls PROVE Holder(d, n)'
  BY DEF AccountInv, Holder
<1>3. \A e \in Drives, n \in 1 .. MaxCalls : e # d =>
          /\ ledger'[<<e, n>>] = ledger[<<e, n>>]
          /\ <<e, n>> \in lostCalls' <=> <<e, n>> \in lostCalls
  OBVIOUS
<1> QED
  BY <1>1, <1>2, <1>3, AccountKept

(* Each call is booked once or lost once, whatever a drive does next.       *)
LEMMA AccountStep ==
    ASSUME EventsTypes, NoHole, AccountInv, NEW d \in Drives,
           \/ BeginRun(d) \/ CallModel(d) \/ Emit(d) \/ EndGraph(d) \/ TakeEvent(d)
           \/ WriteLedger(d) \/ NextSeq(d) \/ AppendEvent(d) \/ FlushRest(d) \/ FinishRun(d)
           \/ StopProcess(d)
    PROVE  AccountInv'
<1> USE DEF EventsTypes
<1>0. FlushInv(d) /\ OwnCalls(d) /\ \A n \in 1 .. MaxCalls : Holder(d, n)
  BY DEF AccountInv
<1>1. CASE BeginRun(d)
  <2>1. /\ \A e \in Drives : e # d => drive'[e] = drive[e]
        /\ drive[d].step = "idle" /\ drive'[d].step = "announcing" /\ drive'[d].seq = 0
        /\ Len(drive'[d].writing) = 1
        /\ drive'[d].calls = 0 /\ drive'[d].pending = {} /\ drive'[d].batch = {}
        /\ drive'[d].flushing = FALSE
        /\ UNCHANGED <<ledger, lostCalls>>
    BY <1>1, BeginRunEffect
  <2>2. drive[d].calls = 0
    BY <1>0, <2>1 DEF FlushInv
  <2>3. FlushInv(d)' /\ OwnCalls(d)'
    BY <2>1 DEF FlushInv, OwnCalls
  <2>4. ASSUME NEW n \in 1 .. MaxCalls PROVE Holder(d, n)'
    BY <1>0, <2>1, <2>2 DEF Holder
  <2> QED
    BY <2>1, <2>3, <2>4, AccountKept
<1>2. CASE CallModel(d)
  <2> DEFINE new == drive[d].calls + 1
  <2>1. /\ \A e \in Drives : e # d => drive'[e] = drive[e]
        /\ drive[d].step = "driving" /\ drive'[d].step = "driving"
        /\ drive'[d].writing = drive[d].writing /\ drive'[d].seq = drive[d].seq
        /\ drive'[d].calls = new /\ new \in 1 .. MaxCalls
        /\ drive'[d].pending = drive[d].pending \union {<<d, new>>}
        /\ drive'[d].batch = drive[d].batch /\ drive'[d].flushing = drive[d].flushing
        /\ UNCHANGED <<ledger, lostCalls>>
    BY <1>2, CallModelEffect
  <2>2. FlushInv(d)'
    BY <1>0, <2>1 DEF FlushInv
  <2>3. OwnCalls(d)'
    BY <1>0, <2>1 DEF OwnCalls
  <2>4. ASSUME NEW n \in 1 .. MaxCalls PROVE Holder(d, n)'
    <3>1. Holder(d, n) /\ drive[d].calls \in Nat /\ n \in Nat
      BY <1>0, Bounds DEF DriveStates
    <3>2. CASE n = new
      <4>1. ~ (n <= drive[d].calls)
        BY <3>1, <3>2
      <4>2. /\ <<d, n>> \notin drive[d].pending /\ <<d, n>> \notin drive[d].batch
            /\ <<d, n>> \notin lostCalls /\ ledger[<<d, n>>] = 0
        BY <3>1, <4>1 DEF Holder
      <4>3. <<d, n>> \in drive'[d].pending /\ n <= drive'[d].calls
        BY <2>1, <3>1, <3>2
      <4> QED
        BY <2>1, <4>2, <4>3 DEF Holder
    <3>3. CASE n # new
      <4>1. n <= new <=> n <= drive[d].calls
        BY <3>1, <3>3
      <4>2. <<d, n>> \in drive'[d].pending <=> <<d, n>> \in drive[d].pending
        BY <2>1, <3>3
      <4> HIDE DEF new
      <4> QED
        BY <2>1, <3>1, <4>1, <4>2 DEF Holder
    <3> QED
      BY <3>2, <3>3
  <2> QED
    BY <2>1, <2>2, <2>3, <2>4, AccountKept
<1>3. CASE Emit(d)
  <2>1. FlushInv(d)'
    BY <1>0, <1>3, EmitEffect DEF FlushInv
  <2> QED
    BY <1>3, <2>1, EmitEffect, AccountUntouched
<1>4. CASE EndGraph(d)
  <2>1. FlushInv(d)'
    BY <1>0, <1>4, EndGraphEffect DEF FlushInv
  <2> QED
    BY <1>4, <2>1, EndGraphEffect, AccountUntouched
<1>5. CASE TakeEvent(d)
  <2>1. /\ \A e \in Drives : e # d => drive'[e] = drive[e]
        /\ drive[d].step \in {"driving", "closing"} /\ drive'[d].step = drive[d].step
        /\ drive[d].writing = << >> /\ Len(drive'[d].writing) = 1
        /\ drive'[d].seq = drive[d].seq /\ drive'[d].calls = drive[d].calls
        /\ \/ /\ drive'[d].pending = drive[d].pending /\ drive'[d].batch = drive[d].batch
              /\ drive'[d].flushing <=> drive[d].flushing
           \/ /\ drive'[d].pending = {} /\ drive'[d].batch = drive[d].pending
              /\ drive'[d].flushing <=> drive[d].pending # {}
        /\ UNCHANGED <<ledger, lostCalls>>
    BY <1>5, TakeEventEffect
  <2>2. ~ drive[d].flushing /\ drive[d].batch = {} /\ drive[d].seq = 0
    BY <1>0, <2>1 DEF FlushInv, DriveStates
  <2>3. FlushInv(d)'
    BY <1>0, <2>1, <2>2 DEF FlushInv
  <2> QED
    BY <2>1, <2>2, <2>3, AccountUntouched, AccountTaken
<1>6. CASE WriteLedger(d)
  <2>1. /\ \A e \in Drives : e # d => drive'[e] = drive[e]
        /\ drive[d].flushing /\ ~ drive'[d].flushing /\ drive'[d].step = drive[d].step
        /\ drive'[d].writing = drive[d].writing /\ drive'[d].seq = drive[d].seq
        /\ drive'[d].calls = drive[d].calls /\ drive'[d].pending = drive[d].pending
        /\ drive'[d].batch = {}
        /\ \/ /\ ledger' = [c \in Call |-> ledger[c] + IF c \in drive[d].batch THEN 1 ELSE 0]
              /\ UNCHANGED lostCalls
           \/ lostCalls' = lostCalls \union drive[d].batch /\ UNCHANGED ledger
    BY <1>6, WriteLedgerEffect
  <2>2. FlushInv(d)'
    BY <1>0, <2>1 DEF FlushInv
  <2>3. CASE lostCalls' = lostCalls \union drive[d].batch /\ UNCHANGED ledger
    <3>1. \A e \in Drives, n \in 1 .. MaxCalls : <<e, n>> \in drive[d].batch => e = d
      BY <1>0 DEF OwnCalls
    <3>2. \A n \in 1 .. MaxCalls : <<d, n>> \in drive[d].pending => <<d, n>> \notin drive[d].batch
      BY <1>0 DEF Holder
    <3>3. \A e \in Drives, n \in 1 .. MaxCalls : e # d =>
              <<e, n>> \notin drive'[d].pending /\ <<e, n>> \notin drive'[d].batch
      BY <1>0, <2>1 DEF OwnCalls
    <3> QED
      BY <2>1, <2>2, <2>3, <3>1, <3>2, <3>3, AccountDropped
  <2>4. CASE /\ ledger' = [c \in Call |-> ledger[c] + IF c \in drive[d].batch THEN 1 ELSE 0]
             /\ UNCHANGED lostCalls
    <3>1. ASSUME NEW e \in Drives, NEW n \in 1 .. MaxCalls
          PROVE  /\ ledger[<<e, n>>] \in Nat
                 /\ ledger'[<<e, n>>] = IF <<e, n>> \in drive[d].batch THEN ledger[<<e, n>>] + 1
                                        ELSE ledger[<<e, n>>]
      <4>1. <<e, n>> \in Call
        BY DEF Call
      <4>2. ledger[<<e, n>>] \in Nat
        BY <4>1
      <4>3. ledger'[<<e, n>>] = ledger[<<e, n>>] + IF <<e, n>> \in drive[d].batch THEN 1 ELSE 0
        BY <2>4, <4>1
      <4> QED
        BY <4>2, <4>3
    <3>2. OwnCalls(d)'
      BY <1>0, <2>1 DEF OwnCalls
    <3>3. ASSUME NEW n \in 1 .. MaxCalls PROVE Holder(d, n)'
      <4>1. CASE <<d, n>> \in drive[d].batch
        BY <1>0, <2>1, <2>4, <3>1, <4>1 DEF Holder
      <4>2. CASE <<d, n>> \notin drive[d].batch
        BY <1>0, <2>1, <2>4, <3>1, <4>2 DEF Holder
      <4> QED
        BY <4>1, <4>2
    <3>4. \A e \in Drives, n \in 1 .. MaxCalls : e # d => ledger'[<<e, n>>] = ledger[<<e, n>>]
      BY <1>0, <3>1 DEF OwnCalls
    <3> QED
      BY <2>1, <2>2, <2>4, <3>2, <3>3, <3>4, AccountKept
  <2> QED
    BY <2>1, <2>3, <2>4
<1>7. CASE NextSeq(d)
  <2>1. FlushInv(d)'
    BY <1>0, <1>7, NextSeqEffect DEF FlushInv
  <2> QED
    BY <1>7, <2>1, NextSeqEffect, AccountUntouched
<1>8. CASE AppendEvent(d)
  <2>1. FlushInv(d)'
    BY <1>0, <1>8, AppendEventEffect DEF FlushInv
  <2> QED
    BY <1>8, <2>1, AppendEventEffect, AccountUntouched
<1>9. CASE FlushRest(d)
  <2>1. /\ \A e \in Drives : e # d => drive'[e] = drive[e]
        /\ drive[d].step = "closing" /\ drive[d].writing = << >> /\ drive'[d].step = "finishing"
        /\ drive'[d].writing = drive[d].writing /\ drive'[d].seq = drive[d].seq
        /\ drive'[d].calls = drive[d].calls /\ drive'[d].pending = {}
        /\ \/ /\ drive'[d].batch = drive[d].batch /\ lostCalls' = lostCalls \union drive[d].pending
              /\ drive'[d].flushing <=> drive[d].flushing
           \/ /\ drive'[d].batch = drive[d].pending /\ lostCalls' = lostCalls
              /\ drive'[d].flushing <=> drive[d].pending # {}
        /\ UNCHANGED ledger
    BY <1>9, FlushRestEffect
  <2>2. ~ drive[d].flushing /\ drive[d].batch = {}
    BY <1>0, <2>1 DEF FlushInv
  <2>3. FlushInv(d)'
    BY <1>0, <2>1, <2>2 DEF FlushInv
  <2>4. CASE drive'[d].batch = drive[d].pending /\ lostCalls' = lostCalls
    BY <2>1, <2>2, <2>3, <2>4, AccountTaken
  <2>5. CASE drive'[d].batch = drive[d].batch /\ lostCalls' = lostCalls \union drive[d].pending
    <3>1. \A e \in Drives, n \in 1 .. MaxCalls : <<e, n>> \in drive[d].pending => e = d
      BY <1>0 DEF OwnCalls
    <3> QED
      BY <2>1, <2>2, <2>3, <2>5, <3>1, AccountDropped
  <2> QED
    BY <2>1, <2>4, <2>5
<1>10. CASE FinishRun(d) \/ StopProcess(d)
  <2>1. /\ \A e \in Drives : e # d => drive'[e] = drive[e]
        /\ drive'[d].step = "over" /\ drive'[d].writing = << >> /\ drive'[d].seq = 0
        /\ drive'[d].calls = drive[d].calls /\ drive'[d].batch = {} /\ drive'[d].flushing = FALSE
        /\ \/ /\ drive'[d].pending = drive[d].pending /\ lostCalls' = lostCalls
              /\ ~ drive[d].flushing
           \/ /\ drive'[d].pending = {}
              /\ lostCalls' = lostCalls \union drive[d].pending \union drive[d].batch
        /\ UNCHANGED ledger
    BY <1>10, OverEffect
  <2>2. FlushInv(d)'
    BY <2>1 DEF FlushInv
  <2>3. CASE drive'[d].pending = drive[d].pending /\ lostCalls' = lostCalls /\ ~ drive[d].flushing
    <3>1. drive[d].batch = {}
      BY <1>0, <2>3 DEF FlushInv
    <3> QED
      BY <2>1, <2>2, <2>3, <3>1, AccountUntouched
  <2>4. CASE drive'[d].pending = {}
             /\ lostCalls' = lostCalls \union drive[d].pending \union drive[d].batch
    <3> DEFINE dropped == drive[d].pending \union drive[d].batch
    <3>1. \A e \in Drives, n \in 1 .. MaxCalls : <<e, n>> \in dropped => e = d
      BY <1>0 DEF OwnCalls
    <3>2. lostCalls' = lostCalls \union dropped
      BY <2>4
    <3>3. \A n \in 1 .. MaxCalls : <<d, n>> \in dropped <=>
              <<d, n>> \in drive[d].pending \/ <<d, n>> \in drive[d].batch
      OBVIOUS
    <3> HIDE DEF dropped
    <3> QED
      BY <2>1, <2>2, <2>4, <3>1, <3>2, <3>3, AccountDropped
  <2> QED
    BY <2>1, <2>3, <2>4
<1> QED
  BY <1>1, <1>2, <1>3, <1>4, <1>5, <1>6, <1>7, <1>8, <1>9, <1>10


-----------------------------------------------------------------------------
(* Types.                                                                   *)

(* A browser's step changes only what that browser has.                     *)
LEMMA StreamEffect ==
    ASSUME EventsTypes, NEW s \in Streams, ReadEvents(s) \/ ReadState(s)
    PROVE  /\ stream' \in [Streams -> StreamStates]
           /\ \A t \in Streams : t # s => stream'[t] = stream[t]
           /\ \/ stream'[s].seen = stream[s].seen /\ stream'[s].got = stream[s].got
              \/ \E upTo \in {stream[s].seen} \cup {e.seq : e \in Newer(stream[s].seen)} :
                    /\ stream'[s].seen = upTo
                    /\ stream'[s].got = stream[s].got \cup {e \in Newer(stream[s].seen) : e.seq <= upTo}
           /\ UNCHANGED <<runState, timeline, ledger, lostCalls, drive>>
<1>1. stream[s] \in StreamStates /\ stream \in [Streams -> StreamStates]
  BY DEF EventsTypes
<1>2. CASE ReadEvents(s)
  <2>1. PICK upTo \in {stream[s].seen} \cup {e.seq : e \in Newer(stream[s].seen)} :
          stream' = [stream EXCEPT ![s] =
              [step |-> IF Newer(upTo) = {} THEN "checking" ELSE "reading",
               seen |-> upTo,
               got  |-> stream[s].got \cup {e \in Newer(stream[s].seen) : e.seq <= upTo}]]
    BY <1>2 DEF ReadEvents
  <2> DEFINE step == IF Newer(upTo) = {} THEN "checking" ELSE "reading"
  <2> DEFINE got == stream[s].got \cup {e \in Newer(stream[s].seen) : e.seq <= upTo}
  <2> DEFINE new == [step |-> step, seen |-> upTo, got |-> got]
  <2>2. step \in {"checking", "reading"}
    OBVIOUS
  <2>3. upTo \in Nat /\ got \subseteq [seq : Nat, event : Event]
    BY <1>1 DEF StreamStates, EventsTypes, Newer
  <2>4. stream' = [stream EXCEPT ![s] = new]
    BY <2>1
  <2>5. new.seen = upTo /\ new.got = got
    OBVIOUS
  <2> HIDE DEF step
  <2>6. new \in StreamStates
    BY <2>2, <2>3 DEF StreamStates
  <2> HIDE DEF new
  <2>7. /\ stream' \in [Streams -> StreamStates] /\ stream'[s] = new
        /\ \A t \in Streams : t # s => stream'[t] = stream[t]
    BY <1>1, <2>4, <2>6
  <2>8. UNCHANGED <<runState, timeline, ledger, lostCalls, drive>>
    BY <1>2 DEF ReadEvents
  <2> QED
    BY <2>5, <2>7, <2>8
<1>3. CASE ReadState(s)
  <2> DEFINE step == IF runState \in TERMINAL THEN "ended" ELSE "reading"
  <2> DEFINE new == [stream[s] EXCEPT !.step = step]
  <2>1. step \in {"ended", "reading"}
    OBVIOUS
  <2>2. stream' = [stream EXCEPT ![s] = new] /\ UNCHANGED <<runState, timeline, ledger, lostCalls, drive>>
    BY <1>3 DEF ReadState
  <2> HIDE DEF step
  <2>3. new \in StreamStates /\ new.seen = stream[s].seen /\ new.got = stream[s].got
    BY <1>1, <2>1 DEF StreamStates
  <2> HIDE DEF new
  <2> QED
    BY <1>1, <2>2, <2>3
<1> QED
  BY <1>2, <1>3

(* The initial state is typed.                                              *)
LEMMA EventsTypesInit == EventsInit => EventsTypes
<1> SUFFICES ASSUME EventsInit PROVE EventsTypes
  OBVIOUS
<1>1. drive \in [Drives -> DriveStates]
  BY QuietIsTyped DEF EventsInit
<1>2. IsFiniteSet(timeline)
  BY FS_EmptySet DEF EventsInit
<1>3. stream \in [Streams -> StreamStates]
  BY DEF EventsInit, StreamStates
<1> QED
  BY <1>1, <1>2, <1>3 DEF EventsInit, EventsTypes

(* The state of the run is one of four.                                     *)
LEMMA RunStateStep ==
    ASSUME EventsTypes, EventsNext
    PROVE  runState' \in TERMINAL \cup {"running", "awaiting_approval"}
<1>1. ASSUME NEW d \in Drives, BeginRun(d) \/ FinishRun(d)
      PROVE  runState' \in TERMINAL \cup {"running", "awaiting_approval"}
  BY <1>1 DEF EventsTypes, BeginRun, FinishRun, TERMINAL
<1>2. ASSUME NEW d \in Drives,
             \/ CallModel(d) \/ Emit(d) \/ EndGraph(d) \/ TakeEvent(d) \/ WriteLedger(d)
             \/ NextSeq(d) \/ AppendEvent(d) \/ FlushRest(d) \/ StopProcess(d)
      PROVE  runState' = runState
  BY <1>2 DEF CallModel, Emit, EndGraph, TakeEvent, WriteLedger, NextSeq, AppendEvent, FlushRest,
              StopProcess
<1>3. (\E s \in Streams : ReadEvents(s) \/ ReadState(s)) => runState' = runState
  BY DEF ReadEvents, ReadState
<1>4. runState \in TERMINAL \cup {"running", "awaiting_approval"}
  BY DEF EventsTypes
<1> QED
  BY <1>1, <1>2, <1>3, <1>4 DEF EventsNext

(* Every step of a drive keeps the types.                                   *)
LEMMA DriveStepTypes ==
    ASSUME EventsTypes, NoHole, AccountInv, NEW d \in Drives,
           runState' \in TERMINAL \cup {"running", "awaiting_approval"},
           \/ BeginRun(d) \/ CallModel(d) \/ Emit(d) \/ EndGraph(d) \/ TakeEvent(d)
           \/ WriteLedger(d) \/ NextSeq(d) \/ AppendEvent(d) \/ FlushRest(d) \/ FinishRun(d)
           \/ StopProcess(d)
    PROVE  EventsTypes'
<1>0. drive[d] \in DriveStates /\ drive[d].pending \subseteq Call /\ drive[d].batch \subseteq Call
  BY DEF EventsTypes, DriveStates
<1>1. CASE BeginRun(d) \/ CallModel(d) \/ Emit(d) \/ EndGraph(d) \/ TakeEvent(d) \/ NextSeq(d)
  <2>1. /\ drive' \in [Drives -> DriveStates]
        /\ UNCHANGED <<timeline, ledger, lostCalls, stream>>
    BY <1>1, BeginRunEffect, CallModelEffect, EmitEffect, EndGraphEffect, TakeEventEffect,
       NextSeqEffect
  <2> QED
    BY <2>1 DEF EventsTypes
<1>2. CASE WriteLedger(d)
  <2>1. /\ drive' \in [Drives -> DriveStates] /\ UNCHANGED <<timeline, stream>>
        /\ \/ /\ ledger' = [c \in Call |-> ledger[c] + IF c \in drive[d].batch THEN 1 ELSE 0]
              /\ UNCHANGED lostCalls
           \/ lostCalls' = lostCalls \union drive[d].batch /\ UNCHANGED ledger
    BY <1>2, WriteLedgerEffect
  <2>2. ledger' \in [Call -> Nat]
    <3>1. CASE ledger' = [c \in Call |-> ledger[c] + IF c \in drive[d].batch THEN 1 ELSE 0]
      <4>1. \A c \in Call : ledger[c] + (IF c \in drive[d].batch THEN 1 ELSE 0) \in Nat
        BY DEF EventsTypes
      <4> QED
        BY <3>1, <4>1
    <3> QED
      BY <2>1, <3>1 DEF EventsTypes
  <2> QED
    BY <1>0, <2>1, <2>2 DEF EventsTypes
<1>3. CASE AppendEvent(d)
  <2> DEFINE line == [seq |-> drive[d].seq, event |-> Head(drive[d].writing)]
  <2>1. /\ drive' \in [Drives -> DriveStates] /\ UNCHANGED <<ledger, lostCalls, stream>>
        /\ drive[d].seq > 0
        /\ timeline' = timeline \union {line} \/ UNCHANGED timeline
    BY <1>3, AppendEventEffect
  <2>2. drive[d].writing # << >> /\ drive[d].writing \in Seq(Event) /\ drive[d].seq \in Nat
    BY <1>0, <2>1 DEF AccountInv, FlushInv, DriveStates
  <2>3. line \in [seq : Nat, event : Event]
    BY <2>2
  <2> HIDE DEF line
  <2>4. IsFiniteSet(timeline')
    BY <2>1, FS_AddElement DEF EventsTypes
  <2> QED
    BY <2>1, <2>3, <2>4 DEF EventsTypes
<1>4. CASE FlushRest(d)
  <2>1. /\ drive' \in [Drives -> DriveStates] /\ UNCHANGED <<timeline, ledger, stream>>
        /\ lostCalls' = lostCalls \/ lostCalls' = lostCalls \union drive[d].pending
    BY <1>4, FlushRestEffect
  <2> QED
    BY <1>0, <2>1 DEF EventsTypes
<1>5. CASE FinishRun(d) \/ StopProcess(d)
  <2>1. /\ drive' \in [Drives -> DriveStates] /\ UNCHANGED <<timeline, ledger, stream>>
        /\ \/ lostCalls' = lostCalls
           \/ lostCalls' = lostCalls \union drive[d].pending \union drive[d].batch
    BY <1>5, OverEffect
  <2> QED
    BY <1>0, <2>1 DEF EventsTypes
<1> QED
  BY <1>1, <1>2, <1>3, <1>4, <1>5

-----------------------------------------------------------------------------
(* The timeline.                                                            *)

(* What the fields of a drive hold.                                         *)
LEMMA DriveFields ==
    ASSUME EventsTypes, NEW d \in Drives
    PROVE  /\ drive[d].emitted \in Nat /\ drive[d].queue \in Seq(Event)
           /\ drive[d].writing \in Seq(Event) /\ drive[d].seq \in Nat /\ drive[d].step \in DriveSteps
           /\ Len(drive[d].queue) \in Nat /\ Len(drive[d].writing) \in Nat
<1>1. drive[d] \in DriveStates /\ MaxEmitted \in Nat
  BY Bounds DEF EventsTypes
<1> QED
  BY <1>1 DEF DriveStates

(* A step that appends no line and reads none keeps everything about the    *)
(* timeline, when its own drive's pending lines still fit.                  *)
LEMMA TimelineUnwritten ==
    ASSUME TimelineInv, NEW d \in Drives,
           \A e \in Drives : e # d => drive'[e] = drive[e],
           PendingInv(d)', UNCHANGED <<timeline, stream>>
    PROVE  TimelineInv'
<1>1. NoHole' /\ InOrder' /\ \A s \in Streams : StreamInv(s)'
  BY DEF TimelineInv, NoHole, InOrder, StreamInv, Size
<1>2. ASSUME NEW e \in Drives PROVE PendingInv(e)'
  BY DEF TimelineInv, PendingInv, Written, Size
<1> QED
  BY <1>1, <1>2 DEF TimelineInv

(* Nothing about its lines changed: they still fit.                         *)
LEMMA PendingKept ==
    ASSUME NEW d \in Drives, PendingInv(d), UNCHANGED timeline,
           drive'[d].emitted = drive[d].emitted, drive'[d].queue = drive[d].queue,
           drive'[d].writing = drive[d].writing, drive'[d].seq <= Size + 1,
           \/ drive'[d].step = drive[d].step
           \/ drive[d].step = "driving" /\ drive'[d].step = "closing"
           \/ drive'[d].step = "finishing"
    PROVE  PendingInv(d)'
BY DEF PendingInv, Written, Size

(* A new event is numbered after those of its drive.                        *)
LEMMA PendingEmit ==
    ASSUME EventsTypes, TimelineInv, NEW d \in Drives, Emit(d)
    PROVE  PendingInv(d)'
<1>1. /\ drive[d].step = "driving" /\ drive'[d].step = "driving"
      /\ drive'[d].emitted = drive[d].emitted + 1
      /\ drive'[d].writing = drive[d].writing /\ drive'[d].seq = drive[d].seq
      /\ UNCHANGED timeline
  BY EmitEffect
<1>2. PICK event \in Event : /\ event.drive = d /\ event.n = drive[d].emitted + 1
                             /\ drive'[d].queue = Append(drive[d].queue, event)
  BY EmitEffect
<1> DEFINE old == drive[d].queue
<1> DEFINE queue == drive'[d].queue
<1>3. /\ drive[d].emitted \in Nat /\ old \in Seq(Event) /\ Len(old) \in Nat
      /\ Len(old) <= drive[d].emitted
  BY DriveFields DEF TimelineInv, PendingInv
<1>4. Len(queue) = Len(old) + 1 /\ \A i \in 1 .. Len(old) + 1 :
          queue[i] = IF i <= Len(old) THEN old[i] ELSE event
  BY <1>2, <1>3
<1>5. Written(d)' = Written(d) /\ Written(d) \in Nat
  <2>1. drive'[d].emitted - Len(drive'[d].queue) = drive[d].emitted - Len(old)
    <3> HIDE DEF old, queue
    <3>1. drive'[d].queue = queue
      BY DEF queue
    <3> QED
      BY <1>1, <1>3, <1>4, <3>1
  <2> QED
    BY <1>3, <2>1 DEF Written
<1>6. ASSUME NEW i \in 1 .. Len(queue)
      PROVE  queue[i].drive = d /\ queue[i].n = Written(d) + i
  <2>1. CASE i <= Len(old)
    <3>1. i \in 1 .. Len(old) /\ queue[i] = old[i]
      BY <1>3, <1>4, <2>1
    <3> QED
      BY <3>1 DEF TimelineInv, PendingInv
  <2>2. CASE ~ (i <= Len(old))
    <3>1. i = Len(old) + 1 /\ queue[i] = event
      BY <1>3, <1>4, <2>2
    <3>2. drive[d].emitted + 1 = Written(d) + i
      <4>1. i = Len(old) + 1
        BY <3>1
      <4>2. Written(d) = drive[d].emitted - Len(old)
        BY DEF Written
      <4>3. drive[d].emitted \in Nat /\ Len(old) \in Nat
        BY <1>3
      <4> HIDE DEF old, queue
      <4> QED
        BY <4>1, <4>2, <4>3
    <3> QED
      BY <1>2, <3>1, <3>2
  <2> QED
    BY <2>1, <2>2
<1>7. PendingInv(d)
  BY DEF TimelineInv
<1>8. Len(queue) <= drive'[d].emitted
  BY <1>1, <1>3, <1>4
<1> HIDE DEF queue
<1>9. \A i \in 1 .. Len(drive'[d].queue) :
          drive'[d].queue[i].drive = d /\ drive'[d].queue[i].n = Written(d)' + i
  BY <1>5, <1>6 DEF queue
<1> QED
  BY <1>1, <1>5, <1>7, <1>8, <1>9 DEF PendingInv, Size, queue

(* The oldest queued event is the next one to write.                        *)
LEMMA PendingTake ==
    ASSUME EventsTypes, TimelineInv, NEW d \in Drives, TakeEvent(d)
    PROVE  PendingInv(d)'
<1>1. /\ drive[d].step \in {"driving", "closing"} /\ drive'[d].step = drive[d].step
      /\ drive[d].writing = << >> /\ drive[d].queue # << >>
      /\ Len(drive'[d].writing) = 1 /\ Head(drive'[d].writing) = Head(drive[d].queue)
      /\ drive'[d].queue = Tail(drive[d].queue)
      /\ drive'[d].emitted = drive[d].emitted /\ drive'[d].seq = drive[d].seq
      /\ UNCHANGED timeline
  BY TakeEventEffect
<1> DEFINE old == drive[d].queue
<1> DEFINE queue == drive'[d].queue
<1>2. /\ drive[d].emitted \in Nat /\ old \in Seq(Event) /\ Len(old) \in Nat \ {0}
      /\ Len(old) <= drive[d].emitted
  BY <1>1, DriveFields DEF TimelineInv, PendingInv
<1>3. Len(queue) = Len(old) - 1 /\ \A i \in 1 .. Len(queue) : queue[i] = old[i + 1]
  BY <1>1, <1>2
<1>4. Written(d)' = Written(d) + 1 /\ Written(d) \in Nat
  BY <1>1, <1>2, <1>3 DEF Written
<1>5. PendingInv(d)
  BY DEF TimelineInv
<1>6. ASSUME NEW i \in 1 .. Len(queue)
      PROVE  queue[i].drive = d /\ queue[i].n = Written(d)' + i
  <2>1. i + 1 \in 1 .. Len(old) /\ queue[i] = old[i + 1]
    BY <1>2, <1>3
  <2>2. old[i + 1].drive = d /\ old[i + 1].n = Written(d) + (i + 1)
    BY <1>5, <2>1 DEF PendingInv
  <2> QED
    BY <1>4, <2>1, <2>2
<1>7. Head(old).drive = d /\ Head(old).n = Written(d) + 1
  <2>1. 1 \in 1 .. Len(old) /\ Head(old) = old[1]
    BY <1>2
  <2> QED
    BY <1>5, <2>1 DEF PendingInv
<1>8. Len(queue) <= drive'[d].emitted
  BY <1>1, <1>2, <1>3
<1> HIDE DEF queue
<1>9. \A i \in 1 .. Len(drive'[d].queue) :
          drive'[d].queue[i].drive = d /\ drive'[d].queue[i].n = Written(d)' + i
  BY <1>6 DEF queue
<1>10. \A e \in timeline : e.event.drive = d => e.event.n < Written(d)'
  <2>1. \A e \in timeline : e.event.n \in Nat
    BY DEF EventsTypes, Event
  <2>2. \A e \in timeline : e.event.drive = d => e.event.n <= Written(d)
    BY <1>1, <1>5 DEF PendingInv
  <2> QED
    BY <1>4, <2>1, <2>2
<1>11. drive'[d].writing # << >> /\ drive'[d].step # "idle"
  BY <1>1
<1> QED
  BY <1>1, <1>4, <1>5, <1>7, <1>8, <1>9, <1>10, <1>11 DEF PendingInv, Size, queue

(* A line that is lost leaves the rest in order.                            *)
LEMMA PendingAfterWrite ==
    ASSUME EventsTypes, TimelineInv, AccountInv, NEW d \in Drives, AppendEvent(d),
           Size' \in Nat,
           \A e \in timeline' : \/ e \in timeline
                                \/ e.event.drive = d /\ e.event.n = Written(d)
    PROVE  PendingInv(d)'
<1>1. /\ drive[d].seq > 0 /\ drive'[d].writing = << >> /\ drive'[d].seq = 0
      /\ drive'[d].step = IF drive[d].step = "announcing" THEN "driving" ELSE drive[d].step
      /\ drive'[d].emitted = drive[d].emitted /\ drive'[d].queue = drive[d].queue
  BY AppendEventEffect
<1>2. PendingInv(d) /\ Written(d)' = Written(d) /\ FlushInv(d)
  BY <1>1 DEF TimelineInv, AccountInv, Written
<1>3. drive[d].writing # << >> /\ drive[d].step \in {"announcing", "driving", "closing"}
  BY <1>1, <1>2, DriveFields DEF FlushInv, DriveSteps
<1>4. Len(drive'[d].writing) = 0 /\ drive'[d].step # "idle"
  BY <1>1, <1>3
<1>5. Written(d) \in Nat /\ \A e \in timeline : e.event.n \in Nat
  BY <1>2, DriveFields DEF EventsTypes, Event, PendingInv, Written
<1>6. \A e \in timeline' : e.event.drive = d => e.event.n <= Written(d)
  BY <1>2, <1>3, <1>5 DEF PendingInv
<1>7. drive'[d].seq <= Size' + 1
  <2>1. \A n \in Nat : 0 <= n + 1
    OBVIOUS
  <2>2. 0 <= Size' + 1
    BY <2>1
  <2>3. drive'[d].seq = 0
    BY <1>1
  <2> QED
    BY <2>2, <2>3
<1>8. \A i \in 1 .. Len(drive'[d].queue) :
          drive'[d].queue[i].drive = d /\ drive'[d].queue[i].n = Written(d)' + i
  BY <1>1, <1>2 DEF PendingInv
<1>9. Len(drive'[d].queue) <= drive'[d].emitted
  BY <1>1, <1>2 DEF PendingInv
<1>10. \A e \in timeline' : e.event.drive = d => e.event.n <= Written(d)'
  BY <1>2, <1>6
<1>11. Len(drive'[d].writing) <= 1
  BY <1>4
<1> QED
  BY <1>1, <1>4, <1>7, <1>8, <1>9, <1>10, <1>11 DEF PendingInv

(* The step of a drive that may add a line: it takes the next number, or    *)
(* collides.                                                                *)
LEMMA TimelineWritten ==
    ASSUME EventsTypes, TimelineInv, AccountInv, NEW d \in Drives, AppendEvent(d)
    PROVE  TimelineInv'
<1>1. /\ \A e \in Drives : e # d => drive'[e] = drive[e]
      /\ drive[d].seq > 0
      /\ \/ /\ ~ Taken(drive[d].seq)
            /\ timeline' = timeline \union {[seq |-> drive[d].seq, event |-> Head(drive[d].writing)]}
         \/ UNCHANGED timeline
      /\ UNCHANGED stream
  BY AppendEventEffect
<1>2. /\ Size \in Nat /\ \A e \in timeline : e.seq \in Nat /\ e.event.n \in Nat
      /\ IsFiniteSet(timeline)
  BY FS_CardinalityType DEF EventsTypes, Size, Event
<1>3. PendingInv(d) /\ FlushInv(d) /\ NoHole
  BY DEF TimelineInv, AccountInv
<1>4. CASE UNCHANGED timeline
  <2>1. Size' \in Nat
    BY <1>2, <1>4 DEF Size
  <2>2. PendingInv(d)'
    BY <1>4, <2>1, PendingAfterWrite
  <2> QED
    BY <1>1, <1>4, <2>2, TimelineUnwritten
<1>5. CASE /\ ~ Taken(drive[d].seq)
           /\ timeline' = timeline \union {[seq |-> drive[d].seq, event |-> Head(drive[d].writing)]}
  <2> DEFINE line == [seq |-> drive[d].seq, event |-> Head(drive[d].writing)]
  <2>1. drive[d].seq = Size + 1
    <3>1. drive[d].seq \in 1 .. Size + 1
      BY <1>1, <1>2, <1>3, DriveFields DEF PendingInv
    <3>2. drive[d].seq \notin 1 .. Size
      BY <1>3, <1>5 DEF NoHole, Taken
    <3> QED
      BY <1>2, <3>1, <3>2
  <2>2. /\ drive[d].writing # << >> /\ drive[d].step \in {"announcing", "driving", "closing"}
        /\ Head(drive[d].writing).drive = d /\ Head(drive[d].writing).n = Written(d)
    BY <1>1, <1>3, DriveFields DEF PendingInv, FlushInv, DriveSteps
  <2>3. line.seq = Size + 1 /\ line.event.drive = d /\ line.event.n = Written(d)
    BY <2>1, <2>2
  <2>4. timeline' = timeline \union {line}
    BY <1>5
  <2> HIDE DEF line
  <2>5. line \notin timeline
    BY <1>2, <1>3, <2>3 DEF NoHole
  <2>6. Size' = Size + 1
    BY <1>2, <2>4, <2>5, FS_AddElement DEF Size
  <2>7. Written(d) \in Nat
    BY <1>3, DriveFields DEF PendingInv, Written
  <2>8. \A e \in timeline : e.event.drive = d => e.event.n < Written(d)
    BY <1>3, <2>2 DEF PendingInv
  <2>9. NoHole'
    <3>1. \A e \in timeline' : e.seq \in 1 .. Size'
      BY <1>2, <1>3, <2>3, <2>4, <2>6 DEF NoHole
    <3>2. ASSUME NEW k \in 1 .. Size' PROVE \E e \in timeline' : e.seq = k
      <4>1. CASE k = Size + 1
        BY <2>3, <2>4, <4>1
      <4>2. CASE k # Size + 1
        <5>1. k \in 1 .. Size
          BY <1>2, <2>6, <4>2
        <5> QED
          BY <1>3, <2>4, <5>1 DEF NoHole
      <4> QED
        BY <4>1, <4>2
    <3> QED
      BY <3>1, <3>2 DEF NoHole
  <2>10. InOrder'
    <3>1. ASSUME NEW e \in timeline', NEW f \in timeline',
                 e.event.drive = f.event.drive, e.event.n < f.event.n
          PROVE  e.seq < f.seq
      <4>1. CASE f = line
        <5>1. e # line
          BY <2>3, <2>7, <3>1, <4>1
        <5>2. e \in timeline
          BY <2>4, <5>1
        <5>3. e.seq \in 1 .. Size
          BY <1>3, <5>2 DEF NoHole
        <5> QED
          BY <1>2, <2>3, <4>1, <5>3
      <4>2. CASE f # line /\ e = line
        <5>1. f \in timeline /\ f.event.drive = d /\ f.event.n \in Nat
          BY <1>2, <2>3, <2>4, <3>1, <4>2
        <5>2. f.event.n < Written(d) /\ Written(d) < f.event.n
          BY <2>3, <2>8, <3>1, <4>2, <5>1
        <5> QED
          BY <2>7, <5>1, <5>2
      <4>3. CASE f # line /\ e # line
        BY <2>4, <3>1, <4>3 DEF TimelineInv, InOrder
      <4> QED
        BY <4>1, <4>2, <4>3
    <3> QED
      BY <3>1 DEF InOrder
  <2>11. ASSUME NEW e \in Drives PROVE PendingInv(e)'
    <3>1. CASE e = d
      <4>1. Size' \in Nat
        BY <1>2, <2>6
      <4>2. \A f \in timeline' : \/ f \in timeline
                                 \/ f.event.drive = d /\ f.event.n = Written(d)
        BY <2>3, <2>4
      <4> QED
        BY <3>1, <4>1, <4>2, PendingAfterWrite
    <3>2. CASE e # d
      <4>1. PendingInv(e) /\ drive'[e] = drive[e] /\ drive[e].seq \in Nat
        BY <1>1, <3>2, DriveFields DEF TimelineInv
      <4>2. drive[e].seq <= Size' + 1
        BY <1>2, <2>6, <4>1 DEF PendingInv
      <4>3. \A f \in timeline' : f.event.drive = e => f \in timeline
        BY <2>3, <2>4, <3>2
      <4>4. Written(e)' = Written(e)
        BY <4>1 DEF Written
      <4>5. drive'[e].step = "idle" => \A f \in timeline' : f.event.drive # e
        BY <4>1, <4>3 DEF PendingInv
      <4> QED
        BY <4>1, <4>2, <4>3, <4>4, <4>5 DEF PendingInv
    <3> QED
      BY <3>1, <3>2
  <2>12. ASSUME NEW s \in Streams PROVE StreamInv(s)'
    <3>1. StreamInv(s) /\ stream'[s] = stream[s]
      BY <1>1 DEF TimelineInv
    <3>2. stream'[s].seen \in 0 .. Size'
      BY <1>2, <2>6, <3>1 DEF StreamInv
    <3>3. \A e \in timeline' : e.seq <= stream'[s].seen => e \in timeline
      BY <1>2, <2>3, <2>4, <3>1 DEF StreamInv
    <3> QED
      BY <2>4, <3>1, <3>2, <3>3 DEF StreamInv
  <2> QED
    BY <2>9, <2>10, <2>11, <2>12 DEF TimelineInv
<1> QED
  BY <1>1, <1>4, <1>5

(* Every step of a drive keeps the timeline in order and without a hole.    *)
LEMMA TimelineStep ==
    ASSUME EventsTypes, AccountInv, TimelineInv, NEW d \in Drives,
           \/ BeginRun(d) \/ CallModel(d) \/ Emit(d) \/ EndGraph(d) \/ TakeEvent(d)
           \/ WriteLedger(d) \/ NextSeq(d) \/ AppendEvent(d) \/ FlushRest(d) \/ FinishRun(d)
           \/ StopProcess(d)
    PROVE  TimelineInv'
<1>0. /\ PendingInv(d) /\ NoHole /\ Size \in Nat /\ drive[d].seq <= Size + 1
      /\ \A n \in Nat : n <= n
  BY FS_CardinalityType DEF TimelineInv, PendingInv, EventsTypes, Size
<1>1. CASE BeginRun(d)
  <2>1. /\ \A e \in Drives : e # d => drive'[e] = drive[e]
        /\ drive[d].step = "idle" /\ drive'[d].step = "announcing"
        /\ drive'[d].emitted = 0 /\ drive'[d].queue = << >> /\ drive'[d].seq = 0
        /\ Len(drive'[d].writing) = 1
        /\ Head(drive'[d].writing).drive = d /\ Head(drive'[d].writing).n = 0
        /\ UNCHANGED <<timeline, stream>>
    BY <1>1, BeginRunEffect
  <2>a. Len(drive'[d].queue) = 0 /\ Size' = Size
    BY <2>1 DEF Size
  <2>b. Written(d)' = 0 - 0
    BY <2>1, <2>a DEF Written
  <2>2. Len(drive'[d].queue) = 0 /\ Written(d)' = 0 /\ Size' = Size
    BY <2>a, <2>b
  <2>3. \A e \in timeline' : e.event.drive # d
    BY <1>0, <2>1 DEF PendingInv
  <2>4. drive'[d].seq <= Size' + 1
    BY <1>0, <2>1, <2>2
  <2>5. PendingInv(d)'
    BY <2>1, <2>2, <2>3, <2>4 DEF PendingInv
  <2> QED
    BY <2>1, <2>5, TimelineUnwritten
<1>2. CASE CallModel(d)
  <2>1. PendingInv(d)'
    BY <1>0, <1>2, CallModelEffect, PendingKept
  <2> QED
    BY <1>2, <2>1, CallModelEffect, TimelineUnwritten
<1>3. CASE Emit(d)
  BY <1>3, PendingEmit, EmitEffect, TimelineUnwritten
<1>4. CASE EndGraph(d)
  <2>1. PendingInv(d)'
    BY <1>0, <1>4, EndGraphEffect, PendingKept
  <2> QED
    BY <1>4, <2>1, EndGraphEffect, TimelineUnwritten
<1>5. CASE TakeEvent(d)
  BY <1>5, PendingTake, TakeEventEffect, TimelineUnwritten
<1>6. CASE WriteLedger(d)
  <2>1. PendingInv(d)'
    BY <1>0, <1>6, WriteLedgerEffect, PendingKept
  <2> QED
    BY <1>6, <2>1, WriteLedgerEffect, TimelineUnwritten
<1>7. CASE NextSeq(d)
  <2>1. drive'[d].seq = Size + 1 /\ Size + 1 <= Size + 1
    BY <1>0, <1>7, NextSeqEffect
  <2>2. PendingInv(d)'
    BY <1>0, <1>7, <2>1, NextSeqEffect, PendingKept
  <2> QED
    BY <1>0, <1>7, <2>2, NextSeqEffect, TimelineUnwritten
<1>8. CASE AppendEvent(d)
  BY <1>8, TimelineWritten
<1>9. CASE FlushRest(d)
  <2>1. PendingInv(d)'
    BY <1>0, <1>9, FlushRestEffect, PendingKept
  <2> QED
    BY <1>9, <2>1, FlushRestEffect, TimelineUnwritten
<1>10. CASE FinishRun(d) \/ StopProcess(d)
  <2>1. /\ \A e \in Drives : e # d => drive'[e] = drive[e]
        /\ drive'[d].step = "over" /\ drive'[d].emitted = 0 /\ drive'[d].queue = << >>
        /\ drive'[d].writing = << >> /\ drive'[d].seq = 0
        /\ UNCHANGED <<timeline, stream>>
    BY <1>10, OverEffect
  <2>2. Len(drive'[d].queue) = 0 /\ Len(drive'[d].writing) = 0 /\ Size' = Size
    BY <2>1 DEF Size
  <2>3. drive'[d].seq <= Size' + 1
    BY <1>0, <2>1, <2>2
  <2>4. PendingInv(d)'
    BY <2>1, <2>2, <2>3 DEF PendingInv
  <2> QED
    BY <2>1, <2>4, TimelineUnwritten
<1> QED
  BY <1>1, <1>2, <1>3, <1>4, <1>5, <1>6, <1>7, <1>8, <1>9, <1>10

(* What a browser reads has no gap below the last number it got.            *)
LEMMA StreamStep ==
    ASSUME EventsTypes, AccountInv, TimelineInv, NEW s \in Streams, ReadEvents(s) \/ ReadState(s)
    PROVE  AccountInv' /\ TimelineInv'
<1>1. /\ \A t \in Streams : t # s => stream'[t] = stream[t]
      /\ \/ stream'[s].seen = stream[s].seen /\ stream'[s].got = stream[s].got
         \/ \E upTo \in {stream[s].seen} \cup {e.seq : e \in Newer(stream[s].seen)} :
               /\ stream'[s].seen = upTo
               /\ stream'[s].got = stream[s].got \cup {e \in Newer(stream[s].seen) : e.seq <= upTo}
      /\ UNCHANGED <<timeline, ledger, lostCalls, drive>>
  BY StreamEffect
<1>2. AccountInv'
  BY <1>1 DEF AccountInv, FlushInv, OwnCalls, Holder
<1>3. NoHole' /\ InOrder' /\ \A d \in Drives : PendingInv(d)'
  BY <1>1 DEF TimelineInv, NoHole, InOrder, PendingInv, Written, Size
<1>4. ASSUME NEW t \in Streams, t # s PROVE StreamInv(t)'
  BY <1>1, <1>4 DEF TimelineInv, StreamInv, Size
<1>5. StreamInv(s)'
  <2>1. /\ StreamInv(s) /\ NoHole /\ stream[s].seen \in Nat /\ Size \in Nat
        /\ \A e \in timeline : e.seq \in Nat
    BY FS_CardinalityType DEF TimelineInv, EventsTypes, StreamStates, Size
  <2>2. CASE stream'[s].seen = stream[s].seen /\ stream'[s].got = stream[s].got
    BY <1>1, <2>1, <2>2 DEF StreamInv, Size
  <2>3. ASSUME NEW upTo \in {stream[s].seen} \cup {e.seq : e \in Newer(stream[s].seen)},
               stream'[s].seen = upTo,
               stream'[s].got = stream[s].got \cup {e \in Newer(stream[s].seen) : e.seq <= upTo}
        PROVE  StreamInv(s)'
    <3>1. upTo \in 0 .. Size
      BY <2>1 DEF StreamInv, NoHole, Newer
    <3>2. stream'[s].got \subseteq timeline
      BY <2>1, <2>3 DEF StreamInv, Newer
    <3>3. ASSUME NEW e \in timeline, e.seq <= upTo PROVE e \in stream'[s].got
      <4>1. CASE e.seq <= stream[s].seen
        BY <2>1, <2>3, <4>1 DEF StreamInv
      <4>2. CASE ~ (e.seq <= stream[s].seen)
        <5>1. e \in Newer(stream[s].seen)
          BY <2>1, <4>2 DEF Newer
        <5> QED
          BY <2>3, <3>3, <5>1
      <4> QED
        BY <4>1, <4>2
    <3> QED
      BY <1>1, <2>3, <3>1, <3>2, <3>3 DEF StreamInv, Size
  <2> QED
    BY <1>1, <2>2, <2>3
<1>6. \A t \in Streams : StreamInv(t)'
  BY <1>4, <1>5
<1> QED
  BY <1>2, <1>3, <1>6 DEF TimelineInv

-----------------------------------------------------------------------------
(* The results.                                                             *)

EventsInv == EventsTypes /\ AccountInv /\ TimelineInv

(* Nothing was called, written or read yet.                                 *)
LEMMA EventsInvInit == EventsInit => EventsInv
<1> SUFFICES ASSUME EventsInit PROVE EventsInv
  OBVIOUS
<1>1. Size = 0
  BY FS_EmptySet DEF EventsInit, Size
<1>2. ASSUME NEW d \in Drives PROVE FlushInv(d) /\ OwnCalls(d) /\ PendingInv(d)
  <2>1. drive[d] = Quiet /\ timeline = {}
    BY DEF EventsInit
  <2>2. Len(drive[d].queue) = 0 /\ Len(drive[d].writing) = 0
    BY <2>1, QuietIsTyped
  <2>3. drive[d].seq <= Size + 1 /\ Len(drive[d].queue) <= drive[d].emitted
    BY <1>1, <2>1, <2>2, QuietIsTyped
  <2> QED
    BY <2>1, <2>2, <2>3, QuietIsTyped DEF FlushInv, OwnCalls, PendingInv
<1>3. ASSUME NEW d \in Drives, NEW n \in 1 .. MaxCalls PROVE Holder(d, n)
  <2>1. drive[d] = Quiet /\ lostCalls = {} /\ <<d, n>> \in Call /\ ~ (n <= 0)
    BY DEF EventsInit, Call
  <2>2. ledger[<<d, n>>] = 0
    BY <2>1 DEF EventsInit
  <2> QED
    BY <2>1, <2>2, QuietIsTyped DEF Holder
<1>4. NoHole /\ InOrder
  BY <1>1 DEF EventsInit, NoHole, InOrder
<1>5. \A s \in Streams : StreamInv(s)
  BY <1>1 DEF EventsInit, StreamInv
<1> QED
  BY <1>2, <1>3, <1>4, <1>5, EventsTypesInit DEF EventsInv, AccountInv, TimelineInv

(* Every step, of a drive or of a browser, keeps them.                      *)
LEMMA EventsInvStep == EventsInv /\ [EventsNext]_eventVars => EventsInv'
<1> SUFFICES ASSUME EventsInv, [EventsNext]_eventVars PROVE EventsInv'
  OBVIOUS
<1>0. EventsTypes /\ AccountInv /\ TimelineInv /\ NoHole
  BY DEF EventsInv, TimelineInv
<1>1. ASSUME NEW d \in Drives, EventsNext,
             \/ BeginRun(d) \/ CallModel(d) \/ Emit(d) \/ EndGraph(d) \/ TakeEvent(d)
             \/ WriteLedger(d) \/ NextSeq(d) \/ AppendEvent(d) \/ FlushRest(d) \/ FinishRun(d)
             \/ StopProcess(d)
      PROVE  EventsInv'
  BY <1>0, <1>1, RunStateStep, DriveStepTypes, AccountStep, TimelineStep DEF EventsInv
<1>2. ASSUME NEW s \in Streams, ReadEvents(s) \/ ReadState(s) PROVE EventsInv'
  <2>1. EventsTypes'
    BY <1>0, <1>2, StreamEffect DEF EventsTypes
  <2> QED
    BY <1>0, <1>2, <2>1, StreamStep DEF EventsInv
<1>3. CASE UNCHANGED eventVars
  BY <1>0, <1>3 DEF eventVars, EventsInv, EventsTypes, AccountInv, FlushInv, OwnCalls, Holder,
     TimelineInv, NoHole, InOrder, PendingInv, Written, StreamInv, Size
<1> QED
  BY <1>1, <1>2, <1>3 DEF EventsNext

(* The account and the timeline hold in every reachable state.              *)
LEMMA EventsInvAlways == EventsSpec => []EventsInv
BY EventsInvInit, EventsInvStep, PTL DEF EventsSpec

(* usage_recorder: however the drives, their flushes and the stops of their *)
(* processes interleave, a model call waits in a buffer, is being written,  *)
(* has one ledger row or is lost: never two of these, and never none.       *)
THEOREM CallsAreBookedOnce == EventsSpec => []EveryCallIsBookedOnce
<1>1. ASSUME EventsInv PROVE EveryCallIsBookedOnce
  <2> SUFFICES ASSUME NEW d \in Drives, NEW n \in 1 .. drive[d].calls
               PROVE  LET c == <<d, n>>
                          Here(S) == IF c \in S THEN 1 ELSE 0 IN
                      ledger[c] + Here(drive[d].pending) + Here(drive[d].batch) + Here(lostCalls) = 1
    BY DEF EveryCallIsBookedOnce
  <2>1. drive[d].calls \in 0 .. MaxCalls /\ MaxCalls \in Nat
    BY <1>1, Bounds DEF EventsInv, EventsTypes, DriveStates
  <2>2. n \in 1 .. MaxCalls /\ n <= drive[d].calls
    BY <2>1
  <2>3. Holder(d, n)
    BY <1>1, <2>2 DEF EventsInv, AccountInv
  <2> DEFINE c == <<d, n>>
  <2>4. /\ c \in drive[d].pending => c \notin drive[d].batch /\ c \notin lostCalls /\ ledger[c] = 0
        /\ c \in drive[d].batch => c \notin lostCalls /\ ledger[c] = 0
        /\ c \in lostCalls => ledger[c] = 0
        /\ ledger[c] \in {0, 1}
        /\ c \in drive[d].pending \/ c \in drive[d].batch \/ c \in lostCalls \/ ledger[c] = 1
    BY <2>2, <2>3 DEF Holder
  <2> HIDE DEF c
  <2>5. ledger[c] + (IF c \in drive[d].pending THEN 1 ELSE 0)
            + (IF c \in drive[d].batch THEN 1 ELSE 0) + (IF c \in lostCalls THEN 1 ELSE 0) = 1
    <3>1. CASE c \in drive[d].pending
      BY <2>4, <3>1
    <3>2. CASE c \in drive[d].batch
      BY <2>4, <3>2
    <3>3. CASE c \in lostCalls
      BY <2>4, <3>3
    <3>4. CASE c \notin drive[d].pending /\ c \notin drive[d].batch /\ c \notin lostCalls
      BY <2>4, <3>4
    <3> QED
      BY <3>1, <3>2, <3>3, <3>4
  <2> QED
    BY <2>5 DEF c
<1> QED
  BY <1>1, EventsInvAlways, PTL

(* stream_events with append_event: the last number a browser got is enough *)
(* to miss nothing below it, and a drive's events are numbered in the order *)
(* it emitted them, whatever else numbers events of the run meanwhile.      *)
THEOREM CursorIsComplete == EventsSpec => []CursorSkipsNothing
<1>1. ASSUME EventsInv PROVE CursorSkipsNothing
  BY <1>1 DEF EventsInv, TimelineInv, StreamInv, InOrder, CursorSkipsNothing
<1> QED
  BY <1>1, EventsInvAlways, PTL

(* Every variable keeps its type; a browser has only what was written.      *)
THEOREM EventsTypeCorrect == EventsSpec => []EventsTypeOK
<1>1. ASSUME EventsInv PROVE EventsTypeOK
  <2>0. EventsTypes /\ TimelineInv
    BY <1>1 DEF EventsInv
  <2>1. timeline \subseteq [seq : Nat \ {0}, event : Event]
    <3>1. \A e \in timeline : e \in [seq : Nat, event : Event] /\ e.seq # 0
      BY <2>0 DEF EventsTypes, TimelineInv, NoHole
    <3> QED
      BY <3>1
  <2>2. ASSUME NEW d \in Drives
        PROVE  /\ drive[d].step \in {"idle", "announcing", "driving", "closing", "finishing", "over"}
               /\ drive[d].pending \cup drive[d].batch \subseteq Call
               /\ Len(drive[d].queue) <= MaxEmitted /\ Len(drive[d].writing) <= 1
    <3>1. /\ drive[d] \in DriveStates /\ drive[d].emitted \in 0 .. MaxEmitted /\ MaxEmitted \in Nat
          /\ Len(drive[d].queue) \in Nat
      BY <2>0, Bounds, DriveFields DEF EventsTypes, DriveStates
    <3>2. Len(drive[d].queue) <= drive[d].emitted /\ Len(drive[d].writing) <= 1
      BY <2>0 DEF TimelineInv, PendingInv
    <3> QED
      BY <3>1, <3>2 DEF DriveStates, DriveSteps
  <2>3. ASSUME NEW s \in Streams
        PROVE  /\ stream[s].step \in {"reading", "checking", "ended"}
               /\ stream[s].got \subseteq timeline
    BY <2>0 DEF EventsTypes, StreamStates, TimelineInv, StreamInv
  <2> QED
    BY <2>0, <2>1, <2>2, <2>3 DEF EventsTypes, EventsTypeOK
<1> QED
  BY <1>1, EventsInvAlways, PTL

=============================================================================
