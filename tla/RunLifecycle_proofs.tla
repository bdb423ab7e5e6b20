-------------------------- MODULE RunLifecycle_proofs --------------------------
(***************************************************************************)
(* What RunLifecycle promises for every number of drives and requests.     *)
(*                                                                         *)
(* Three inductive invariants.  TypeInv: the types, and a count of the      *)
(* drives that have read the row they count their restoration on, which     *)
(* bounds every stored or pending `resumed`.  CoveredInv: whatever carries  *)
(* an approver -- the row, a drive's state, a row copy about to be written  *)
(* -- is behind REVIEW and its text was approved.  SerialInv, while no two  *)
(* drives have overlapped: once a text is stored at REVIEW, every copy of   *)
(* it, in a drive or a request, is that text.                               *)
(***************************************************************************)
EXTENDS RunLifecycle, FiniteSetTheorems, TLAPS

\* At REVIEW or behind it.
Gated(cp) == cp.stage \in {"review", "over"}

ReadsMark(d) == drive[d].at = "read" /\ drive[d].op = "mark"

\* The drives, but the first, that have read the row they count their restoration on, or
\* never will.
Marked == {d \in 2..submitted : drive[d].at # "begin" /\ ~ReadsMark(d)}

LifecycleTypes ==
    /\ row \in Rows
    /\ drive \in [Drives -> DriveStates]
    /\ submitted \in 1..MaxDrives
    /\ live \subseteq Procs
    /\ request \in [Requests -> RequestStates]
    /\ sweep \in BOOLEAN /\ aged \in BOOLEAN /\ overlapped \in BOOLEAN
    /\ approved \subseteq [stage : Stages, text : 0..MaxDrives]
    /\ viewed \subseteq 0..MaxDrives
    /\ published \subseteq 0..MaxDrives
    /\ \A r \in Requests : request[r].at \in {"reading", "writing"}
                              => request[r].kind \in {"approve", "reject"}

Resumptions ==
    /\ ~drive[1].resume
    /\ \A d \in Drives : d > submitted => drive[d].at = "unused"
    /\ \A d \in Drives : ReadsMark(d) => drive[d].resume
    /\ row.resumed <= Cardinality(Marked)
    /\ \A d \in Drives : drive[d].copy.resumed <= Cardinality(Marked)
    /\ \A r \in Requests : request[r].copy.resumed <= Cardinality(Marked)

TypeInv == LifecycleTypes /\ Resumptions

\* Signed as far as the approvals go.
Covered(cp, texts) == cp.approver = "user" => Gated(cp) /\ cp.text \in texts

SeenDrafts == \A a \in approved : a.stage # "early"

ApprovalsAreStored ==
    \A r \in Requests : request[r].at = "writing" /\ request[r].kind = "approve"
                            => request[r].copy.cp.stage # "none"

CoveredInv ==
    /\ ApprovalsAreStored
    /\ SeenDrafts =>
          /\ Covered(row.cp, ApprovedTexts)
          /\ \A d \in Drives :
                /\ Covered(drive[d].st, ApprovedTexts)
                /\ drive[d].at = "write" => Covered(drive[d].copy.cp, ApprovedTexts)
          /\ \A r \in Requests :
                request[r].at = "writing" /\ request[r].kind = "reject"
                    => Covered(request[r].copy.cp, ApprovedTexts)
          /\ published \subseteq ApprovedTexts

Same(cp, stored) == Gated(cp) /\ cp.text = stored.text

Deciding(r) ==
    /\ request[r].kind \in {"approve", "reject"}
    /\ \/ request[r].at \in {"reading", "writing"}
       \/ request[r].at = "checking" /\ request[r].copy.state = "awaiting_approval"

\* The drive is to write the state it has.
HasState(d) ==
    \/ drive[d].at = "driving"
    \/ drive[d].at \in {"read", "write"} /\ drive[d].op \in {"mark", "checkpoint"}

\* Whoever signed it has seen it.
Viewed(cp, texts) == cp.approver = "user" => cp.text \in texts

OneDrive == \A d, e \in Drives : Running(d) /\ Running(e) => d = e

\* What is put under a decision is at REVIEW, and an approver saw it.
RowIsSerial ==
    /\ row.state = "awaiting_approval" => Gated(row.cp)
    /\ Viewed(row.cp, viewed)

\* The drive changes no text that is stored at REVIEW: the first drive begins before any
\* is, the others start from it.
DriveIsSerial(d) ==
    /\ drive[d].at = "begin" /\ ~drive[d].resume => row.cp.stage = "none"
    /\ drive[d].at \in {"read", "write"} /\ drive[d].op = "park" => Gated(row.cp)
    /\ drive[d].at \in {"read", "write"} /\ drive[d].op = "checkpoint" /\ drive[d].parks
           => Gated(drive[d].st)
    /\ HasState(d) /\ Gated(row.cp) => Same(drive[d].st, row.cp)
    /\ Viewed(drive[d].st, viewed)
    /\ drive[d].at = "write" =>
          /\ drive[d].copy.state = "awaiting_approval" => Gated(drive[d].copy.cp)
          /\ Gated(row.cp) => Same(drive[d].copy.cp, row.cp)
          /\ drive[d].op # "checkpoint" /\ Gated(drive[d].copy.cp) => Gated(row.cp)
          /\ drive[d].op = "checkpoint" => drive[d].copy.cp = drive[d].st
          /\ Viewed(drive[d].copy.cp, viewed)

\* A decision is about the text that is stored, and an approver has looked at it.
RequestIsSerial(r) ==
    /\ Deciding(r) => Gated(row.cp)
    /\ Deciding(r) /\ request[r].kind = "approve" => row.cp.text \in viewed
    /\ request[r].at = "writing" =>
          /\ Same(request[r].copy.cp, row.cp)
          /\ request[r].kind = "reject" => Viewed(request[r].copy.cp, viewed)

\* Whatever was approved or looked at is the text that is stored.
HistoryIsSerial ==
    /\ \A a \in approved : Same(a, row.cp) /\ Gated(row.cp)
    /\ \A t \in viewed : Gated(row.cp) /\ t = row.cp.text
    /\ published \subseteq viewed

Serial ==
    /\ OneDrive
    /\ RowIsSerial
    /\ \A d \in Drives : DriveIsSerial(d)
    /\ \A r \in Requests : RequestIsSerial(r)
    /\ HistoryIsSerial

SerialInv == ~overlapped => Serial


-----------------------------------------------------------------------------
(* What a step changes, field by field.                                     *)

(* The bounds are numbers.                                                  *)
LEMMA Bounds == MaxDrives \in Nat /\ MaxDrives >= 1 /\ MaxRequests \in Nat /\ 1 \in Drives
BY BoundsAssumption DEF Drives

(* Whatever the row holds is a checkpoint, a state and a count.             *)
LEMMA RowFields ==
    ASSUME NEW r \in Rows
    PROVE  /\ r.state \in States /\ r.cp \in Checkpoints /\ r.resumed \in 0..MaxDrives
           /\ r.cp.stage \in Stages /\ r.cp.text \in 0..MaxDrives /\ r.cp.approver \in {"none", "user"}
BY DEF Rows, Checkpoints

(* A row that was never written.                                            *)
LEMMA BlankIsRow == BlankRow \in Rows /\ NoCheckpoint \in Checkpoints /\ Unused \in DriveStates
                    /\ NoRequest \in RequestStates
<1>1. NoCheckpoint \in Checkpoints
  BY Bounds DEF NoCheckpoint, Checkpoints, Stages
<1>2. BlankRow \in Rows
  BY <1>1, Bounds DEF BlankRow, Rows, States, Closed
<1>3. Unused \in DriveStates
  BY <1>1, <1>2 DEF Unused, DriveStates, Procs, Writes
<1>4. NoRequest \in RequestStates
  BY <1>2 DEF NoRequest, RequestStates
<1> QED
  BY <1>1, <1>2, <1>3, <1>4

(* A drive that begins takes up the stored checkpoint, or starts afresh.    *)
LEMMA BeginDriveEffect ==
    ASSUME LifecycleTypes, NEW d \in Drives, BeginDrive(d)
    PROVE  /\ drive' \in [Drives -> DriveStates]
           /\ \A e \in Drives : e # d => drive'[e] = drive[e]
           /\ drive[d].at = "begin"
           /\ drive'[d].resume = drive[d].resume /\ drive'[d].copy = drive[d].copy
           /\ drive'[d].parks = drive[d].parks
           /\ \/ /\ drive[d].resume /\ row.cp.stage # "none"
                 /\ drive'[d].at = "read" /\ drive'[d].op = "mark" /\ drive'[d].st = row.cp
              \/ /\ ~(drive[d].resume /\ row.cp.stage # "none")
                 /\ drive'[d].at = "driving" /\ drive'[d].st = drive[d].st
<1> USE DEF LifecycleTypes
<1>1. row.cp \in Checkpoints /\ drive[d] \in DriveStates
  BY RowFields
<1>2. CASE drive[d].resume /\ row.cp.stage # "none"
  <2>1. drive' = [drive EXCEPT ![d].at = "read", ![d].op = "mark", ![d].st = row.cp] /\ drive[d].at = "begin"
    BY <1>2 DEF BeginDrive
  <2>2. /\ drive' \in [Drives -> DriveStates]
        /\ \A e \in Drives : e # d => drive'[e] = drive[e]
        /\ drive'[d].resume = drive[d].resume /\ drive'[d].copy = drive[d].copy
        /\ drive'[d].parks = drive[d].parks
        /\ drive'[d].at = "read" /\ drive'[d].op = "mark" /\ drive'[d].st = row.cp
    BY <1>1, <2>1 DEF DriveStates, Writes
  <2> QED
    BY <1>2, <2>1, <2>2
<1>3. CASE ~(drive[d].resume /\ row.cp.stage # "none")
  <2>1. drive' = [drive EXCEPT ![d].at = "driving"] /\ drive[d].at = "begin"
    BY <1>3 DEF BeginDrive
  <2>2. /\ drive' \in [Drives -> DriveStates]
        /\ \A e \in Drives : e # d => drive'[e] = drive[e]
        /\ drive'[d].resume = drive[d].resume /\ drive'[d].copy = drive[d].copy
        /\ drive'[d].parks = drive[d].parks
        /\ drive'[d].at = "driving" /\ drive'[d].st = drive[d].st
    BY <1>1, <2>1 DEF DriveStates
  <2> QED
    BY <1>3, <2>1, <2>2
<1> QED
  BY <1>2, <1>3

(* What the driver returned is stored next.                                 *)
LEMMA ReturnEffect ==
    ASSUME LifecycleTypes, NEW d \in Drives, NEW st \in Checkpoints, NEW interrupted \in BOOLEAN,
           Return(d, st, interrupted)
    PROVE  /\ drive' \in [Drives -> DriveStates]
           /\ \A e \in Drives : e # d => drive'[e] = drive[e]
           /\ drive'[d].resume = drive[d].resume /\ drive'[d].copy = drive[d].copy
           /\ drive'[d].at = "read" /\ drive'[d].op = "checkpoint"
           /\ drive'[d].st = st /\ drive'[d].parks = interrupted
<1> DEFINE new == [drive[d] EXCEPT !.at = "read", !.op = "checkpoint", !.st = st, !.parks = interrupted]
<1>1. drive[d] \in DriveStates /\ drive' = [drive EXCEPT ![d] = new]
  BY DEF LifecycleTypes, Return
<1>2. new \in DriveStates
  BY <1>1, Zenon DEF DriveStates, Writes
<1>3. new.parks = interrupted
  BY <1>1, Zenon DEF DriveStates
<1>4. /\ new.resume = drive[d].resume /\ new.copy = drive[d].copy
      /\ new.at = "read" /\ new.op = "checkpoint" /\ new.st = st
  BY <1>1 DEF DriveStates
<1> HIDE DEF new
<1>5. /\ drive' \in [Drives -> DriveStates] /\ drive'[d] = new
      /\ \A e \in Drives : e # d => drive'[e] = drive[e]
  BY <1>1, <1>2 DEF LifecycleTypes
<1> QED
  BY <1>3, <1>4, <1>5, Zenon

(* A drive that raised has its failure stored next.                         *)
LEMMA RaiseEffect ==
    ASSUME LifecycleTypes, NEW d \in Drives, Raise(d)
    PROVE  /\ drive' \in [Drives -> DriveStates]
           /\ \A e \in Drives : e # d => drive'[e] = drive[e]
           /\ Running(d) /\ drive[d].at \in {"begin", "driving", "read"}
           /\ drive'[d].resume = drive[d].resume /\ drive'[d].copy = drive[d].copy
           /\ drive'[d].at = "read" /\ drive'[d].op = "fail"
           /\ drive'[d].st = drive[d].st /\ drive'[d].parks = drive[d].parks
<1>1. drive' = [drive EXCEPT ![d].at = "read", ![d].op = "fail"]
  BY DEF Raise
<1>2. drive[d].at \in {"begin", "driving", "read"}
  BY DEF Raise
<1>3. Running(d)
  BY <1>2 DEF Running
<1>4. /\ drive' \in [Drives -> DriveStates]
      /\ \A e \in Drives : e # d => drive'[e] = drive[e]
      /\ drive'[d].resume = drive[d].resume /\ drive'[d].copy = drive[d].copy
      /\ drive'[d].at = "read" /\ drive'[d].op = "fail"
      /\ drive'[d].st = drive[d].st /\ drive'[d].parks = drive[d].parks
  <2>1. drive \in [Drives -> DriveStates] /\ drive[d] \in DriveStates
    BY DEF LifecycleTypes
  <2>2. [drive[d] EXCEPT !.at = "read", !.op = "fail"] \in DriveStates
    BY <2>1 DEF DriveStates, Writes
  <2>3. drive' = [drive EXCEPT ![d] = [drive[d] EXCEPT !.at = "read", !.op = "fail"]]
    BY <1>1
  <2>4. drive' \in [Drives -> DriveStates] /\ \A e \in Drives : e # d => drive'[e] = drive[e]
    BY <2>1, <2>2, <2>3
  <2>5. drive'[d] = [drive[d] EXCEPT !.at = "read", !.op = "fail"]
    BY <2>1, <2>3
  <2> QED
    BY <2>1, <2>4, <2>5 DEF DriveStates
<1> QED
  BY <1>2, <1>3, <1>4

(* What a write changes of the row that was read.                           *)
LEMMA WrittenEffect ==
    ASSUME LifecycleTypes, NEW d \in Drives, drive[d].op = "mark" => row.resumed < MaxDrives
    PROVE  /\ Written(d, row) \in Rows
           /\ Written(d, row).cp = IF drive[d].op = "checkpoint" THEN drive[d].st ELSE row.cp
           /\ Written(d, row).resumed = IF drive[d].op = "mark" THEN row.resumed + 1 ELSE row.resumed
           /\ Written(d, row).state = "awaiting_approval" =>
                 \/ drive[d].op = "park"
                 \/ drive[d].op = "mark" /\ row.state = "awaiting_approval"
<1> USE DEF LifecycleTypes
<1>1. row \in Rows /\ drive[d].st \in Checkpoints /\ drive[d].op \in Writes
  BY DEF DriveStates
<1>2. CASE drive[d].op = "mark"
  <2>1. Written(d, row) = [row EXCEPT !.resumed = @ + 1]
    BY <1>2 DEF Written
  <2> QED
    BY <1>1, <1>2, <2>1, Bounds DEF Rows
<1>3. CASE drive[d].op = "checkpoint"
  <2>1. Written(d, row) = [row EXCEPT !.cp = drive[d].st, !.state = "running"]
    BY <1>3 DEF Written
  <2> QED
    BY <1>1, <1>3, <2>1 DEF Rows, States
<1>4. CASE drive[d].op = "park"
  <2>1. Written(d, row) = [row EXCEPT !.state = "awaiting_approval"]
    BY <1>4 DEF Written
  <2> QED
    BY <1>1, <1>4, <2>1 DEF Rows, States
<1>5. CASE drive[d].op = "finish"
  <2>1. Written(d, row) = [row EXCEPT !.state = "done"]
    BY <1>5 DEF Written
  <2> QED
    BY <1>1, <1>5, <2>1 DEF Rows, States, Closed
<1>6. CASE drive[d].op = "fail"
  <2>1. Written(d, row) = [row EXCEPT !.state = "failed"]
    BY <1>6 DEF Written
  <2> QED
    BY <1>1, <1>6, <2>1 DEF Rows, States, Closed
<1> QED
  BY <1>1, <1>2, <1>3, <1>4, <1>5, <1>6 DEF Writes

(* The row is read, and what will be written is decided.                    *)
LEMMA ReadRowEffect ==
    ASSUME LifecycleTypes, NEW d \in Drives, ReadRow(d), Written(d, row) \in Rows
    PROVE  /\ drive' \in [Drives -> DriveStates]
           /\ \A e \in Drives : e # d => drive'[e] = drive[e]
           /\ drive[d].at = "read" /\ drive'[d].at = "write"
           /\ drive'[d].resume = drive[d].resume /\ drive'[d].copy = Written(d, row)
           /\ drive'[d].op = drive[d].op /\ drive'[d].st = drive[d].st
           /\ drive'[d].parks = drive[d].parks
<1> DEFINE new == Written(d, row)
<1>1. drive' = [drive EXCEPT ![d].at = "write", ![d].copy = new] /\ new \in Rows /\ drive[d].at = "read"
  BY DEF ReadRow
<1> HIDE DEF new
<1>3. drive \in [Drives -> DriveStates] /\ drive[d] \in DriveStates
  BY DEF LifecycleTypes
<1>4. [drive[d] EXCEPT !.at = "write", !.copy = new] \in DriveStates
  BY <1>1, <1>3 DEF DriveStates
<1>5. drive' = [drive EXCEPT ![d] = [drive[d] EXCEPT !.at = "write", !.copy = new]]
  BY <1>1
<1>2. /\ drive' \in [Drives -> DriveStates]
      /\ \A e \in Drives : e # d => drive'[e] = drive[e]
      /\ drive[d].at = "read" /\ drive'[d].at = "write"
      /\ drive'[d].resume = drive[d].resume /\ drive'[d].copy = new
      /\ drive'[d].op = drive[d].op /\ drive'[d].st = drive[d].st
      /\ drive'[d].parks = drive[d].parks
  <2>1. drive' \in [Drives -> DriveStates] /\ \A e \in Drives : e # d => drive'[e] = drive[e]
    BY <1>3, <1>4, <1>5
  <2>2. drive'[d] = [drive[d] EXCEPT !.at = "write", !.copy = new]
    BY <1>3, <1>5
  <2> QED
    BY <1>1, <1>3, <2>1, <2>2 DEF DriveStates
<1> QED
  BY <1>2 DEF new

(* The row is written, and the drive goes on or is over.                    *)
LEMMA WriteRowEffect ==
    ASSUME LifecycleTypes, NEW d \in Drives, WriteRow(d)
    PROVE  /\ drive' \in [Drives -> DriveStates]
           /\ \A e \in Drives : e # d => drive'[e] = drive[e]
           /\ drive[d].at = "write" /\ row' = drive[d].copy /\ row' \in Rows
           /\ drive'[d].copy = BlankRow
           /\ \/ /\ drive[d].op = "mark" /\ drive'[d].at = "driving"
                 /\ drive'[d].st = drive[d].st /\ drive'[d].resume = drive[d].resume
              \/ /\ drive[d].op = "checkpoint" /\ drive'[d].at = "read"
                 /\ drive'[d].op = (IF drive[d].parks THEN "park" ELSE "finish")
                 /\ drive'[d].st = drive[d].st /\ drive'[d].resume = drive[d].resume
              \/ /\ drive[d].op \notin {"mark", "checkpoint"} /\ drive'[d].at = "ended"
                 /\ drive'[d].st = NoCheckpoint /\ ~drive'[d].resume
<1> USE DEF LifecycleTypes
<1>1. drive[d] \in DriveStates /\ drive[d].copy \in Rows /\ drive[d].at = "write" /\ row' = drive[d].copy
  BY DEF DriveStates, WriteRow
<1>2. BlankRow \in Rows /\ Unused \in DriveStates
  BY BlankIsRow
<1>3. CASE drive[d].op = "mark"
  <2>1. drive' = [drive EXCEPT ![d].at = "driving", ![d].copy = BlankRow]
    BY <1>3 DEF WriteRow
  <2> QED
    BY <1>1, <1>2, <1>3, <2>1 DEF DriveStates
<1>4. CASE drive[d].op = "checkpoint"
  <2> DEFINE op == IF drive[d].parks THEN "park" ELSE "finish"
  <2>1. drive' = [drive EXCEPT ![d].at = "read", ![d].copy = BlankRow, ![d].op = op]
    BY <1>4 DEF WriteRow
  <2>2. op \in Writes
    BY DEF Writes
  <2>3. /\ drive' \in [Drives -> DriveStates]
        /\ \A e \in Drives : e # d => drive'[e] = drive[e]
        /\ drive'[d].copy = BlankRow /\ drive'[d].at = "read" /\ drive'[d].op = op
        /\ drive'[d].st = drive[d].st /\ drive'[d].resume = drive[d].resume
    <3> HIDE DEF op
    <3> QED
      BY <1>1, <1>2, <2>1, <2>2 DEF DriveStates
  <2> QED
    BY <1>1, <1>4, <2>3
<1>5. CASE drive[d].op \notin {"mark", "checkpoint"}
  <2> DEFINE new == [Unused EXCEPT !.at = "ended"]
  <2>1. drive' = [drive EXCEPT ![d] = new]
    BY <1>5 DEF WriteRow
  <2>2. /\ new \in DriveStates /\ new.copy = BlankRow /\ new.at = "ended"
        /\ new.st = NoCheckpoint /\ new.resume = FALSE
    BY <1>2 DEF DriveStates, Unused
  <2> HIDE DEF new
  <2> QED
    BY <1>1, <1>5, <2>1, <2>2
<1> QED
  BY <1>3, <1>4, <1>5
(* A request whose row was read is answered, refused or goes on.            *)
LEMMA SetRequestEffect ==
    ASSUME LifecycleTypes, NEW r \in Requests, NEW copy \in Rows,
           NEW at \in {"reading", "writing", "submitting", "answered", "refused"},
           SetRequest(r, at, copy)
    PROVE  /\ request' \in [Requests -> RequestStates]
           /\ \A q \in Requests : q # r => request'[q] = request[q]
           /\ request'[r].kind = request[r].kind
           /\ request'[r].at = at /\ request'[r].copy = copy
BY DEF LifecycleTypes, SetRequest, RequestStates

(* A request arrives, and has read the row.                                 *)
LEMMA ArriveEffect ==
    ASSUME LifecycleTypes, NEW r \in Requests, Arrive(r)
    PROVE  /\ request' \in [Requests -> RequestStates]
           /\ \A q \in Requests : q # r => request'[q] = request[q]
           /\ request'[r].kind \in Kinds
           /\ request'[r].at = "checking" /\ request'[r].copy = row
           /\ viewed' = IF request'[r].kind = "approve" /\ row.state = "awaiting_approval"
                        THEN viewed \union {row.cp.text} ELSE viewed
           /\ UNCHANGED <<sweep, published, row, drive, submitted, live, aged, approved, overlapped>>
<1>1. PICK kind \in Kinds :
         /\ request' = [request EXCEPT ![r] = [kind |-> kind, at |-> "checking", copy |-> row]]
         /\ viewed' = IF kind = "approve" /\ row.state = "awaiting_approval"
                      THEN viewed \union {row.cp.text} ELSE viewed
  BY DEF Arrive
<1>2. row \in Rows /\ kind \in {"none", "resume", "approve", "reject"}
  BY KindsAssumption DEF LifecycleTypes
<1>3. /\ request' \in [Requests -> RequestStates]
      /\ \A q \in Requests : q # r => request'[q] = request[q]
      /\ request'[r].kind = kind
      /\ request'[r].at = "checking" /\ request'[r].copy = row
  BY <1>1, <1>2 DEF LifecycleTypes, RequestStates
<1>4. UNCHANGED <<sweep, published, row, drive, submitted, live, aged, approved, overlapped>>
  BY DEF Arrive, requestRest
<1> QED
  BY <1>1, <1>3, <1>4

(* A decision reads the row, to write it back with its mark on it.          *)
LEMMA ReadDecisionEffect ==
    ASSUME LifecycleTypes, NEW r \in Requests, ReadDecision(r)
    PROVE  /\ request' \in [Requests -> RequestStates]
           /\ \A q \in Requests : q # r => request'[q] = request[q]
           /\ request'[r].kind = request[r].kind /\ request[r].at = "reading"
           /\ \/ request'[r].at = "refused" /\ request'[r].copy = BlankRow
              \/ /\ request'[r].at = "writing"
                 /\ request'[r].copy.resumed = row.resumed
                 /\ request'[r].copy.cp.stage = row.cp.stage
                 /\ request'[r].copy.cp.text = row.cp.text
                 /\ request[r].kind = "reject" => request'[r].copy.cp = row.cp
                 /\ request[r].kind = "approve" => row.cp.stage # "none"
                 /\ request[r].kind \in {"approve", "reject"}
<1> USE DEF LifecycleTypes
<1>1. row \in Rows /\ row.cp \in Checkpoints /\ request[r].at = "reading" /\ BlankRow \in Rows
  BY RowFields, BlankIsRow DEF ReadDecision
<1>2. CASE request[r].kind = "reject"
  <2> DEFINE new == [row EXCEPT !.state = "rejected"]
  <2>1. new \in Rows /\ new.resumed = row.resumed /\ new.cp = row.cp
    BY <1>1 DEF Rows, States, Closed
  <2>2. SetRequest(r, "writing", new)
    BY <1>2 DEF ReadDecision
  <2> HIDE DEF new
  <2>3. /\ request' \in [Requests -> RequestStates]
        /\ \A q \in Requests : q # r => request'[q] = request[q]
        /\ request'[r].kind = request[r].kind
        /\ request'[r].at = "writing" /\ request'[r].copy = new
    BY <2>1, <2>2, SetRequestEffect
  <2> QED
    BY <1>1, <1>2, <2>1, <2>3
<1>3. CASE request[r].kind = "approve" /\ row.cp.stage = "none"
  <2>1. SetRequest(r, "refused", BlankRow)
    BY <1>3 DEF ReadDecision, Refuse
  <2> QED
    BY <1>1, <2>1, SetRequestEffect
<1>4. CASE request[r].kind = "approve" /\ row.cp.stage # "none"
  <2> DEFINE new == [row EXCEPT !.cp.approver = "user"]
  <2>1. /\ new \in Rows /\ new.resumed = row.resumed
        /\ new.cp.stage = row.cp.stage /\ new.cp.text = row.cp.text
    BY <1>1 DEF Rows, Checkpoints
  <2>2. SetRequest(r, "writing", new)
    BY <1>4 DEF ReadDecision
  <2> HIDE DEF new
  <2>3. /\ request' \in [Requests -> RequestStates]
        /\ \A q \in Requests : q # r => request'[q] = request[q]
        /\ request'[r].kind = request[r].kind
        /\ request'[r].at = "writing" /\ request'[r].copy = new
    BY <2>1, <2>2, SetRequestEffect
  <2> QED
    BY <1>1, <1>4, <2>1, <2>3
<1>5. request[r].kind \in {"reject", "approve"}
  BY <1>1
<1> QED
  BY <1>2, <1>3, <1>4, <1>5

(* What a drive brings back: it stays with the text and the approver it was restored
   with, unless it is before the gate, and publishes only behind it.        *)
LEMMA ComputesEffect ==
    ASSUME LifecycleTypes, NEW d \in Drives, BeforeGate(d) \/ BehindGate(d) \/ NothingLeft(d)
    PROVE  /\ drive' \in [Drives -> DriveStates]
           /\ \A e \in Drives : e # d => drive'[e] = drive[e]
           /\ drive[d].at = "driving"
           /\ drive'[d].resume = drive[d].resume /\ drive'[d].copy = drive[d].copy
           /\ drive'[d].at = "read" /\ drive'[d].op = "checkpoint"
           /\ drive'[d].parks => Gated(drive'[d].st)
           /\ drive'[d].st.approver = drive[d].st.approver
           /\ Gated(drive[d].st) => Gated(drive'[d].st) /\ drive'[d].st.text = drive[d].st.text
           /\ published' = published
              \/ /\ published' = published \union {drive[d].st.text}
                 /\ Gated(drive[d].st) /\ drive[d].st.approver = "user"
           /\ UNCHANGED <<driveRest, row, live>>
<1>1. drive[d] \in DriveStates /\ drive[d].st \in Checkpoints
  BY DEF LifecycleTypes, DriveStates
<1>2. CASE BeforeGate(d)
  <2>1. PICK stage \in {"early", "review"} :
             Return(d, [drive[d].st EXCEPT !.stage = stage, !.text = d], stage = "review")
    BY <1>2 DEF BeforeGate
  <2> DEFINE st == [drive[d].st EXCEPT !.stage = stage, !.text = d]
  <2> DEFINE interrupted == stage = "review"
  <2>0. d \in 0..MaxDrives /\ stage \in Stages
    BY <2>1, Bounds DEF Stages, Drives
  <2>a. st \in Checkpoints /\ st.approver = drive[d].st.approver /\ st.stage = stage
    BY <1>1, <2>0 DEF Checkpoints
  <2>b. interrupted \in BOOLEAN /\ Return(d, st, interrupted)
    BY <2>1, Zenon
  <2>2. /\ st \in Checkpoints /\ st.approver = drive[d].st.approver /\ st.stage = stage
        /\ interrupted \in BOOLEAN /\ Return(d, st, interrupted)
    BY <2>a, <2>b, Zenon
  <2>3. interrupted => Gated(st)
    BY <2>2 DEF Gated
  <2>4. /\ drive[d].at = "driving" /\ ~Gated(drive[d].st)
        /\ published' = published /\ UNCHANGED <<driveRest, row, live>>
    BY <1>2 DEF BeforeGate, Gated
  <2> HIDE DEF st, interrupted
  <2>5. /\ drive' \in [Drives -> DriveStates]
        /\ \A e \in Drives : e # d => drive'[e] = drive[e]
        /\ drive'[d].resume = drive[d].resume /\ drive'[d].copy = drive[d].copy
        /\ drive'[d].at = "read" /\ drive'[d].op = "checkpoint"
        /\ drive'[d].st = st /\ drive'[d].parks = interrupted
    BY <2>2, ReturnEffect
  <2>6. drive'[d].parks => Gated(drive'[d].st)
    BY <2>3, <2>5, Zenon
  <2>7. drive'[d].st.approver = drive[d].st.approver
    BY <2>2, <2>5
  <2> QED
    BY <2>4, <2>5, <2>6, <2>7, Zenon
<1>3. CASE BehindGate(d)
  <2> DEFINE st == [drive[d].st EXCEPT !.stage = "over"]
  <2>1. /\ st \in Checkpoints /\ st.approver = drive[d].st.approver /\ st.text = drive[d].st.text
        /\ st.stage = "over" /\ FALSE \in BOOLEAN /\ Return(d, st, FALSE)
    BY <1>1, <1>3 DEF BehindGate, Checkpoints, Stages
  <2>2. drive[d].at = "driving" /\ Gated(drive[d].st) /\ UNCHANGED <<driveRest, row, live>>
    BY <1>3 DEF BehindGate, Gated
  <2>3. published' = published
        \/ (published' = published \union {drive[d].st.text} /\ drive[d].st.approver = "user")
    <3>1. PICK accepted \in BOOLEAN :
               published' = IF drive[d].st.approver = "user" /\ accepted
                            THEN published \union {drive[d].st.text} ELSE published
      BY <1>3, Zenon DEF BehindGate
    <3>2. CASE drive[d].st.approver = "user" /\ accepted
      BY <3>1, <3>2
    <3>3. CASE ~(drive[d].st.approver = "user" /\ accepted)
      BY <3>1, <3>3
    <3> QED
      BY <3>2, <3>3
  <2> HIDE DEF st
  <2>4. /\ drive' \in [Drives -> DriveStates]
        /\ \A e \in Drives : e # d => drive'[e] = drive[e]
        /\ drive'[d].resume = drive[d].resume /\ drive'[d].copy = drive[d].copy
        /\ drive'[d].at = "read" /\ drive'[d].op = "checkpoint"
        /\ drive'[d].st = st /\ drive'[d].parks = FALSE
    BY <2>1, ReturnEffect
  <2>5. /\ Gated(drive'[d].st) /\ drive'[d].st.text = drive[d].st.text
        /\ drive'[d].st.approver = drive[d].st.approver
    BY <2>1, <2>4 DEF Gated
  <2> QED
    BY <2>2, <2>3, <2>4, <2>5, Zenon
<1>4. CASE NothingLeft(d)
  <2>1. Return(d, drive[d].st, FALSE) /\ FALSE \in BOOLEAN
    BY <1>4 DEF NothingLeft
  <2>2. /\ drive[d].at = "driving" /\ Gated(drive[d].st)
        /\ published' = published /\ UNCHANGED <<driveRest, row, live>>
    BY <1>4 DEF NothingLeft, Gated
  <2>3. /\ drive' \in [Drives -> DriveStates]
        /\ \A e \in Drives : e # d => drive'[e] = drive[e]
        /\ drive'[d].resume = drive[d].resume /\ drive'[d].copy = drive[d].copy
        /\ drive'[d].at = "read" /\ drive'[d].op = "checkpoint"
        /\ drive'[d].st = drive[d].st /\ drive'[d].parks = FALSE
    BY <1>1, <2>1, ReturnEffect
  <2> QED
    BY <2>2, <2>3, Zenon
<1> QED
  BY <1>2, <1>3, <1>4

(* A drive that is submitted is new, restores what is stored, and overlaps with
   whichever drive is running.                                              *)
LEMMA SubmitEffect ==
    ASSUME LifecycleTypes, NEW r \in Requests, SubmitResume(r)
    PROVE  /\ drive' \in [Drives -> DriveStates]
           /\ submitted' = submitted + 1 /\ submitted' \in 1..MaxDrives
           /\ \A e \in Drives : e # submitted' => drive'[e] = drive[e]
           /\ drive'[submitted'].at = "begin" /\ drive'[submitted'].resume
           /\ drive'[submitted'].copy = BlankRow /\ drive'[submitted'].st = NoCheckpoint
           /\ live' \subseteq Procs /\ overlapped' \in BOOLEAN
           /\ overlapped => overlapped'
           /\ (\E e \in Drives : Running(e)) => overlapped'
           /\ request' \in [Requests -> RequestStates]
           /\ \A q \in Requests : q # r => request'[q] = request[q]
           /\ request'[r].kind = request[r].kind
           /\ request'[r].at = "answered" /\ request'[r].copy = BlankRow
           /\ UNCHANGED <<row, aged, approved, viewed, sweep, published>>
<1> USE DEF LifecycleTypes
<1>1. Submit("api", TRUE) /\ SetRequest(r, "answered", BlankRow) /\ BlankRow \in Rows
      /\ UNCHANGED <<row, aged, approved, viewed, sweep, published>>
  BY BlankIsRow DEF SubmitResume, requestRest
<1>2. submitted' = submitted + 1 /\ submitted' \in 1..MaxDrives /\ submitted' \in Drives
  BY <1>1, Bounds DEF Submit, Drives
<1> DEFINE new == [Unused EXCEPT !.proc = "api", !.resume = TRUE, !.at = "begin"]
<1>3. drive' = [drive EXCEPT ![submitted'] = new]
  BY <1>1, <1>2 DEF Submit
<1>4. /\ new \in DriveStates /\ new.at = "begin" /\ new.resume
      /\ new.copy = BlankRow /\ new.st = NoCheckpoint
  BY BlankIsRow DEF DriveStates, Unused, Procs
<1> HIDE DEF new
<1>5. /\ drive' \in [Drives -> DriveStates] /\ drive'[submitted'] = new
      /\ \A e \in Drives : e # submitted' => drive'[e] = drive[e]
  BY <1>2, <1>3, <1>4
<1>6. /\ live' \subseteq Procs /\ overlapped' \in BOOLEAN /\ (overlapped => overlapped')
      /\ (\E e \in Drives : Running(e)) => overlapped'
  BY <1>1 DEF Submit, Procs
<1>7. /\ request' \in [Requests -> RequestStates]
      /\ \A q \in Requests : q # r => request'[q] = request[q]
      /\ request'[r].kind = request[r].kind
      /\ request'[r].at = "answered" /\ request'[r].copy = BlankRow
  BY <1>1, SetRequestEffect
<1> QED
  BY <1>1, <1>2, <1>4, <1>5, <1>6, <1>7, Zenon

(* A process that dies takes its drives and its requests with it, and leaves the
   stored row alone.                                                        *)
LEMMA DieEffect ==
    ASSUME LifecycleTypes, NEW proc \in Procs, Die(proc)
    PROVE  /\ drive' \in [Drives -> DriveStates] /\ request' \in [Requests -> RequestStates]
           /\ \A e \in Drives :
                 \/ drive'[e] = drive[e]
                 \/ /\ Running(e) /\ drive'[e].at = "dead" /\ ~drive'[e].resume
                    /\ drive'[e].copy = BlankRow /\ drive'[e].st = NoCheckpoint
           /\ \A q \in Requests :
                 \/ request'[q] = request[q]
                 \/ request'[q].at = "dead" /\ request'[q].copy = BlankRow
           /\ live' \subseteq Procs /\ sweep' \in BOOLEAN
           /\ UNCHANGED <<row, submitted, aged, approved, viewed, published, overlapped>>
<1> USE DEF LifecycleTypes
<1> DEFINE gone == [Unused EXCEPT !.at = "dead"]
<1> DEFINE noanswer == [NoRequest EXCEPT !.at = "dead"]
<1>1. /\ gone \in DriveStates /\ gone.at = "dead" /\ ~gone.resume
      /\ gone.copy = BlankRow /\ gone.st = NoCheckpoint
  BY BlankIsRow DEF DriveStates, Unused
<1>2. noanswer \in RequestStates /\ noanswer.at = "dead" /\ noanswer.copy = BlankRow
  BY BlankIsRow DEF RequestStates, NoRequest
<1>3. /\ drive' = [e \in Drives |-> IF Running(e) /\ drive[e].proc = proc THEN gone ELSE drive[e]]
      /\ request' = [q \in Requests |-> IF Open(q) /\ proc = "api" THEN noanswer ELSE request[q]]
      /\ live' \subseteq Procs /\ sweep' \in BOOLEAN
      /\ UNCHANGED <<row, submitted, aged, approved, viewed, published, overlapped>>
  BY DEF Die
<1> HIDE DEF gone, noanswer
<1>4. /\ \A e \in Drives : drive'[e] = drive[e] \/ (Running(e) /\ drive'[e] = gone)
      /\ drive' \in [Drives -> DriveStates]
  <2>1. drive' \in [Drives -> DriveStates]
    BY <1>1, <1>3
  <2>2. ASSUME NEW e \in Drives PROVE drive'[e] = drive[e] \/ (Running(e) /\ drive'[e] = gone)
    <3>1. drive'[e] = IF Running(e) /\ drive[e].proc = proc THEN gone ELSE drive[e]
      BY <1>3, Zenon
    <3> QED
      BY <3>1
  <2> QED
    BY <2>1, <2>2
<1>5. /\ \A q \in Requests : request'[q] = request[q] \/ request'[q] = noanswer
      /\ request' \in [Requests -> RequestStates]
  BY <1>2, <1>3
<1>6. ASSUME NEW e \in Drives
      PROVE  \/ drive'[e] = drive[e]
             \/ /\ Running(e) /\ drive'[e].at = "dead" /\ ~drive'[e].resume
                /\ drive'[e].copy = BlankRow /\ drive'[e].st = NoCheckpoint
  BY <1>1, <1>4
<1>7. ASSUME NEW q \in Requests
      PROVE  request'[q] = request[q] \/ (request'[q].at = "dead" /\ request'[q].copy = BlankRow)
  BY <1>2, <1>5
<1> QED
  BY <1>3, <1>4, <1>5, <1>6, <1>7

(* The sweep writes the state alone.                                        *)
LEMMA CloseStrandedEffect ==
    ASSUME LifecycleTypes, CloseStranded
    PROVE  /\ row' \in Rows /\ row'.cp = row.cp /\ row'.resumed = row.resumed
           /\ row'.state = "awaiting_approval" => row.state = "awaiting_approval"
           /\ sweep' \in BOOLEAN /\ aged' \in BOOLEAN
           /\ UNCHANGED <<drive, submitted, live, request, approved, viewed, published, overlapped>>
<1> USE DEF LifecycleTypes
<1>1. CASE row.state = "running"
  <2>1. row' = [row EXCEPT !.state = "failed"]
    BY <1>1 DEF CloseStranded
  <2>2. row' \in Rows /\ row'.cp = row.cp /\ row'.resumed = row.resumed /\ row'.state = "failed"
    BY <2>1 DEF Rows, States, Closed
  <2> QED
    BY <1>1, <2>2 DEF CloseStranded
<1>2. CASE row.state # "running"
  BY <1>2 DEF CloseStranded
<1> QED
  BY <1>1, <1>2

(* The refusals of the routes.                                              *)
LEMMA CheckEffect ==
    ASSUME LifecycleTypes, NEW r \in Requests,
           CheckResume(r) \/ CeilingRefuses(r) \/ CheckDecision(r)
    PROVE  /\ request' \in [Requests -> RequestStates]
           /\ \A q \in Requests : q # r => request'[q] = request[q]
           /\ request'[r].kind = request[r].kind /\ request'[r].copy = BlankRow
           /\ \/ request'[r].at \in {"submitting", "refused"}
              \/ /\ request'[r].at = "reading" /\ request[r].at = "checking"
                 /\ request[r].copy.state = "awaiting_approval"
                 /\ request[r].kind \in {"approve", "reject"}
           /\ UNCHANGED <<sweep, published, row, drive, submitted, live, aged, approved, viewed,
                          overlapped>>
<1>1. BlankRow \in Rows
  BY BlankIsRow
<1>2. UNCHANGED <<sweep, published, row, drive, submitted, live, aged, approved, viewed, overlapped>>
  BY DEF CheckResume, CeilingRefuses, CheckDecision, requestRest
<1>3. PICK at \in {"submitting", "refused", "reading"} :
        /\ SetRequest(r, at, BlankRow)
        /\ at = "reading" => /\ request[r].at = "checking"
                             /\ request[r].copy.state = "awaiting_approval"
                             /\ request[r].kind \in {"approve", "reject"}
  <2>1. CASE CheckResume(r)
    BY <2>1 DEF CheckResume, Refuse
  <2>2. CASE CeilingRefuses(r)
    BY <2>2 DEF CeilingRefuses, Refuse
  <2>3. CASE CheckDecision(r)
    BY <2>3 DEF CheckDecision, Refuse
  <2> QED
    BY <2>1, <2>2, <2>3
<1>4. at \in {"reading", "writing", "submitting", "answered", "refused"}
  BY <1>3
<1> QED
  BY <1>1, <1>2, <1>3, <1>4, SetRequestEffect

(* A decision writes back the row it read.                                  *)
LEMMA WriteDecisionEffect ==
    ASSUME LifecycleTypes, NEW r \in Requests, WriteDecision(r)
    PROVE  /\ request' \in [Requests -> RequestStates]
           /\ \A q \in Requests : q # r => request'[q] = request[q]
           /\ request'[r].kind = request[r].kind /\ request'[r].copy = BlankRow
           /\ request'[r].at \in {"submitting", "answered"} /\ request[r].at = "writing"
           /\ row' = request[r].copy /\ row' \in Rows /\ aged' = FALSE
           /\ approved' = IF request[r].kind = "approve"
                          THEN approved \union {[stage |-> request[r].copy.cp.stage,
                                                 text |-> request[r].copy.cp.text]}
                          ELSE approved
           /\ UNCHANGED <<sweep, published, drive, submitted, live, viewed, overlapped>>
<1>1. BlankRow \in Rows /\ request[r].copy \in Rows
  BY BlankIsRow DEF LifecycleTypes, RequestStates
<1>2. /\ request[r].at = "writing" /\ row' = request[r].copy /\ aged' = FALSE
      /\ approved' = IF request[r].kind = "approve"
                     THEN approved \union {[stage |-> request[r].copy.cp.stage,
                                            text |-> request[r].copy.cp.text]}
                     ELSE approved
      /\ UNCHANGED <<sweep, published, drive, submitted, live, viewed, overlapped>>
  BY DEF WriteDecision, requestRest
<1>3. PICK at \in {"submitting", "answered"} : SetRequest(r, at, BlankRow)
  BY DEF WriteDecision
<1>4. at \in {"reading", "writing", "submitting", "answered", "refused"}
  BY <1>3
<1> QED
  BY <1>1, <1>2, <1>3, <1>4, SetRequestEffect

-----------------------------------------------------------------------------
(* Types, and how often the run was restored.                               *)

(* A set of drives after the first has fewer elements than there are drives. *)
LEMMA CountBelow ==
    ASSUME NEW n \in Nat \ {0}, NEW S, S \subseteq 2..n
    PROVE  IsFiniteSet(S) /\ Cardinality(S) \in Nat /\ Cardinality(S) <= n - 1
<1>1. IsFiniteSet(2..n) /\ Cardinality(2..n) = n - 1
  BY FS_Interval
<1>2. IsFiniteSet(S) /\ Cardinality(S) <= Cardinality(2..n)
  BY <1>1, FS_Subset
<1> QED
  BY <1>1, <1>2, FS_CardinalityType

(* The drives that counted their restoration are finitely many.             *)
LEMMA MarkedCount ==
    ASSUME LifecycleTypes
    PROVE  IsFiniteSet(Marked) /\ Cardinality(Marked) \in Nat /\ Cardinality(Marked) <= submitted - 1
<1>1. submitted \in Nat \ {0}
  BY Bounds DEF LifecycleTypes
<1>2. Marked \subseteq 2..submitted
  BY DEF Marked
<1> QED
  BY <1>1, <1>2, CountBelow

(* And they stay so after a step.                                           *)
LEMMA MarkedCountNext ==
    ASSUME LifecycleTypes'
    PROVE  IsFiniteSet(Marked') /\ Cardinality(Marked)' \in Nat /\ Cardinality(Marked)' <= submitted' - 1
<1>1. submitted' \in Nat \ {0}
  BY Bounds DEF LifecycleTypes
<1>2. Marked' \subseteq 2..(submitted')
  BY DEF Marked
<1>3. IsFiniteSet(Marked') /\ Cardinality(Marked') \in Nat /\ Cardinality(Marked') <= submitted' - 1
  BY <1>1, <1>2, CountBelow
<1> QED
  BY <1>3

(* A drive that counted its restoration is never about to count it again.   *)
LEMMA MarkedGrows ==
    ASSUME LifecycleTypes, LifecycleTypes', submitted' \in {submitted, submitted + 1},
           \A e \in 2..submitted :
                drive[e].at # "begin" /\ ~ReadsMark(e) =>
                    \/ drive'[e] = drive[e]
                    \/ drive'[e].at # "begin" /\ (drive'[e].at # "read" \/ drive'[e].op # "mark")
    PROVE  Marked \subseteq Marked' /\ Cardinality(Marked) <= Cardinality(Marked)'
<1>1. submitted \in Nat /\ submitted' \in Nat
  BY Bounds DEF LifecycleTypes
<1>2. ASSUME NEW e \in Marked PROVE e \in Marked'
  <2>1. e \in 2..submitted /\ drive[e].at # "begin" /\ ~ReadsMark(e)
    BY DEF Marked
  <2>2. e \in 2..(submitted')
    BY <1>1, <2>1
  <2>3. drive'[e].at # "begin" /\ (drive'[e].at # "read" \/ drive'[e].op # "mark")
    BY <2>1 DEF ReadsMark
  <2> QED
    BY <2>2, <2>3 DEF Marked, ReadsMark
<1>3. Marked \subseteq Marked'
  BY <1>2
<1>4. IsFiniteSet(Marked')
  BY MarkedCountNext
<1>5. Cardinality(Marked) <= Cardinality(Marked')
  BY <1>3, <1>4, FS_Subset
<1> QED
  BY <1>3, <1>5

(* A drive that reads the row to count its restoration is counted from then on. *)
LEMMA ReaderIsCounted ==
    ASSUME LifecycleTypes, LifecycleTypes', Resumptions, submitted' = submitted,
           NEW d \in Drives, ReadsMark(d), drive'[d].at = "write",
           \A e \in Drives : e # d => drive'[e] = drive[e]
    PROVE  /\ Cardinality(Marked) + 1 <= Cardinality(Marked)'
           /\ Cardinality(Marked) + 1 <= submitted - 1
<1> USE DEF LifecycleTypes
<1>1. submitted \in 1..MaxDrives /\ MaxDrives \in Nat
  BY Bounds
<1>2. d # 1 /\ ~(d > submitted)
  BY DEF Resumptions, ReadsMark
<1>3. d \in 2..submitted
  BY <1>1, <1>2 DEF Drives
<1>4. d \notin Marked /\ d \in Marked'
  BY <1>3 DEF Marked, ReadsMark
<1>5. Marked \subseteq Marked'
  <2>1. ASSUME NEW e \in Marked PROVE e \in Marked'
    <3>1. e \in 2..submitted /\ drive[e].at # "begin" /\ ~ReadsMark(e) /\ e \in Drives /\ e # d
      BY <1>1, <1>4 DEF Marked, Drives
    <3>2. drive'[e] = drive[e]
      BY <3>1
    <3> QED
      BY <3>1, <3>2 DEF Marked, ReadsMark
  <2> QED
    BY <2>1
<1>6. IsFiniteSet(Marked') /\ IsFiniteSet(Marked) /\ Cardinality(Marked) \in Nat
      /\ Cardinality(Marked') \in Nat /\ Cardinality(Marked') <= submitted - 1
  BY MarkedCount, MarkedCountNext
<1>7. Cardinality(Marked \union {d}) = Cardinality(Marked) + 1
  BY <1>4, <1>6, FS_AddElement
<1>8. Cardinality(Marked \union {d}) <= Cardinality(Marked')
  BY <1>4, <1>5, <1>6, FS_Subset
<1> QED
  BY <1>1, <1>6, <1>7, <1>8

(* The counts that are stored or under way, after a step that counts nothing. *)
LEMMA CountsKept ==
    ASSUME LifecycleTypes, LifecycleTypes', Cardinality(Marked) <= Cardinality(Marked)',
           Resumptions, submitted' \in {submitted, submitted + 1},
           row'.resumed = row.resumed
               \/ (\E e \in Drives : row'.resumed = drive[e].copy.resumed)
               \/ (\E q \in Requests : row'.resumed = request[q].copy.resumed),
           ~drive'[1].resume,
           \A e \in Drives : e > submitted' => drive'[e].at = "unused",
           \A e \in Drives : drive'[e].at = "read" /\ drive'[e].op = "mark" => drive'[e].resume,
           \A e \in Drives : drive'[e].copy.resumed \in {0, row.resumed, drive[e].copy.resumed},
           \A q \in Requests : request'[q].copy.resumed \in {0, row.resumed, request[q].copy.resumed}
    PROVE  Resumptions'
<1> DEFINE n == Cardinality(Marked)
<1> DEFINE m == Cardinality(Marked)'
<1>1. n \in Nat /\ m \in Nat /\ n <= m
  BY MarkedCount, MarkedCountNext
<1>2. row.resumed \in Nat /\ (\A e \in Drives : drive[e].copy.resumed \in Nat)
      /\ (\A q \in Requests : request[q].copy.resumed \in Nat)
  BY Bounds DEF LifecycleTypes, Rows, DriveStates, RequestStates
<1>3. row.resumed <= n /\ (\A e \in Drives : drive[e].copy.resumed <= n)
      /\ (\A q \in Requests : request[q].copy.resumed <= n)
  BY DEF Resumptions
<1>4. row'.resumed \in Nat /\ row'.resumed <= n
  BY <1>2, <1>3
<1> HIDE DEF n, m
<1>5. row'.resumed <= m
  BY <1>1, <1>4
<1>6. ASSUME NEW e \in Drives PROVE drive'[e].copy.resumed <= m
  BY <1>1, <1>2, <1>3
<1>7. ASSUME NEW q \in Requests PROVE request'[q].copy.resumed <= m
  BY <1>1, <1>2, <1>3
<1> QED
  BY <1>5, <1>6, <1>7 DEF Resumptions, ReadsMark, m

(* The run as it starts has the types.                                      *)
LEMMA TypeInit == Init => TypeInv
<1> SUFFICES ASSUME Init PROVE TypeInv
  OBVIOUS
<1>1. PICK proc \in Starters :
         /\ drive = [d \in Drives |-> IF d = 1 THEN [Unused EXCEPT !.proc = proc, !.at = "begin"]
                                      ELSE Unused]
         /\ live = {proc}
  BY DEF Init
<1>2. proc \in Procs
  BY KindsAssumption DEF Procs
<1> DEFINE first == [Unused EXCEPT !.proc = proc, !.at = "begin"]
<1>3. /\ first \in DriveStates /\ first.at = "begin" /\ ~first.resume
      /\ first.copy = BlankRow
  BY <1>2, BlankIsRow DEF DriveStates, Unused
<1>4. /\ Unused \in DriveStates /\ Unused.at = "unused" /\ ~Unused.resume /\ Unused.copy = BlankRow
      /\ NoRequest \in RequestStates /\ NoRequest.copy = BlankRow /\ NoRequest.at = "unused"
      /\ BlankRow \in Rows /\ BlankRow.resumed = 0
  BY BlankIsRow DEF Unused, NoRequest, BlankRow
<1>5. drive = [d \in Drives |-> IF d = 1 THEN first ELSE Unused]
  BY <1>1
<1> HIDE DEF first
<1>6. drive \in [Drives -> DriveStates] /\ drive[1] = first
      /\ \A d \in Drives : d # 1 => drive[d] = Unused
  BY <1>3, <1>4, <1>5, Bounds
<1>7. /\ row = BlankRow /\ submitted = 1 /\ request = [r \in Requests |-> NoRequest]
      /\ sweep = FALSE /\ aged = FALSE /\ overlapped = FALSE
      /\ approved = {} /\ viewed = {} /\ published = {}
  BY DEF Init
<1>8. LifecycleTypes
  <2>1. row \in Rows /\ submitted \in 1..MaxDrives /\ live \subseteq Procs
    BY <1>1, <1>2, <1>4, <1>7, Bounds
  <2>2. request \in [Requests -> RequestStates] /\ \A r \in Requests : request[r].at = "unused"
    BY <1>4, <1>7
  <2>3. sweep \in BOOLEAN /\ aged \in BOOLEAN /\ overlapped \in BOOLEAN
    BY <1>7
  <2>4. /\ approved \subseteq [stage : Stages, text : 0..MaxDrives]
        /\ viewed \subseteq 0..MaxDrives /\ published \subseteq 0..MaxDrives
    BY <1>7
  <2> QED
    BY <1>6, <2>1, <2>2, <2>3, <2>4 DEF LifecycleTypes
<1>9. Cardinality(Marked) \in Nat
  BY <1>8, MarkedCount
<1>10. \A d \in Drives : drive[d].copy.resumed = 0 /\ drive[d].at \in {"begin", "unused"}
  BY <1>3, <1>4, <1>6
<1>11. \A r \in Requests : request[r].copy.resumed = 0
  BY <1>4, <1>7
<1>12. \A d \in Drives : d > submitted => drive[d].at = "unused"
  BY <1>4, <1>6, <1>7, Bounds DEF Drives
<1>13. ~drive[1].resume
  BY <1>3, <1>6
<1>14. /\ row.resumed <= Cardinality(Marked)
       /\ \A d \in Drives : drive[d].copy.resumed <= Cardinality(Marked)
       /\ \A r \in Requests : request[r].copy.resumed <= Cardinality(Marked)
  <2> DEFINE n == Cardinality(Marked)
  <2>1. n \in Nat /\ row.resumed = 0
    BY <1>4, <1>7, <1>9
  <2> HIDE DEF n
  <2>2. row.resumed <= n /\ (\A d \in Drives : drive[d].copy.resumed <= n)
        /\ \A r \in Requests : request[r].copy.resumed <= n
    BY <1>10, <1>11, <2>1
  <2> QED
    BY <2>2 DEF n
<1>15. Resumptions
  BY <1>10, <1>12, <1>13, <1>14 DEF Resumptions, ReadsMark
<1> QED
  BY <1>8, <1>15 DEF TypeInv

(* A drive that is about to count its restoration finds room for it.        *)
LEMMA RoomToCount ==
    ASSUME LifecycleTypes, Resumptions, NEW d \in Drives, ReadsMark(d)
    PROVE  row.resumed < MaxDrives
<1>1. submitted \in 1..MaxDrives /\ MaxDrives \in Nat /\ row.resumed \in Nat
  BY Bounds DEF LifecycleTypes, Rows
<1>2. Cardinality(Marked) \in Nat /\ Cardinality(Marked) <= submitted - 1
  BY MarkedCount
<1>3. row.resumed <= Cardinality(Marked)
  BY DEF Resumptions
<1> QED
  BY <1>1, <1>2, <1>3

(* A step of a drive that leaves the row alone keeps the types.             *)
LEMMA DriveTypes ==
    ASSUME TypeInv, NEW d \in Drives,
           drive' \in [Drives -> DriveStates],
           \A e \in Drives : e # d => drive'[e] = drive[e],
           drive[d].at # "unused", drive'[d].at \notin {"begin", "unused"},
           drive'[d].at = "read" /\ drive'[d].op = "mark" => drive[d].at = "begin" /\ drive[d].resume,
           drive'[d].resume = drive[d].resume, drive'[d].copy = drive[d].copy,
           published' \subseteq 0..MaxDrives,
           UNCHANGED <<row, live, aged, driveRest>>
    PROVE  TypeInv'
<1>1. /\ LifecycleTypes /\ Resumptions /\ submitted' = submitted /\ row' = row /\ request' = request
      /\ submitted \in Nat
  BY Bounds DEF TypeInv, driveRest, LifecycleTypes
<1>2. LifecycleTypes'
  BY <1>1 DEF LifecycleTypes, driveRest
<1>3. \A e \in 2..submitted :
          drive[e].at # "begin" /\ ~ReadsMark(e) =>
              \/ drive'[e] = drive[e]
              \/ drive'[e].at # "begin" /\ (drive'[e].at # "read" \/ drive'[e].op # "mark")
  BY <1>1, Bounds DEF LifecycleTypes, Drives
<1>4. Cardinality(Marked) <= Cardinality(Marked)'
  BY <1>1, <1>2, <1>3, MarkedGrows
<1>5. ~drive'[1].resume
  BY <1>1, Bounds DEF Resumptions
<1>6. \A e \in Drives : e > submitted' => drive'[e].at = "unused"
  BY <1>1 DEF Resumptions
<1>7. \A e \in Drives : drive'[e].at = "read" /\ drive'[e].op = "mark" => drive'[e].resume
  BY <1>1 DEF Resumptions, ReadsMark
<1>8. \A e \in Drives : drive'[e].copy.resumed \in {0, row.resumed, drive[e].copy.resumed}
  BY <1>1
<1>9. \A q \in Requests : request'[q].copy.resumed \in {0, row.resumed, request[q].copy.resumed}
  BY <1>1
<1>10. Resumptions'
  BY <1>1, <1>2, <1>4, <1>5, <1>6, <1>7, <1>8, <1>9, CountsKept
<1> QED
  BY <1>2, <1>10 DEF TypeInv

(* A step that leaves the drives alone keeps the types, if the row it writes was stored
   or is that of a request.                                                 *)
LEMMA RequestTypes ==
    ASSUME TypeInv, LifecycleTypes', UNCHANGED <<drive, submitted>>,
           row'.resumed = row.resumed
               \/ (\E q \in Requests : row'.resumed = request[q].copy.resumed),
           \A q \in Requests : request'[q].copy.resumed \in {0, row.resumed, request[q].copy.resumed}
    PROVE  TypeInv'
<1>1. /\ LifecycleTypes /\ Resumptions /\ submitted' = submitted /\ drive' = drive
      /\ submitted \in Nat
  BY Bounds DEF TypeInv, LifecycleTypes
<1>2. \A e \in 2..submitted :
          drive[e].at # "begin" /\ ~ReadsMark(e) =>
              \/ drive'[e] = drive[e]
              \/ drive'[e].at # "begin" /\ (drive'[e].at # "read" \/ drive'[e].op # "mark")
  BY <1>1
<1>3. Cardinality(Marked) <= Cardinality(Marked)'
  BY <1>1, <1>2, MarkedGrows
<1>4. \A e \in Drives : drive'[e].copy.resumed \in {0, row.resumed, drive[e].copy.resumed}
  BY <1>1
<1>5. /\ ~drive'[1].resume
      /\ \A e \in Drives : e > submitted' => drive'[e].at = "unused"
      /\ \A e \in Drives : drive'[e].at = "read" /\ drive'[e].op = "mark" => drive'[e].resume
  BY <1>1 DEF Resumptions, ReadsMark
<1>6. Resumptions'
  BY <1>1, <1>3, <1>4, <1>5, CountsKept
<1> QED
  BY <1>6 DEF TypeInv

(* A drive that reads the row keeps the types; so does one that writes it.  *)
LEMMA ReadRowTypes ==
    ASSUME TypeInv, NEW d \in Drives, ReadRow(d)
    PROVE  TypeInv'
<1>1. /\ LifecycleTypes /\ Resumptions /\ drive[d].op \in Writes /\ row.resumed \in Nat
      /\ row' = row /\ request' = request /\ submitted' = submitted /\ submitted \in Nat
      /\ UNCHANGED <<driveRest, live, aged, published>>
  BY Bounds DEF TypeInv, ReadRow, driveRest, LifecycleTypes, DriveStates, Rows
<1>2. drive[d].op = "mark" => row.resumed < MaxDrives
  BY <1>1, RoomToCount DEF ReadsMark, ReadRow
<1>3. /\ Written(d, row) \in Rows
      /\ Written(d, row).resumed = IF drive[d].op = "mark" THEN row.resumed + 1 ELSE row.resumed
  BY <1>1, <1>2, WrittenEffect
<1>4. /\ drive' \in [Drives -> DriveStates]
      /\ \A e \in Drives : e # d => drive'[e] = drive[e]
      /\ drive[d].at = "read" /\ drive'[d].at = "write"
      /\ drive'[d].resume = drive[d].resume /\ drive'[d].copy = Written(d, row)
      /\ drive'[d].op = drive[d].op
  BY <1>1, <1>3, ReadRowEffect
<1>5. LifecycleTypes'
  BY <1>1, <1>4 DEF LifecycleTypes, driveRest
<1>6. /\ ~drive'[1].resume
      /\ \A e \in Drives : e > submitted' => drive'[e].at = "unused"
      /\ \A e \in Drives : drive'[e].at = "read" /\ drive'[e].op = "mark" => drive'[e].resume
  BY <1>1, <1>4, Bounds DEF Resumptions, ReadsMark
<1>7. CASE drive[d].op # "mark"
  <2>1. \A e \in 2..submitted :
            drive[e].at # "begin" /\ ~ReadsMark(e) =>
                \/ drive'[e] = drive[e]
                \/ drive'[e].at # "begin" /\ (drive'[e].at # "read" \/ drive'[e].op # "mark")
    BY <1>1, <1>4, Bounds DEF LifecycleTypes, Drives
  <2>2. Cardinality(Marked) <= Cardinality(Marked)'
    BY <1>1, <1>5, <2>1, MarkedGrows
  <2>3. \A e \in Drives : drive'[e].copy.resumed \in {0, row.resumed, drive[e].copy.resumed}
    BY <1>3, <1>4, <1>7
  <2>4. \A q \in Requests : request'[q].copy.resumed \in {0, row.resumed, request[q].copy.resumed}
    BY <1>1
  <2>5. Resumptions'
    BY <1>1, <1>5, <1>6, <2>2, <2>3, <2>4, CountsKept
  <2> QED
    BY <1>5, <2>5 DEF TypeInv
<1>8. CASE drive[d].op = "mark"
  <2>1. Cardinality(Marked) + 1 <= Cardinality(Marked)'
    BY <1>1, <1>4, <1>5, <1>8, ReaderIsCounted DEF ReadsMark
  <2> DEFINE n == Cardinality(Marked)
  <2> DEFINE m == Cardinality(Marked)'
  <2>2. n \in Nat /\ m \in Nat /\ n + 1 <= m
    BY <1>1, <1>5, <2>1, MarkedCount, MarkedCountNext
  <2>3. (\A e \in Drives : drive[e].copy.resumed \in Nat) /\ \A q \in Requests : request[q].copy.resumed \in Nat
    BY <1>1, Bounds DEF LifecycleTypes, Rows, DriveStates, RequestStates
  <2>4. /\ row.resumed <= n /\ (\A e \in Drives : drive[e].copy.resumed <= n)
        /\ (\A q \in Requests : request[q].copy.resumed <= n)
    BY <1>1 DEF Resumptions
  <2>5. drive'[d].copy.resumed = row.resumed + 1
    BY <1>3, <1>4, <1>8
  <2> HIDE DEF n, m
  <2>6. row'.resumed <= m /\ \A q \in Requests : request'[q].copy.resumed <= m
    BY <1>1, <2>2, <2>3, <2>4
  <2>7. ASSUME NEW e \in Drives PROVE drive'[e].copy.resumed <= m
    BY <1>1, <1>4, <2>2, <2>3, <2>4, <2>5
  <2>8. Resumptions'
    BY <1>6, <2>6, <2>7 DEF Resumptions, ReadsMark, m
  <2> QED
    BY <1>5, <2>8 DEF TypeInv
<1> QED
  BY <1>7, <1>8

(* A drive that writes the row keeps the types.                             *)
LEMMA WriteRowTypes ==
    ASSUME TypeInv, NEW d \in Drives, WriteRow(d)
    PROVE  TypeInv'
<1>1. /\ LifecycleTypes /\ Resumptions /\ submitted' = submitted /\ submitted \in Nat
      /\ request' = request /\ UNCHANGED <<driveRest, published>> /\ aged' = FALSE /\ live' \subseteq Procs
  BY Bounds DEF TypeInv, WriteRow, driveRest, LifecycleTypes
<1>2. /\ drive' \in [Drives -> DriveStates]
      /\ \A e \in Drives : e # d => drive'[e] = drive[e]
      /\ drive[d].at = "write" /\ row' = drive[d].copy /\ row' \in Rows
      /\ drive'[d].copy = BlankRow
      /\ drive'[d].resume => drive[d].resume
      /\ drive'[d].at \in {"driving", "ended"} \/ (drive'[d].at = "read" /\ drive'[d].op # "mark")
  BY <1>1, WriteRowEffect
<1>3. LifecycleTypes'
  BY <1>1, <1>2 DEF LifecycleTypes, driveRest
<1>4. \A e \in 2..submitted :
          drive[e].at # "begin" /\ ~ReadsMark(e) =>
              \/ drive'[e] = drive[e]
              \/ drive'[e].at # "begin" /\ (drive'[e].at # "read" \/ drive'[e].op # "mark")
  BY <1>1, <1>2, Bounds DEF LifecycleTypes, Drives
<1>5. Cardinality(Marked) <= Cardinality(Marked)'
  BY <1>1, <1>3, <1>4, MarkedGrows
<1>6. /\ ~drive'[1].resume
      /\ \A e \in Drives : e > submitted' => drive'[e].at = "unused"
      /\ \A e \in Drives : drive'[e].at = "read" /\ drive'[e].op = "mark" => drive'[e].resume
  BY <1>1, <1>2, Bounds DEF Resumptions, ReadsMark
<1>7. \A e \in Drives : drive'[e].copy.resumed \in {0, row.resumed, drive[e].copy.resumed}
  BY <1>2 DEF BlankRow
<1>8. \A q \in Requests : request'[q].copy.resumed \in {0, row.resumed, request[q].copy.resumed}
  BY <1>1
<1>9. \E e \in Drives : row'.resumed = drive[e].copy.resumed
  BY <1>2
<1>10. Resumptions'
  BY <1>1, <1>3, <1>5, <1>6, <1>7, <1>8, <1>9, CountsKept
<1> QED
  BY <1>3, <1>10 DEF TypeInv

(* A step of a drive keeps the types.                                       *)
LEMMA DriveStepTypes ==
    ASSUME TypeInv, NEW d \in Drives, DriveStep(d)
    PROVE  TypeInv'
<1>1. LifecycleTypes
  BY DEF TypeInv
<1>2. CASE BeginDrive(d)
  BY <1>1, <1>2, BeginDriveEffect, DriveTypes DEF BeginDrive, LifecycleTypes
<1>3. CASE BeforeGate(d) \/ BehindGate(d) \/ NothingLeft(d)
  <2>1. drive[d].st.text \in 0..MaxDrives
    BY <1>1 DEF LifecycleTypes, DriveStates, Checkpoints
  <2>2. published' \subseteq 0..MaxDrives /\ UNCHANGED <<row, live, driveRest>>
    <3>1. published' = published \/ published' = published \union {drive[d].st.text}
      BY <1>1, <1>3, ComputesEffect
    <3>2. UNCHANGED <<row, live, driveRest>>
      BY <1>1, <1>3, ComputesEffect
    <3>3. published \subseteq 0..MaxDrives
      BY <1>1 DEF LifecycleTypes
    <3> QED
      BY <2>1, <3>1, <3>2, <3>3
  <2>3. aged' = aged
    BY <1>3 DEF BeforeGate, BehindGate, NothingLeft
  <2>4. /\ drive' \in [Drives -> DriveStates]
        /\ \A e \in Drives : e # d => drive'[e] = drive[e]
        /\ drive[d].at = "driving" /\ drive'[d].at = "read" /\ drive'[d].op = "checkpoint"
        /\ drive'[d].resume = drive[d].resume /\ drive'[d].copy = drive[d].copy
    BY <1>1, <1>3, ComputesEffect
  <2> QED
    BY <2>2, <2>3, <2>4, DriveTypes
<1>4. CASE Raise(d)
  <2>1. UNCHANGED <<row, live, aged, driveRest, published>> /\ published \subseteq 0..MaxDrives
    BY <1>1, <1>4 DEF Raise, LifecycleTypes
  <2>2. /\ drive' \in [Drives -> DriveStates]
        /\ \A e \in Drives : e # d => drive'[e] = drive[e]
        /\ drive[d].at # "unused"
        /\ drive'[d].resume = drive[d].resume /\ drive'[d].copy = drive[d].copy
        /\ drive'[d].at = "read" /\ drive'[d].op = "fail"
    BY <1>1, <1>4, RaiseEffect
  <2> QED
    BY <2>1, <2>2, DriveTypes
<1>5. CASE ReadRow(d)
  BY <1>5, ReadRowTypes
<1>6. CASE WriteRow(d)
  BY <1>6, WriteRowTypes
<1> QED
  BY <1>2, <1>3, <1>4, <1>5, <1>6 DEF DriveStep

(* A step of a request keeps the types.                                     *)
LEMMA RequestStepTypes ==
    ASSUME TypeInv, NEW r \in Requests, Arrive(r) \/ RequestStep(r)
    PROVE  TypeInv'
<1>1. /\ LifecycleTypes /\ Resumptions /\ BlankRow.resumed = 0 /\ row \in Rows
      /\ row.cp.text \in 0..MaxDrives
  BY RowFields DEF TypeInv, LifecycleTypes, BlankRow
<1>2. CASE Arrive(r)
  <2>1. /\ request' \in [Requests -> RequestStates]
        /\ \A q \in Requests : q # r => request'[q] = request[q]
        /\ request'[r].at = "checking" /\ request'[r].copy = row
        /\ viewed' = IF request'[r].kind = "approve" /\ row.state = "awaiting_approval"
                     THEN viewed \union {row.cp.text} ELSE viewed
        /\ UNCHANGED <<sweep, published, row, drive, submitted, live, aged, approved, overlapped>>
    BY <1>1, <1>2, ArriveEffect
  <2>2. viewed' \subseteq 0..MaxDrives
    BY <1>1, <2>1 DEF LifecycleTypes
  <2>3. LifecycleTypes'
    BY <1>1, <2>1, <2>2 DEF LifecycleTypes
  <2> QED
    BY <1>1, <2>1, <2>3, RequestTypes
<1>3. CASE CheckResume(r) \/ CeilingRefuses(r) \/ CheckDecision(r)
  <2>1. /\ request' \in [Requests -> RequestStates]
        /\ \A q \in Requests : q # r => request'[q] = request[q]
        /\ request'[r].kind = request[r].kind /\ request'[r].copy = BlankRow
        /\ \/ request'[r].at \in {"submitting", "refused"}
           \/ request'[r].at = "reading" /\ request[r].kind \in {"approve", "reject"}
        /\ UNCHANGED <<sweep, published, row, drive, submitted, live, aged, approved, viewed,
                       overlapped>>
    BY <1>1, <1>3, CheckEffect
  <2>2. LifecycleTypes'
    BY <1>1, <2>1 DEF LifecycleTypes
  <2> QED
    BY <1>1, <2>1, <2>2, RequestTypes
<1>4. CASE ReadDecision(r)
  <2>1. /\ request' \in [Requests -> RequestStates]
        /\ \A q \in Requests : q # r => request'[q] = request[q]
        /\ request'[r].kind = request[r].kind /\ request[r].at = "reading"
        /\ request'[r].copy.resumed \in {0, row.resumed}
    BY <1>1, <1>4, ReadDecisionEffect
  <2>2. UNCHANGED <<sweep, published, row, drive, submitted, live, aged, approved, viewed, overlapped>>
    BY <1>4 DEF ReadDecision, requestRest
  <2>3. LifecycleTypes'
    BY <1>1, <2>1, <2>2 DEF LifecycleTypes
  <2> QED
    BY <2>1, <2>2, <2>3, RequestTypes
<1>5. CASE WriteDecision(r)
  <2>1. /\ request' \in [Requests -> RequestStates]
        /\ \A q \in Requests : q # r => request'[q] = request[q]
        /\ request'[r].kind = request[r].kind /\ request'[r].copy = BlankRow
        /\ request'[r].at \in {"submitting", "answered"} /\ request[r].at = "writing"
        /\ row' = request[r].copy /\ row' \in Rows /\ aged' = FALSE
        /\ approved' = IF request[r].kind = "approve"
                       THEN approved \union {[stage |-> request[r].copy.cp.stage,
                                              text |-> request[r].copy.cp.text]}
                       ELSE approved
        /\ UNCHANGED <<sweep, published, drive, submitted, live, viewed, overlapped>>
    BY <1>1, <1>5, WriteDecisionEffect
  <2>2. request[r].copy.cp.stage \in Stages /\ request[r].copy.cp.text \in 0..MaxDrives
    BY <2>1, RowFields
  <2>3. approved' \subseteq [stage : Stages, text : 0..MaxDrives]
    BY <1>1, <2>1, <2>2 DEF LifecycleTypes
  <2>4. LifecycleTypes'
    BY <1>1, <2>1, <2>3 DEF LifecycleTypes
  <2> QED
    BY <1>1, <2>1, <2>4, RequestTypes
<1>6. CASE SubmitResume(r)
  <2>1. /\ drive' \in [Drives -> DriveStates]
        /\ submitted' = submitted + 1 /\ submitted' \in 1..MaxDrives
        /\ \A e \in Drives : e # submitted' => drive'[e] = drive[e]
        /\ drive'[submitted'].at = "begin" /\ drive'[submitted'].resume
        /\ drive'[submitted'].copy = BlankRow
        /\ live' \subseteq Procs /\ overlapped' \in BOOLEAN
        /\ request' \in [Requests -> RequestStates]
        /\ \A q \in Requests : q # r => request'[q] = request[q]
        /\ request'[r].at = "answered" /\ request'[r].copy = BlankRow
        /\ UNCHANGED <<row, aged, approved, viewed, sweep, published>>
    BY <1>1, <1>6, SubmitEffect
  <2>2. LifecycleTypes'
    BY <1>1, <2>1 DEF LifecycleTypes
  <2>3. submitted \in Nat /\ submitted >= 1 /\ submitted' # 1
    BY <1>1, <2>1, Bounds DEF LifecycleTypes
  <2>4. \A e \in 2..submitted : e \in Drives /\ drive'[e] = drive[e]
    BY <2>1, <2>3, Bounds DEF Drives
  <2>5. Cardinality(Marked) <= Cardinality(Marked)'
    BY <1>1, <2>1, <2>2, <2>4, MarkedGrows
  <2>6. ~drive'[1].resume
    BY <1>1, <2>1, <2>3, Bounds DEF Resumptions
  <2>7. \A e \in Drives : e > submitted' => drive'[e].at = "unused"
    BY <1>1, <2>1, <2>3, Bounds DEF Resumptions, Drives
  <2>8. \A e \in Drives : drive'[e].at = "read" /\ drive'[e].op = "mark" => drive'[e].resume
    BY <1>1, <2>1 DEF Resumptions, ReadsMark
  <2>9. \A e \in Drives : drive'[e].copy.resumed \in {0, row.resumed, drive[e].copy.resumed}
    BY <1>1, <2>1
  <2>10. \A q \in Requests : request'[q].copy.resumed \in {0, row.resumed, request[q].copy.resumed}
    BY <1>1, <2>1
  <2>11. Resumptions'
    BY <1>1, <2>1, <2>2, <2>5, <2>6, <2>7, <2>8, <2>9, <2>10, CountsKept
  <2> QED
    BY <2>2, <2>11 DEF TypeInv
<1> QED
  BY <1>2, <1>3, <1>4, <1>5, <1>6 DEF RequestStep

(* The death of a process keeps the types.                                  *)
LEMMA DieTypes ==
    ASSUME TypeInv, NEW proc \in Procs, Die(proc)
    PROVE  TypeInv'
<1>1. LifecycleTypes /\ Resumptions /\ BlankRow.resumed = 0
  BY DEF TypeInv, BlankRow
<1>2. /\ drive' \in [Drives -> DriveStates] /\ request' \in [Requests -> RequestStates]
      /\ \A e \in Drives :
            \/ drive'[e] = drive[e]
            \/ /\ Running(e) /\ drive'[e].at = "dead" /\ ~drive'[e].resume
               /\ drive'[e].copy = BlankRow /\ drive'[e].st = NoCheckpoint
      /\ \A q \in Requests :
            \/ request'[q] = request[q]
            \/ request'[q].at = "dead" /\ request'[q].copy = BlankRow
      /\ live' \subseteq Procs /\ sweep' \in BOOLEAN
      /\ UNCHANGED <<row, submitted, aged, approved, viewed, published, overlapped>>
  BY <1>1, DieEffect
<1>3. \A q \in Requests : request'[q].at \in {"reading", "writing"}
                              => request'[q].kind \in {"approve", "reject"}
  BY <1>1, <1>2 DEF LifecycleTypes
<1>4. LifecycleTypes'
  BY <1>1, <1>2, <1>3 DEF LifecycleTypes
<1>5. submitted \in Nat /\ \A e \in 2..submitted : e \in Drives
  BY <1>1, Bounds DEF LifecycleTypes, Drives
<1>6. \A e \in 2..submitted : \/ drive'[e] = drive[e]
                              \/ drive'[e].at # "begin" /\ (drive'[e].at # "read" \/ drive'[e].op # "mark")
  BY <1>2, <1>5
<1>7. Cardinality(Marked) <= Cardinality(Marked)'
  BY <1>1, <1>2, <1>4, <1>6, MarkedGrows
<1>8. ~drive'[1].resume
  BY <1>1, <1>2, Bounds DEF Resumptions
<1>9. \A e \in Drives : e > submitted' => drive'[e].at = "unused"
  BY <1>1, <1>2 DEF Resumptions, Running
<1>10. \A e \in Drives : drive'[e].at = "read" /\ drive'[e].op = "mark" => drive'[e].resume
  BY <1>1, <1>2 DEF Resumptions, ReadsMark
<1>11. \A e \in Drives : drive'[e].copy.resumed \in {0, row.resumed, drive[e].copy.resumed}
  BY <1>1, <1>2
<1>12. \A q \in Requests : request'[q].copy.resumed \in {0, row.resumed, request[q].copy.resumed}
  BY <1>1, <1>2
<1>13. Resumptions'
  BY <1>1, <1>2, <1>4, <1>7, <1>8, <1>9, <1>10, <1>11, <1>12, CountsKept
<1> QED
  BY <1>4, <1>13 DEF TypeInv

(* Every step keeps the types and the counts.                               *)
LEMMA TypeStep ==
    ASSUME TypeInv, [Next]_vars
    PROVE  TypeInv'
<1>1. CASE \E d \in Drives : DriveStep(d)
  BY <1>1, DriveStepTypes
<1>2. CASE \E r \in Requests : Arrive(r) \/ RequestStep(r)
  BY <1>2, RequestStepTypes
<1>3. CASE \E proc \in Procs : Die(proc)
  BY <1>3, DieTypes
<1>4. CASE Age \/ FindStranded
  <2>1. /\ UNCHANGED <<row, drive, submitted, live, request, approved, viewed, published, overlapped>>
        /\ sweep' \in BOOLEAN /\ aged' \in BOOLEAN
    BY <1>4 DEF Age, FindStranded, TypeInv, LifecycleTypes
  <2>2. LifecycleTypes'
    BY <2>1 DEF TypeInv, LifecycleTypes
  <2> QED
    BY <2>1, <2>2, RequestTypes
<1>5. CASE CloseStranded
  <2>1. LifecycleTypes
    BY DEF TypeInv
  <2>2. LifecycleTypes'
    BY <1>5, <2>1, CloseStrandedEffect DEF LifecycleTypes
  <2> QED
    BY <1>5, <2>1, <2>2, CloseStrandedEffect, RequestTypes
<1>6. CASE UNCHANGED vars
  BY <1>6 DEF vars, TypeInv, LifecycleTypes, Resumptions, ReadsMark, Marked
<1> QED
  BY <1>1, <1>2, <1>3, <1>4, <1>5, <1>6 DEF Next

(* What the types of the program say follows from them.                     *)
LEMMA TypesHold ==
    ASSUME TypeInv
    PROVE  TypeOK
<1>1. LifecycleTypes /\ Resumptions
  BY DEF TypeInv
<1>2. row.resumed < submitted
  <2>1. Cardinality(Marked) \in Nat /\ Cardinality(Marked) <= submitted - 1
    BY <1>1, MarkedCount
  <2>2. row.resumed <= Cardinality(Marked) /\ row.resumed \in Nat /\ submitted \in Nat
    BY <1>1, Bounds DEF Resumptions, LifecycleTypes, Rows
  <2> QED
    BY <2>1, <2>2
<1>3. 0..MaxDrives = Drives \union {0}
  BY Bounds DEF Drives
<1> QED
  BY <1>1, <1>2, <1>3 DEF LifecycleTypes, TypeOK

(* A run is never counted as restored more often than drives were submitted after the
   first, and the row, the drives and the requests keep their types.        *)
THEOREM LifecycleTypeCorrect == Spec => []TypeOK
<1>1. Init => TypeInv
  BY TypeInit
<1>2. TypeInv /\ [Next]_vars => TypeInv'
  BY TypeStep
<1>3. TypeInv => TypeOK
  BY TypesHold
<1> QED
  BY <1>1, <1>2, <1>3, PTL DEF Spec

-----------------------------------------------------------------------------
(* What is published was approved, as long as no draft was.                 *)

(* Approvals are never withdrawn, and what they cover stays covered.        *)
LEMMA CoveredStays ==
    ASSUME approved \subseteq approved', NEW cp, Covered(cp, ApprovedTexts)
    PROVE  Covered(cp, ApprovedTexts')
BY DEF Covered, ApprovedTexts

(* A checkpoint without an approver is covered.                             *)
LEMMA BlankIsCovered == \A texts : Covered(NoCheckpoint, texts)
BY DEF NoCheckpoint, Covered

(* One drive begins; the others are not submitted.                          *)
LEMMA InitDrives ==
    ASSUME Init
    PROVE  \A d \in Drives : /\ drive[d].st = NoCheckpoint
                             /\ drive[d].at = IF d = 1 THEN "begin" ELSE "unused"
<1>1. PICK proc \in Starters :
         drive = [d \in Drives |-> IF d = 1 THEN [Unused EXCEPT !.proc = proc, !.at = "begin"]
                                   ELSE Unused]
  BY DEF Init
<1> DEFINE first == [Unused EXCEPT !.proc = proc, !.at = "begin"]
<1>2. /\ first.st = NoCheckpoint /\ first.at = "begin"
      /\ Unused.st = NoCheckpoint /\ Unused.at = "unused"
  BY DEF Unused
<1>3. drive = [d \in Drives |-> IF d = 1 THEN first ELSE Unused]
  BY <1>1
<1> HIDE DEF first
<1>4. ASSUME NEW d \in Drives PROVE drive[d] = IF d = 1 THEN first ELSE Unused
  BY <1>3
<1> QED
  BY <1>2, <1>4

(* The run as it starts is covered.                                         *)
LEMMA CoveredInit == Init => CoveredInv
<1> SUFFICES ASSUME Init PROVE CoveredInv
  OBVIOUS
<1>1. TypeInv /\ row = BlankRow /\ request = [r \in Requests |-> NoRequest] /\ published = {}
  BY TypeInit DEF Init
<1>2. \A d \in Drives : drive[d].st = NoCheckpoint /\ drive[d].at # "write"
  BY InitDrives
<1>3. \A r \in Requests : request[r].at = "unused"
  BY <1>1 DEF NoRequest
<1>4. row.cp = NoCheckpoint
  BY <1>1 DEF BlankRow
<1> QED
  BY <1>1, <1>2, <1>3, <1>4, BlankIsCovered DEF CoveredInv, ApprovalsAreStored

(* A drive publishes, and writes, nothing but what is covered.              *)
LEMMA DriveStepCovered ==
    ASSUME LifecycleTypes, Resumptions, CoveredInv, SeenDrafts, NEW d \in Drives, DriveStep(d)
    PROVE  /\ Covered(row'.cp, ApprovedTexts) /\ Covered(drive'[d].st, ApprovedTexts)
           /\ drive'[d].at = "write" => Covered(drive'[d].copy.cp, ApprovedTexts)
           /\ published' \subseteq ApprovedTexts
           /\ \A e \in Drives : e # d => drive'[e] = drive[e]
           /\ UNCHANGED <<request, approved>>
<1> DEFINE texts == ApprovedTexts
<1>1. /\ Covered(row.cp, texts) /\ Covered(drive[d].st, texts) /\ published \subseteq texts
      /\ drive[d].at = "write" => Covered(drive[d].copy.cp, texts)
  BY DEF CoveredInv
<1> HIDE DEF texts
<1>2. /\ Covered(row'.cp, texts) /\ Covered(drive'[d].st, texts)
      /\ drive'[d].at = "write" => Covered(drive'[d].copy.cp, texts)
      /\ published' \subseteq texts
      /\ \A e \in Drives : e # d => drive'[e] = drive[e]
      /\ UNCHANGED driveRest
  <2>1. CASE BeginDrive(d)
    BY <1>1, <2>1, BeginDriveEffect DEF BeginDrive
  <2>2. CASE BeforeGate(d) \/ BehindGate(d) \/ NothingLeft(d)
    <3>1. /\ drive'[d].at = "read" /\ drive'[d].st.approver = drive[d].st.approver
          /\ Gated(drive[d].st) => Gated(drive'[d].st) /\ drive'[d].st.text = drive[d].st.text
          /\ \A e \in Drives : e # d => drive'[e] = drive[e]
          /\ published' = published
             \/ /\ published' = published \union {drive[d].st.text}
                /\ Gated(drive[d].st) /\ drive[d].st.approver = "user"
          /\ UNCHANGED <<driveRest, row>>
      BY <2>2, ComputesEffect
    <3>2. Covered(drive'[d].st, texts) /\ published' \subseteq texts
      BY <1>1, <3>1 DEF Covered
    <3> QED
      BY <1>1, <3>1, <3>2
  <2>3. CASE Raise(d)
    BY <1>1, <2>3, RaiseEffect DEF Raise
  <2>4. CASE ReadRow(d)
    <3>1. drive[d].op = "mark" => row.resumed < MaxDrives
      BY <2>4, RoomToCount DEF ReadsMark, ReadRow
    <3>2. Written(d, row) \in Rows
          /\ Written(d, row).cp = IF drive[d].op = "checkpoint" THEN drive[d].st ELSE row.cp
      BY <3>1, WrittenEffect
    <3>3. /\ drive'[d].copy = Written(d, row) /\ drive'[d].st = drive[d].st
          /\ \A e \in Drives : e # d => drive'[e] = drive[e]
      BY <2>4, <3>2, ReadRowEffect
    <3>4. UNCHANGED <<driveRest, row, published>>
      BY <2>4 DEF ReadRow
    <3> QED
      BY <1>1, <3>2, <3>3, <3>4
  <2>5. CASE WriteRow(d)
    <3>1. /\ drive[d].at = "write" /\ row' = drive[d].copy /\ drive'[d].at # "write"
          /\ drive'[d].st \in {drive[d].st, NoCheckpoint}
          /\ \A e \in Drives : e # d => drive'[e] = drive[e]
      BY <2>5, WriteRowEffect
    <3>2. UNCHANGED <<driveRest, published>>
      BY <2>5 DEF WriteRow
    <3> QED
      BY <1>1, <3>1, <3>2, BlankIsCovered
  <2> QED
    BY <2>1, <2>2, <2>3, <2>4, <2>5 DEF DriveStep
<1> QED
  BY <1>2 DEF texts, driveRest

(* A drive, whatever the approvals, touches neither them nor the requests.  *)
LEMMA DriveStepLeaves ==
    ASSUME NEW d \in Drives, DriveStep(d)
    PROVE  UNCHANGED <<request, approved>>
BY DEF DriveStep, BeginDrive, BeforeGate, BehindGate, NothingLeft, Raise, ReadRow, WriteRow, driveRest

(* A request is refused, or writes what is stored with its decision on it; an approval
   is an approval of what it writes.                                        *)
LEMMA RequestStepCovered ==
    ASSUME LifecycleTypes, CoveredInv, NEW r \in Requests, Arrive(r) \/ RequestStep(r)
    PROVE  /\ ApprovalsAreStored' /\ approved \subseteq approved' /\ published' = published
           /\ \A e \in Drives : drive'[e] = drive[e] \/ (drive'[e].st = NoCheckpoint /\ drive'[e].at # "write")
           /\ SeenDrafts' =>
                 /\ Covered(row'.cp, ApprovedTexts')
                 /\ \A q \in Requests : request'[q].at = "writing" /\ request'[q].kind = "reject"
                                            => Covered(request'[q].copy.cp, ApprovedTexts')
<1>1. CASE Arrive(r) \/ CheckResume(r) \/ CeilingRefuses(r) \/ CheckDecision(r)
  <2>1. /\ \A q \in Requests : q # r => request'[q] = request[q]
        /\ request'[r].at # "writing"
        /\ UNCHANGED <<row, drive, approved, published>>
    BY <1>1, ArriveEffect, CheckEffect
  <2>2. ApprovalsAreStored'
    BY <2>1 DEF CoveredInv, ApprovalsAreStored
  <2>3. SeenDrafts' = SeenDrafts /\ ApprovedTexts' = ApprovedTexts
    BY <2>1 DEF SeenDrafts, ApprovedTexts
  <2> QED
    BY <2>1, <2>2, <2>3 DEF CoveredInv
<1>2. CASE ReadDecision(r)
  <2>1. /\ \A q \in Requests : q # r => request'[q] = request[q]
        /\ request'[r].kind = request[r].kind
        /\ request'[r].at = "writing" =>
              /\ request'[r].copy.cp.stage = row.cp.stage
              /\ request[r].kind = "reject" => request'[r].copy.cp = row.cp
              /\ request[r].kind = "approve" => row.cp.stage # "none"
    BY <1>2, ReadDecisionEffect
  <2>2. UNCHANGED <<row, drive, approved, published>>
    BY <1>2 DEF ReadDecision, requestRest
  <2>3. ApprovalsAreStored'
    BY <2>1 DEF CoveredInv, ApprovalsAreStored
  <2>4. SeenDrafts' = SeenDrafts /\ ApprovedTexts' = ApprovedTexts
    BY <2>2 DEF SeenDrafts, ApprovedTexts
  <2> QED
    BY <2>1, <2>2, <2>3, <2>4 DEF CoveredInv
<1>3. CASE WriteDecision(r)
  <2>1. /\ \A q \in Requests : q # r => request'[q] = request[q]
        /\ request'[r].at # "writing" /\ request[r].at = "writing"
        /\ row' = request[r].copy
        /\ approved' = IF request[r].kind = "approve"
                       THEN approved \union {[stage |-> request[r].copy.cp.stage,
                                              text |-> request[r].copy.cp.text]}
                       ELSE approved
        /\ UNCHANGED <<drive, published>>
    BY <1>3, WriteDecisionEffect
  <2>2. approved \subseteq approved'
    BY <2>1
  <2>3. ApprovalsAreStored'
    BY <2>1 DEF CoveredInv, ApprovalsAreStored
  <2>4. ASSUME SeenDrafts'
        PROVE  /\ Covered(row'.cp, ApprovedTexts')
               /\ \A q \in Requests : request'[q].at = "writing" /\ request'[q].kind = "reject"
                                          => Covered(request'[q].copy.cp, ApprovedTexts')
    <3>1. SeenDrafts
      BY <2>2, <2>4 DEF SeenDrafts
    <3>2. ASSUME NEW q \in Requests, request'[q].at = "writing", request'[q].kind = "reject"
          PROVE  Covered(request'[q].copy.cp, ApprovedTexts')
      BY <2>1, <2>2, <3>1, <3>2, CoveredStays DEF CoveredInv
    <3>3. CASE request[r].kind = "approve"
      <4> DEFINE a == [stage |-> request[r].copy.cp.stage, text |-> request[r].copy.cp.text]
      <4>1. a \in approved' /\ a.stage = row'.cp.stage /\ a.text = row'.cp.text
        BY <2>1, <3>3
      <4>2. row'.cp.stage \in Stages /\ row'.cp.stage # "none"
        BY <2>1, <3>3, WriteDecisionEffect, <1>3, RowFields DEF CoveredInv, ApprovalsAreStored
      <4> HIDE DEF a
      <4>3. row'.cp.stage # "early" /\ row'.cp.text \in ApprovedTexts'
        BY <2>4, <4>1 DEF SeenDrafts, ApprovedTexts
      <4> QED
        BY <3>2, <4>2, <4>3 DEF Covered, Gated, Stages
    <3>4. CASE request[r].kind = "reject"
      BY <2>1, <2>2, <3>1, <3>2, <3>4, CoveredStays DEF CoveredInv
    <3> QED
      BY <2>1, <3>3, <3>4 DEF LifecycleTypes
  <2> QED
    BY <2>1, <2>2, <2>3, <2>4
<1>4. CASE SubmitResume(r)
  <2>1. /\ \A q \in Requests : q # r => request'[q] = request[q]
        /\ request'[r].at = "answered"
        /\ \A e \in Drives : drive'[e] = drive[e]
                                \/ (drive'[e].st = NoCheckpoint /\ drive'[e].at = "begin")
        /\ UNCHANGED <<row, approved, published>>
    BY <1>4, SubmitEffect
  <2>2. ApprovalsAreStored'
    BY <2>1 DEF CoveredInv, ApprovalsAreStored
  <2>3. SeenDrafts' = SeenDrafts /\ ApprovedTexts' = ApprovedTexts
    BY <2>1 DEF SeenDrafts, ApprovedTexts
  <2> QED
    BY <2>1, <2>2, <2>3 DEF CoveredInv
<1> QED
  BY <1>1, <1>2, <1>3, <1>4 DEF RequestStep

(* Every step keeps what is covered.                                        *)
LEMMA CoveredStep ==
    ASSUME TypeInv, CoveredInv, [Next]_vars
    PROVE  CoveredInv'
<1>1. LifecycleTypes /\ Resumptions
  BY DEF TypeInv
<1>2. ASSUME NEW d \in Drives, DriveStep(d) PROVE CoveredInv'
  <2>1. UNCHANGED <<request, approved>>
    BY <1>2, DriveStepLeaves
  <2>2. /\ ApprovalsAreStored' /\ SeenDrafts' = SeenDrafts /\ ApprovedTexts' = ApprovedTexts
    BY <2>1 DEF CoveredInv, ApprovalsAreStored, SeenDrafts, ApprovedTexts
  <2>3. ASSUME SeenDrafts
        PROVE  /\ Covered(row'.cp, ApprovedTexts) /\ published' \subseteq ApprovedTexts
               /\ \A e \in Drives :
                     /\ Covered(drive'[e].st, ApprovedTexts)
                     /\ drive'[e].at = "write" => Covered(drive'[e].copy.cp, ApprovedTexts)
    BY <1>1, <1>2, <2>3, DriveStepCovered DEF CoveredInv
  <2> QED
    BY <2>1, <2>2, <2>3 DEF CoveredInv
<1>3. ASSUME NEW r \in Requests, Arrive(r) \/ RequestStep(r) PROVE CoveredInv'
  <2>1. /\ ApprovalsAreStored' /\ approved \subseteq approved' /\ published' = published
        /\ \A e \in Drives : drive'[e] = drive[e] \/ (drive'[e].st = NoCheckpoint /\ drive'[e].at # "write")
        /\ SeenDrafts' =>
              /\ Covered(row'.cp, ApprovedTexts')
              /\ \A q \in Requests : request'[q].at = "writing" /\ request'[q].kind = "reject"
                                         => Covered(request'[q].copy.cp, ApprovedTexts')
    BY <1>1, <1>3, RequestStepCovered
  <2>2. ASSUME SeenDrafts'
        PROVE  /\ published' \subseteq ApprovedTexts'
               /\ \A e \in Drives :
                     /\ Covered(drive'[e].st, ApprovedTexts')
                     /\ drive'[e].at = "write" => Covered(drive'[e].copy.cp, ApprovedTexts')
    <3>1. SeenDrafts
      BY <2>1, <2>2 DEF SeenDrafts
    <3>2. published' \subseteq ApprovedTexts'
      BY <2>1, <3>1 DEF CoveredInv, ApprovedTexts
    <3>3. ASSUME NEW e \in Drives
          PROVE  /\ Covered(drive'[e].st, ApprovedTexts')
                 /\ drive'[e].at = "write" => Covered(drive'[e].copy.cp, ApprovedTexts')
      BY <2>1, <3>1, CoveredStays, BlankIsCovered DEF CoveredInv
    <3> QED
      BY <3>2, <3>3
  <2> QED
    BY <2>1, <2>2 DEF CoveredInv
<1>4. ASSUME NEW proc \in Procs, Die(proc) PROVE CoveredInv'
  <2>1. /\ \A e \in Drives : drive'[e] = drive[e]
                                \/ (drive'[e].st = NoCheckpoint /\ drive'[e].at # "write")
        /\ \A q \in Requests : request'[q] = request[q] \/ request'[q].at = "dead"
        /\ UNCHANGED <<row, approved, published>>
    BY <1>1, <1>4, DieEffect
  <2>2. ApprovalsAreStored' /\ SeenDrafts' = SeenDrafts /\ ApprovedTexts' = ApprovedTexts
    BY <2>1 DEF CoveredInv, ApprovalsAreStored, SeenDrafts, ApprovedTexts
  <2>3. ASSUME SeenDrafts, NEW e \in Drives
        PROVE  /\ Covered(drive'[e].st, ApprovedTexts)
               /\ drive'[e].at = "write" => Covered(drive'[e].copy.cp, ApprovedTexts)
    BY <2>1, <2>3, BlankIsCovered DEF CoveredInv
  <2>4. ASSUME SeenDrafts, NEW q \in Requests, request'[q].at = "writing", request'[q].kind = "reject"
        PROVE  Covered(request'[q].copy.cp, ApprovedTexts)
    BY <2>1, <2>4 DEF CoveredInv
  <2> QED
    BY <2>1, <2>2, <2>3, <2>4 DEF CoveredInv
<1>5. CASE Age \/ FindStranded \/ CloseStranded \/ UNCHANGED vars
  <2>1. row'.cp = row.cp /\ UNCHANGED <<drive, request, approved, published>>
    <3>1. CASE CloseStranded
      BY <1>1, <3>1, CloseStrandedEffect
    <3>2. CASE Age \/ FindStranded \/ UNCHANGED vars
      BY <3>2 DEF Age, FindStranded, vars
    <3> QED
      BY <1>5, <3>1, <3>2
  <2>2. ApprovalsAreStored' /\ SeenDrafts' = SeenDrafts /\ ApprovedTexts' = ApprovedTexts
    BY <2>1 DEF CoveredInv, ApprovalsAreStored, SeenDrafts, ApprovedTexts
  <2> QED
    BY <2>1, <2>2 DEF CoveredInv
<1> QED
  BY <1>2, <1>3, <1>4, <1>5 DEF Next

-----------------------------------------------------------------------------
(* One drive at a time: nothing is published but what an approver looked at. *)

(* The run as it starts is serial.                                          *)
LEMMA SerialInit == Init => SerialInv
<1> SUFFICES ASSUME Init PROVE Serial
  BY DEF SerialInv
<1>1. \A d \in Drives : /\ drive[d].st = NoCheckpoint
                        /\ drive[d].at = IF d = 1 THEN "begin" ELSE "unused"
  BY InitDrives
<1>2. /\ row = BlankRow /\ request = [r \in Requests |-> NoRequest]
      /\ approved = {} /\ viewed = {} /\ published = {}
  BY DEF Init
<1>3. NoCheckpoint.approver = "none" /\ NoCheckpoint.stage = "none"
      /\ BlankRow.cp = NoCheckpoint /\ BlankRow.state = "queued"
      /\ NoRequest.kind = "none" /\ NoRequest.at = "unused"
  BY DEF NoCheckpoint, BlankRow, NoRequest
<1>4. OneDrive
  BY <1>1 DEF OneDrive, Running
<1>5. RowIsSerial
  BY <1>2, <1>3 DEF RowIsSerial, Viewed
<1>6. ASSUME NEW d \in Drives PROVE DriveIsSerial(d)
  BY <1>1, <1>2, <1>3 DEF DriveIsSerial, HasState, Viewed
<1>7. ASSUME NEW r \in Requests PROVE RequestIsSerial(r)
  BY <1>2, <1>3 DEF RequestIsSerial, Deciding
<1>8. HistoryIsSerial
  BY <1>2 DEF HistoryIsSerial
<1> QED
  BY <1>4, <1>5, <1>6, <1>7, <1>8 DEF Serial

(* A drive that is not running only remembers.                              *)
LEMMA IdleIsSerial ==
    ASSUME NEW e \in Drives, DriveIsSerial(e), drive'[e] = drive[e], viewed \subseteq viewed',
           drive[e].at \notin {"begin", "driving", "read", "write"}
    PROVE  DriveIsSerial(e)'
BY DEF DriveIsSerial, HasState, Viewed

(* So does one that is over, and one that was just submitted.               *)
LEMMA BlankIsSerial ==
    ASSUME NEW e \in Drives, drive'[e].st = NoCheckpoint,
           drive'[e].at \in {"ended", "dead"} \/ (drive'[e].at = "begin" /\ drive'[e].resume)
    PROVE  DriveIsSerial(e)'
BY DEF DriveIsSerial, HasState, Viewed, NoCheckpoint

(* Whoever does not run is in none of the positions of a running drive.     *)
LEMMA NotRunning ==
    ASSUME NEW e \in Drives
    PROVE  ~Running(e) => drive[e].at \notin {"begin", "driving", "read", "write"}
BY DEF Running

(* A drive whose step leaves the row and the approver's record alone keeps the run
   serial, if it stays serial itself.                                       *)
LEMMA DriveSerial ==
    ASSUME LifecycleTypes, Serial, NEW d \in Drives, Running(d),
           \A e \in Drives : e # d => drive'[e] = drive[e],
           DriveIsSerial(d)', published' \subseteq viewed,
           UNCHANGED <<row, driveRest>>
    PROVE  Serial'
<1>1. UNCHANGED <<row, request, approved, viewed>>
  BY DEF driveRest
<1>2. \A e \in Drives : e # d => ~Running(e)
  BY DEF Serial, OneDrive
<1>3. OneDrive'
  BY <1>2 DEF OneDrive, Running
<1>4. RowIsSerial'
  BY <1>1 DEF Serial, RowIsSerial, Viewed
<1>5. ASSUME NEW e \in Drives PROVE DriveIsSerial(e)'
  <2>1. CASE e = d
    BY <2>1
  <2>2. CASE e # d
    BY <1>1, <1>2, <2>2, IdleIsSerial, NotRunning DEF Serial
  <2> QED
    BY <2>1, <2>2
<1>6. ASSUME NEW r \in Requests PROVE RequestIsSerial(r)'
  BY <1>1 DEF Serial, RequestIsSerial, Deciding
<1>7. HistoryIsSerial'
  BY <1>1 DEF Serial, HistoryIsSerial
<1> QED
  BY <1>3, <1>4, <1>5, <1>6, <1>7 DEF Serial

(* A drive that begins restores what is stored.                             *)
LEMMA BeginDriveSerial ==
    ASSUME LifecycleTypes, Serial, NEW d \in Drives, BeginDrive(d)
    PROVE  Serial'
<1>1. /\ \A e \in Drives : e # d => drive'[e] = drive[e]
      /\ drive[d].at = "begin"
      /\ \/ /\ drive'[d].at = "read" /\ drive'[d].op = "mark" /\ drive'[d].st = row.cp
         \/ /\ ~(drive[d].resume /\ row.cp.stage # "none")
            /\ drive'[d].at = "driving" /\ drive'[d].st = drive[d].st
  BY BeginDriveEffect
<1>2. UNCHANGED <<row, driveRest, published>> /\ viewed' = viewed
  BY DEF BeginDrive, driveRest
<1>3. DriveIsSerial(d) /\ RowIsSerial /\ published \subseteq viewed
  BY DEF Serial, HistoryIsSerial
<1>4. DriveIsSerial(d)'
  <2>1. CASE drive'[d].at = "read" /\ drive'[d].op = "mark" /\ drive'[d].st = row.cp
    BY <1>2, <1>3, <2>1 DEF DriveIsSerial, RowIsSerial, HasState, Viewed, Same
  <2>2. CASE ~(drive[d].resume /\ row.cp.stage # "none") /\ drive'[d].at = "driving"
             /\ drive'[d].st = drive[d].st
    <3>1. ~Gated(row.cp)
      BY <1>1, <1>3, <2>2 DEF DriveIsSerial, Gated
    <3> QED
      BY <1>2, <1>3, <2>2, <3>1 DEF DriveIsSerial, HasState, Viewed
  <2> QED
    BY <1>1, <2>1, <2>2
<1>5. Running(d)
  BY <1>1 DEF Running
<1> QED
  BY <1>1, <1>2, <1>3, <1>4, <1>5, DriveSerial

(* A drive publishes what its approver looked at, and brings back the text it was
   restored with.                                                           *)
LEMMA ComputesSerial ==
    ASSUME LifecycleTypes, Serial, NEW d \in Drives, BeforeGate(d) \/ BehindGate(d) \/ NothingLeft(d)
    PROVE  Serial'
<1>1. /\ \A e \in Drives : e # d => drive'[e] = drive[e]
      /\ drive[d].at = "driving" /\ drive'[d].at = "read" /\ drive'[d].op = "checkpoint"
      /\ drive'[d].parks => Gated(drive'[d].st)
      /\ drive'[d].st.approver = drive[d].st.approver
      /\ Gated(drive[d].st) => Gated(drive'[d].st) /\ drive'[d].st.text = drive[d].st.text
      /\ published' = published
         \/ /\ published' = published \union {drive[d].st.text}
            /\ Gated(drive[d].st) /\ drive[d].st.approver = "user"
      /\ UNCHANGED <<driveRest, row>>
  BY ComputesEffect
<1>2. viewed' = viewed
  BY <1>1 DEF driveRest
<1>3. DriveIsSerial(d) /\ HistoryIsSerial
  BY DEF Serial
<1>4. Gated(row.cp) => Same(drive[d].st, row.cp)
  BY <1>1, <1>3 DEF DriveIsSerial, HasState
<1>5. drive[d].st.approver = "user" => drive[d].st.text \in viewed /\ Gated(row.cp)
  BY <1>3 DEF DriveIsSerial, HistoryIsSerial, Viewed
<1>6. Gated(row.cp) => Same(drive'[d].st, row.cp)
  BY <1>1, <1>4 DEF Same
<1>7. Viewed(drive'[d].st, viewed)
  BY <1>1, <1>4, <1>5 DEF Same, Viewed
<1>8. DriveIsSerial(d)'
  BY <1>1, <1>2, <1>6, <1>7 DEF DriveIsSerial
<1>9. published' \subseteq viewed
  BY <1>1, <1>3, <1>5 DEF HistoryIsSerial
<1>10. Running(d)
  BY <1>1 DEF Running
<1> QED
  BY <1>1, <1>8, <1>9, <1>10, DriveSerial

(* A drive that raised writes no text.                                      *)
LEMMA RaiseSerial ==
    ASSUME LifecycleTypes, Serial, NEW d \in Drives, Raise(d)
    PROVE  Serial'
<1>1. /\ \A e \in Drives : e # d => drive'[e] = drive[e]
      /\ Running(d) /\ drive'[d].at = "read" /\ drive'[d].op = "fail" /\ drive'[d].st = drive[d].st
  BY RaiseEffect
<1>2. UNCHANGED <<row, driveRest, published>> /\ viewed' = viewed
  BY DEF Raise, driveRest
<1>3. DriveIsSerial(d) /\ published \subseteq viewed
  BY DEF Serial, HistoryIsSerial
<1>4. DriveIsSerial(d)'
  BY <1>1, <1>2, <1>3 DEF DriveIsSerial, HasState
<1> QED
  BY <1>1, <1>2, <1>3, <1>4, DriveSerial

(* What a drive is to write has the text that is stored.                    *)
LEMMA ReadRowSerial ==
    ASSUME LifecycleTypes, Resumptions, Serial, NEW d \in Drives, ReadRow(d)
    PROVE  Serial'
<1>1. drive[d].op = "mark" => row.resumed < MaxDrives
  BY RoomToCount DEF ReadsMark, ReadRow
<1>2. /\ Written(d, row) \in Rows
      /\ Written(d, row).cp = IF drive[d].op = "checkpoint" THEN drive[d].st ELSE row.cp
      /\ Written(d, row).state = "awaiting_approval" =>
            \/ drive[d].op = "park"
            \/ drive[d].op = "mark" /\ row.state = "awaiting_approval"
  BY <1>1, WrittenEffect
<1>3. /\ \A e \in Drives : e # d => drive'[e] = drive[e]
      /\ drive[d].at = "read" /\ drive'[d].at = "write"
      /\ drive'[d].copy = Written(d, row)
      /\ drive'[d].op = drive[d].op /\ drive'[d].st = drive[d].st
      /\ drive'[d].parks = drive[d].parks
  BY <1>2, ReadRowEffect
<1>4. UNCHANGED <<row, driveRest, published>> /\ viewed' = viewed
  BY DEF ReadRow, driveRest
<1>5. DriveIsSerial(d) /\ RowIsSerial /\ published \subseteq viewed
  BY DEF Serial, HistoryIsSerial
<1>6. drive'[d].copy.cp = IF drive[d].op = "checkpoint" THEN drive[d].st ELSE row.cp
  BY <1>2, <1>3
<1>7. drive'[d].copy.state = "awaiting_approval" => Gated(drive'[d].copy.cp)
  <2>1. CASE drive[d].op = "park"
    BY <1>3, <1>5, <1>6, <2>1 DEF DriveIsSerial
  <2>2. CASE drive[d].op = "mark" /\ row.state = "awaiting_approval"
    BY <1>3, <1>5, <1>6, <2>2 DEF RowIsSerial
  <2> QED
    BY <1>2, <1>3, <2>1, <2>2
<1>8. Gated(row.cp) => Same(drive'[d].copy.cp, row.cp)
  BY <1>3, <1>5, <1>6 DEF DriveIsSerial, HasState, Same
<1>9. Viewed(drive'[d].copy.cp, viewed)
  BY <1>5, <1>6 DEF DriveIsSerial, RowIsSerial
<1>10. HasState(d)' = HasState(d)
  BY <1>3 DEF HasState
<1>11. DriveIsSerial(d)'
  BY <1>3, <1>4, <1>5, <1>6, <1>7, <1>8, <1>9, <1>10 DEF DriveIsSerial
<1>12. Running(d)
  BY <1>3 DEF Running
<1> QED
  BY <1>3, <1>4, <1>5, <1>11, <1>12, DriveSerial

(* What a drive writes has the text that is stored, if that is at REVIEW.   *)
LEMMA WriteRowSerial ==
    ASSUME LifecycleTypes, Serial, NEW d \in Drives, WriteRow(d)
    PROVE  Serial'
<1>1. /\ \A e \in Drives : e # d => drive'[e] = drive[e]
      /\ drive[d].at = "write" /\ row' = drive[d].copy
      /\ \/ /\ drive[d].op = "mark" /\ drive'[d].at = "driving" /\ drive'[d].st = drive[d].st
         \/ /\ drive[d].op = "checkpoint" /\ drive'[d].at = "read"
            /\ drive'[d].op = (IF drive[d].parks THEN "park" ELSE "finish")
            /\ drive'[d].st = drive[d].st
         \/ drive'[d].at = "ended" /\ drive'[d].st = NoCheckpoint
  BY WriteRowEffect
<1>2. UNCHANGED <<request, approved, viewed, published>>
  BY DEF WriteRow, driveRest
<1>3. DriveIsSerial(d) /\ RowIsSerial /\ HistoryIsSerial /\ Running(d)
  BY <1>1 DEF Serial, Running
<1>4. /\ row'.state = "awaiting_approval" => Gated(row'.cp)
      /\ Gated(row.cp) => Same(row'.cp, row.cp)
      /\ Viewed(row'.cp, viewed)
      /\ drive[d].op # "checkpoint" /\ Gated(row'.cp) => Gated(row.cp)
      /\ drive[d].op = "checkpoint" => row'.cp = drive[d].st
  BY <1>1, <1>3 DEF DriveIsSerial
<1>5. Gated(row.cp) => Gated(row'.cp) /\ row'.cp.text = row.cp.text
  BY <1>4 DEF Same
<1>6. \A e \in Drives : e # d => ~Running(e)
  BY <1>3 DEF Serial, OneDrive
<1>7. OneDrive'
  BY <1>1, <1>6 DEF OneDrive, Running
<1>8. RowIsSerial'
  BY <1>2, <1>4 DEF RowIsSerial
<1>9. DriveIsSerial(d)'
  <2>1. CASE drive[d].op = "mark" /\ drive'[d].at = "driving" /\ drive'[d].st = drive[d].st
    <3>1. Gated(row'.cp) => Same(drive'[d].st, row'.cp)
      BY <1>1, <1>3, <1>4, <1>5, <2>1 DEF DriveIsSerial, HasState, Same
    <3> QED
      BY <1>2, <1>3, <2>1, <3>1 DEF DriveIsSerial
  <2>2. CASE /\ drive[d].op = "checkpoint" /\ drive'[d].at = "read"
             /\ drive'[d].op = (IF drive[d].parks THEN "park" ELSE "finish")
             /\ drive'[d].st = drive[d].st
    <3>1. drive[d].parks => Gated(row'.cp)
      BY <1>1, <1>3, <1>4, <2>2 DEF DriveIsSerial
    <3>2. drive'[d].op = "park" => Gated(row'.cp)
      BY <2>2, <3>1
    <3>3. drive'[d].op \in {"park", "finish"}
      BY <2>2
    <3> QED
      BY <1>2, <1>3, <2>2, <3>2, <3>3 DEF DriveIsSerial, HasState
  <2>3. CASE drive'[d].at = "ended" /\ drive'[d].st = NoCheckpoint
    BY <2>3, BlankIsSerial
  <2> QED
    BY <1>1, <2>1, <2>2, <2>3
<1>10. ASSUME NEW e \in Drives PROVE DriveIsSerial(e)'
  <2>1. CASE e = d
    BY <1>9, <2>1
  <2>2. CASE e # d
    BY <1>1, <1>2, <1>6, <2>2, IdleIsSerial, NotRunning DEF Serial
  <2> QED
    BY <2>1, <2>2
<1>11. ASSUME NEW r \in Requests PROVE RequestIsSerial(r)'
  <2>1. RequestIsSerial(r) /\ Deciding(r)' = Deciding(r) /\ request' = request
    BY <1>2 DEF Serial, Deciding
  <2>2. request[r].at = "writing" => Deciding(r)
    BY DEF Deciding, LifecycleTypes
  <2> QED
    BY <1>2, <1>5, <2>1, <2>2 DEF RequestIsSerial, Same
<1>12. HistoryIsSerial'
  BY <1>2, <1>3, <1>5 DEF HistoryIsSerial, Same
<1> QED
  BY <1>7, <1>8, <1>10, <1>11, <1>12 DEF Serial

(* A request whose step leaves the row and the drives alone keeps the run serial, if it
   stays serial itself, and looks at nothing but a text at REVIEW.          *)
LEMMA RequestSerial ==
    ASSUME Serial, NEW r \in Requests,
           \A q \in Requests : q # r => request'[q] = request[q],
           RequestIsSerial(r)', viewed \subseteq viewed',
           \A t \in viewed' : Gated(row.cp) /\ t = row.cp.text,
           UNCHANGED <<row, drive, approved, published>>
    PROVE  Serial'
<1>1. OneDrive'
  BY DEF Serial, OneDrive, Running
<1>2. RowIsSerial'
  BY DEF Serial, RowIsSerial, Viewed
<1>3. ASSUME NEW e \in Drives PROVE DriveIsSerial(e)'
  BY DEF Serial, DriveIsSerial, HasState, Viewed
<1>4. ASSUME NEW q \in Requests PROVE RequestIsSerial(q)'
  <2>1. CASE q = r
    BY <2>1
  <2>2. CASE q # r
    BY <2>2 DEF Serial, RequestIsSerial, Deciding, Viewed
  <2> QED
    BY <2>1, <2>2
<1>5. HistoryIsSerial'
  BY DEF Serial, HistoryIsSerial
<1> QED
  BY <1>1, <1>2, <1>3, <1>4, <1>5 DEF Serial

(* An approver looks at what is parked, and that is at REVIEW.              *)
LEMMA ArriveSerial ==
    ASSUME LifecycleTypes, Serial, NEW r \in Requests, Arrive(r)
    PROVE  Serial'
<1>1. /\ \A q \in Requests : q # r => request'[q] = request[q]
      /\ request'[r].at = "checking" /\ request'[r].copy = row
      /\ viewed' = IF request'[r].kind = "approve" /\ row.state = "awaiting_approval"
                   THEN viewed \union {row.cp.text} ELSE viewed
      /\ UNCHANGED <<row, drive, approved, published>>
  BY ArriveEffect
<1>2. RowIsSerial /\ HistoryIsSerial
  BY DEF Serial
<1>3. viewed \subseteq viewed' /\ \A t \in viewed' : Gated(row.cp) /\ t = row.cp.text
  BY <1>1, <1>2 DEF RowIsSerial, HistoryIsSerial
<1>4. RequestIsSerial(r)'
  <2>1. Deciding(r)' => row.state = "awaiting_approval"
    BY <1>1 DEF Deciding
  <2>2. Deciding(r)' => Gated(row.cp)
    BY <1>2, <2>1 DEF RowIsSerial
  <2>3. Deciding(r)' /\ request'[r].kind = "approve" => row.cp.text \in viewed'
    BY <1>1, <2>1
  <2> QED
    BY <1>1, <2>2, <2>3 DEF RequestIsSerial
<1> QED
  BY <1>1, <1>3, <1>4, RequestSerial

(* The checks of the routes go on with a decision on what is at REVIEW.     *)
LEMMA CheckSerial ==
    ASSUME LifecycleTypes, Serial, NEW r \in Requests,
           CheckResume(r) \/ CeilingRefuses(r) \/ CheckDecision(r)
    PROVE  Serial'
<1>1. /\ \A q \in Requests : q # r => request'[q] = request[q]
      /\ request'[r].kind = request[r].kind
      /\ \/ request'[r].at \in {"submitting", "refused"}
         \/ /\ request'[r].at = "reading" /\ request[r].at = "checking"
            /\ request[r].copy.state = "awaiting_approval"
            /\ request[r].kind \in {"approve", "reject"}
      /\ UNCHANGED <<row, drive, approved, viewed, published>>
  BY CheckEffect
<1>2. Deciding(r)' => Deciding(r)
  BY <1>1 DEF Deciding
<1>3. RequestIsSerial(r)'
  BY <1>1, <1>2 DEF Serial, RequestIsSerial
<1>4. \A t \in viewed' : Gated(row.cp) /\ t = row.cp.text
  BY <1>1 DEF Serial, HistoryIsSerial
<1> QED
  BY <1>1, <1>3, <1>4, RequestSerial

(* A decision is written on the text that is stored.                        *)
LEMMA ReadDecisionSerial ==
    ASSUME LifecycleTypes, Serial, NEW r \in Requests, ReadDecision(r)
    PROVE  Serial'
<1>1. /\ \A q \in Requests : q # r => request'[q] = request[q]
      /\ request'[r].kind = request[r].kind /\ request[r].at = "reading"
      /\ \/ request'[r].at = "refused"
         \/ /\ request'[r].at = "writing"
            /\ request'[r].copy.cp.stage = row.cp.stage
            /\ request'[r].copy.cp.text = row.cp.text
            /\ request[r].kind = "reject" => request'[r].copy.cp = row.cp
            /\ request[r].kind \in {"approve", "reject"}
  BY ReadDecisionEffect
<1>2. UNCHANGED <<row, drive, approved, viewed, published>>
  BY DEF ReadDecision, requestRest
<1>3. RequestIsSerial(r) /\ RowIsSerial /\ Deciding(r)
  BY <1>1 DEF Serial, Deciding, LifecycleTypes
<1>4. RequestIsSerial(r)'
  <2>1. CASE request'[r].at = "refused"
    BY <2>1 DEF RequestIsSerial, Deciding
  <2>2. CASE request'[r].at = "writing"
    <3>1. Gated(row.cp) /\ Same(request'[r].copy.cp, row.cp)
      BY <1>1, <1>3, <2>2 DEF RequestIsSerial, Same, Gated
    <3>2. request'[r].kind = "reject" => Viewed(request'[r].copy.cp, viewed)
      BY <1>1, <1>3, <2>2 DEF RowIsSerial
    <3>3. request'[r].kind = "approve" => row.cp.text \in viewed
      BY <1>1, <1>3 DEF RequestIsSerial
    <3> QED
      BY <1>2, <3>1, <3>2, <3>3 DEF RequestIsSerial
  <2> QED
    BY <1>1, <2>1, <2>2
<1>5. \A t \in viewed' : Gated(row.cp) /\ t = row.cp.text
  BY <1>2 DEF Serial, HistoryIsSerial
<1> QED
  BY <1>1, <1>2, <1>4, <1>5, RequestSerial

(* A step that writes the row, and that no drive takes, keeps the run serial if it
   stores the text that is stored.                                          *)
LEMMA StoreSerial ==
    ASSUME LifecycleTypes, Serial, Gated(row.cp) => Same(row'.cp, row.cp),
           Gated(row.cp) \/ row'.cp.stage = row.cp.stage,
           row'.state = "awaiting_approval" => Gated(row'.cp), Viewed(row'.cp, viewed),
           \A q \in Requests : request'[q] = request[q] \/ request'[q].at \in {"submitting", "answered"},
           \A a \in approved' : a \in approved \/ (Same(a, row'.cp) /\ Gated(row'.cp)),
           UNCHANGED <<drive, viewed, published>>
    PROVE  Serial'
<1>1. /\ Gated(row.cp) => Gated(row'.cp) /\ row'.cp.text = row.cp.text
      /\ Gated(row'.cp) => Gated(row.cp)
      /\ row'.cp.stage = row.cp.stage \/ row.cp.stage # "none"
  BY DEF Same, Gated
<1>2. OneDrive'
  BY DEF Serial, OneDrive, Running
<1>3. RowIsSerial'
  BY DEF RowIsSerial
<1>4. ASSUME NEW e \in Drives PROVE DriveIsSerial(e)'
  <2>1. DriveIsSerial(e) /\ HasState(e)' = HasState(e)
    BY DEF Serial, HasState
  <2>2. HasState(e) /\ Gated(row'.cp) => Same(drive[e].st, row'.cp)
    BY <1>1, <2>1 DEF DriveIsSerial, Same
  <2>3. drive[e].at = "write" /\ Gated(row'.cp) => Same(drive[e].copy.cp, row'.cp)
    BY <1>1, <2>1 DEF DriveIsSerial, Same
  <2> QED
    BY <1>1, <2>1, <2>2, <2>3 DEF DriveIsSerial
<1>5. ASSUME NEW q \in Requests PROVE RequestIsSerial(q)'
  <2>1. CASE request'[q] = request[q]
    <3>1. RequestIsSerial(q) /\ Deciding(q)' = Deciding(q)
      BY <2>1 DEF Serial, Deciding
    <3>2. request[q].at = "writing" => Deciding(q)
      BY DEF Deciding, LifecycleTypes
    <3> QED
      BY <1>1, <2>1, <3>1, <3>2 DEF RequestIsSerial, Same
  <2>2. CASE request'[q].at \in {"submitting", "answered"}
    BY <2>2 DEF RequestIsSerial, Deciding
  <2> QED
    BY <2>1, <2>2
<1>6. HistoryIsSerial'
  BY <1>1 DEF Serial, HistoryIsSerial, Same
<1> QED
  BY <1>2, <1>3, <1>4, <1>5, <1>6 DEF Serial

(* A decision stores the text that was stored.                              *)
LEMMA WriteDecisionSerial ==
    ASSUME LifecycleTypes, Serial, NEW r \in Requests, WriteDecision(r)
    PROVE  Serial'
<1>1. /\ \A q \in Requests : q # r => request'[q] = request[q]
      /\ request'[r].at \in {"submitting", "answered"} /\ request[r].at = "writing"
      /\ row' = request[r].copy
      /\ approved' = IF request[r].kind = "approve"
                     THEN approved \union {[stage |-> request[r].copy.cp.stage,
                                            text |-> request[r].copy.cp.text]}
                     ELSE approved
      /\ UNCHANGED <<published, drive, viewed>>
  BY WriteDecisionEffect
<1>2. RequestIsSerial(r) /\ Deciding(r) /\ request[r].kind \in {"approve", "reject"}
  BY <1>1 DEF Serial, Deciding, LifecycleTypes
<1>3. Gated(row.cp) /\ Same(row'.cp, row.cp) /\ Gated(row'.cp)
  BY <1>1, <1>2 DEF RequestIsSerial, Same
<1>4. Viewed(row'.cp, viewed)
  <2>1. CASE request[r].kind = "approve"
    BY <1>2, <1>3, <2>1 DEF RequestIsSerial, Same, Viewed
  <2>2. CASE request[r].kind = "reject"
    BY <1>1, <1>2, <2>2 DEF RequestIsSerial
  <2> QED
    BY <1>2, <2>1, <2>2
<1>5. ASSUME NEW a \in approved' PROVE a \in approved \/ (Same(a, row'.cp) /\ Gated(row'.cp))
  <2>1. CASE a = [stage |-> request[r].copy.cp.stage, text |-> request[r].copy.cp.text]
    BY <1>1, <1>3, <2>1 DEF Same, Gated
  <2> QED
    BY <1>1, <2>1
<1> QED
  BY <1>1, <1>3, <1>4, <1>5, StoreSerial

(* The sweep stores the checkpoint that was stored.                         *)
LEMMA CloseStrandedSerial ==
    ASSUME LifecycleTypes, Serial, CloseStranded
    PROVE  Serial'
<1>1. /\ row'.cp = row.cp
      /\ row'.state = "awaiting_approval" => row.state = "awaiting_approval"
      /\ UNCHANGED <<drive, request, approved, viewed, published>>
  BY CloseStrandedEffect
<1>2. /\ Gated(row.cp) => Same(row'.cp, row.cp)
      /\ row'.state = "awaiting_approval" => Gated(row'.cp)
      /\ Viewed(row'.cp, viewed)
  BY <1>1 DEF Serial, RowIsSerial, Same
<1> QED
  BY <1>1, <1>2, StoreSerial

(* The first drive to run after the last one stopped is alone.              *)
LEMMA SubmitSerial ==
    ASSUME LifecycleTypes, Serial, NEW r \in Requests, SubmitResume(r), ~overlapped'
    PROVE  Serial'
<1>1. /\ submitted' \in Drives
      /\ \A e \in Drives : e # submitted' => drive'[e] = drive[e]
      /\ drive'[submitted'].at = "begin" /\ drive'[submitted'].resume
      /\ drive'[submitted'].st = NoCheckpoint
      /\ (\E e \in Drives : Running(e)) => overlapped'
      /\ \A q \in Requests : q # r => request'[q] = request[q]
      /\ request'[r].at = "answered"
      /\ UNCHANGED <<row, approved, viewed, published>>
  BY SubmitEffect DEF Drives
<1>2. \A e \in Drives : ~Running(e)
  BY <1>1
<1>3. OneDrive'
  BY <1>1, <1>2 DEF OneDrive, Running
<1>4. RowIsSerial'
  BY <1>1 DEF Serial, RowIsSerial, Viewed
<1>5. ASSUME NEW e \in Drives PROVE DriveIsSerial(e)'
  <2>1. CASE e = submitted'
    BY <1>1, <2>1, BlankIsSerial
  <2>2. CASE e # submitted'
    BY <1>1, <1>2, <2>2, IdleIsSerial, NotRunning DEF Serial
  <2> QED
    BY <2>1, <2>2
<1>6. ASSUME NEW q \in Requests PROVE RequestIsSerial(q)'
  <2>1. CASE q = r
    BY <1>1, <2>1 DEF RequestIsSerial, Deciding
  <2>2. CASE q # r
    BY <1>1, <2>2 DEF Serial, RequestIsSerial, Deciding
  <2> QED
    BY <2>1, <2>2
<1>7. HistoryIsSerial'
  BY <1>1 DEF Serial, HistoryIsSerial
<1> QED
  BY <1>3, <1>4, <1>5, <1>6, <1>7 DEF Serial

(* What a dead process leaves behind is still serial.                       *)
LEMMA DieSerial ==
    ASSUME LifecycleTypes, Serial, NEW proc \in Procs, Die(proc)
    PROVE  Serial'
<1>1. /\ \A e \in Drives :
            \/ drive'[e] = drive[e]
            \/ drive'[e].at = "dead" /\ drive'[e].st = NoCheckpoint
      /\ \A q \in Requests : request'[q] = request[q] \/ request'[q].at = "dead"
      /\ UNCHANGED <<row, approved, viewed, published>>
  BY DieEffect
<1>2. OneDrive'
  <2>1. \A e \in Drives : Running(e)' => Running(e)
    BY <1>1 DEF Running
  <2> QED
    BY <2>1 DEF Serial, OneDrive
<1>3. RowIsSerial'
  BY <1>1 DEF Serial, RowIsSerial, Viewed
<1>4. ASSUME NEW e \in Drives PROVE DriveIsSerial(e)'
  <2>1. CASE drive'[e] = drive[e]
    BY <1>1, <2>1 DEF Serial, DriveIsSerial, HasState, Viewed
  <2>2. CASE drive'[e].at = "dead" /\ drive'[e].st = NoCheckpoint
    BY <2>2, BlankIsSerial
  <2> QED
    BY <1>1, <2>1, <2>2
<1>5. ASSUME NEW q \in Requests PROVE RequestIsSerial(q)'
  <2>1. CASE request'[q] = request[q]
    BY <1>1, <2>1 DEF Serial, RequestIsSerial, Deciding
  <2>2. CASE request'[q].at = "dead"
    BY <2>2 DEF RequestIsSerial, Deciding
  <2> QED
    BY <1>1, <2>1, <2>2
<1>6. HistoryIsSerial'
  BY <1>1 DEF Serial, HistoryIsSerial
<1> QED
  BY <1>2, <1>3, <1>4, <1>5, <1>6 DEF Serial

(* Two drives that have been running at once are remembered.                *)
LEMMA OverlapStays ==
    ASSUME LifecycleTypes, [Next]_vars
    PROVE  overlapped => overlapped'
<1>1. CASE \E d \in Drives : DriveStep(d)
  BY <1>1 DEF DriveStep, BeginDrive, BeforeGate, BehindGate, NothingLeft, Raise, ReadRow, WriteRow, driveRest
<1>2. CASE \E r \in Requests : Arrive(r) \/ RequestStep(r)
  <2>1. ASSUME NEW r \in Requests, SubmitResume(r) PROVE overlapped => overlapped'
    BY <2>1, SubmitEffect
  <2>2. ASSUME NEW r \in Requests, Arrive(r) \/ CheckResume(r) \/ CeilingRefuses(r) \/ CheckDecision(r)
        PROVE  overlapped' = overlapped
    BY <2>2 DEF Arrive, CheckResume, CeilingRefuses, CheckDecision
  <2>3. ASSUME NEW r \in Requests, ReadDecision(r) \/ WriteDecision(r) PROVE overlapped' = overlapped
    BY <2>3 DEF ReadDecision, WriteDecision
  <2> QED
    BY <1>2, <2>1, <2>2, <2>3 DEF RequestStep
<1>3. CASE \E proc \in Procs : Die(proc)
  BY <1>3 DEF Die
<1>4. CASE Age \/ FindStranded \/ CloseStranded \/ UNCHANGED vars
  BY <1>4 DEF Age, FindStranded, CloseStranded, vars
<1> QED
  BY <1>1, <1>2, <1>3, <1>4 DEF Next

(* Every step of a run whose drives never overlapped keeps it serial.       *)
LEMMA SerialStep ==
    ASSUME TypeInv, SerialInv, [Next]_vars
    PROVE  SerialInv'
<1> SUFFICES ASSUME ~overlapped' PROVE Serial'
  BY DEF SerialInv
<1>1. LifecycleTypes /\ Resumptions
  BY DEF TypeInv
<1>2. Serial
  BY <1>1, OverlapStays DEF SerialInv
<1>3. ASSUME NEW d \in Drives, DriveStep(d) PROVE Serial'
  BY <1>1, <1>2, <1>3, BeginDriveSerial, ComputesSerial, RaiseSerial, ReadRowSerial, WriteRowSerial
     DEF DriveStep
<1>4. ASSUME NEW r \in Requests, Arrive(r) \/ RequestStep(r) PROVE Serial'
  BY <1>1, <1>2, <1>4, ArriveSerial, CheckSerial, ReadDecisionSerial, WriteDecisionSerial, SubmitSerial
     DEF RequestStep
<1>5. ASSUME NEW proc \in Procs, Die(proc) PROVE Serial'
  BY <1>1, <1>2, <1>5, DieSerial
<1>6. CASE CloseStranded
  BY <1>1, <1>2, <1>6, CloseStrandedSerial
<1>7. CASE Age \/ FindStranded \/ UNCHANGED vars
  <2>1. UNCHANGED <<row, drive, request, approved, viewed, published>>
    BY <1>7 DEF Age, FindStranded, vars
  <2> QED
    BY <1>2, <2>1 DEF Serial, OneDrive, Running, RowIsSerial, DriveIsSerial, RequestIsSerial,
                      HistoryIsSerial, HasState, Deciding, Viewed
<1> QED
  BY <1>3, <1>4, <1>5, <1>6, <1>7 DEF Next

(* The inductive invariants say what is asked of the published texts.       *)
LEMMA PublishedFollows ==
    ASSUME CoveredInv, SerialInv
    PROVE  PublishedWasApproved
<1>1. SeenDrafts => published \subseteq ApprovedTexts
  BY DEF CoveredInv
<1>2. ASSUME ~overlapped PROVE published \subseteq viewed \intersect ApprovedTexts
  <2>1. HistoryIsSerial
    BY <1>2 DEF SerialInv, Serial
  <2>2. SeenDrafts
    BY <2>1 DEF HistoryIsSerial, Same, Gated, SeenDrafts
  <2> QED
    BY <1>1, <2>1, <2>2 DEF HistoryIsSerial
<1> QED
  BY <1>1, <1>2 DEF PublishedWasApproved, SeenDrafts

(* For every number of drives and requests, however they interleave, die or write back
   stale rows: what EXPORT publishes is a text an approval was written on, as long as no
   approval was written on an early draft; and unless two drives overlapped, it is the
   text that was parked when the approver's request looked.                 *)
THEOREM PublishedWasSigned == Spec => []PublishedWasApproved
<1>1. Init => TypeInv /\ CoveredInv /\ SerialInv
  BY TypeInit, CoveredInit, SerialInit
<1>2. (TypeInv /\ CoveredInv /\ SerialInv) /\ [Next]_vars => (TypeInv /\ CoveredInv /\ SerialInv)'
  BY TypeStep, CoveredStep, SerialStep
<1>3. TypeInv /\ CoveredInv /\ SerialInv => PublishedWasApproved
  BY PublishedFollows
<1> QED
  BY <1>1, <1>2, <1>3, PTL DEF Spec

-----------------------------------------------------------------------------
(* A closed run stays closed.                                               *)

\* Nobody has the row in hand, and whoever has looked at it saw it closed.
AtRest ==
    /\ row.state \in Closed
    /\ \A d \in Drives : ~Running(d)
    /\ ~sweep
    /\ \A r \in Requests : Open(r) => request[r].at = "checking" /\ request[r].copy.state \in Closed

(* Whoever comes to a run at rest is turned away, and the sweep looks past it. *)
LEMMA RestStays == ASSUME TypeInv, AtRest, [Next]_vars PROVE AtRest'
<1>0. /\ request \in [Requests -> RequestStates] /\ drive \in [Drives -> DriveStates]
      /\ Closed \subseteq Refused /\ "running" \notin Closed /\ "awaiting_approval" \notin Closed
  BY DEF TypeInv, LifecycleTypes, Closed, Refused
<1>1. ASSUME NEW d \in Drives, DriveStep(d) PROVE FALSE
  BY <1>1 DEF AtRest, Running, DriveStep, BeginDrive, BeforeGate, BehindGate, NothingLeft, Raise,
              ReadRow, WriteRow
<1>2. ASSUME NEW r \in Requests, Arrive(r) PROVE AtRest'
  <2>1. PICK kind \in Kinds :
            request' = [request EXCEPT ![r] = [kind |-> kind, at |-> "checking", copy |-> row]]
    BY <1>2 DEF Arrive
  <2>2. UNCHANGED <<row, drive, sweep>>
    BY <1>2 DEF Arrive, requestRest
  <2>3. ASSUME NEW q \in Requests, Open(q)'
        PROVE  request'[q].at = "checking" /\ request'[q].copy.state \in Closed
    BY <1>0, <2>1, <2>3 DEF AtRest, Open
  <2> QED
    BY <2>2, <2>3 DEF AtRest, Running
<1>3. ASSUME NEW r \in Requests, RequestStep(r) PROVE AtRest'
  <2>1. request[r].at = "checking" /\ request[r].copy.state \in Closed
    BY <1>3 DEF AtRest, Open, RequestStep, CheckResume, CeilingRefuses, CheckDecision, ReadDecision,
                WriteDecision, SubmitResume
  <2>2. Refuse(r) /\ UNCHANGED <<row, drive, sweep>>
    BY <1>0, <1>3, <2>1 DEF RequestStep, CheckResume, CeilingRefuses, CheckDecision, ReadDecision,
                WriteDecision, SubmitResume, requestRest
  <2>3. ASSUME NEW q \in Requests, Open(q)' PROVE request'[q] = request[q] /\ Open(q)
    BY <1>0, <2>2, <2>3 DEF Refuse, SetRequest, Open
  <2> QED
    BY <2>2, <2>3 DEF AtRest, Running
<1>4. ASSUME NEW proc \in Procs, Die(proc) PROVE AtRest'
  <2>1. UNCHANGED row /\ drive' = drive /\ ~sweep'
    BY <1>0, <1>4 DEF AtRest, Die
  <2>2. ASSUME NEW q \in Requests, Open(q)' PROVE request'[q] = request[q] /\ Open(q)
    BY <1>4, <2>2 DEF Die, Open, NoRequest
  <2> QED
    BY <2>1, <2>2 DEF AtRest, Running
<1>5. ASSUME Age PROVE AtRest'
  BY <1>5 DEF AtRest, Age, Running, Open
<1>6. ASSUME FindStranded \/ CloseStranded PROVE FALSE
  BY <1>0, <1>6 DEF AtRest, FindStranded, CloseStranded
<1>7. CASE UNCHANGED vars
  BY <1>7 DEF vars, AtRest, Running, Open
<1> QED
  BY <1>1, <1>2, <1>3, <1>4, <1>5, <1>6, <1>7 DEF Next

(* resume_run, approve_run, reject_run and the sweep: once a run is closed and nobody
   has its row in hand, no request and no sweep opens it again, however many come, and
   although each decides on a copy it read earlier.                         *)
THEOREM ClosedRunsStayClosed == Spec => ClosedIsFinal
<1>1. Init => TypeInv
  BY TypeInit
<1>2. TypeInv /\ [Next]_vars => TypeInv'
  BY TypeStep
<1>3. Quiet /\ row.state \in Closed => AtRest
  BY DEF Quiet, AtRest
<1>4. TypeInv /\ AtRest /\ [Next]_vars => AtRest'
  BY RestStays
<1>5. AtRest => row.state \in Closed
  BY DEF AtRest
<1> QED
  BY <1>1, <1>2, <1>3, <1>4, <1>5, PTL DEF Spec, ClosedIsFinal
=============================================================================
