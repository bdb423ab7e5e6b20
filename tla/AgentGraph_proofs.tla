-------------------------- MODULE AgentGraph_proofs --------------------------
(***************************************************************************)
(* What AgentGraph promises for every cap, charge and number of drives, on *)
(* either driver, proved.                                                  *)
(*                                                                         *)
(* The argument: whatever a driver skips is on the checkpoint, so the node *)
(* it is at has every earlier node behind it, and REVIEW is visited only   *)
(* with everything before it.  An approval is given to a checkpoint that   *)
(* has REVIEW on it; a drive that carries one therefore resumes behind the *)
(* gate and never comes back before it, so the copy it exports is the copy *)
(* that was signed.                                                        *)
(*                                                                         *)
(* Two more invariants ride on that one.  The verdicts on record either    *)
(* send the draft back or are about it, and only VALIDATE lets a text      *)
(* through.  And the steps a drive has behind it are told by its node and  *)
(* its retries, so the budget left at the gate is one of few numbers.      *)
(***************************************************************************)
EXTENDS AgentGraph, TLAPS, WellFoundedInduction

\* The nodes before the one the driver is at are behind the run.
NodesBefore == pc \in Nodes => 1..(pc - 1) \subseteq st.visited

ReviewedLast(s) == REVIEW \in s.visited => 1..REVIEW \subseteq s.visited

SignedCopy(s) == s.approver = "user" => REVIEW \in s.visited /\ Copy(s) \in signed

ParkedReviewed(s) == s.outcome = "awaiting_approval" => REVIEW \in s.visited

GateOpens ==
    /\ ReviewedLast(st) /\ ReviewedLast(saved)
    /\ SignedCopy(st) /\ SignedCopy(saved)
    /\ ParkedReviewed(st) /\ ParkedReviewed(saved)
    /\ row = "awaiting_approval" => REVIEW \in saved.visited

\* An approval is carried behind the gate, by a drive that resumes.
ApprovedIsBehindGate == st.approver = "user" => resume /\ (pc \in Nodes => pc > REVIEW)

\* Where the checkpoint stands to the state that is written to it.
SavedIsState == pc = SAVED => saved = st /\ row = "running"

SavedIsBehind ==
    /\ pc # IDLE => drives # 0 /\ saved.visited \subseteq st.visited
    /\ drives = 0 => saved = new_state

\* EXPORT is entered by a drive that has not been there.
ExportIsNew ==
    /\ pc = EXPORT => EXPORT \notin st.visited
    /\ ~resume /\ pc \in Nodes => \A n \in st.visited : n < pc \/ n <= VALIDATE

AgentInv ==
    /\ TypeOK
    /\ NodesBefore
    /\ GateOpens
    /\ ApprovedIsBehindGate
    /\ SavedIsState
    /\ SavedIsBehind
    /\ ExportIsNew
    /\ PublishedWasApproved

USE DEF Nodes, OPPORTUNITY, GENERATE, CONVERT, VALIDATE, REPACK, REVIEW, EXPORT, LAST,
        IDLE, END, SAVED, Stamps

-----------------------------------------------------------------------------
(* Lemmas about the operators.                                              *)

(* The next node is the first from n that has work, or the end.             *)
LEMMA NextUnvisited ==
    ASSUME NEW s, NEW n \in 1..END, NEW resuming \in BOOLEAN
    PROVE  LET m == next_unvisited(s, n, resuming) IN
           /\ m \in n..END
           /\ m = END \/ Runs(s, m, resuming)
           /\ \A k \in n..(m - 1) : ~Runs(s, k, resuming)
<1> DEFINE First(m) == /\ m = END \/ Runs(s, m, resuming)
                       /\ \A k \in n..END : Runs(s, k, resuming) => m <= k
           Candidates == {m \in Nat : m \in n..END /\ (m = END \/ Runs(s, m, resuming))}
<1>1. END \in Candidates
  OBVIOUS
<1>2. \E m \in Candidates : \A k \in Candidates : m <= k
  <2> DEFINE R == OpToRel(<, Nat)
  <2>1. IsWellFoundedOn(R, Nat)
    BY NatLessThanWellFounded, Zenon
  <2>2. Candidates \subseteq Nat /\ Candidates # {}
    BY <1>1
  <2>3. \A x, y \in Nat : x < y => <<x, y>> \in R
    BY DEF OpToRel
  <2> HIDE DEF R, Candidates
  <2>4. PICK m \in Candidates : \A k \in Candidates : ~(<<k, m>> \in R)
    BY <2>1, <2>2, WFMin
  <2>5. \A k \in Candidates : ~(k < m)
    BY <2>2, <2>3, <2>4, Zenon
  <2>6. \A x, y \in Nat : ~(x < y) => y <= x
    OBVIOUS
  <2> QED
    BY <2>2, <2>4, <2>5, <2>6, Zenon
<1>3. \E m \in n..END : First(m)
  BY <1>2
<1>4. next_unvisited(s, n, resuming) = CHOOSE m \in n..END : First(m)
  BY DEF next_unvisited
<1> QED
  BY <1>3, <1>4

\* t is s with another end.
Keeps(t, s) ==
    /\ t \in AgentState
    /\ t.visited = s.visited
    /\ t.approver = s.approver
    /\ Copy(t) = Copy(s)

(* The exits and the retry keep the texts, the approval and the path.       *)
LEMMA Exits ==
    ASSUME NEW s \in AgentState
    PROVE  /\ Keeps(cap_exit(s, "max_steps"), s) /\ cap_exit(s, "max_steps").outcome = "partial"
           /\ Keeps(cap_exit(s, "max_usd"), s) /\ cap_exit(s, "max_usd").outcome = "partial"
           /\ Keeps(opportunity_exit(s), s)
           /\ opportunity_exit(s).outcome \in {"done", "partial"}
           /\ Keeps(validate_exit(s), s) /\ validate_exit(s).outcome = "partial"
           /\ Keeps(Finished(s), s) /\ Finished(s).outcome \in {"done", s.outcome}
           /\ Keeps([s EXCEPT !.outcome = "awaiting_approval"], s)
           /\ Keeps([s EXCEPT !.outcome = "running"], s)
           /\ CanLoop(s) => /\ Keeps(enter_validate_loop(s), s)
                            /\ enter_validate_loop(s).outcome = s.outcome
<1> USE DEF Keeps, AgentState, Copy
<1>1. Keeps(cap_exit(s, "max_steps"), s) /\ cap_exit(s, "max_steps").outcome = "partial"
  BY DEF cap_exit
<1>2. Keeps(cap_exit(s, "max_usd"), s) /\ cap_exit(s, "max_usd").outcome = "partial"
  BY DEF cap_exit
<1>3. Keeps(opportunity_exit(s), s) /\ opportunity_exit(s).outcome \in {"done", "partial"}
  <2>1. ASSUME NEW outcome \in {"done", "partial"}, NEW reason \in {"topic_failed", "no_topic"}
        PROVE  /\ Keeps([s EXCEPT !.outcome = outcome, !.reason = reason], s)
               /\ [s EXCEPT !.outcome = outcome, !.reason = reason].outcome = outcome
    OBVIOUS
  <2> HIDE DEF Keeps
  <2> QED
    BY <2>1 DEF opportunity_exit
<1>4. Keeps(validate_exit(s), s) /\ validate_exit(s).outcome = "partial"
  BY DEF validate_exit
<1>5. Keeps(Finished(s), s) /\ Finished(s).outcome \in {"done", s.outcome}
  BY DEF Finished
<1>6. /\ Keeps([s EXCEPT !.outcome = "awaiting_approval"], s)
      /\ Keeps([s EXCEPT !.outcome = "running"], s)
  OBVIOUS
<1>7. CanLoop(s) => /\ Keeps(enter_validate_loop(s), s)
                    /\ enter_validate_loop(s).outcome = s.outcome
  BY CapsAssumption DEF CanLoop, enter_validate_loop
<1> QED
  BY <1>1, <1>2, <1>3, <1>4, <1>5, <1>6, <1>7

(* Carrying on from n, a drive stops at the first node with work.           *)
LEMMA ContinueEffect ==
    ASSUME NEW s \in AgentState, NEW n \in 1..END, NEW resuming \in BOOLEAN,
           Continue(s, n, resuming)
    PROVE  /\ Keeps(st', s)
           /\ st'.outcome = "awaiting_approval" => s.outcome = "awaiting_approval"
           /\ pc' \in Nodes \union {END}
           /\ pc' \in Nodes =>
                /\ pc' >= n
                /\ n..(pc' - 1) \subseteq s.visited
                /\ resuming => \/ pc' \notin s.visited
                               \/ pc' = GENERATE /\ REVIEW \notin s.visited
                /\ ~resuming => pc' = n
<1> DEFINE next == next_unvisited(s, n, resuming)
<1>1. /\ next \in n..END
      /\ next = END \/ Runs(s, next, resuming)
      /\ \A k \in n..(next - 1) : ~Runs(s, k, resuming)
  BY NextUnvisited
<1> HIDE DEF next
<1>2. CASE next = END
  <2>1. st' = Finished(s) /\ pc' = END
    BY <1>2 DEF Continue, Return, next
  <2>2. Keeps(Finished(s), s) /\ Finished(s).outcome \in {"done", s.outcome}
    BY Exits
  <2> QED
    BY <2>1, <2>2
<1>3. CASE next # END
  <2>1. st' = s /\ pc' = next
    BY <1>3 DEF Continue, next
  <2>2. n..(next - 1) \subseteq s.visited
    BY <1>1 DEF Runs, resumable_skip
  <2>3. resuming => next \notin s.visited \/ (next = GENERATE /\ REVIEW \notin s.visited)
    BY <1>1, <1>3 DEF Runs, resumable_skip
  <2>4. ~resuming => next = n
    BY <1>1, <1>3 DEF Runs
  <2>5. Keeps(s, s)
    BY DEF Keeps
  <2> QED
    BY <1>1, <1>3, <2>1, <2>2, <2>3, <2>4, <2>5
<1> QED
  BY <1>2, <1>3

\* Where a driver may go from node n, with the path s behind it.
GoesOn(s, n) ==
    pc' \in Nodes =>
        \/ pc' = GENERATE /\ n = VALIDATE
        \/ /\ pc' > n
           /\ (n + 1)..(pc' - 1) \subseteq s.visited
           /\ resume => pc' \notin s.visited \/ pc' = GENERATE
           /\ ~resume => pc' = n + 1

(* Routing keeps the path and moves on, or back from VALIDATE alone.        *)
LEMMA RouteEffect ==
    ASSUME NEW s \in AgentState, NEW n \in Nodes, resume \in BOOLEAN,
           Route(s, n)
    PROVE  /\ Keeps(st', s)
           /\ st'.outcome = "awaiting_approval" =>
                n = REVIEW \/ s.outcome = "awaiting_approval"
           /\ pc' \in Nodes \union {END}
           /\ GoesOn(s, n)
<1> DEFINE Goal == /\ Keeps(st', s)
                   /\ st'.outcome = "awaiting_approval" =>
                        n = REVIEW \/ s.outcome = "awaiting_approval"
                   /\ pc' \in Nodes \union {END}
                   /\ GoesOn(s, n)
<1>0. ASSUME NEW t, Return(t), Keeps(t, s),
             t.outcome = "awaiting_approval" => n = REVIEW \/ s.outcome = "awaiting_approval"
      PROVE  Goal
  <2>1. st' = t /\ pc' = END
    BY <1>0 DEF Return
  <2>2. GoesOn(s, n)
    BY <2>1 DEF GoesOn
  <2> QED
    BY <1>0, <2>1, <2>2
<1> HIDE DEF Goal
<1>1. CASE n = OPPORTUNITY /\ ~s.topic /\ Return(opportunity_exit(s))
  <2>1. /\ Keeps(opportunity_exit(s), s)
        /\ opportunity_exit(s).outcome # "awaiting_approval"
    BY Exits
  <2> QED
    BY <1>0, <1>1, <2>1 DEF Goal
<1>2. CASE n = VALIDATE /\ Return(validate_exit(s))
  <2>1. /\ Keeps(validate_exit(s), s)
        /\ validate_exit(s).outcome # "awaiting_approval"
    BY Exits
  <2> QED
    BY <1>0, <1>2, <2>1 DEF Goal
<1>3. CASE /\ n = VALIDATE /\ CanLoop(s)
           /\ st' = enter_validate_loop(s) /\ pc' = GENERATE
  <2>1. /\ Keeps(enter_validate_loop(s), s)
        /\ enter_validate_loop(s).outcome = s.outcome
    BY <1>3, Exits
  <2>2. GoesOn(s, n)
    BY <1>3 DEF GoesOn
  <2> QED
    BY <1>3, <2>1, <2>2
<1>4. CASE n = VALIDATE /\ CanLoop(s) /\ Return(enter_validate_loop(s))
  <2>1. /\ Keeps(enter_validate_loop(s), s)
        /\ enter_validate_loop(s).outcome = s.outcome
    BY <1>4, Exits
  <2> QED
    BY <1>0, <1>4, <2>1 DEF Goal
<1>5. CASE n = REVIEW /\ Return([s EXCEPT !.outcome = "awaiting_approval"])
  <2>1. Keeps([s EXCEPT !.outcome = "awaiting_approval"], s)
    BY Exits
  <2> QED
    BY <1>0, <1>5, <2>1 DEF Goal
<1>6. CASE Return(s)
  <2>1. Keeps(s, s)
    BY DEF Keeps
  <2> QED
    BY <1>0, <1>6, <2>1 DEF Goal
<1>7. CASE Continue(s, n + 1, resume)
  <2>1. n + 1 \in 1..END
    OBVIOUS
  <2>2. /\ Keeps(st', s)
        /\ st'.outcome = "awaiting_approval" => s.outcome = "awaiting_approval"
        /\ pc' \in Nodes \union {END}
        /\ pc' \in Nodes =>
             /\ pc' >= n + 1
             /\ (n + 1)..(pc' - 1) \subseteq s.visited
             /\ resume => pc' \notin s.visited \/ pc' = GENERATE
             /\ ~resume => pc' = n + 1
    BY <1>7, <2>1, ContinueEffect
  <2>5. pc' \in Nodes => pc' >= n + 1
    BY <2>2, Zenon
  <2>3. pc' \in Nodes => pc' > n
    BY <2>5
  <2>4. GoesOn(s, n)
    BY <2>2, <2>3, Zenon DEF GoesOn
  <2> QED
    BY <2>2, <2>4
<1> QED
  BY <1>1, <1>2, <1>3, <1>4, <1>5, <1>6, <1>7 DEF Route

-----------------------------------------------------------------------------
(* What one step of a drive does, node by node.                             *)

\* A node writes its own results: the step and the path are counted, the approval
\* and the end stay.  What it writes, the gate reads only from REVIEW on.
Ran(s, n) ==
    /\ s \in AgentState
    /\ s.visited = st.visited \union {n}
    /\ s.approver = st.approver
    /\ s.outcome = st.outcome
    /\ n >= REVIEW => Copy(s) = Copy(st)

(* The nodes before one lie before, at or after another.                    *)
LEMMA AroundANode ==
    \A n, m \in 1..LAST : \A k \in 1..(m - 1) :
        k \in 1..(n - 1) \/ k = n \/ k \in (n + 1)..(m - 1)
OBVIOUS

(* Counting a step.                                                         *)
LEMMA StepRan ==
    ASSUME TypeOK, NEW n \in Nodes, CanStep(st)
    PROVE  Ran(step(st, n), n)
<1>1. st \in AgentState
  BY DEF TypeOK
<1>2. st.steps + 1 \in 0..MaxSteps
  BY <1>1, CapsAssumption DEF AgentState, CanStep
<1>3. st.visited \union {n} \in SUBSET Nodes
  BY <1>1 DEF AgentState
<1>4. step(st, n) \in AgentState
  BY <1>1, <1>2, <1>3 DEF AgentState, step
<1>5. /\ step(st, n).visited = st.visited \union {n}
      /\ step(st, n).approver = st.approver
      /\ step(st, n).outcome = st.outcome
      /\ Copy(step(st, n)) = Copy(st)
  BY <1>1 DEF AgentState, step, Copy
<1> QED
  BY <1>4, <1>5 DEF Ran

\* The effect of node n on the drive.
NodeEffect(n) ==
    /\ st' \in AgentState
    /\ \/ st'.visited = st.visited \union {n}
       \/ pc' = END /\ st'.visited = st.visited
    /\ st'.approver = st.approver
    /\ n >= REVIEW => Copy(st') = Copy(st)
    /\ st'.outcome = "awaiting_approval" =>
         st.outcome = "awaiting_approval" \/ REVIEW \in st'.visited
    /\ pc' \in Nodes \union {END}
    /\ GoesOn(st', n)

(* Routing from what the node left has the node's effect.                   *)
LEMMA RouteRan ==
    ASSUME TypeOK, NEW n \in Nodes, NEW s, Ran(s, n), Route(s, n)
    PROVE  NodeEffect(n)
<1>1. s \in AgentState /\ resume \in BOOLEAN
  BY DEF Ran, TypeOK
<1>2. /\ Keeps(st', s)
      /\ st'.outcome = "awaiting_approval" =>
           n = REVIEW \/ s.outcome = "awaiting_approval"
      /\ pc' \in Nodes \union {END}
      /\ GoesOn(s, n)
  BY <1>1, RouteEffect
<1>3. st'.visited = s.visited
  BY <1>2 DEF Keeps
<1>4. GoesOn(st', n)
  BY <1>2, <1>3 DEF GoesOn
<1>5. s.visited = st.visited \union {n}
  BY DEF Ran
<1>6. n >= REVIEW => Copy(st') = Copy(st)
  BY <1>2 DEF Keeps, Ran
<1>7. st'.approver = st.approver /\ st' \in AgentState /\ s.outcome = st.outcome
  BY <1>2 DEF Keeps, Ran
<1>8. st'.outcome = "awaiting_approval" =>
           st.outcome = "awaiting_approval" \/ REVIEW \in st'.visited
  BY <1>2, <1>3, <1>5, <1>7
<1> QED
  BY <1>2, <1>3, <1>4, <1>5, <1>6, <1>7, <1>8 DEF NodeEffect

(* A charge that is refused ends the drive with what the driver keeps.      *)
LEMMA ChargeRan ==
    ASSUME TypeOK, NEW n \in Nodes, CanStep(st), NEW s, Ran(s, n), NEW usd \in Charges,
           Charge(n, s, usd)
    PROVE  NodeEffect(n)
<1>1. CASE CanCharge(s, usd) /\ Route([s EXCEPT !.cost = @ + usd], n)
  <2> DEFINE t == [s EXCEPT !.cost = @ + usd]
  <2>1. s \in AgentState
    BY DEF Ran
  <2>2. s.cost + usd \in 0..MaxUsd
    BY <1>1, <2>1, CapsAssumption DEF CanCharge, AgentState
  <2>3. /\ t \in AgentState
        /\ t.visited = s.visited /\ t.approver = s.approver /\ t.outcome = s.outcome
        /\ Copy(t) = Copy(s)
    BY <2>1, <2>2 DEF AgentState, Copy
  <2>4. Ran(t, n)
    BY <2>3 DEF Ran
  <2> HIDE DEF t
  <2>5. Route(t, n)
    BY <1>1 DEF t
  <2> QED
    BY <2>4, <2>5, RouteRan
<1>2. ASSUME NEW d, Ran(d, n), Return(cap_exit(d, "max_usd")) PROVE NodeEffect(n)
  <2>1. st' = cap_exit(d, "max_usd") /\ pc' = END
    BY <1>2 DEF Return
  <2>2. Keeps(st', d) /\ st'.outcome = "partial"
    BY <1>2, <2>1, Exits DEF Ran
  <2>3. GoesOn(st', n)
    BY <2>1 DEF GoesOn
  <2>4. /\ st' \in AgentState /\ st'.approver = st.approver
        /\ st'.visited = st.visited \union {n}
        /\ n >= REVIEW => Copy(st') = Copy(st)
    BY <1>2, <2>2 DEF Keeps, Ran
  <2> QED
    BY <2>1, <2>2, <2>3, <2>4 DEF NodeEffect
<1>3. \/ CanCharge(s, usd) /\ Route([s EXCEPT !.cost = @ + usd], n)
      \/ Return(cap_exit(step(st, n), "max_usd"))
      \/ Return(cap_exit(s, "max_usd"))
  BY DEF Charge
<1> QED
  BY <1>1, <1>2, <1>3, StepRan

\* What EXPORT may send, and no other node.
SendsSigned ==
    \/ UNCHANGED sent
    \/ pc = EXPORT /\ st.approver # "none" /\ sent' = sent \union {Copy(st)}

(* One step of a drive runs one node and sends nothing but from EXPORT.     *)
LEMMA DriveStepEffect ==
    ASSUME TypeOK, DriveStep
    PROVE  pc \in Nodes /\ NodeEffect(pc) /\ SendsSigned /\ UNCHANGED rest
<1> DEFINE Goal == pc \in Nodes /\ NodeEffect(pc) /\ SendsSigned /\ UNCHANGED rest
<1>0. ASSUME NEW n \in Nodes, Enter(n), NEW s, Ran(s, n), Route(s, n),
             SendsSigned, UNCHANGED rest
      PROVE  Goal
  BY <1>0, RouteRan DEF Enter
<1>1. ASSUME NEW n \in Nodes, Enter(n), NEW s, Ran(s, n), NEW usd \in Charges,
             Charge(n, s, usd), UNCHANGED sent, UNCHANGED rest
      PROVE  Goal
  BY <1>1, ChargeRan DEF Enter, SendsSigned
<1>2. ASSUME NEW n \in Nodes, Enter(n) PROVE CanStep(st) /\ Ran(step(st, n), n)
  BY <1>2, StepRan DEF Enter
<1>3. Stamp \in Nat
  BY CapsAssumption DEF Stamp, TypeOK, AgentState
<1> HIDE DEF Goal
<1>4. CASE StepRefused
  <2>1. /\ pc \in Nodes /\ st' = cap_exit(st, "max_steps") /\ pc' = END
        /\ UNCHANGED sent /\ UNCHANGED rest
    BY <1>4 DEF StepRefused, Return
  <2>2. Keeps(st', st) /\ st'.outcome = "partial"
    BY <2>1, Exits DEF TypeOK
  <2>3. NodeEffect(pc)
    BY <2>1, <2>2 DEF NodeEffect, Keeps, GoesOn
  <2> QED
    BY <2>1, <2>3 DEF Goal, SendsSigned
<1>5. CASE NodeCrash
  <2>1. PICK n \in Nodes \ {REVIEW} :
          /\ Enter(n)
          /\ Route(IF n = OPPORTUNITY
                   THEN [step(st, n) EXCEPT !.topicFailed = TRUE]
                   ELSE step(st, n), n)
    BY <1>5 DEF NodeCrash
  <2>2. Ran(step(st, n), n)
    BY <1>2, <2>1
  <2>3. Ran([step(st, n) EXCEPT !.topicFailed = TRUE], n)
    BY <2>2 DEF Ran, AgentState, Copy
  <2>4. UNCHANGED sent /\ UNCHANGED rest
    BY <1>5 DEF NodeCrash
  <2>5. CASE n = OPPORTUNITY
    BY <1>0, <2>1, <2>3, <2>4, <2>5 DEF SendsSigned, Goal
  <2>6. CASE n # OPPORTUNITY
    BY <1>0, <2>1, <2>2, <2>4, <2>6 DEF SendsSigned, Goal
  <2> QED
    BY <2>5, <2>6
<1>6. CASE Gather
  BY <1>0, <1>2, <1>6 DEF Gather, SendsSigned, Goal
<1>7. CASE Opportunity
  <2>1. PICK found \in BOOLEAN, usd \in Charges :
          Charge(OPPORTUNITY, [step(st, OPPORTUNITY) EXCEPT !.topic = found], usd)
    BY <1>7 DEF Opportunity
  <2>2. Enter(OPPORTUNITY) /\ UNCHANGED sent /\ UNCHANGED rest
    BY <1>7 DEF Opportunity
  <2>3. Ran([step(st, OPPORTUNITY) EXCEPT !.topic = found], OPPORTUNITY)
    BY <1>2, <2>2 DEF Ran, AgentState, Copy
  <2> QED
    BY <1>1, <2>1, <2>2, <2>3 DEF Goal
<1>8. CASE Plan
  BY <1>1, <1>2, <1>8 DEF Plan, Goal
<1>9. CASE Generate
  <2>1. Enter(GENERATE) /\ UNCHANGED sent /\ UNCHANGED rest
    BY <1>9 DEF Generate
  <2>2. Ran([step(st, GENERATE) EXCEPT !.draft = Stamp], GENERATE)
    BY <1>2, <1>3, <2>1 DEF Ran, AgentState, Copy
  <2> QED
    BY <1>1, <1>9, <2>1, <2>2 DEF Generate, Goal
<1>10. CASE Convert
  <2>1. Enter(CONVERT) /\ UNCHANGED sent /\ UNCHANGED rest
    BY <1>10 DEF Convert
  <2>2. Ran([step(st, CONVERT) EXCEPT !.asks = Stamp], CONVERT)
    BY <1>2, <1>3, <2>1 DEF Ran, AgentState, Copy
  <2> QED
    BY <1>1, <1>10, <2>1, <2>2 DEF Convert, Goal
<1>11. CASE Validate
  <2>1. PICK c \in {"clean", "banned"}, q \in {"pass", "weak"} :
          Route([step(st, VALIDATE) EXCEPT !.claims = c, !.seo = q, !.judged = Text(st)],
                VALIDATE)
    BY <1>11 DEF Validate
  <2>2. Enter(VALIDATE) /\ UNCHANGED sent /\ UNCHANGED rest
    BY <1>11 DEF Validate
  <2>3. Text(st) \in [draft : Stamps, asks : Stamps]
    BY DEF Text, TypeOK, AgentState
  <2>4. Ran([step(st, VALIDATE) EXCEPT !.claims = c, !.seo = q, !.judged = Text(st)],
            VALIDATE)
    <3>1. Ran(step(st, VALIDATE), VALIDATE)
      BY <1>2, <2>2
    <3>2. ASSUME NEW s, Ran(s, VALIDATE), NEW text \in [draft : Stamps, asks : Stamps]
          PROVE  Ran([s EXCEPT !.claims = c, !.seo = q, !.judged = text], VALIDATE)
      BY <3>2 DEF Ran, AgentState, Copy
    <3> QED
      BY <2>3, <3>1, <3>2
  <2> QED
    BY <1>0, <2>1, <2>2, <2>4 DEF SendsSigned, Goal
<1>12. CASE Repack
  <2>1. PICK usd \in Charges, p \in {0, Stamp} :
          Charge(REPACK, [step(st, REPACK) EXCEPT !.posts = p], usd)
    BY <1>12 DEF Repack
  <2>2. Enter(REPACK) /\ UNCHANGED sent /\ UNCHANGED rest
    BY <1>12 DEF Repack
  <2>3. Ran([step(st, REPACK) EXCEPT !.posts = p], REPACK)
    BY <1>2, <1>3, <2>2 DEF Ran, AgentState, Copy
  <2> QED
    BY <1>1, <2>1, <2>2, <2>3 DEF Goal
<1>13. CASE Review
  BY <1>0, <1>2, <1>13 DEF Review, SendsSigned, Goal
<1>14. CASE Export
  <2>1. Enter(EXPORT) /\ Route(step(st, EXPORT), EXPORT) /\ UNCHANGED rest
    BY <1>14 DEF Export
  <2>2. SendsSigned
    BY <1>14 DEF Export, SendsSigned, Enter
  <2> QED
    BY <1>0, <1>2, <2>1, <2>2 DEF Goal
<1> QED
  BY <1>4, <1>5, <1>6, <1>7, <1>8, <1>9, <1>10, <1>11, <1>12, <1>13, <1>14
  DEF DriveStep, Goal

-----------------------------------------------------------------------------
(* The invariant, action by action.                                         *)

(* A drive's step keeps it: nothing returns before REVIEW once an approval  *)
(* is carried, so what EXPORT sends is what was signed.                     *)
LEMMA DriveStepKeepsInv == ASSUME AgentInv, DriveStep PROVE AgentInv'
<1> DEFINE n == pc
<1>0. /\ TypeOK /\ NodesBefore /\ GateOpens /\ ApprovedIsBehindGate
      /\ SavedIsBehind /\ ExportIsNew /\ PublishedWasApproved
  BY DEF AgentInv
<1>1. n \in Nodes /\ NodeEffect(n) /\ SendsSigned /\ UNCHANGED rest
  BY <1>0, DriveStepEffect
<1>2. /\ UNCHANGED <<runtime, saved, resume, row, drives, signed>>
      /\ st' \in AgentState /\ st'.approver = st.approver
      /\ st.visited \subseteq st'.visited /\ st'.visited \subseteq st.visited \union {n}
      /\ pc' \in Nodes \union {END}
      /\ pc' \in Nodes => n \in st'.visited
  BY <1>1 DEF NodeEffect, rest
<1>3. pc' \in Nodes =>
        \/ pc' = GENERATE /\ n = VALIDATE
        \/ /\ pc' > n
           /\ (n + 1)..(pc' - 1) \subseteq st'.visited
           /\ resume => pc' \notin st'.visited \/ pc' = GENERATE
           /\ ~resume => pc' = n + 1
  BY <1>1 DEF NodeEffect, GoesOn
<1>4. Copy(st) \in Copies
  BY <1>0 DEF TypeOK, AgentState, Copy, Copies
<1>5. TypeOK'
  BY <1>0, <1>1, <1>2, <1>4 DEF TypeOK, SendsSigned
<1>6. NodesBefore'
  <2> SUFFICES ASSUME pc' \in Nodes PROVE 1..(pc' - 1) \subseteq st'.visited
    BY DEF NodesBefore
  <2>1. 1..(n - 1) \subseteq st'.visited /\ n \in st'.visited
    BY <1>0, <1>1, <1>2 DEF NodesBefore
  <2>2. CASE pc' = GENERATE /\ n = VALIDATE
    BY <2>1, <2>2
  <2>3. CASE pc' > n /\ (n + 1)..(pc' - 1) \subseteq st'.visited
    <3> SUFFICES ASSUME NEW k \in 1..(pc' - 1) PROVE k \in st'.visited
      OBVIOUS
    <3>1. pc \in 1..LAST /\ pc' \in 1..LAST
      BY <1>1
    <3>2. k \in 1..(n - 1) \/ k = n \/ k \in (n + 1)..(pc' - 1)
      BY <3>1, AroundANode
    <3> QED
      BY <2>1, <2>3, <3>2
  <2> QED
    BY <1>3, <2>2, <2>3
<1>7. REVIEW \in st'.visited => 1..REVIEW \subseteq st'.visited
  <2>1. CASE REVIEW \in st.visited
    BY <1>0, <1>2, <2>1 DEF GateOpens, ReviewedLast
  <2>2. CASE REVIEW \in st'.visited /\ n = REVIEW
    <3>1. 1..(REVIEW - 1) \subseteq st.visited
      BY <1>0, <1>1, <2>2 DEF NodesBefore
    <3> QED
      BY <1>2, <2>2, <3>1
  <2> QED
    BY <1>2, <2>1, <2>2
<1>8. SignedCopy(st)'
  <2> SUFFICES ASSUME st'.approver = "user"
               PROVE  REVIEW \in st'.visited /\ Copy(st') \in signed
    BY <1>2 DEF SignedCopy
  <2>1. n > REVIEW /\ REVIEW \in st.visited /\ Copy(st) \in signed
    BY <1>0, <1>1, <1>2 DEF ApprovedIsBehindGate, GateOpens, SignedCopy
  <2>2. Copy(st') = Copy(st)
    BY <1>1, <2>1 DEF NodeEffect
  <2> QED
    BY <1>2, <2>1, <2>2
<1>9. ParkedReviewed(st)'
  <2>1. st'.outcome = "awaiting_approval" =>
         st.outcome = "awaiting_approval" \/ REVIEW \in st'.visited
    BY <1>1 DEF NodeEffect
  <2>2. st.outcome = "awaiting_approval" => REVIEW \in st'.visited
    BY <1>0, <1>2 DEF GateOpens, ParkedReviewed
  <2> QED
    BY <2>1, <2>2 DEF ParkedReviewed
<1>10. GateOpens'
  BY <1>0, <1>2, <1>7, <1>8, <1>9 DEF GateOpens, ReviewedLast, SignedCopy, ParkedReviewed
<1>11. ApprovedIsBehindGate'
  <2> SUFFICES ASSUME st'.approver = "user"
               PROVE  resume' /\ (pc' \in Nodes => pc' > REVIEW)
    BY DEF ApprovedIsBehindGate
  <2>1. resume' /\ n > REVIEW
    BY <1>0, <1>1, <1>2 DEF ApprovedIsBehindGate
  <2>2. pc' \in Nodes => pc' > n
    BY <1>3, <2>1
  <2> QED
    BY <1>1, <2>1, <2>2
<1>12. SavedIsState'
  BY <1>2 DEF SavedIsState
<1>13. SavedIsBehind'
  BY <1>0, <1>1, <1>2 DEF SavedIsBehind
<1>14. ExportIsNew'
  <2>1. CASE resume
    BY <1>2, <1>3, <2>1 DEF ExportIsNew
  <2>2. CASE ~resume
    <3>1. \A k \in st'.visited : k <= n \/ k <= VALIDATE
      BY <1>0, <1>1, <1>2, <2>2 DEF ExportIsNew, TypeOK, AgentState
    <3>2. \A k \in st'.visited : k \in Nodes
      BY <1>2 DEF AgentState
    <3>3. pc' \in Nodes => pc' = n + 1 \/ (pc' = GENERATE /\ n = VALIDATE)
      BY <1>3, <2>2, Zenon
    <3> QED
      BY <1>1, <1>2, <3>1, <3>2, <3>3 DEF ExportIsNew
  <2> QED
    BY <1>0, <2>1, <2>2 DEF TypeOK
<1>15. PublishedWasApproved'
  <2>1. st.approver # "none" => Copy(st) \in signed
    BY <1>0 DEF GateOpens, SignedCopy, TypeOK, AgentState
  <2> QED
    BY <1>0, <1>1, <1>2, <2>1 DEF PublishedWasApproved, SendsSigned
<1> QED
  BY <1>5, <1>6, <1>10, <1>11, <1>12, <1>13, <1>14, <1>15 DEF AgentInv

\* What a drive is begun with: a state that may be approved only if it resumes,
\* and the checkpoint it was read from.
Restored(s, resuming) ==
    /\ s \in AgentState
    /\ ReviewedLast(s)
    /\ ParkedReviewed(s)
    /\ s.approver = "user" => resuming /\ REVIEW \in s.visited
    /\ resuming \/ s.visited = {}

(* Beginning a drive keeps it: what is skipped is on the path.              *)
LEMMA BeginKeepsInv ==
    ASSUME AgentInv, NEW s, NEW resuming \in BOOLEAN, Restored(s, resuming),
           Begin(s, resuming),
           saved' \in AgentState, saved'.visited \subseteq s.visited,
           ReviewedLast(saved'), ParkedReviewed(saved'),
           row' = "awaiting_approval" => REVIEW \in saved'.visited,
           signed' \subseteq Copies, signed \subseteq signed',
           s.approver = "user" => Copy(s) \in signed',
           saved'.approver = "user" => REVIEW \in saved'.visited /\ Copy(saved') \in signed',
           UNCHANGED <<runtime, row, sent>>
    PROVE  AgentInv'
<1> DEFINE given == IF resuming /\ runtime = "langgraph" /\ s.outcome = "awaiting_approval"
                    THEN [s EXCEPT !.outcome = "running"]
                    ELSE s
<1>0. /\ TypeOK /\ NodesBefore /\ GateOpens /\ ApprovedIsBehindGate
      /\ SavedIsBehind /\ ExportIsNew /\ PublishedWasApproved
  BY DEF AgentInv
<1>1. /\ drives < MaxDrives /\ drives' = drives + 1
      /\ resume' = resuming
      /\ Continue(given, 1, resuming)
  BY DEF Begin
<1>2. s \in AgentState /\ Keeps(s, s) /\ Keeps([s EXCEPT !.outcome = "running"], s)
  BY Exits DEF Restored, Keeps
<1>3. Keeps(given, s) /\ given.outcome \in {"running", s.outcome}
  BY <1>2 DEF AgentState
<1> HIDE DEF given
<1>4. given \in AgentState /\ 1 \in 1..END
  BY <1>3 DEF Keeps
<1>5. /\ Keeps(st', given)
      /\ st'.outcome = "awaiting_approval" => given.outcome = "awaiting_approval"
      /\ pc' \in Nodes \union {END}
      /\ pc' \in Nodes =>
           /\ pc' >= 1
           /\ 1..(pc' - 1) \subseteq given.visited
           /\ resuming => \/ pc' \notin given.visited
                          \/ pc' = GENERATE /\ REVIEW \notin given.visited
           /\ ~resuming => pc' = 1
  <2>1. Continue(given, 1, resuming)
    BY <1>1
  <2>2. given \in AgentState /\ 1 \in 1..END /\ resuming \in BOOLEAN
    BY <1>4
  <2> QED
    BY <2>1, <2>2, ContinueEffect
<1>6. /\ st' \in AgentState /\ st'.visited = s.visited /\ st'.approver = s.approver
      /\ Copy(st') = Copy(s)
  BY <1>3, <1>5 DEF Keeps
<1>7. pc' \in Nodes =>
        /\ 1..(pc' - 1) \subseteq s.visited
        /\ resuming => \/ pc' \notin s.visited
                       \/ pc' = GENERATE /\ REVIEW \notin s.visited
        /\ ~resuming => pc' = 1
  BY <1>3, <1>5 DEF Keeps
<1>8. st'.outcome = "awaiting_approval" => REVIEW \in s.visited
  BY <1>3, <1>5 DEF Restored, ParkedReviewed
<1>9. drives' \in 1..MaxDrives
  BY <1>0, <1>1, CapsAssumption DEF TypeOK
<1>10. TypeOK'
  BY <1>0, <1>1, <1>5, <1>6, <1>9 DEF TypeOK
<1>11. NodesBefore'
  BY <1>6, <1>7 DEF NodesBefore
<1>12. GateOpens'
  <2>1. ReviewedLast(s)
    BY DEF Restored
  <2>2. ReviewedLast(st')
    BY <1>6, <2>1 DEF ReviewedLast
  <2>3. st'.approver = "user" => REVIEW \in st'.visited /\ Copy(st') \in signed'
    BY <1>6 DEF Restored
  <2>4. ParkedReviewed(st')
    BY <1>6, <1>8 DEF ParkedReviewed
  <2> QED
    BY <2>2, <2>3, <2>4 DEF GateOpens, ReviewedLast, SignedCopy, ParkedReviewed
<1>13. ApprovedIsBehindGate'
  <2> SUFFICES ASSUME s.approver = "user"
               PROVE  resuming /\ (pc' \in Nodes => pc' > REVIEW)
    BY <1>1, <1>6 DEF ApprovedIsBehindGate
  <2>1. resuming /\ REVIEW \in s.visited /\ 1..REVIEW \subseteq s.visited
    BY DEF Restored, ReviewedLast
  <2> QED
    BY <1>7, <2>1
<1>14. SavedIsState'
  BY <1>5 DEF SavedIsState
<1>15. SavedIsBehind'
  BY <1>6, <1>9 DEF SavedIsBehind
<1>16. ExportIsNew'
  BY <1>1, <1>6, <1>7 DEF ExportIsNew, Restored
<1>17. PublishedWasApproved'
  BY <1>0 DEF PublishedWasApproved
<1> QED
  BY <1>10, <1>11, <1>12, <1>13, <1>14, <1>15, <1>16, <1>17 DEF AgentInv

(* The empty state.                                                         *)
LEMMA NewState ==
    /\ new_state \in AgentState
    /\ new_state.visited = {} /\ new_state.approver = "none"
    /\ new_state.outcome = "running"
BY CapsAssumption DEF new_state, AgentState

(* A fresh run starts inside the invariant.                                 *)
LEMMA AgentInvInit == Init => AgentInv
<1> SUFFICES ASSUME Init PROVE AgentInv
  OBVIOUS
<1>1. st = new_state /\ saved = new_state /\ pc = IDLE
  BY DEF Init
<1>2. TypeOK
  <2>1. /\ runtime \in Runtimes /\ st \in AgentState /\ saved \in AgentState
        /\ pc \in Nodes \union {IDLE, END, SAVED}
        /\ row \in {"queued", "running", "awaiting_approval", "closed"}
        /\ signed \subseteq Copies /\ sent \subseteq Copies
    BY NewState DEF Init
  <2>2. drives \in 0..MaxDrives
    BY CapsAssumption DEF Init
  <2>3. resume \in BOOLEAN
    BY DEF Init
  <2> QED
    BY <2>1, <2>2, <2>3 DEF TypeOK
<1>3. GateOpens
  BY <1>1, NewState DEF Init, GateOpens, ReviewedLast, SignedCopy, ParkedReviewed
<1>4. ApprovedIsBehindGate
  BY <1>1, NewState DEF ApprovedIsBehindGate
<1>5. NodesBefore /\ SavedIsState /\ SavedIsBehind /\ ExportIsNew
  BY <1>1 DEF NodesBefore, SavedIsState, SavedIsBehind, ExportIsNew
<1>6. PublishedWasApproved
  BY DEF Init, PublishedWasApproved
<1> QED
  BY <1>2, <1>3, <1>4, <1>5, <1>6 DEF AgentInv

(* A first drive begins from the empty state.                               *)
LEMMA StartKeepsInv == ASSUME AgentInv, Start PROVE AgentInv'
<1>1. /\ Begin(new_state, FALSE)
      /\ UNCHANGED <<runtime, saved, row, signed, sent>>
  BY DEF Start
<1>2. saved = new_state
  BY DEF Start, AgentInv, SavedIsBehind
<1>3. Restored(new_state, FALSE)
  BY NewState DEF Restored, ReviewedLast, ParkedReviewed
<1>4. ReviewedLast(new_state) /\ ParkedReviewed(new_state)
  BY <1>3 DEF Restored
<1>5. row # "awaiting_approval" /\ signed \subseteq Copies
  BY <1>2, NewState DEF AgentInv, TypeOK, GateOpens
<1> QED
  BY <1>1, <1>2, <1>3, <1>4, <1>5, NewState, BeginKeepsInv

(* A resume begins from the checkpoint, with whatever approval it carries.  *)
LEMMA ResumeKeepsInv == ASSUME AgentInv, Resume PROVE AgentInv'
<1>1. /\ row \in {"queued", "running"}
      /\ Begin(saved, TRUE)
      /\ UNCHANGED <<runtime, saved, row, signed, sent>>
  BY DEF Resume
<1>2. /\ saved \in AgentState /\ signed \subseteq Copies
      /\ ReviewedLast(saved) /\ ParkedReviewed(saved) /\ SignedCopy(saved)
  BY DEF AgentInv, TypeOK, GateOpens
<1>3. Restored(saved, TRUE)
  BY <1>2 DEF Restored, SignedCopy
<1> QED
  BY <1>1, <1>2, <1>3, BeginKeepsInv DEF SignedCopy

(* The approval signs the very copy the drive is begun with.                *)
LEMMA ApproveKeepsInv == ASSUME AgentInv, Approve PROVE AgentInv'
<1> DEFINE s == [saved EXCEPT !.approver = "user"]
<1>1. /\ row = "awaiting_approval"
      /\ saved' = s
      /\ signed' = signed \union {Copy(saved)}
      /\ Begin(s, TRUE)
      /\ UNCHANGED <<runtime, row, sent>>
  BY DEF Approve
<1>2. /\ saved \in AgentState /\ signed \subseteq Copies
      /\ ReviewedLast(saved) /\ ParkedReviewed(saved)
      /\ REVIEW \in saved.visited
  BY <1>1 DEF AgentInv, TypeOK, GateOpens
<1>3. /\ s \in AgentState /\ s.visited = saved.visited /\ s.outcome = saved.outcome
      /\ Copy(s) = Copy(saved)
  BY <1>2 DEF AgentState, Copy
<1>4. Copy(saved) \in Copies
  BY <1>2 DEF AgentState, Copy, Copies
<1> HIDE DEF s
<1>5. ReviewedLast(s) /\ ParkedReviewed(s)
  BY <1>2, <1>3 DEF ReviewedLast, ParkedReviewed
<1>6. Restored(s, TRUE)
  BY <1>2, <1>3, <1>5 DEF Restored
<1>7. /\ signed' \subseteq Copies /\ signed \subseteq signed'
      /\ Copy(s) \in signed' /\ REVIEW \in s.visited
  BY <1>1, <1>2, <1>3, <1>4
<1> QED
  BY <1>1, <1>3, <1>5, <1>6, <1>7, BeginKeepsInv

(* What the executor does between drives moves no copy past the gate.       *)
LEMMA BetweenDrivesKeepsInv ==
    ASSUME AgentInv, Reject \/ Checkpoint \/ Settle \/ Die PROVE AgentInv'
<1>0. /\ TypeOK /\ NodesBefore /\ GateOpens /\ ApprovedIsBehindGate /\ SavedIsState
      /\ SavedIsBehind /\ ExportIsNew /\ PublishedWasApproved
  BY DEF AgentInv
<1> USE DEF NodesBefore, ApprovedIsBehindGate, SavedIsState, SavedIsBehind, ExportIsNew
<1>1. CASE Reject
  <2>1. /\ pc' = IDLE /\ row' = "closed"
        /\ UNCHANGED <<runtime, st, saved, resume, drives, signed, sent>>
    BY <1>1 DEF Reject
  <2>2. TypeOK' /\ PublishedWasApproved'
    BY <1>0, <2>1 DEF TypeOK, PublishedWasApproved
  <2>3. GateOpens'
    BY <1>0, <2>1 DEF GateOpens, ReviewedLast, SignedCopy, ParkedReviewed
  <2> QED
    BY <1>0, <2>1, <2>2, <2>3 DEF AgentInv
<1>2. CASE Checkpoint
  <2>1. /\ pc = END /\ pc' = SAVED /\ row' = "running" /\ saved' = st
        /\ UNCHANGED <<runtime, st, resume, drives, signed, sent>>
    BY <1>2 DEF Checkpoint
  <2>2. TypeOK' /\ PublishedWasApproved'
    BY <1>0, <2>1 DEF TypeOK, PublishedWasApproved
  <2>3. GateOpens'
    BY <1>0, <2>1 DEF GateOpens, ReviewedLast, SignedCopy, ParkedReviewed
  <2> QED
    BY <1>0, <2>1, <2>2, <2>3 DEF AgentInv
<1>3. CASE Settle
  <2>1. /\ pc = SAVED /\ pc' = IDLE /\ row' \in {"awaiting_approval", "closed"}
        /\ row' = "awaiting_approval" => st.outcome = "awaiting_approval"
        /\ UNCHANGED <<runtime, st, saved, resume, drives, signed, sent>>
    BY <1>3 DEF Settle, Park, Finish
  <2>2. TypeOK' /\ PublishedWasApproved'
    BY <1>0, <2>1 DEF TypeOK, PublishedWasApproved
  <2>3. row' = "awaiting_approval" => REVIEW \in saved.visited
    BY <1>0, <2>1 DEF GateOpens, ParkedReviewed
  <2>4. GateOpens'
    BY <1>0, <2>1, <2>3 DEF GateOpens, ReviewedLast, SignedCopy, ParkedReviewed
  <2> QED
    BY <1>0, <2>1, <2>2, <2>4 DEF AgentInv
<1>4. CASE Die
  <2>1. /\ pc' = IDLE /\ st' = new_state
        /\ UNCHANGED <<runtime, saved, resume, row, drives, signed, sent>>
    BY <1>4 DEF Die
  <2>2. TypeOK' /\ PublishedWasApproved'
    BY <1>0, <2>1, NewState DEF TypeOK, PublishedWasApproved
  <2>3. GateOpens'
    BY <1>0, <2>1, NewState DEF GateOpens, ReviewedLast, SignedCopy, ParkedReviewed
  <2> QED
    BY <1>0, <2>1, <2>2, <2>3, NewState DEF AgentInv
<1> QED
  BY <1>1, <1>2, <1>3, <1>4

(* The invariant is inductive.                                              *)
LEMMA AgentInvNext == AgentInv /\ [Next]_vars => AgentInv'
<1> SUFFICES ASSUME AgentInv, [Next]_vars PROVE AgentInv'
  OBVIOUS
<1>1. CASE DriveStep
  BY <1>1, DriveStepKeepsInv
<1>2. CASE Start
  BY <1>2, StartKeepsInv
<1>3. CASE Resume
  BY <1>3, ResumeKeepsInv
<1>4. CASE Approve
  BY <1>4, ApproveKeepsInv
<1>5. CASE Reject \/ Checkpoint \/ Settle \/ Die
  BY <1>5, BetweenDrivesKeepsInv
<1>6. CASE UNCHANGED vars
  <2>1. /\ runtime' = runtime /\ st' = st /\ saved' = saved /\ pc' = pc
        /\ resume' = resume /\ row' = row /\ drives' = drives /\ signed' = signed
        /\ sent' = sent
    BY <1>6 DEF vars
  <2>2. TypeOK'
    BY <2>1 DEF AgentInv, TypeOK
  <2> QED
    BY <2>1, <2>2
    DEF AgentInv, NodesBefore, GateOpens, ReviewedLast, SignedCopy, ParkedReviewed,
        ApprovedIsBehindGate, SavedIsState, SavedIsBehind, ExportIsNew, PublishedWasApproved
<1> QED
  BY <1>1, <1>2, <1>3, <1>4, <1>5, <1>6 DEF Next

\* The copy the parked checkpoint shows: what Gate reads as shown.
Shown == IF row = "awaiting_approval" THEN {Copy(saved)} ELSE {}

(* Every step is one of the gate's, or one the gate does not see.           *)
LEMMA GateStep ==
    ASSUME AgentInv, [Next]_vars
    PROVE  Gate!Next \/ (Shown' = Shown /\ signed' = signed /\ sent' = sent)
<1>0. TypeOK /\ GateOpens /\ SavedIsState
  BY DEF AgentInv
<1> USE DEF Shown
<1> DEFINE Stutter == Shown' = Shown /\ signed' = signed /\ sent' = sent
<1>1. CASE DriveStep
  <2>1. SendsSigned /\ row' = row /\ saved' = saved /\ signed' = signed
    BY <1>0, <1>1, DriveStepEffect DEF rest, AgentInv
  <2>2. Shown' = Shown
    BY <2>1
  <2>3. CASE sent' = sent
    BY <2>1, <2>2, <2>3
  <2>4. CASE st.approver # "none" /\ sent' = sent \union {Copy(st)}
    <3>1. Copy(st) \in signed
      BY <1>0, <2>4 DEF TypeOK, AgentState, GateOpens, SignedCopy
    <3>2. Gate!Publish
      BY <2>1, <2>2, <2>4, <3>1 DEF Gate!Publish
    <3> QED
      BY <3>2 DEF Gate!Next
  <2> QED
    BY <2>1, <2>3, <2>4 DEF SendsSigned
<1>2. CASE Start \/ Resume \/ Die \/ UNCHANGED vars
  BY <1>2 DEF Start, Resume, Die, vars
<1>3. CASE Approve
  <2>1. /\ row = "awaiting_approval" /\ row' = row /\ sent' = sent
        /\ saved' = [saved EXCEPT !.approver = "user"]
        /\ signed' = signed \union {Copy(saved)}
    BY <1>3 DEF Approve
  <2>2. Copy(saved') = Copy(saved)
    BY <1>0, <2>1 DEF TypeOK, AgentState, Copy
  <2>3. Gate!Sign
    BY <2>1, <2>2 DEF Gate!Sign
  <2> QED
    BY <2>3 DEF Gate!Next
<1>4. CASE Reject \/ Checkpoint
  <2>1. row' # "awaiting_approval" /\ signed' = signed /\ sent' = sent
    BY <1>4 DEF Reject, Checkpoint
  <2>2. CASE row = "awaiting_approval"
    BY <2>1, <2>2 DEF Gate!Withdraw, Gate!Next
  <2>3. CASE row # "awaiting_approval"
    BY <2>1, <2>3
  <2> QED
    BY <2>2, <2>3
<1>5. CASE Settle
  <2>1. /\ row # "awaiting_approval" /\ saved' = saved
        /\ signed' = signed /\ sent' = sent
    BY <1>0, <1>5 DEF Settle, SavedIsState
  <2>2. CASE row' = "awaiting_approval"
    BY <2>1, <2>2 DEF Gate!Show, Gate!Next
  <2>3. CASE row' # "awaiting_approval"
    BY <2>1, <2>3
  <2> QED
    BY <2>2, <2>3
<1> QED
  BY <1>1, <1>2, <1>3, <1>4, <1>5 DEF Next

-----------------------------------------------------------------------------

(* Every state the machine can reach is inside the invariant.               *)
THEOREM AgentInvariant == Spec => []AgentInv
<1> QED
  BY AgentInvInit, AgentInvNext, PTL DEF Spec

(* The state keeps its shape, and no cap is ever exceeded.                  *)
THEOREM AgentTypeCorrect == Spec => []TypeOK
<1>1. AgentInv => TypeOK
  BY DEF AgentInv
<1> QED
  BY <1>1, AgentInvariant, PTL

(* Only what a human was shown and approved leaves, whatever the caps, the  *)
(* crashes and the number of resumes.                                       *)
THEOREM OnlyApprovedIsPublished == Spec => []PublishedWasApproved
<1>1. AgentInv => PublishedWasApproved
  BY DEF AgentInv
<1> QED
  BY <1>1, AgentInvariant, PTL

(* A run whose checkpoint records the export never enters it again.         *)
THEOREM ExportIsNotRepeated == Spec => []ExportedOnceCheckpointed
<1>1. AgentInv => ExportedOnceCheckpointed
  BY DEF AgentInv, SavedIsBehind, ExportIsNew, ExportedOnceCheckpointed
<1> QED
  BY <1>1, AgentInvariant, PTL

(* The machine implements the human gate: nothing is signed that is not     *)
(* shown, and nothing is sent that is not signed.                           *)
THEOREM GateIsImplemented == Spec => ImplementsGate
<1>1. Init => Gate!Init
  BY DEF Init, Gate!Init
<1>2. AgentInv /\ [Next]_vars => [Gate!Next]_<<Shown, signed, sent>>
  BY GateStep
<1> QED
  BY <1>1, <1>2, AgentInvariant, PTL DEF Spec, ImplementsGate, Gate!Spec, Shown

-----------------------------------------------------------------------------
(* What a drive that was not a resume brings to REVIEW.                     *)

Judged(s) == s.judged = Text(s) /\ s.claims = "clean" /\ s.seo = "pass"

\* Until VALIDATE lets the text through, the verdict on record -- none yet, or that of an
\* earlier loop's draft -- is one that sends it back; from there on it is about this text.
VerdictStands ==
    ~resume =>
        /\ st.seo # "none" => st.claims # "unchecked"
        /\ pc \in 1..VALIDATE => weak_verdict(st)
        /\ pc \in REPACK..LAST => Judged(st)
        /\ REVIEW \in st.visited => Judged(st)

-----------------------------------------------------------------------------
(* What an approved drive has left to spend.                                *)

\* The steps a run may have behind it when REVIEW parks it: one per node and three for every
\* retry -- or a single retry, of GENERATE alone, where a resume skips what was visited.
StepsAtGate == {REVIEW + 3 * k : k \in 0..MaxLoops} \union {REVIEW + 1}

\* No cap lets a run through the gate and then stops it before its last node.
RoomBehindGate == \A c \in StepsAtGate : c <= MaxSteps => c + (LAST - REVIEW) <= MaxSteps

\* A state no cap and no exit had a part in: parked with the steps left for what follows the
\* gate, complete, or the empty state of a run that has no checkpoint.
Provisioned(s) ==
    s.reason = "none" =>
        \/ /\ s.outcome = "awaiting_approval" /\ s.visited = 1..REVIEW
           /\ s.steps + (LAST - REVIEW) <= MaxSteps
        \/ s.outcome = "done" /\ s.visited = Nodes
        \/ s = new_state

\* Before the gate, what the steps so far went to.
Spent ==
    \/ /\ st.steps = pc - 1 + 3 * st.loops
       /\ resume => st.loops = 0 /\ st.visited = 1..(pc - 1)
    \/ /\ resume /\ st.loops > 0 /\ 1..VALIDATE \subseteq st.visited
       /\ pc \in {GENERATE, REPACK, REVIEW}
       /\ st.steps = IF pc = GENERATE THEN VALIDATE ELSE pc
       /\ st.visited = IF pc = GENERATE THEN 1..VALIDATE ELSE 1..(pc - 1)

\* A drive no cap or exit has touched: not yet at the gate, or on its way from there.
Underway ==
    /\ st.reason = "none"
    /\ pc <= REVIEW => REVIEW \notin st.visited /\ st.outcome = "running" /\ Spent
    /\ pc > REVIEW =>
          /\ st.visited = 1..(pc - 1) /\ st.steps + (END - pc) <= MaxSteps
          /\ runtime = "langgraph" => st.outcome = "running"

Provision ==
    /\ Provisioned(saved)
    /\ pc \in {END, SAVED} => Provisioned(st)
    /\ pc # IDLE /\ saved.reason # "none" => st.reason # "none"
    /\ pc \in Nodes /\ saved.reason = "none" => Underway
    /\ ApprovedRunFinishes

-----------------------------------------------------------------------------
(* What a node leaves, as far as the verdicts and the budget go.            *)

\* Node n has run: its step is counted, and it touched only what is its own.
Wrote(s, n) ==
    /\ s \in AgentState
    /\ s.visited = st.visited \union {n}
    /\ s.steps = st.steps + 1
    /\ s.loops = st.loops /\ s.reason = st.reason
    /\ s.outcome = st.outcome /\ s.approver = st.approver
    /\ n \notin {GENERATE, CONVERT} => Text(s) = Text(st)
    /\ \/ s.claims = st.claims /\ s.seo = st.seo /\ s.judged = st.judged
       \/ /\ n = VALIDATE /\ s.judged = Text(st)
          /\ s.claims \in {"clean", "banned"} /\ s.seo \in {"pass", "weak"}

\* A drive that could not pay for its next step, or for the model call before the gate.
Refused ==
    /\ pc' = END
    /\ \E s \in AgentState, cap \in {"max_steps", "max_usd"} :
          /\ st' = cap_exit(s, cap)
          /\ \/ s = st /\ ~CanStep(st)
             \/ Wrote(s, pc) /\ pc < REVIEW

(* Counting a step leaves the rest alone.                                   *)
LEMMA StepWrote ==
    ASSUME TypeOK, NEW n \in Nodes, CanStep(st)
    PROVE  Wrote(step(st, n), n)
<1>1. st \in AgentState /\ step(st, n) \in AgentState
  BY StepRan DEF TypeOK, Ran
<1> QED
  BY <1>1 DEF Wrote, step, Text, AgentState

(* A step of a drive is a node that ran and was routed on, or a refusal.    *)
LEMMA DriveStepIs ==
    ASSUME TypeOK, DriveStep
    PROVE  /\ pc \in Nodes /\ UNCHANGED rest
           /\ Refused \/ \E s : Wrote(s, pc) /\ Route(s, pc)
<1> DEFINE Goal == Refused \/ \E s : Wrote(s, pc) /\ Route(s, pc)
<1>0. pc \in Nodes /\ UNCHANGED rest
  BY DriveStepEffect
<1>1. ASSUME NEW n \in Nodes, Enter(n) PROVE n = pc /\ CanStep(st) /\ Wrote(step(st, n), n)
  BY <1>1, StepWrote DEF Enter
<1>2. ASSUME NEW n \in Nodes, Enter(n), NEW s, Wrote(s, n), Route(s, n) PROVE Goal
  BY <1>2 DEF Enter
<1>3. ASSUME NEW n \in Nodes, n < REVIEW, Enter(n), NEW s, Wrote(s, n), NEW usd \in Charges,
             Charge(n, s, usd)
      PROVE  Goal
  <2>1. CASE CanCharge(s, usd)
    <3> DEFINE t == [s EXCEPT !.cost = @ + usd]
    <3>1. s \in AgentState
      BY <1>3 DEF Wrote
    <3>2. s.cost + usd \in 0..MaxUsd
      BY <2>1, <3>1, CapsAssumption DEF CanCharge, AgentState
    <3>3. t \in AgentState
      BY <3>1, <3>2 DEF AgentState
    <3>4. Wrote(t, n)
      BY <1>3, <3>1, <3>3 DEF Wrote, AgentState, Text
    <3>5. Route(t, n)
      BY <1>3, <2>1 DEF Charge
    <3> HIDE DEF t
    <3> QED
      BY <1>2, <1>3, <3>4, <3>5
  <2>2. CASE ~CanCharge(s, usd)
    <3>1. PICK d : Wrote(d, n) /\ Return(cap_exit(d, "max_usd"))
      BY <1>1, <1>3, <2>2 DEF Charge
    <3>2. d \in AgentState /\ pc' = END /\ st' = cap_exit(d, "max_usd") /\ n = pc
      BY <1>3, <3>1 DEF Wrote, Return, Enter
    <3>3. Refused
      BY <1>3, <3>1, <3>2 DEF Refused
    <3> QED
      BY <3>3
  <2> QED
    BY <2>1, <2>2
<1>4. Stamp \in Nat
  BY CapsAssumption DEF Stamp, TypeOK, AgentState
<1> SUFFICES Goal
  BY <1>0
<1> HIDE DEF Goal
<1>5. CASE StepRefused
  <2>1. st \in AgentState /\ ~CanStep(st) /\ st' = cap_exit(st, "max_steps") /\ pc' = END
    BY <1>5 DEF StepRefused, Return, TypeOK
  <2> QED
    BY <2>1 DEF Goal, Refused
<1>6. CASE NodeCrash
  <2>1. PICK n \in Nodes \ {REVIEW} :
          /\ Enter(n)
          /\ Route(IF n = OPPORTUNITY
                   THEN [step(st, n) EXCEPT !.topicFailed = TRUE]
                   ELSE step(st, n), n)
    BY <1>6 DEF NodeCrash
  <2>2. Wrote(step(st, n), n)
    BY <1>1, <2>1
  <2>3. Wrote([step(st, n) EXCEPT !.topicFailed = TRUE], n)
    BY <2>2 DEF Wrote, AgentState, Text
  <2>4. CASE n = OPPORTUNITY
    BY <1>2, <2>1, <2>3, <2>4
  <2>5. CASE n # OPPORTUNITY
    BY <1>2, <2>1, <2>2, <2>5
  <2> QED
    BY <2>4, <2>5
<1>7. CASE Gather
  BY <1>1, <1>2, <1>7 DEF Gather
<1>8. CASE Opportunity
  <2>1. PICK found \in BOOLEAN, usd \in Charges :
          Charge(OPPORTUNITY, [step(st, OPPORTUNITY) EXCEPT !.topic = found], usd)
    BY <1>8 DEF Opportunity
  <2>2. Wrote([step(st, OPPORTUNITY) EXCEPT !.topic = found], OPPORTUNITY)
    BY <1>1, <1>8 DEF Opportunity, Wrote, AgentState, Text
  <2> QED
    BY <1>3, <1>8, <2>1, <2>2 DEF Opportunity
<1>9. CASE Plan
  BY <1>1, <1>3, <1>9 DEF Plan
<1>10. CASE Generate
  <2>1. Wrote([step(st, GENERATE) EXCEPT !.draft = Stamp], GENERATE)
    BY <1>1, <1>4, <1>10 DEF Generate, Wrote, AgentState, Text
  <2> QED
    BY <1>3, <1>10, <2>1 DEF Generate
<1>11. CASE Convert
  <2>1. Wrote([step(st, CONVERT) EXCEPT !.asks = Stamp], CONVERT)
    BY <1>1, <1>4, <1>11 DEF Convert, Wrote, AgentState, Text
  <2> QED
    BY <1>3, <1>11, <2>1 DEF Convert
<1>12. CASE Validate
  <2>1. PICK c \in {"clean", "banned"}, q \in {"pass", "weak"} :
          Route([step(st, VALIDATE) EXCEPT !.claims = c, !.seo = q, !.judged = Text(st)],
                VALIDATE)
    BY <1>12 DEF Validate
  <2>2. Enter(VALIDATE) /\ Wrote(step(st, VALIDATE), VALIDATE)
    BY <1>1, <1>12 DEF Validate
  <2>3. Text(st) \in [draft : Stamps, asks : Stamps]
    BY DEF Text, TypeOK, AgentState
  <2>4. ASSUME NEW s, Wrote(s, VALIDATE), NEW text, text = Text(st),
               text \in [draft : Stamps, asks : Stamps]
        PROVE  Wrote([s EXCEPT !.claims = c, !.seo = q, !.judged = text], VALIDATE)
    <3> DEFINE t == [s EXCEPT !.claims = c, !.seo = q, !.judged = text]
    <3>1. s \in AgentState
      BY <2>4 DEF Wrote
    <3>2. /\ t \in AgentState /\ t.visited = s.visited /\ t.steps = s.steps
          /\ t.loops = s.loops /\ t.reason = s.reason /\ t.outcome = s.outcome
          /\ t.approver = s.approver /\ t.judged = text /\ t.claims = c /\ t.seo = q
          /\ t.draft = s.draft /\ t.asks = s.asks
      BY <2>4, <3>1 DEF AgentState
    <3> HIDE DEF t
    <3>3. Text(t) = Text(s)
      BY <3>2 DEF Text
    <3>4. Wrote(t, VALIDATE)
      BY <2>4, <3>2, <3>3 DEF Wrote
    <3> QED
      BY <3>4 DEF t
  <2>5. Wrote([step(st, VALIDATE) EXCEPT !.claims = c, !.seo = q, !.judged = Text(st)], VALIDATE)
    BY <2>2, <2>3, <2>4
  <2> QED
    BY <1>2, <2>1, <2>2, <2>5
<1>13. CASE Repack
  <2>1. PICK usd \in Charges, p \in {0, Stamp} :
          Charge(REPACK, [step(st, REPACK) EXCEPT !.posts = p], usd)
    BY <1>13 DEF Repack
  <2>2. Wrote([step(st, REPACK) EXCEPT !.posts = p], REPACK)
    BY <1>1, <1>4, <1>13 DEF Repack, Wrote, AgentState, Text
  <2> QED
    BY <1>3, <1>13, <2>1, <2>2 DEF Repack
<1>14. CASE Review
  BY <1>1, <1>2, <1>14 DEF Review
<1>15. CASE Export
  BY <1>1, <1>2, <1>15 DEF Export
<1> QED
  BY <1>5, <1>6, <1>7, <1>8, <1>9, <1>10, <1>11, <1>12, <1>13, <1>14, <1>15 DEF DriveStep

\* t is s with another end, its texts, verdicts and spending untouched.
Ended(t, s) ==
    /\ t.visited = s.visited /\ t.approver = s.approver /\ t.steps = s.steps
    /\ Text(t) = Text(s)
    /\ t.claims = s.claims /\ t.seo = s.seo /\ t.judged = s.judged

(* An exit names its reason and changes nothing else but the outcome.       *)
LEMMA ExitsAreNamed ==
    ASSUME NEW s \in AgentState
    PROVE  /\ \A cap \in {"max_steps", "max_usd"} :
                 Ended(cap_exit(s, cap), s) /\ cap_exit(s, cap).reason # "none"
           /\ Ended(opportunity_exit(s), s) /\ opportunity_exit(s).reason # "none"
           /\ Ended(validate_exit(s), s) /\ validate_exit(s).reason # "none"
           /\ Ended([s EXCEPT !.outcome = "awaiting_approval"], s)
           /\ Ended(Finished(s), s) /\ Finished(s).reason = s.reason
           /\ Ended(enter_validate_loop(s), s) /\ enter_validate_loop(s).reason = s.reason
           /\ enter_validate_loop(s).loops = s.loops + 1
<1> USE DEF Ended, AgentState, Text
<1>1. \A cap \in {"max_steps", "max_usd"} :
          Ended(cap_exit(s, cap), s) /\ cap_exit(s, cap).reason # "none"
  BY DEF cap_exit
<1>2. Ended(opportunity_exit(s), s) /\ opportunity_exit(s).reason # "none"
  BY DEF opportunity_exit
<1>3. Ended(validate_exit(s), s) /\ validate_exit(s).reason # "none"
  BY DEF validate_exit
<1>4. Ended([s EXCEPT !.outcome = "awaiting_approval"], s)
  OBVIOUS
<1>5. Ended(Finished(s), s) /\ Finished(s).reason = s.reason
  BY DEF Finished
<1>6. /\ Ended(enter_validate_loop(s), s) /\ enter_validate_loop(s).reason = s.reason
      /\ enter_validate_loop(s).loops = s.loops + 1
  BY DEF enter_validate_loop
<1> QED
  BY <1>1, <1>2, <1>3, <1>4, <1>5, <1>6

(* Carrying on stops at the first node with work, or ends the run.          *)
LEMMA ContinueIs ==
    ASSUME NEW s, NEW n \in 1..END, NEW resuming \in BOOLEAN, Continue(s, n, resuming)
    PROVE  \/ \E m \in n..LAST : /\ pc' = m /\ st' = s /\ Runs(s, m, resuming)
                                 /\ \A k \in n..(m - 1) : ~Runs(s, k, resuming)
           \/ /\ pc' = END /\ st' = Finished(s)
              /\ \A k \in n..LAST : ~Runs(s, k, resuming)
<1> DEFINE next == next_unvisited(s, n, resuming)
<1>1. /\ next \in n..END
      /\ next = END \/ Runs(s, next, resuming)
      /\ \A k \in n..(next - 1) : ~Runs(s, k, resuming)
  BY NextUnvisited
<1> HIDE DEF next
<1>2. CASE next = END
  <2>1. st' = Finished(s) /\ pc' = END
    BY <1>2 DEF Continue, Return, next
  <2> QED
    BY <1>1, <1>2, <2>1
<1>3. CASE next # END
  <2>1. st' = s /\ pc' = next
    BY <1>3 DEF Continue, next
  <2> QED
    BY <1>1, <1>3, <2>1
<1> QED
  BY <1>2, <1>3

(* The first node with work is n itself when n has some.                    *)
LEMMA WorkAtOnce ==
    ASSUME NEW s, NEW n \in Nodes, NEW resuming \in BOOLEAN, Continue(s, n, resuming),
           Runs(s, n, resuming)
    PROVE  pc' = n /\ st' = s
<1>1. n \in 1..LAST /\ n \in n..LAST /\ n \in 1..END
  OBVIOUS
<1>2. PICK m \in n..LAST : /\ pc' = m /\ st' = s
                           /\ \A k \in n..(m - 1) : ~Runs(s, k, resuming)
  BY <1>1, ContinueIs
<1>3. m > n => n \in n..(m - 1)
  BY <1>1
<1>4. m = n
  BY <1>1, <1>2, <1>3
<1> QED
  BY <1>2, <1>4

-----------------------------------------------------------------------------
(* The verdict stands, step by step.                                        *)

(* A node that is not VALIDATE leaves a weak verdict weak, and one behind   *)
(* VALIDATE leaves the text as it was judged.                               *)
LEMMA VerdictsCarry ==
    ASSUME NEW s, NEW n \in Nodes, Wrote(s, n)
    PROVE  /\ n # VALIDATE => (weak_verdict(s) <=> weak_verdict(st))
           /\ n > VALIDATE /\ Judged(st) => Judged(s)
           /\ n = VALIDATE /\ ~weak_verdict(s) /\ weak_verdict(st) => Judged(s)
           /\ (st.seo # "none" => st.claims # "unchecked") =>
                 (s.seo # "none" => s.claims # "unchecked")
BY DEF Wrote, Judged, weak_verdict, blocked_verdict

(* An end keeps both.                                                       *)
LEMMA EndsCarry ==
    ASSUME NEW s, NEW t, Ended(t, s)
    PROVE  /\ Judged(s) => Judged(t)
           /\ weak_verdict(t) <=> weak_verdict(s)
           /\ (s.seo # "none" => s.claims # "unchecked") =>
                 (t.seo # "none" => t.claims # "unchecked")
BY DEF Ended, Judged, weak_verdict, blocked_verdict

(* A step of a drive that was not a resume.                                 *)
LEMMA DriveStepKeepsVerdict == ASSUME AgentInv, VerdictStands, DriveStep PROVE VerdictStands'
<1> DEFINE n == pc
<1>0. TypeOK /\ ExportIsNew /\ st \in AgentState
  BY DEF AgentInv, TypeOK
<1>1. n \in Nodes /\ UNCHANGED rest /\ (Refused \/ \E s : Wrote(s, n) /\ Route(s, n))
  BY <1>0, DriveStepIs
<1> DEFINE Aim == /\ st'.seo # "none" => st'.claims # "unchecked"
                  /\ pc' \in 1..VALIDATE => weak_verdict(st')
                  /\ pc' \in REPACK..LAST => Judged(st')
                  /\ REVIEW \in st'.visited => Judged(st')
<1> SUFFICES ASSUME ~resume PROVE Aim
  BY <1>1 DEF VerdictStands, rest
<1>2. /\ st.seo # "none" => st.claims # "unchecked"
      /\ n <= VALIDATE => weak_verdict(st)
      /\ n > VALIDATE => Judged(st)
      /\ REVIEW \in st.visited => Judged(st) /\ n > VALIDATE
  BY <1>0, <1>1 DEF VerdictStands, ExportIsNew
<1> HIDE DEF n
<1>3. ASSUME NEW s, NEW t, Ended(t, s), Return(t),
             s.seo # "none" => s.claims # "unchecked", REVIEW \in s.visited => Judged(s)
      PROVE  Aim
  <2>1. t.visited = s.visited
    BY <1>3 DEF Ended
  <2>2. st' = t /\ pc' = END
    BY <1>3 DEF Return
  <2>3. (t.seo # "none" => t.claims # "unchecked") /\ (REVIEW \in t.visited => Judged(t))
    BY <1>3, <2>1, EndsCarry
  <2> QED
    BY <2>2, <2>3
<1> HIDE DEF Aim
<1>4. ASSUME NEW s, Wrote(s, n)
      PROVE  /\ s \in AgentState
             /\ s.seo # "none" => s.claims # "unchecked"
             /\ n < VALIDATE => weak_verdict(s)
             /\ n = VALIDATE => weak_verdict(s) \/ Judged(s)
             /\ n > VALIDATE => Judged(s)
             /\ REVIEW \in s.visited => n > VALIDATE /\ Judged(s)
  <2>1. s \in AgentState /\ s.visited = st.visited \union {n}
    BY <1>4 DEF Wrote
  <2> QED
    BY <1>1, <1>2, <1>4, <2>1, VerdictsCarry
<1>5. CASE Refused
  <2>1. PICK s \in AgentState, cap \in {"max_steps", "max_usd"} :
            Return(cap_exit(s, cap)) /\ (s = st \/ Wrote(s, n))
    BY <1>5 DEF Refused, Return, n
  <2>2. Ended(cap_exit(s, cap), s)
    BY ExitsAreNamed
  <2>3. s.seo # "none" => s.claims # "unchecked"
    BY <1>2, <1>4, <2>1
  <2>4. REVIEW \in s.visited => Judged(s)
    BY <1>2, <1>4, <2>1
  <2> QED
    BY <1>3, <2>1, <2>2, <2>3, <2>4
<1>6. CASE \E s : Wrote(s, n) /\ Route(s, n)
  <2>1. PICK s : Wrote(s, n) /\ Route(s, n)
    BY <1>6
  <2>2. /\ s \in AgentState
        /\ s.seo # "none" => s.claims # "unchecked"
        /\ n < VALIDATE => weak_verdict(s)
        /\ n = VALIDATE => weak_verdict(s) \/ Judged(s)
        /\ n > VALIDATE => Judged(s)
        /\ REVIEW \in s.visited => n > VALIDATE /\ Judged(s)
    BY <1>4, <2>1
  <2>0. Ended(s, s)
    BY DEF Ended
  <2>3. /\ Ended(s, s) /\ Ended(opportunity_exit(s), s) /\ Ended(validate_exit(s), s)
        /\ Ended(enter_validate_loop(s), s) /\ Ended(Finished(s), s)
        /\ Ended([s EXCEPT !.outcome = "awaiting_approval"], s)
    BY <2>0, <2>2, ExitsAreNamed
  <2>4. CASE Return(opportunity_exit(s))
    BY <1>3, <2>2, <2>3, <2>4
  <2>5. CASE Return(validate_exit(s))
    BY <1>3, <2>2, <2>3, <2>5
  <2>6. CASE n = VALIDATE /\ weak_verdict(s) /\ st' = enter_validate_loop(s) /\ pc' = GENERATE
    <3>1. Ended(st', s) /\ st'.visited = s.visited
      BY <2>3, <2>6 DEF Ended
    <3>2. st'.seo # "none" => st'.claims # "unchecked"
      BY <2>2, <3>1, EndsCarry
    <3>3. weak_verdict(st') /\ (REVIEW \in st'.visited => Judged(st'))
      BY <2>2, <2>6, <3>1, EndsCarry
    <3> QED
      BY <2>6, <3>2, <3>3 DEF Aim
  <2>7. CASE Return(enter_validate_loop(s))
    BY <1>3, <2>2, <2>3, <2>7
  <2>8. CASE Return([s EXCEPT !.outcome = "awaiting_approval"])
    BY <1>3, <2>2, <2>3, <2>8
  <2>9. CASE Return(s)
    BY <1>3, <2>2, <2>3, <2>9
  <2>10. CASE (n = VALIDATE => ~weak_verdict(s)) /\ Continue(s, n + 1, resume)
    <3>1. n + 1 \in 1..END /\ resume \in BOOLEAN
      BY <1>0, <1>1 DEF TypeOK, n
    <3>2. CASE n = LAST
      <4>1. pc' = END /\ st' = Finished(s)
        BY <2>10, <3>1, <3>2, ContinueIs
      <4> QED
        BY <1>3, <2>2, <2>3, <4>1 DEF Return
    <3>3. CASE n # LAST
      <4>1. n \in 1..LAST /\ n + 1 \in Nodes /\ Runs(s, n + 1, resume)
        BY <1>1, <3>3 DEF Runs
      <4>2. pc' = n + 1 /\ st' = s
        BY <2>10, <3>1, <4>1, WorkAtOnce
      <4>3. pc' \in 1..VALIDATE => n < VALIDATE
        BY <4>1, <4>2
      <4>4. pc' \in REPACK..LAST => n = VALIDATE \/ n > VALIDATE
        BY <4>1, <4>2
      <4>5. pc' \in REPACK..LAST => Judged(s)
        BY <2>2, <2>10, <4>4
      <4> QED
        BY <2>2, <4>2, <4>3, <4>5 DEF Aim
    <3> QED
      BY <3>2, <3>3
  <2> QED
    BY <2>1, <2>4, <2>5, <2>6, <2>7, <2>8, <2>9, <2>10 DEF Route
<1> QED
  BY <1>1, <1>5, <1>6

(* Every step keeps it: a drive begins with no verdict, or it resumes.      *)
LEMMA VerdictStandsNext == AgentInv /\ VerdictStands /\ [Next]_vars => VerdictStands'
<1> SUFFICES ASSUME AgentInv, VerdictStands, [Next]_vars PROVE VerdictStands'
  OBVIOUS
<1>1. CASE DriveStep
  BY <1>1, DriveStepKeepsVerdict
<1>2. CASE Start
  <2>1. resume' = FALSE /\ Continue(new_state, 1, FALSE)
    BY <1>2 DEF Start, Begin
  <2>2. 1 \in 1..END /\ 1 \in 1..LAST /\ Runs(new_state, 1, FALSE)
    BY DEF Runs
  <2>5. pc' = 1 /\ st' = new_state
    BY <2>1, <2>2, WorkAtOnce
  <2>6. ~resume' /\ st'.seo = "none" /\ st'.visited = {} /\ weak_verdict(st')
    BY <2>1, <2>5 DEF new_state, weak_verdict
  <2> QED
    BY <2>5, <2>6 DEF VerdictStands
<1>3. CASE Resume \/ Approve
  <2>1. resume' = TRUE
    BY <1>3 DEF Resume, Approve, Begin
  <2> QED
    BY <2>1 DEF VerdictStands
<1>4. CASE Reject \/ Checkpoint \/ Settle
  <2>1. st' = st /\ resume' = resume /\ pc' \notin Nodes
    BY <1>4 DEF Reject, Checkpoint, Settle
  <2> QED
    BY <2>1 DEF VerdictStands
<1>5. CASE Die
  BY <1>5, NewState DEF Die, VerdictStands, new_state
<1>6. CASE UNCHANGED vars
  BY <1>6 DEF vars, VerdictStands
<1> QED
  BY <1>1, <1>2, <1>3, <1>4, <1>5, <1>6 DEF Next

(* What a first drive shows the human is the draft and the asks its last    *)
(* verdicts are about, clean and passing, even when VALIDATE crashed in a   *)
(* later loop.                                                              *)
THEOREM ReviewShowsJudgedText == Spec => []FreshDriveReviewsJudgedText
<1>1. Init => VerdictStands
  BY DEF Init, VerdictStands, new_state
<1>2. VerdictStands => FreshDriveReviewsJudgedText
  BY DEF VerdictStands, FreshDriveReviewsJudgedText, Judged
<1> QED
  BY <1>1, <1>2, VerdictStandsNext, AgentInvariant, PTL DEF Spec

-----------------------------------------------------------------------------
(* An approved run finishes: nothing repeated, so the room is there.        *)

(* A drive that has named a reason keeps one.                               *)
LEMMA ReasonStays == ASSUME TypeOK, DriveStep, st.reason # "none" PROVE st'.reason # "none"
<1>1. pc \in Nodes /\ (Refused \/ \E s : Wrote(s, pc) /\ Route(s, pc))
  BY DriveStepIs
<1>2. CASE Refused
  BY <1>2, ExitsAreNamed DEF Refused
<1>3. CASE \E s : Wrote(s, pc) /\ Route(s, pc)
  <2>1. PICK s : Wrote(s, pc) /\ Route(s, pc)
    BY <1>3
  <2>2. s \in AgentState /\ s.reason # "none"
    BY <2>1 DEF Wrote
  <2>3. [s EXCEPT !.outcome = "awaiting_approval"].reason = s.reason
    BY <2>2 DEF AgentState
  <2>4. ASSUME Continue(s, pc + 1, resume) PROVE st'.reason # "none"
    <3>1. pc + 1 \in 1..END /\ resume \in BOOLEAN
      BY <1>1 DEF TypeOK
    <3>2. st' = s \/ st' = Finished(s)
      BY <2>4, <3>1, ContinueIs
    <3> QED
      BY <2>2, <3>2, ExitsAreNamed
  <2> QED
    BY <2>1, <2>2, <2>3, <2>4, ExitsAreNamed DEF Route, Return
<1> QED
  BY <1>1, <1>2, <1>3

(* Before the gate: a step goes on to the next node, goes back to GENERATE, *)
(* parks the run with the room it needs, or names why it stopped.           *)
LEMMA StepBeforeGate ==
    ASSUME AgentInv, RoomBehindGate, Underway, DriveStep, pc <= REVIEW
    PROVE  /\ st'.approver # "user"
           /\ pc' \in Nodes => Underway'
           /\ pc' = END => Provisioned(st')
<1> DEFINE n == pc
           Goal == /\ st'.approver # "user"
                   /\ pc' \in Nodes => Underway'
                   /\ pc' = END => Provisioned(st')
<1> SUFFICES Goal
  OBVIOUS
<1>0. TypeOK /\ NodesBefore /\ ApprovedIsBehindGate /\ ExportIsNew
  BY DEF AgentInv
<1>1. /\ n \in 1..REVIEW /\ UNCHANGED rest
      /\ Refused \/ \E s : Wrote(s, n) /\ Route(s, n)
  BY <1>0, DriveStepIs
<1>2. /\ st \in AgentState /\ st.reason = "none" /\ REVIEW \notin st.visited
      /\ st.outcome = "running" /\ Spent /\ st.approver # "user"
      /\ resume \in BOOLEAN /\ resume' = resume /\ MaxLoops \in Nat /\ MaxSteps \in Nat
  BY <1>0, <1>1, CapsAssumption DEF TypeOK, Underway, ApprovedIsBehindGate, rest
<1>3. st.steps \in Nat /\ st.loops \in Nat
  BY <1>2 DEF AgentState
<1> HIDE DEF n
<1>4. ASSUME pc' = END, st'.approver = st.approver, st'.reason # "none" PROVE Goal
  BY <1>2, <1>4 DEF Provisioned
<1> HIDE DEF Goal
<1>5. CASE Refused
  <2>1. PICK s \in AgentState, cap \in {"max_steps", "max_usd"} :
            pc' = END /\ st' = cap_exit(s, cap) /\ (s = st \/ Wrote(s, n))
    BY <1>5 DEF Refused, n
  <2>2. s.approver = st.approver
    BY <2>1 DEF Wrote
  <2>3. st'.approver = s.approver /\ st'.reason # "none"
    BY <2>1, ExitsAreNamed DEF Ended
  <2> QED
    BY <1>4, <2>1, <2>2, <2>3
<1>6. CASE \E s : Wrote(s, n) /\ Route(s, n)
  <2>1. PICK s : Wrote(s, n) /\ Route(s, n)
    BY <1>6
  <2>2. /\ s \in AgentState /\ s.visited = st.visited \union {n} /\ s.steps = st.steps + 1
        /\ s.loops = st.loops /\ s.reason = "none" /\ s.outcome = "running"
        /\ s.approver # "user" /\ s.approver = st.approver /\ ~Halted(s)
    BY <1>2, <2>1 DEF Wrote, Halted
  <2>3. s.steps \in 0..MaxSteps /\ s.loops \in 0..MaxLoops /\ s.visited \subseteq Nodes
    BY <2>2 DEF AgentState
  <2>4. CASE Return(opportunity_exit(s)) \/ Return(validate_exit(s))
    <3>1. pc' = END /\ (st' = opportunity_exit(s) \/ st' = validate_exit(s))
      BY <2>4 DEF Return
    <3>2. st'.approver = s.approver /\ st'.reason # "none"
      <4>1. /\ Ended(opportunity_exit(s), s) /\ opportunity_exit(s).reason # "none"
            /\ Ended(validate_exit(s), s) /\ validate_exit(s).reason # "none"
        BY <2>2, ExitsAreNamed
      <4> QED
        BY <3>1, <4>1 DEF Ended
    <3> QED
      BY <1>4, <2>2, <3>1, <3>2
  <2>5. CASE n = VALIDATE /\ st' = enter_validate_loop(s) /\ pc' = GENERATE
    <3>1. /\ st'.visited = s.visited /\ st'.steps = s.steps /\ st'.loops = s.loops + 1
          /\ st'.reason = s.reason /\ st'.approver = s.approver
      BY <2>2, <2>5, ExitsAreNamed DEF Ended
    <3>2. st'.outcome = s.outcome
      BY <2>2, <2>5 DEF enter_validate_loop, AgentState
    <3>3. /\ st.steps = n - 1 + 3 * st.loops
          /\ resume => st.loops = 0 /\ st.visited = 1..(n - 1)
      BY <1>2, <2>5 DEF Spent, n
    <3>4. st'.steps = 4 + 3 * st'.loops
      BY <1>3, <2>2, <2>5, <3>1, <3>3
    <3>5. resume => st'.loops = 1 /\ st'.steps = VALIDATE /\ st'.visited = 1..VALIDATE
      BY <2>2, <2>5, <3>1, <3>3
    <3>6. Spent'
      BY <1>2, <2>5, <3>4, <3>5 DEF Spent
    <3>7. Underway'
      BY <1>2, <2>2, <2>5, <3>1, <3>2, <3>6 DEF Underway
    <3> QED
      BY <2>2, <2>5, <3>1, <3>7 DEF Goal
  <2>6. CASE n = REVIEW /\ Return([s EXCEPT !.outcome = "awaiting_approval"])
    <3> DEFINE t == [s EXCEPT !.outcome = "awaiting_approval"]
    <3>1. /\ t.outcome = "awaiting_approval" /\ t.visited = s.visited /\ t.steps = s.steps
          /\ t.approver = s.approver /\ pc' = END /\ st' = t
      BY <2>2, <2>6 DEF AgentState, Return
    <3> HIDE DEF t
    <3>2. 1..(n - 1) \subseteq st.visited
      BY <1>0, <1>1 DEF NodesBefore, n
    <3>3. st.visited \subseteq 1..(n - 1)
      <4>1. CASE resume
        BY <1>2, <2>6, <4>1 DEF Spent, n
      <4>2. CASE ~resume
        <5>1. \A k \in st.visited : k < n \/ k <= VALIDATE
          BY <1>0, <1>1, <4>2 DEF ExportIsNew, n
        <5>2. st.visited \subseteq Nodes
          BY <1>2 DEF AgentState
        <5> QED
          BY <2>6, <5>1, <5>2
      <4> QED
        BY <4>1, <4>2
    <3>4. s.visited = 1..REVIEW
      BY <2>2, <2>6, <3>2, <3>3
    <3>5. s.steps \in StepsAtGate
      <4>1. CASE st.steps = n - 1 + 3 * st.loops
        <5>1. s.steps = REVIEW + 3 * s.loops
          BY <1>3, <2>2, <2>6, <4>1
        <5> QED
          BY <2>3, <5>1 DEF StepsAtGate
      <4>2. CASE st.steps = n
        BY <2>2, <2>6, <4>2 DEF StepsAtGate
      <4> QED
        BY <1>2, <2>6, <4>1, <4>2 DEF Spent, n
    <3>6. s.steps + (LAST - REVIEW) <= MaxSteps
      BY <2>3, <3>5 DEF RoomBehindGate
    <3>7. Provisioned(t)
      BY <3>1, <3>4, <3>6 DEF Provisioned
    <3> QED
      BY <2>2, <3>1, <3>7 DEF Goal
  <2>7. CASE n # REVIEW /\ Continue(s, n + 1, resume)
    <3>1. n \in 1..REPACK /\ n + 1 \in Nodes /\ n + 1 \in 1..END
      BY <1>1, <2>7
    <3>2. REVIEW \notin s.visited
      BY <1>2, <2>2, <2>7
    <3>3. ASSUME NEW m \in n..REVIEW, pc' = m, st' = s,
                 \/ /\ s.steps = m - 1 + 3 * s.loops
                    /\ resume => s.loops = 0 /\ s.visited = 1..(m - 1)
                 \/ /\ resume /\ s.loops > 0 /\ m \in {REPACK, REVIEW}
                    /\ s.steps = m /\ s.visited = 1..(m - 1)
          PROVE  Goal
      <4>0. m \in 1..REVIEW /\ (m \in {REPACK, REVIEW} => 1..VALIDATE \subseteq 1..(m - 1))
        BY <1>1, <3>3
      <4>1. Spent'
        BY <1>2, <3>3, <4>0 DEF Spent
      <4>2. Underway'
        BY <1>2, <2>2, <3>2, <3>3, <4>0, <4>1 DEF Underway
      <4> QED
        BY <2>2, <3>3, <4>0, <4>2 DEF Goal
    <3>4. ASSUME pc' = n + 1, st' = s,
                 s.steps = n + 3 * s.loops,
                 resume => s.loops = 0 /\ s.visited = 1..n
          PROVE  Goal
      BY <3>1, <3>3, <3>4
    <3>5. CASE st.steps = n - 1 + 3 * st.loops /\ ~resume
      <4>1. Runs(s, n + 1, resume)
        BY <3>1, <3>5 DEF Runs
      <4>2. pc' = n + 1 /\ st' = s
        BY <1>2, <2>7, <3>1, <4>1, WorkAtOnce
      <4>3. s.steps = n + 3 * s.loops
        BY <1>3, <2>2, <3>1, <3>5
      <4> QED
        BY <3>4, <3>5, <4>2, <4>3
    <3>6. CASE /\ st.steps = n - 1 + 3 * st.loops
               /\ resume /\ st.loops = 0 /\ st.visited = 1..(n - 1)
      <4>1. s.visited = 1..n
        BY <2>2, <3>1, <3>6
      <4>2. Runs(s, n + 1, resume)
        BY <3>1, <4>1 DEF Runs, resumable_skip
      <4>3. pc' = n + 1 /\ st' = s
        BY <1>2, <2>7, <3>1, <4>2, WorkAtOnce
      <4>4. s.steps = n + 3 * s.loops
        BY <1>3, <2>2, <3>1, <3>6
      <4> QED
        BY <2>2, <3>4, <3>6, <4>1, <4>3, <4>4
    <3>7. CASE /\ resume /\ st.loops > 0 /\ n = GENERATE
               /\ st.steps = VALIDATE /\ st.visited = 1..VALIDATE
      <4>1. s.visited = 1..VALIDATE
        BY <2>2, <3>7
      <4>2. /\ ~Runs(s, CONVERT, resume) /\ ~Runs(s, VALIDATE, resume)
            /\ Runs(s, REPACK, resume)
        BY <3>7, <4>1 DEF Runs, resumable_skip
      <4>3. REPACK \in (n + 1)..LAST
        BY <3>7
      <4>4. PICK m \in (n + 1)..LAST :
                /\ pc' = m /\ st' = s /\ Runs(s, m, resume)
                /\ \A k \in (n + 1)..(m - 1) : ~Runs(s, k, resume)
        BY <1>2, <2>7, <3>1, <4>2, <4>3, ContinueIs
      <4>5. m = REPACK
        <5>1. m # CONVERT /\ m # VALIDATE
          BY <4>2, <4>4
        <5>2. m > REPACK => REPACK \in (n + 1)..(m - 1)
          BY <3>7
        <5>3. ~(m > REPACK)
          BY <4>2, <4>4, <5>2
        <5>4. m \in 6..REPACK
          BY <3>7, <5>3
        <5> QED
          BY <5>1, <5>4
      <4>6. s.steps = REPACK /\ s.loops > 0
        BY <2>2, <3>7
      <4> QED
        BY <3>1, <3>3, <3>7, <4>1, <4>4, <4>5, <4>6
    <3>8. CASE /\ resume /\ st.loops > 0 /\ n = REPACK
               /\ st.steps = n /\ st.visited = 1..(n - 1)
      <4>1. s.visited = 1..REPACK /\ s.steps = REVIEW /\ s.loops > 0
        BY <2>2, <3>8
      <4>2. Runs(s, n + 1, resume)
        BY <3>8, <4>1 DEF Runs, resumable_skip
      <4>3. pc' = REVIEW /\ st' = s
        <5>1. pc' = n + 1 /\ st' = s
          BY <1>2, <2>7, <3>1, <4>2, WorkAtOnce
        <5> QED
          BY <3>8, <5>1
      <4> QED
        BY <3>3, <3>8, <4>1, <4>3
    <3> QED
      BY <1>1, <1>2, <2>7, <3>5, <3>6, <3>7, <3>8 DEF Spent, n
  <2> QED
    BY <2>1, <2>2, <2>4, <2>5, <2>6, <2>7 DEF Route
<1> QED
  BY <1>1, <1>5, <1>6

(* Behind the gate: nothing is left that could stop the drive.              *)
LEMMA StepBehindGate ==
    ASSUME AgentInv, Underway, DriveStep, pc > REVIEW
    PROVE  /\ pc' \in Nodes => Underway'
           /\ pc' = END => /\ Provisioned(st')
                           /\ LAST \in st'.visited /\ st'.outcome = "done"
<1> DEFINE n == pc
           Goal == /\ pc' \in Nodes => Underway'
                   /\ pc' = END => /\ Provisioned(st')
                                   /\ LAST \in st'.visited /\ st'.outcome = "done"
<1> SUFFICES Goal
  OBVIOUS
<1>0. TypeOK
  BY DEF AgentInv
<1>1. /\ n \in {EXPORT, LAST} /\ UNCHANGED rest
      /\ Refused \/ \E s : Wrote(s, n) /\ Route(s, n)
  BY <1>0, DriveStepIs
<1>2. /\ st \in AgentState /\ st.reason = "none" /\ st.visited = 1..(n - 1)
      /\ st.steps + (END - n) <= MaxSteps
      /\ runtime = "langgraph" => st.outcome = "running"
      /\ resume \in BOOLEAN /\ runtime' = runtime /\ runtime \in {"builtin", "langgraph"}
  BY <1>0, <1>1, RuntimesAssumption DEF TypeOK, Underway, rest
<1>3. st.steps \in Nat /\ MaxSteps \in Nat
  BY <1>2, CapsAssumption DEF AgentState
<1> HIDE DEF n
<1>4. ~Refused
  <2>1. CanStep(st)
    BY <1>1, <1>2, <1>3 DEF CanStep
  <2> QED
    BY <1>1, <2>1 DEF Refused, n
<1>5. PICK s : Wrote(s, n) /\ Route(s, n)
  BY <1>1, <1>4
<1>6. /\ s \in AgentState /\ s.visited = 1..n /\ s.steps = st.steps + 1
      /\ s.reason = "none" /\ s.outcome = st.outcome /\ ~Halted(s)
  <2>1. s \in AgentState /\ s.visited = st.visited \union {n}
    BY <1>5 DEF Wrote
  <2> QED
    BY <1>1, <1>2, <1>5, <2>1 DEF Wrote, Halted
<1>7. Continue(s, n + 1, resume)
  BY <1>1, <1>5, <1>6 DEF Route
<1>8. CASE n = EXPORT
  <2>1. LAST \in Nodes /\ n + 1 = LAST /\ Runs(s, LAST, resume)
    BY <1>6, <1>8 DEF Runs, resumable_skip
  <2>2. pc' = LAST /\ st' = s
    BY <1>2, <1>7, <2>1, WorkAtOnce
  <2>3. s.steps + 1 <= MaxSteps
    BY <1>2, <1>3, <1>6, <1>8
  <2>4. Underway'
    BY <1>2, <1>6, <1>8, <2>2, <2>3 DEF Underway
  <2> QED
    BY <2>2, <2>4 DEF Goal
<1>9. CASE n = LAST
  <2>1. END \in 1..END /\ n + 1 = END
    BY <1>9
  <2>2. pc' = END /\ st' = Finished(s)
    BY <1>2, <1>7, <2>1, ContinueIs
  <2>3. Finished(s).visited = Nodes
    BY <1>6, <1>9, ExitsAreNamed DEF Ended
  <2>4. Finished(s).outcome = "done"
    BY <1>2, <1>6 DEF Finished, AgentState
  <2> QED
    BY <2>2, <2>3, <2>4 DEF Goal, Provisioned
<1> QED
  BY <1>1, <1>8, <1>9

\* Where a drive that resumes from the checkpoint s begins.
Begun(s) ==
    /\ pc' \in Nodes \union {END}
    /\ pc' \in Nodes => Underway'
    /\ pc' = END => Provisioned(st') /\ LAST \in st'.visited /\ st'.outcome = "done"

(* A resume keeps the reason a checkpoint names, and goes on from one that  *)
(* names none: behind the gate, at the end, or at the first node.           *)
LEMMA ResumeIsProvisioned ==
    ASSUME NEW s \in AgentState, Provisioned(s), Begin(s, TRUE), runtime' = runtime,
           runtime \in {"builtin", "langgraph"}
    PROVE  /\ s.reason # "none" => st'.reason # "none"
           /\ s.reason = "none" => Begun(s)
<1> DEFINE t == IF runtime = "langgraph" /\ s.outcome = "awaiting_approval"
                THEN [s EXCEPT !.outcome = "running"]
                ELSE s
<1>1. Continue(t, 1, TRUE) /\ resume' = TRUE
  BY DEF Begin
<1>2. /\ t \in AgentState /\ t.visited = s.visited /\ t.steps = s.steps
      /\ t.reason = s.reason /\ t.loops = s.loops
      /\ s.outcome # "awaiting_approval" => t.outcome = s.outcome
      /\ s.outcome = "awaiting_approval" /\ runtime = "langgraph" => t.outcome = "running"
  BY DEF AgentState
<1> HIDE DEF t
<1>3. /\ 1 \in 1..END /\ TRUE \in BOOLEAN
      /\ \/ \E m \in 1..LAST : /\ pc' = m /\ st' = t /\ Runs(t, m, TRUE)
                               /\ \A k \in 1..(m - 1) : ~Runs(t, k, TRUE)
         \/ /\ pc' = END /\ st' = Finished(t)
            /\ \A k \in 1..LAST : ~Runs(t, k, TRUE)
  <2>1. 1 \in 1..END /\ TRUE \in BOOLEAN
    OBVIOUS
  <2> QED
    BY <1>1, <2>1, ContinueIs
<1>4. ASSUME s.reason # "none" PROVE st'.reason # "none"
  BY <1>2, <1>3, <1>4, ExitsAreNamed
<1>5. ASSUME s.reason = "none" PROVE Begun(s)
  <2>1. CASE /\ s.outcome = "awaiting_approval" /\ s.visited = 1..REVIEW
             /\ s.steps + (LAST - REVIEW) <= MaxSteps
    <3>1. Runs(t, EXPORT, TRUE) /\ \A k \in 1..REVIEW : ~Runs(t, k, TRUE)
      BY <1>2, <2>1 DEF Runs, resumable_skip
    <3>2. pc' = EXPORT /\ st' = t
      <4>0. EXPORT \in 1..LAST
        OBVIOUS
      <4>1. PICK m \in 1..LAST : /\ pc' = m /\ st' = t /\ Runs(t, m, TRUE)
                                 /\ \A k \in 1..(m - 1) : ~Runs(t, k, TRUE)
        BY <1>3, <3>1, <4>0
      <4>2. m \notin 1..REVIEW
        BY <3>1, <4>1
      <4>3. m > EXPORT => EXPORT \in 1..(m - 1)
        OBVIOUS
      <4>4. ~(m > EXPORT)
        BY <3>1, <4>1, <4>3
      <4>5. m = EXPORT
        BY <4>2, <4>4
      <4> QED
        BY <4>1, <4>5
    <3>3. t.steps + (END - EXPORT) <= MaxSteps
      BY <1>2, <2>1
    <3>4. Underway'
      BY <1>2, <1>5, <2>1, <3>2, <3>3 DEF Underway
    <3> QED
      BY <3>2, <3>4 DEF Begun
  <2>2. CASE s.outcome = "done" /\ s.visited = Nodes
    <3>1. \A k \in 1..LAST : ~Runs(t, k, TRUE)
      BY <1>2, <2>2 DEF Runs, resumable_skip
    <3>2. pc' = END /\ st' = Finished(t)
      BY <1>3, <3>1
    <3>3. Finished(t).visited = Nodes
      BY <1>2, <2>2, ExitsAreNamed DEF Ended
    <3>4. Finished(t).outcome = "done"
      BY <1>2, <2>2 DEF Finished, AgentState
    <3> QED
      BY <3>2, <3>3, <3>4 DEF Begun, Provisioned
  <2>3. CASE s = new_state
    <3>1. s.outcome = "running" /\ s.visited = {} /\ s.steps = 0 /\ s.loops = 0
      BY <2>3 DEF new_state
    <3>2. 1 \in Nodes /\ Runs(t, 1, TRUE)
      BY <1>2, <3>1 DEF Runs, resumable_skip
    <3>3. pc' = 1 /\ st' = t
      BY <1>1, <1>3, <3>2, WorkAtOnce
    <3>4. Spent'
      BY <1>1, <1>2, <3>1, <3>3 DEF Spent
    <3>5. Underway'
      BY <1>2, <1>5, <3>1, <3>3, <3>4 DEF Underway
    <3> QED
      BY <3>3, <3>5 DEF Begun
  <2> QED
    BY <1>5, <2>1, <2>2, <2>3 DEF Provisioned
<1> QED
  BY <1>4, <1>5

(* Every step keeps the provision.                                          *)
LEMMA ProvisionNext ==
    ASSUME RoomBehindGate, AgentInv, Provision, [Next]_vars
    PROVE  Provision'
<1>0. /\ TypeOK /\ GateOpens /\ ApprovedIsBehindGate /\ SavedIsBehind
      /\ runtime \in {"builtin", "langgraph"} /\ saved \in AgentState
  BY RuntimesAssumption DEF AgentInv, TypeOK
<1>1. CASE DriveStep
  <2>1. pc \in Nodes /\ UNCHANGED rest
    BY <1>0, <1>1, DriveStepIs
  <2>2. saved' = saved /\ pc # IDLE /\ Provisioned(saved') /\ pc' # SAVED
    <3>1. pc' \in Nodes \union {END}
      BY <1>0, <1>1, DriveStepEffect DEF NodeEffect
    <3> QED
      BY <2>1, <3>1 DEF rest, Provision
  <2>3. CASE saved.reason # "none"
    <3>1. st'.reason # "none"
      BY <1>0, <1>1, <2>1, <2>2, <2>3, ReasonStays DEF Provision
    <3> QED
      BY <2>2, <2>3, <3>1 DEF Provision, Provisioned, ApprovedRunFinishes
  <2>4. CASE saved.reason = "none"
    <3>1. Underway
      BY <2>1, <2>4 DEF Provision
    <3>2. CASE pc <= REVIEW
      <4>1. /\ st'.approver # "user"
            /\ pc' \in Nodes => Underway'
            /\ pc' = END => Provisioned(st')
        BY <1>1, <3>1, <3>2, StepBeforeGate
      <4> QED
        BY <2>2, <2>4, <4>1 DEF Provision, ApprovedRunFinishes
    <3>3. CASE pc > REVIEW
      <4>1. /\ pc' \in Nodes => Underway'
            /\ pc' = END => /\ Provisioned(st')
                            /\ LAST \in st'.visited /\ st'.outcome = "done"
        BY <1>1, <3>1, <3>3, StepBehindGate
      <4> QED
        BY <2>2, <2>4, <4>1 DEF Provision, ApprovedRunFinishes
    <3> QED
      BY <2>1, <3>2, <3>3
  <2> QED
    BY <2>3, <2>4
<1>2. CASE Start
  <2>1. resume' = FALSE /\ saved' = saved /\ Continue(new_state, 1, FALSE) /\ saved = new_state
    BY <1>0, <1>2 DEF Start, Begin, SavedIsBehind
  <2>2. 1 \in Nodes /\ Runs(new_state, 1, FALSE)
    BY DEF Runs
  <2>3. pc' = 1 /\ st' = new_state
    BY <2>1, <2>2, WorkAtOnce
  <2>4. /\ new_state.reason = "none" /\ new_state.outcome = "running"
        /\ new_state.visited = {} /\ new_state.steps = 0 /\ new_state.loops = 0
    BY DEF new_state
  <2>5. Underway'
    BY <2>1, <2>3, <2>4 DEF Underway, Spent
  <2> QED
    BY <2>1, <2>3, <2>4, <2>5 DEF Provision, Provisioned, ApprovedRunFinishes
<1>3. CASE Resume
  <2>1. Begin(saved, TRUE) /\ UNCHANGED <<runtime, saved>> /\ Provisioned(saved)
    BY <1>3 DEF Resume, Provision
  <2>2. /\ saved.reason # "none" => st'.reason # "none"
        /\ saved.reason = "none" => Begun(saved)
    BY <1>0, <2>1, ResumeIsProvisioned
  <2> QED
    BY <2>1, <2>2 DEF Provision, Provisioned, ApprovedRunFinishes, Begun
<1>4. CASE Approve
  <2> DEFINE s == [saved EXCEPT !.approver = "user"]
  <2>1. /\ s \in AgentState /\ s.reason = saved.reason /\ s.outcome = saved.outcome
        /\ s.visited = saved.visited /\ s.steps = saved.steps
    BY <1>0 DEF AgentState
  <2>2. REVIEW \in saved.visited /\ Provisioned(saved)
    BY <1>0, <1>4 DEF Approve, GateOpens, Provision
  <2>3. Provisioned(s)
    BY <2>1, <2>2 DEF Provisioned, new_state
  <2>4. Begin(s, TRUE) /\ runtime' = runtime /\ saved' = s
    BY <1>4 DEF Approve
  <2> HIDE DEF s
  <2>5. /\ s.reason # "none" => st'.reason # "none"
        /\ s.reason = "none" => Begun(s)
    BY <1>0, <2>1, <2>3, <2>4, ResumeIsProvisioned
  <2> QED
    BY <2>3, <2>4, <2>5 DEF Provision, Provisioned, ApprovedRunFinishes, Begun
<1>5. CASE Reject \/ Settle \/ Die
  <2>1. pc' = IDLE /\ saved' = saved
    BY <1>5 DEF Reject, Settle, Die
  <2> QED
    BY <2>1 DEF Provision, Provisioned, ApprovedRunFinishes
<1>6. CASE Checkpoint
  <2>1. pc' = SAVED /\ saved' = st /\ st' = st /\ Provisioned(st)
    BY <1>6 DEF Checkpoint, Provision
  <2> QED
    BY <2>1 DEF Provision, ApprovedRunFinishes
<1>7. CASE UNCHANGED vars
  BY <1>7 DEF vars, Provision, Provisioned, Underway, Spent, ApprovedRunFinishes
<1> QED
  BY <1>1, <1>2, <1>3, <1>4, <1>5, <1>6, <1>7 DEF Next

(* A run a human approved runs to its last node and is reported done,       *)
(* unless a cap or an exit had ended it before: under every cap with which  *)
(* the gate leaves room for the two nodes behind it.                        *)
THEOREM ApprovedRunsFinish ==
    ASSUME RoomBehindGate
    PROVE  Spec => []ApprovedRunFinishes
<1>1. Init => Provision
  BY DEF Init, Provision, Provisioned, ApprovedRunFinishes
<1>2. AgentInv /\ Provision /\ [Next]_vars => Provision'
  BY ProvisionNext
<1>3. Provision => ApprovedRunFinishes
  BY DEF Provision
<1> QED
  BY <1>1, <1>2, <1>3, AgentInvariant, PTL DEF Spec
=============================================================================
