-------------------------- MODULE Publishing_proofs --------------------------
(***************************************************************************)
(* What Actuation promises for every set of callers and of keys, and       *)
(* Publishing for every set of channels and posts and every weekly cap,    *)
(* proved.                                                                 *)
(*                                                                         *)
(* Actuation: the row of a key is its lock.  A caller that has claimed and *)
(* not yet settled holds a key whose row is in flight, no two callers hold *)
(* the same key, and a claim succeeds on an absent row alone; so the       *)
(* provider has not been called under a key that is being claimed.         *)
(*                                                                         *)
(* Publishing: every step of a request is a step of Actuation or leaves it *)
(* alone, and a restart forgets every attempt, so Actuation's invariant    *)
(* holds here too.  A post is published from the outcome of the attempt    *)
(* under its own id; an outcome that was returned as a success is a        *)
(* settled row, and a settled success never changes.  A caller that may    *)
(* still claim believes that what it has left to claim fits under the cap, *)
(* no refusal or failure is taken back, and so only an insert adds to the  *)
(* week, one row at a time.                                                *)
(***************************************************************************)
EXTENDS Publishing, FiniteSetTheorems, TLAPS

-----------------------------------------------------------------------------
(* The ledger: Actuation.                                                   *)


Held(c) == attempt[c].stage \in {"claimed", "performed"}

\* A key that is held is locked, and by one caller.
HeldIsInFlight == \A c \in Callers : Held(c) => actions[attempt[c].key].status = "in_flight"

HeldByOne ==
    \A c, d \in Callers : Held(c) /\ Held(d) /\ attempt[c].key = attempt[d].key => c = d

\* What a holder knows of the calls made under its key.
ClaimedIsUncalled ==
    \A c \in Callers : attempt[c].stage = "claimed" => calls[attempt[c].key] = 0

PerformedKnowsItsCall ==
    \A c \in Callers :
        attempt[c].stage = "performed" /\ calls[attempt[c].key] > 0 =>
            attempt[c].outcome.status # "refused" /\ ~attempt[c].outcome.fake

\* Only a success can be marked as simulated.
FakeIsASuccess == \A k \in Keys : actions[k].fake => actions[k].status = "succeeded"

\* A success that is not marked as simulated is at the provider, be it in the
\* ledger, not settled yet, or returned.
SuccessLanded ==
    \A k \in Keys : actions[k] = [status |-> "succeeded", fake |-> FALSE] => k \in landed

Succeeded(c) == attempt[c].outcome.status = "succeeded" /\ ~attempt[c].outcome.fake

PerformedLanded ==
    \A c \in Callers :
        attempt[c].stage = "performed" /\ Succeeded(c) => attempt[c].key \in landed

ReturnedIsSettled ==
    \A c \in Callers :
        attempt[c].stage = "returned" /\ Succeeded(c) =>
            actions[attempt[c].key] = [status |-> "succeeded", fake |-> FALSE]

AnswersAreTrue == SuccessLanded /\ PerformedLanded /\ ReturnedIsSettled

ActuationInv ==
    /\ ActuationTypeOK
    /\ AnswersAreTrue
    /\ FakeIsASuccess
    /\ HeldIsInFlight
    /\ HeldByOne
    /\ ClaimedIsUncalled
    /\ PerformedKnowsItsCall
    /\ AtMostOneCall
    /\ EveryCallIsOnRecord

-----------------------------------------------------------------------------

(* No attempt is a well-formed one: the table has keys.                     *)
LEMMA NoAttemptType == NoAttempt \in Attempts /\ NoAttempt.stage = "none"
BY KeysAssumption
   DEF NoAttempt, Attempts, AttemptStages, NoOutcome, Outcome, Outcomes, Statuses

(* An outcome that was not replayed is an outcome.                          *)
LEMMA OutcomeType ==
    ASSUME NEW status \in Statuses, NEW fake \in BOOLEAN
    PROVE  /\ Outcome(status, fake) \in Outcomes
           /\ Outcome(status, fake).status = status
           /\ Outcome(status, fake).fake = fake
BY DEF Outcome, Outcomes

(* The empty table satisfies the invariant.                                 *)
LEMMA ActuationInvInit == ActuationInit => ActuationInv
<1> SUFFICES ASSUME ActuationInit PROVE ActuationInv
  OBVIOUS
<1>1. ActuationTypeOK
  BY NoAttemptType DEF ActuationInit, ActuationTypeOK, NoAction, ActionRows
<1>2. \A c \in Callers : attempt[c].stage = "none"
  BY NoAttemptType DEF ActuationInit
<1>3. \A k \in Keys : calls[k] = 0
  BY DEF ActuationInit
<1>4. \A k \in Keys : ~actions[k].fake /\ actions[k].status = "absent"
  BY DEF ActuationInit, NoAction
<1> QED
  BY <1>1, <1>2, <1>3, <1>4
  DEF ActuationInv, AnswersAreTrue, SuccessLanded, PerformedLanded, ReturnedIsSettled,
      FakeIsASuccess, HeldIsInFlight, HeldByOne, Held, ClaimedIsUncalled,
      PerformedKnowsItsCall, AtMostOneCall, EveryCallIsOnRecord

(* A claim keeps the invariant: it locks a key nobody was ever called under.*)
LEMMA ClaimKeepsInv ==
    ASSUME ActuationInv, NEW c \in Callers, NEW k \in Keys, NEW ok \in BOOLEAN,
           Claim(c, k, ok)
    PROVE  ActuationInv'
<1> USE DEF ActuationInv
<1>0. /\ NoOutcome \in Outcomes
      /\ Outcome("refused", FALSE) \in Outcomes
  BY OutcomeType DEF NoOutcome, Statuses
<1>1. CASE actions[k].status = "absent"
  <2> DEFINE taken == [stage |-> "claimed", key |-> k, approved |-> ok, outcome |-> NoOutcome]
             row == [status |-> "in_flight", fake |-> FALSE]
  <2>1. /\ actions' = [actions EXCEPT ![k] = row]
        /\ attempt' = [attempt EXCEPT ![c] = taken]
        /\ calls' = calls /\ landed' = landed
    BY <1>1 DEF Claim
  <2>2. taken \in Attempts /\ row \in ActionRows
    BY <1>0 DEF Attempts, AttemptStages, ActionRows
  <2>3. calls[k] = 0
    BY <1>1 DEF EveryCallIsOnRecord, ActuationTypeOK
  <2>4. \A d \in Callers : Held(d) => attempt[d].key # k
    BY <1>1 DEF HeldIsInFlight
  <2>5. \A d \in Callers : d # c => attempt'[d] = attempt[d]
    BY <2>1 DEF ActuationTypeOK
  <2>6. attempt'[c] = taken /\ actions'[k] = row
    BY <2>1 DEF ActuationTypeOK
  <2>7. \A j \in Keys : j # k => actions'[j] = actions[j]
    BY <2>1 DEF ActuationTypeOK
  <2>8. \A d \in Callers : attempt[d].key \in Keys
    BY DEF ActuationTypeOK, Attempts
  <2>a. ActuationTypeOK'
    BY <2>1, <2>2 DEF ActuationTypeOK
  <2>b. HeldIsInFlight'
    BY <2>4, <2>5, <2>6, <2>7, <2>8 DEF HeldIsInFlight, Held
  <2>c. HeldByOne'
    BY <2>4, <2>5, <2>6 DEF HeldByOne, Held
  <2>d. ClaimedIsUncalled'
    BY <2>1, <2>3, <2>5, <2>6 DEF ClaimedIsUncalled
  <2>e. PerformedKnowsItsCall'
    BY <2>1, <2>5, <2>6 DEF PerformedKnowsItsCall
  <2>f. AtMostOneCall' /\ EveryCallIsOnRecord'
    BY <2>1, <2>3, <2>6, <2>7 DEF AtMostOneCall, EveryCallIsOnRecord
  <2>g. FakeIsASuccess'
    BY <2>6, <2>7 DEF FakeIsASuccess
  <2>h. SuccessLanded' /\ PerformedLanded'
    BY <2>1, <2>5, <2>6, <2>7
    DEF AnswersAreTrue, SuccessLanded, PerformedLanded, Succeeded
  <2>i. ReturnedIsSettled'
    BY <1>1, <2>5, <2>6, <2>7, <2>8 DEF AnswersAreTrue, ReturnedIsSettled, Succeeded
  <2> QED
    BY <2>a, <2>b, <2>c, <2>d, <2>e, <2>f, <2>g, <2>h, <2>i DEF AnswersAreTrue
<1>2. CASE actions[k].status # "absent"
  <2> DEFINE answer == IF actions[k].status = "in_flight"
                       THEN Outcome("refused", FALSE)
                       ELSE [status |-> actions[k].status, fake |-> actions[k].fake,
                             replayed |-> TRUE]
             told == [stage |-> "returned", key |-> k, approved |-> ok, outcome |-> answer]
  <2>1. /\ attempt' = [attempt EXCEPT ![c] = told]
        /\ actions' = actions /\ calls' = calls /\ landed' = landed
    BY <1>2 DEF Claim
  <2>2. actions[k] \in ActionRows
    BY DEF ActuationTypeOK
  <2>3. answer \in Outcomes
    BY <1>0, <1>2, <2>2 DEF ActionRows, Outcomes
  <2>4. told \in Attempts
    BY <2>3 DEF Attempts, AttemptStages
  <2>5. \A d \in Callers : d # c => attempt'[d] = attempt[d]
    BY <2>1 DEF ActuationTypeOK
  <2>6. attempt'[c].stage = "returned"
    BY <2>1 DEF ActuationTypeOK
  <2>7. attempt'[c].key = k /\ attempt'[c].outcome = answer
    BY <2>1 DEF ActuationTypeOK
  <2>a. ActuationTypeOK'
    BY <2>1, <2>4 DEF ActuationTypeOK
  <2>b. HeldIsInFlight'
    BY <2>1, <2>5, <2>6 DEF HeldIsInFlight, Held
  <2>c. HeldByOne'
    BY <2>5, <2>6 DEF HeldByOne, Held
  <2>d. ClaimedIsUncalled' /\ PerformedKnowsItsCall'
    BY <2>1, <2>5, <2>6 DEF ClaimedIsUncalled, PerformedKnowsItsCall
  <2>e. AtMostOneCall' /\ EveryCallIsOnRecord' /\ FakeIsASuccess'
    BY <2>1 DEF AtMostOneCall, EveryCallIsOnRecord, FakeIsASuccess
  <2>f. answer.status = "succeeded" /\ ~answer.fake =>
          actions[k] = [status |-> "succeeded", fake |-> FALSE]
    BY <1>2, <2>2, OutcomeType DEF Statuses, ActionRows
  <2>g. SuccessLanded'
    BY <2>1 DEF AnswersAreTrue, SuccessLanded
  <2>8. landed' = landed
    BY <2>1
  <2>h. PerformedLanded'
    BY <2>5, <2>6, <2>8 DEF AnswersAreTrue, PerformedLanded, Succeeded
  <2>i. ReturnedIsSettled'
    <3> HIDE DEF answer
    <3> SUFFICES ASSUME NEW d \in Callers, attempt'[d].stage = "returned", Succeeded(d)'
                 PROVE  actions[attempt'[d].key] = [status |-> "succeeded", fake |-> FALSE]
      BY <2>1 DEF ReturnedIsSettled
    <3>1. CASE d = c
      BY <3>1, <2>7, <2>f DEF Succeeded
    <3>2. CASE d # c
      BY <3>2, <2>5 DEF AnswersAreTrue, ReturnedIsSettled, Succeeded
    <3> QED
      BY <3>1, <3>2
  <2> QED
    BY <2>a, <2>b, <2>c, <2>d, <2>e, <2>g, <2>h, <2>i DEF AnswersAreTrue
<1> QED
  BY <1>1, <1>2

(* Forgetting attempts -- one that is over, or all of them in a crash --    *)
(* only releases keys.                                                      *)
LEMMA ForgettingKeepsInv ==
    ASSUME ActuationInv, NEW Forgotten \in SUBSET Callers,
           attempt' = [c \in Callers |-> IF c \in Forgotten THEN NoAttempt ELSE attempt[c]],
           UNCHANGED <<actions, calls, landed>>
    PROVE  ActuationInv'
<1> USE DEF ActuationInv
<1>1. \A c \in Callers : IF c \in Forgotten THEN attempt'[c].stage = "none"
                                            ELSE attempt'[c] = attempt[c]
  BY NoAttemptType
<1>a. ActuationTypeOK'
  BY NoAttemptType DEF ActuationTypeOK
<1>b. HeldIsInFlight'
  BY <1>1 DEF HeldIsInFlight, Held
<1>c. HeldByOne'
  BY <1>1 DEF HeldByOne, Held
<1>d. ClaimedIsUncalled' /\ PerformedKnowsItsCall'
  BY <1>1 DEF ClaimedIsUncalled, PerformedKnowsItsCall
<1>e. AtMostOneCall' /\ EveryCallIsOnRecord' /\ FakeIsASuccess'
  BY DEF AtMostOneCall, EveryCallIsOnRecord, FakeIsASuccess
<1>f. AnswersAreTrue'
  BY <1>1 DEF AnswersAreTrue, SuccessLanded, PerformedLanded, ReturnedIsSettled, Succeeded
<1> QED
  BY <1>a, <1>b, <1>c, <1>d, <1>e, <1>f

(* What the actuator's answer may be, and the call it may have made.        *)
LEMMA PerformedShape ==
    ASSUME ActuationInv, NEW c \in Callers, NEW fake \in BOOLEAN, Perform(c, fake)
    PROVE  /\ attempt[c].stage = "claimed"
           /\ UNCHANGED actions
           /\ landed \subseteq landed' /\ landed' \subseteq Keys
           /\ \E outcome \in Outcomes :
                /\ Performed(c, outcome)
                /\ outcome.status = "succeeded" /\ ~outcome.fake => attempt[c].key \in landed'
                /\ \/ UNCHANGED calls
                   \/ /\ calls' = [calls EXCEPT ![attempt[c].key] = @ + 1]
                      /\ outcome.status # "refused"
                      /\ ~outcome.fake
<1> USE DEF ActuationInv
<1>0. landed \subseteq Keys /\ attempt[c].key \in Keys
  BY DEF ActuationTypeOK, Attempts
<1>1. CASE RefuseUnapproved(c)
  BY <1>0, <1>1, OutcomeType DEF RefuseUnapproved, Statuses
<1>2. CASE PerformRefused(c, fake)
  BY <1>0, <1>2, OutcomeType DEF PerformRefused, Statuses
<1>3. CASE fake /\ PerformSimulated(c)
  BY <1>0, <1>3, OutcomeType DEF PerformSimulated, Statuses
<1>4. CASE ~fake /\ PerformCall(c)
  <2>1. /\ attempt[c].stage = "claimed"
        /\ UNCHANGED actions
        /\ calls' = [calls EXCEPT ![attempt[c].key] = @ + 1]
        /\ \E status \in {"succeeded", "failed"} :
             /\ Performed(c, Outcome(status, FALSE))
             /\ status = "succeeded" => attempt[c].key \in landed'
        /\ landed \subseteq landed' /\ landed' \subseteq Keys
    BY <1>0, <1>4 DEF PerformCall
  <2>2. PICK status \in {"succeeded", "failed"} :
          /\ Performed(c, Outcome(status, FALSE))
          /\ status = "succeeded" => attempt[c].key \in landed'
    BY <2>1
  <2>3. /\ Outcome(status, FALSE) \in Outcomes
        /\ Outcome(status, FALSE).status = status
        /\ Outcome(status, FALSE).status # "refused"
        /\ ~Outcome(status, FALSE).fake
    BY <2>2, OutcomeType DEF Statuses
  <2> QED
    BY <2>1, <2>2, <2>3
<1> QED
  BY <1>1, <1>2, <1>3, <1>4 DEF Perform

(* Performing keeps the invariant: the one call is made by the one holder.  *)
LEMMA PerformKeepsInv ==
    ASSUME ActuationInv, NEW c \in Callers, NEW fake \in BOOLEAN, Perform(c, fake)
    PROVE  ActuationInv'
<1> USE DEF ActuationInv
<1> DEFINE k == attempt[c].key
<1>1. /\ attempt[c].stage = "claimed"
      /\ actions' = actions
      /\ landed \subseteq landed' /\ landed' \subseteq Keys
  BY PerformedShape
<1>2. PICK outcome \in Outcomes :
        /\ Performed(c, outcome)
        /\ outcome.status = "succeeded" /\ ~outcome.fake => k \in landed'
        /\ \/ UNCHANGED calls
           \/ /\ calls' = [calls EXCEPT ![k] = @ + 1]
              /\ outcome.status # "refused"
              /\ ~outcome.fake
  BY PerformedShape
<1>3. \A d \in Callers : d # c => attempt'[d] = attempt[d]
  BY <1>2 DEF Performed, ActuationTypeOK
<1>4. /\ attempt'[c].stage = "performed"
      /\ attempt'[c].key = k
      /\ attempt'[c].outcome = outcome
  BY <1>2 DEF Performed, ActuationTypeOK, Attempts
<1>5. attempt' \in [Callers -> Attempts]
  <2> DEFINE done == [attempt[c] EXCEPT !.stage = "performed", !.outcome = outcome]
  <2>1. attempt' = [attempt EXCEPT ![c] = done]
    BY <1>2 DEF Performed, ActuationTypeOK
  <2>2. attempt[c] \in Attempts
    BY DEF ActuationTypeOK
  <2>3. done \in Attempts
    BY <1>2, <2>2 DEF Attempts, AttemptStages
  <2> QED
    BY <2>1, <2>3 DEF ActuationTypeOK
<1>6. k \in Keys /\ calls[k] = 0
  BY <1>1 DEF ActuationTypeOK, Attempts, ClaimedIsUncalled
<1>7. /\ \A j \in Keys : j # k => calls'[j] = calls[j]
      /\ calls'[k] \in {0, 1}
      /\ calls'[k] = 1 => outcome.status # "refused" /\ ~outcome.fake
      /\ calls' \in [Keys -> Nat]
  BY <1>2, <1>6 DEF ActuationTypeOK
<1>8. \A d \in Callers : d # c /\ Held(d) => attempt[d].key # k
  BY <1>1 DEF HeldByOne, Held
<1>9. actions[k].status = "in_flight" /\ ~actions[k].fake
  BY <1>1, <1>6 DEF HeldIsInFlight, Held, FakeIsASuccess
<1>10. \A d \in Callers : attempt[d].key \in Keys
  BY DEF ActuationTypeOK, Attempts
<1>a. ActuationTypeOK' /\ FakeIsASuccess'
  BY <1>1, <1>5, <1>7 DEF ActuationTypeOK, FakeIsASuccess
<1>b. HeldIsInFlight'
  BY <1>1, <1>3, <1>4, <1>9 DEF HeldIsInFlight, Held
<1>c. HeldByOne'
  BY <1>3, <1>4, <1>8 DEF HeldByOne, Held
<1>d. ClaimedIsUncalled'
  BY <1>3, <1>4, <1>7, <1>8, <1>10 DEF ClaimedIsUncalled, Held
<1>e. PerformedKnowsItsCall'
  BY <1>3, <1>4, <1>7, <1>8, <1>10 DEF PerformedKnowsItsCall, Held
<1>f. AtMostOneCall'
  BY <1>7 DEF AtMostOneCall
<1>g. EveryCallIsOnRecord'
  BY <1>1, <1>7, <1>9 DEF EveryCallIsOnRecord
<1>h. SuccessLanded' /\ PerformedLanded'
  BY <1>1, <1>2, <1>3, <1>4
  DEF AnswersAreTrue, SuccessLanded, PerformedLanded, Succeeded
<1>i. ReturnedIsSettled'
  BY <1>1, <1>3, <1>4 DEF AnswersAreTrue, ReturnedIsSettled, Succeeded
<1> QED
  BY <1>a, <1>b, <1>c, <1>d, <1>e, <1>f, <1>g, <1>h, <1>i DEF AnswersAreTrue

(* Settling keeps the invariant: a row that has seen a call is settled as   *)
(* what the call came to.                                                   *)
LEMMA SettleKeepsInv ==
    ASSUME ActuationInv, NEW c \in Callers, Settle(c)
    PROVE  ActuationInv'
<1> USE DEF ActuationInv
<1> DEFINE k == attempt[c].key
           settled == [status |-> attempt[c].outcome.status,
                       fake |-> /\ attempt[c].outcome.fake
                                /\ attempt[c].outcome.status = "succeeded"]
<1>1. /\ attempt[c].stage = "performed"
      /\ attempt' = [attempt EXCEPT ![c].stage = "returned"]
      /\ calls' = calls /\ landed' = landed
  BY DEF Settle
<1>2. k \in Keys /\ attempt[c].outcome \in Outcomes
  BY DEF ActuationTypeOK, Attempts
<1>3. actions[k].status # "absent"
  BY <1>1 DEF HeldIsInFlight, Held
<1>4. actions' = [actions EXCEPT ![k] = settled]
  BY <1>3 DEF Settle
<1>5. settled \in ActionRows /\ (settled.fake => settled.status = "succeeded")
  BY <1>2 DEF ActionRows, Outcomes
<1>6. /\ \A d \in Callers : d # c => attempt'[d] = attempt[d]
      /\ attempt'[c].stage = "returned"
      /\ attempt' \in [Callers -> Attempts]
  BY <1>1 DEF ActuationTypeOK, Attempts, AttemptStages
<1>7. /\ \A j \in Keys : j # k => actions'[j] = actions[j]
      /\ actions'[k] = settled
      /\ actions' \in [Keys -> ActionRows]
  BY <1>2, <1>4, <1>5 DEF ActuationTypeOK
<1>8. \A d \in Callers : d # c /\ Held(d) => attempt[d].key # k
  BY <1>1 DEF HeldByOne, Held
<1>9. calls[k] > 0 => settled.status \in {"succeeded", "failed"} /\ ~settled.fake
  BY <1>1, <1>2 DEF PerformedKnowsItsCall, Outcomes, Statuses
<1>10. \A d \in Callers : attempt[d].key \in Keys
  BY DEF ActuationTypeOK, Attempts
<1>a. ActuationTypeOK'
  BY <1>1, <1>6, <1>7 DEF ActuationTypeOK
<1>b. HeldIsInFlight'
  BY <1>6, <1>7, <1>8, <1>10 DEF HeldIsInFlight, Held
<1>c. HeldByOne'
  BY <1>6 DEF HeldByOne, Held
<1>d. ClaimedIsUncalled' /\ PerformedKnowsItsCall'
  BY <1>1, <1>6 DEF ClaimedIsUncalled, PerformedKnowsItsCall
<1>e. AtMostOneCall'
  BY <1>1 DEF AtMostOneCall
<1>f. EveryCallIsOnRecord'
  BY <1>1, <1>7, <1>9 DEF EveryCallIsOnRecord
<1>g. FakeIsASuccess'
  BY <1>5, <1>7 DEF FakeIsASuccess
<1>11. /\ attempt'[c].key = k
       /\ attempt'[c].outcome = attempt[c].outcome
  BY <1>1 DEF ActuationTypeOK, Attempts
<1>12. Succeeded(c) <=> settled = [status |-> "succeeded", fake |-> FALSE]
  BY <1>2 DEF Succeeded, Outcomes
<1>h. SuccessLanded'
  BY <1>1, <1>7, <1>12 DEF AnswersAreTrue, SuccessLanded, PerformedLanded
<1>i. PerformedLanded'
  BY <1>1, <1>6 DEF AnswersAreTrue, PerformedLanded, Succeeded
<1>13. actions[k].status = "in_flight"
  BY <1>1 DEF HeldIsInFlight, Held
<1>j. ReturnedIsSettled'
  <2> SUFFICES ASSUME NEW d \in Callers, attempt'[d].stage = "returned", Succeeded(d)'
               PROVE  actions'[attempt'[d].key] = [status |-> "succeeded", fake |-> FALSE]
    BY DEF ReturnedIsSettled
  <2>1. CASE d = c
    BY <2>1, <1>7, <1>11, <1>12 DEF Succeeded
  <2>2. CASE d # c
    <3>1. attempt'[d] = attempt[d]
      BY <2>2, <1>6
    <3>2. actions[attempt[d].key] = [status |-> "succeeded", fake |-> FALSE]
      BY <3>1 DEF AnswersAreTrue, ReturnedIsSettled, Succeeded
    <3>3. attempt[d].key # k
      BY <3>2, <1>13
    <3> QED
      BY <3>1, <3>2, <3>3, <1>7, <1>10
  <2> QED
    BY <2>1, <2>2
<1> QED
  BY <1>a, <1>b, <1>c, <1>d, <1>e, <1>f, <1>g, <1>h, <1>i, <1>j DEF AnswersAreTrue

(* A store that raises leaves the row as it is.                             *)
LEMMA StoreFailsKeepsInv ==
    ASSUME ActuationInv, NEW c \in Callers, StoreFails(c)
    PROVE  ActuationInv'
<1> USE DEF ActuationInv
<1>1. /\ attempt' = [attempt EXCEPT ![c].stage = "raised"]
      /\ UNCHANGED <<actions, calls, landed>>
  BY DEF StoreFails
<1>2. /\ \A d \in Callers : d # c => attempt'[d] = attempt[d]
      /\ attempt'[c].stage = "raised"
      /\ attempt' \in [Callers -> Attempts]
  BY <1>1 DEF ActuationTypeOK, Attempts, AttemptStages
<1>a. ActuationTypeOK'
  BY <1>1, <1>2 DEF ActuationTypeOK
<1>b. HeldIsInFlight'
  BY <1>1, <1>2 DEF HeldIsInFlight, Held
<1>c. HeldByOne'
  BY <1>2 DEF HeldByOne, Held
<1>d. ClaimedIsUncalled' /\ PerformedKnowsItsCall'
  BY <1>1, <1>2 DEF ClaimedIsUncalled, PerformedKnowsItsCall
<1>e. AtMostOneCall' /\ EveryCallIsOnRecord' /\ FakeIsASuccess'
  BY <1>1 DEF AtMostOneCall, EveryCallIsOnRecord, FakeIsASuccess
<1>f. AnswersAreTrue'
  BY <1>1, <1>2
  DEF AnswersAreTrue, SuccessLanded, PerformedLanded, ReturnedIsSettled, Succeeded
<1> QED
  BY <1>a, <1>b, <1>c, <1>d, <1>e, <1>f

(* One caller's attempt is over, or dies.                                   *)
LEMMA ForgetKeepsInv ==
    ASSUME ActuationInv, NEW c \in Callers, Forget(c)
    PROVE  ActuationInv'
<1>1. attempt' = [d \in Callers |-> IF d \in {c} THEN NoAttempt ELSE attempt[d]]
  BY DEF Forget, ActuationInv, ActuationTypeOK
<1>2. UNCHANGED <<actions, calls, landed>>
  BY DEF Forget
<1> QED
  BY <1>1, <1>2, ForgettingKeepsInv

(* The invariant is inductive.                                              *)
LEMMA ActuationInvNext == ActuationInv /\ [ActuationNext]_actuationVars => ActuationInv'
<1> SUFFICES ASSUME ActuationInv, [ActuationNext]_actuationVars PROVE ActuationInv'
  OBVIOUS
<1>1. ASSUME NEW c \in Callers, NEW k \in Keys, NEW ok \in BOOLEAN, Claim(c, k, ok)
      PROVE  ActuationInv'
  BY <1>1, ClaimKeepsInv
<1>2. ASSUME NEW c \in Callers, NEW fake \in BOOLEAN, Perform(c, fake)
      PROVE  ActuationInv'
  BY <1>2, PerformKeepsInv
<1>3. ASSUME NEW c \in Callers, Settle(c) PROVE ActuationInv'
  BY <1>3, SettleKeepsInv
<1>4. ASSUME NEW c \in Callers, StoreFails(c) PROVE ActuationInv'
  BY <1>4, StoreFailsKeepsInv
<1>5. ASSUME NEW c \in Callers, Forget(c) PROVE ActuationInv'
  BY <1>5, ForgetKeepsInv
<1>6. CASE UNCHANGED actuationVars
  BY <1>6
  DEF actuationVars, ActuationInv, ActuationTypeOK, AnswersAreTrue, SuccessLanded,
      PerformedLanded, ReturnedIsSettled, Succeeded, FakeIsASuccess, HeldIsInFlight,
      HeldByOne, Held, ClaimedIsUncalled, PerformedKnowsItsCall, AtMostOneCall,
      EveryCallIsOnRecord
<1> QED
  BY <1>1, <1>2, <1>3, <1>4, <1>5, <1>6 DEF ActuationNext

-----------------------------------------------------------------------------

(* The invariant holds whoever calls actuate(), when, and with which key.   *)
THEOREM ActuationInvariant == ActuationSpec => []ActuationInv
<1> QED
  BY ActuationInvInit, ActuationInvNext, PTL DEF ActuationSpec

(* The table, the attempts and the counts are well formed.                  *)
THEOREM ActuationTypeCorrect == ActuationSpec => []ActuationTypeOK
<1>1. ActuationInv => ActuationTypeOK
  BY DEF ActuationInv
<1> QED
  BY <1>1, ActuationInvariant, PTL

(* However many callers claim, crash, retry and replay, the provider is     *)
(* called at most once under a key.                                         *)
THEOREM CalledAtMostOnce == ActuationSpec => []AtMostOneCall
<1>1. ActuationInv => AtMostOneCall
  BY DEF ActuationInv
<1> QED
  BY <1>1, ActuationInvariant, PTL

(* A call to the provider is never without a row that admits it.            *)
THEOREM CallsAreOnRecord == ActuationSpec => []EveryCallIsOnRecord
<1>1. ActuationInv => EveryCallIsOnRecord
  BY DEF ActuationInv
<1> QED
  BY <1>1, ActuationInvariant, PTL

-----------------------------------------------------------------------------
(* Its callers: Publishing.                                                 *)


\* A caller with no request has no stage either.
NobodyIsIdle == \A c \in Callers : request[c].kind = "none" => request[c].stage = "idle"

PublishingInv ==
    /\ ActuationInv
    /\ TypeOK
    /\ NobodyIsIdle
    /\ PublishedWentOut

Success == [status |-> "succeeded", fake |-> FALSE]

-----------------------------------------------------------------------------

(* The count of the week is a number.                                       *)
LEMMA CommittedType == ASSUME recent \in Seq(Keys) PROVE Committed \in Nat
<1> DEFINE D == 1..Len(recent)
           S == {i \in DOMAIN recent :
                   actions[recent[i]].status \in {"succeeded", "in_flight"}}
<1>1. Len(recent) \in Nat /\ DOMAIN recent = D
  OBVIOUS
<1>2. IsFiniteSet(D)
  BY <1>1, FS_Interval
<1>3. S \subseteq D
  BY <1>1
<1>4. IsFiniteSet(S)
  BY <1>2, <1>3, FS_Subset
<1>5. Cardinality(S) \in Nat
  BY <1>4, FS_CardinalityType
<1> QED
  BY <1>5 DEF Committed

LEMMA NoRequestType ==
    /\ NoRequest \in Requests
    /\ NoRequest.kind = "none" /\ NoRequest.stage = "idle"
BY PublishingAssumption DEF NoRequest, Requests, Kinds, PostStatuses

(* Every step of a request is one of actuate()'s, or none.                  *)
LEMMA RequestStepIsActuation ==
    ASSUME TypeOK, NEW c \in Callers, RequestStep(c)
    PROVE  [ActuationNext]_actuationVars
<1>1. /\ request[c].post \in Keys
      /\ request[c].pieces \subseteq Keys
      /\ approved \in BOOLEAN
  BY PublishingAssumption DEF TypeOK, Requests
<1>2. CASE ClaimKey(c)
  <2>1. \/ Claim(c, request[c].post, TRUE)
        \/ \E piece \in request[c].pieces : Claim(c, piece, approved)
    BY <1>2 DEF ClaimKey
  <2> QED
    BY <1>1, <2>1 DEF ActuationNext
<1>3. CASE Act(c)
  <2>1. Perform(c, actuator = "fake") \/ Settle(c)
    BY <1>3 DEF Act
  <2>2. (actuator = "fake") \in BOOLEAN
    OBVIOUS
  <2> QED
    BY <2>1, <2>2 DEF ActuationNext
<1>4. CASE ActRaises(c)
  BY <1>4 DEF ActRaises, ActuationNext
<1>5. CASE RecordOutcome(c) \/ RollBack(c) \/ NextPiece(c)
  BY <1>5 DEF RecordOutcome, RollBack, NextPiece, ActuationNext
<1>6. CASE QueueFromRun(c) \/ queue_posts(c) \/ schedule_post(c) \/ cancel_post(c)
  BY <1>6 DEF QueueFromRun, queue_posts, schedule_post, cancel_post
<1>7. CASE \E p \in Posts, kind \in {"schedule", "cancel"} : LoadForEdit(c, p, kind)
  BY <1>7 DEF LoadForEdit
<1>8. CASE \E p \in Posts : LoadForPublish(c, p)
  BY <1>8 DEF LoadForPublish
<1>9. CASE CountForPublish(c) \/ CountForExport(c) \/ EndExport(c)
  BY <1>9 DEF CountForPublish, CountForExport, EndExport
<1> QED
  BY <1>2, <1>3, <1>4, <1>5, <1>6, <1>7, <1>8, <1>9 DEF RequestStep

(* A success in the ledger stays, and what is at the provider stays there.  *)
LEMMA SuccessStays ==
    ASSUME ActuationInv, [ActuationNext]_actuationVars
    PROVE  /\ \A k \in Keys : actions[k] = Success => actions'[k] = Success
           /\ landed \subseteq landed'
<1> USE DEF Success
<1>1. ASSUME NEW c \in Callers, NEW k \in Keys, NEW ok \in BOOLEAN, Claim(c, k, ok)
      PROVE  /\ \A j \in Keys : actions[j] = Success => actions'[j] = Success
             /\ landed \subseteq landed'
  <2>1. actions[k] = Success => actions' = actions
    BY <1>1 DEF Claim
  <2>2. \A j \in Keys : j # k => actions'[j] = actions[j]
    BY <1>1 DEF Claim, ActuationInv, ActuationTypeOK
  <2>3. landed' = landed
    BY <1>1 DEF Claim
  <2> QED
    BY <2>1, <2>2, <2>3
<1>2. ASSUME NEW c \in Callers, NEW fake \in BOOLEAN, Perform(c, fake)
      PROVE  UNCHANGED actions /\ landed \subseteq landed'
  BY <1>2, PerformedShape
<1>3. ASSUME NEW c \in Callers, Settle(c)
      PROVE  /\ \A j \in Keys : actions[j] = Success => actions'[j] = Success
             /\ landed \subseteq landed'
  <2>1. actions[attempt[c].key].status = "in_flight"
    BY <1>3 DEF Settle, ActuationInv, HeldIsInFlight, Held
  <2>2. \A j \in Keys : actions[j] = Success => j # attempt[c].key
    BY <2>1
  <2>3. \A j \in Keys : j # attempt[c].key => actions'[j] = actions[j]
    BY <1>3 DEF Settle, ActuationInv, ActuationTypeOK
  <2> QED
    BY <1>3, <2>2, <2>3 DEF Settle
<1>4. ASSUME NEW c \in Callers, StoreFails(c) \/ Forget(c)
      PROVE  UNCHANGED <<actions, landed>>
  BY <1>4 DEF StoreFails, Forget
<1> QED
  BY <1>1, <1>2, <1>3, <1>4 DEF ActuationNext, actuationVars

(* A write touches the session's own post.                                  *)
LEMMA WriteEffect ==
    ASSUME TypeOK, NEW c \in Callers, NEW status \in PostStatuses, Write(c, status)
    PROVE  /\ posts' \in [Posts -> SocialPosts]
           /\ \A p \in Posts :
                \/ posts'[p].status = posts[p].status
                \/ p = request[c].post /\ posts'[p].status = status
<1>1. posts \in [Posts -> SocialPosts] /\ request[c].post \in Posts
  BY DEF TypeOK, Requests
<1> DEFINE mine == request[c].post
           written == [posts[mine] EXCEPT !.status = status]
<1>2. CASE posts' = posts
  <2>1. posts' \in [Posts -> SocialPosts]
    BY <1>1, <1>2 DEF TypeOK
  <2>2. \A q \in Posts : posts'[q].status = posts[q].status
    BY <1>2
  <2> QED
    BY <2>1, <2>2
<1>3. CASE posts' = [posts EXCEPT ![mine].status = status]
  <2>1. posts' = [posts EXCEPT ![mine] = written]
    BY <1>3
  <2>2. posts[mine] \in SocialPosts
    BY <1>1
  <2>3. written \in SocialPosts /\ written.status = status
    BY <2>2 DEF SocialPosts
  <2>4. \A q \in Posts : q # mine => posts'[q] = posts[q]
    BY <1>1, <2>1
  <2>5. posts'[mine] = written
    BY <1>1, <2>1
  <2>6. posts' \in [Posts -> SocialPosts]
    BY <1>1, <2>1, <2>3
  <2>7. posts'[mine].status = status
    BY <2>3, <2>5
  <2>8. ASSUME NEW q \in Posts
        PROVE  \/ posts'[q].status = posts[q].status
               \/ q = mine /\ posts'[q].status = status
    BY <2>4, <2>7
  <2> QED
    BY <2>6, <2>8
<1> QED
  BY <1>2, <1>3 DEF Write

(* A post becomes published from a settled success under its own id.        *)
LEMMA PostsStep ==
    ASSUME PublishingInv, NEW c \in Callers, RequestStep(c)
    PROVE  /\ posts' \in [Posts -> SocialPosts]
           /\ \A p \in Posts : posts'[p].status = "published" =>
                \/ posts[p].status = "published"
                \/ p \in landed /\ actions[p] = Success
<1> DEFINE Goal == /\ posts' \in [Posts -> SocialPosts]
                   /\ \A p \in Posts : posts'[p].status = "published" =>
                        \/ posts[p].status = "published"
                        \/ p \in landed /\ actions[p] = Success
<1>0. /\ TypeOK
      /\ posts \in [Posts -> SocialPosts]
      /\ request[c] \in Requests
      /\ Posts \subseteq Keys
  BY PublishingAssumption DEF PublishingInv, TypeOK
<1>1. CASE UNCHANGED posts
  BY <1>0, <1>1
<1>2. CASE queue_posts(c)
  <2> DEFINE free == {p \in Posts : posts[p].status = "absent"}
             missing == Channels \ request[c].existing
  <2>1. PICK status \in {"queued", "scheduled"}, id \in Injection(missing, free) :
          posts' = [p \in Posts |->
                      IF p \in Range(id)
                      THEN [status |-> status,
                            channel |-> CHOOSE channel \in missing : id[channel] = p]
                      ELSE posts[p]]
    BY <1>2 DEF queue_posts
  <2>2. id \in [missing -> free]
    BY DEF Injection, IsInjective
  <2>3. ASSUME NEW p \in Posts, p \in Range(id)
        PROVE  /\ posts'[p] \in SocialPosts
               /\ posts'[p].status # "published"
    <3>1. \E channel \in missing : id[channel] = p
      BY <2>2, <2>3 DEF Range
    <3>2. (CHOOSE channel \in missing : id[channel] = p) \in Channels
      BY <3>1
    <3>3. status \in PostStatuses /\ status # "published"
      BY DEF PostStatuses, PUBLISHABLE_FROM
    <3> QED
      BY <2>1, <2>3, <3>2, <3>3 DEF SocialPosts
  <2>4. ASSUME NEW p \in Posts, p \notin Range(id) PROVE posts'[p] = posts[p]
    BY <2>1, <2>4
  <2>5. \A p \in Posts : posts'[p] \in SocialPosts
    BY <2>3, <2>4, <1>0
  <2>6. posts' \in [Posts -> SocialPosts]
    BY <2>1, <2>5
  <2> QED
    BY <2>3, <2>4, <2>6
<1>3. CASE schedule_post(c)
  <2>1. PICK status \in {"queued", "scheduled"} : Write(c, status)
    BY <1>3 DEF schedule_post
  <2>2. status \in PostStatuses /\ status # "published"
    BY DEF PostStatuses, PUBLISHABLE_FROM
  <2> QED
    BY <1>0, <2>1, <2>2, WriteEffect
<1>4. CASE cancel_post(c)
  <2>1. Write(c, "cancelled") /\ "cancelled" \in PostStatuses
    BY <1>4 DEF cancel_post, PostStatuses
  <2> QED
    BY <1>0, <2>1, WriteEffect
<1>5. CASE CountForPublish(c)
  <2>1. UNCHANGED posts \/ Write(c, "refused")
    BY <1>5 DEF CountForPublish
  <2>2. "refused" \in PostStatuses
    BY DEF PostStatuses, PUBLISHABLE_FROM
  <2> QED
    BY <1>0, <1>1, <2>1, <2>2, WriteEffect
<1>6. CASE RecordOutcome(c)
  <2> DEFINE outcome == attempt[c].outcome
             status == CASE outcome.status # "succeeded" -> outcome.status
                         [] outcome.status = "succeeded" /\ ~outcome.fake -> "published"
                         [] OTHER -> request[c].loaded
  <2>1. /\ At(c, "publish", "allowed")
        /\ attempt[c].stage = "returned"
        /\ Write(c, status)
    BY <1>6 DEF RecordOutcome
  <2>2. outcome.status \in Statuses /\ outcome.fake \in BOOLEAN
    BY <1>0 DEF TypeOK, ActuationTypeOK, Attempts, Outcomes
  <2>3. attempt[c].key = request[c].post
    BY <1>0, <2>1 DEF TypeOK, At
  <2>4. CASE outcome.status # "succeeded"
    <3>1. status = outcome.status /\ status # "published" /\ status \in PostStatuses
      BY <2>2, <2>4 DEF Statuses, PostStatuses, PUBLISHABLE_FROM
    <3> HIDE DEF status
    <3> QED
      BY <1>0, <2>1, <3>1, WriteEffect
  <2>5. CASE outcome.status = "succeeded" /\ ~outcome.fake
    <3>1. status = "published" /\ status \in PostStatuses
      BY <2>5 DEF PostStatuses
    <3>2. request[c].post \in landed /\ actions[request[c].post] = Success
      BY <1>0, <2>1, <2>3, <2>5
      DEF PublishingInv, ActuationInv, AnswersAreTrue, ReturnedIsSettled, SuccessLanded,
          Succeeded, Success, Requests
    <3> HIDE DEF status
    <3> QED
      BY <1>0, <2>1, <3>1, <3>2, WriteEffect
  <2>6. CASE outcome.status = "succeeded" /\ outcome.fake
    <3>1. status = request[c].loaded
      BY <2>6
    <3> HIDE DEF status
    <3>2. UNCHANGED posts
      BY <2>1, <3>1 DEF Write
    <3> QED
      BY <1>1, <3>2
  <2> QED
    BY <2>2, <2>4, <2>5, <2>6
<1>7. CASE \/ QueueFromRun(c)
           \/ \E p \in Posts, kind \in {"schedule", "cancel"} : LoadForEdit(c, p, kind)
           \/ \E p \in Posts : LoadForPublish(c, p)
           \/ CountForExport(c)
           \/ ClaimKey(c)
           \/ Act(c)
           \/ ActRaises(c)
           \/ RollBack(c)
           \/ NextPiece(c)
           \/ EndExport(c)
  <2>1. UNCHANGED posts
    BY <1>7
    DEF QueueFromRun, LoadForEdit, LoadForPublish, CountForExport, ClaimKey, Act,
        ActRaises, RollBack, NextPiece, EndExport
  <2> QED
    BY <1>1, <2>1
<1> QED
  BY <1>2, <1>3, <1>4, <1>5, <1>6, <1>7 DEF RequestStep

\* What a request must be for the attempt its caller has.
Fits(a, r) ==
    /\ r \in Requests
    /\ r.kind = "none" => r.stage = "idle"
    /\ a.stage # "none" => r.stage = "allowed"
    /\ r.kind = "publish" /\ a.stage # "none" => a.key = r.post

(* A step changes its own caller's request and attempt, and they fit.       *)
LEMMA RequestStepFits ==
    ASSUME PublishingInv, NEW c \in Callers, RequestStep(c)
    PROVE  /\ request' \in [Callers -> Requests]
           /\ \A d \in Callers \ {c} : request'[d] = request[d] /\ attempt'[d] = attempt[d]
           /\ Fits(attempt'[c], request'[c])
<1> DEFINE Goal == /\ request' \in [Callers -> Requests]
                   /\ \A d \in Callers \ {c} : request'[d] = request[d] /\ attempt'[d] = attempt[d]
                   /\ Fits(attempt'[c], request'[c])
<1>0. /\ request \in [Callers -> Requests]
      /\ attempt \in [Callers -> Attempts]
      /\ approved \in BOOLEAN
      /\ Fits(attempt[c], request[c])
      /\ Committed \in Nat
  BY CommittedType DEF PublishingInv, TypeOK, ActuationTypeOK, NobodyIsIdle, Fits
<1>1. ASSUME NEW r, SetRequest(c, r), Fits(attempt'[c], r), r \in Requests,
             \A d \in Callers \ {c} : attempt'[d] = attempt[d]
      PROVE  Goal
  <2>1. request' = [request EXCEPT ![c] = r]
    BY <1>1 DEF SetRequest
  <2>2. request'[c] = r /\ \A d \in Callers \ {c} : request'[d] = request[d]
    BY <1>0, <2>1
  <2>3. request' \in [Callers -> Requests]
    BY <1>0, <1>1, <2>1
  <2>4. Fits(attempt'[c], request'[c])
    BY <1>1, <2>2 DEF Fits
  <2> QED
    BY <1>1, <2>2, <2>3, <2>4
<1>2. ASSUME End(c),
             \/ attempt[c].stage = "none" /\ UNCHANGED attempt
             \/ Forget(c)
      PROVE  Goal
  <2>1. SetRequest(c, NoRequest)
    BY <1>2 DEF End
  <2>2. attempt'[c].stage = "none" /\ \A d \in Callers \ {c} : attempt'[d] = attempt[d]
    BY <1>0, <1>2, NoAttemptType DEF Forget
  <2>3. Fits(attempt'[c], NoRequest)
    BY <2>2, NoRequestType DEF Fits
  <2> QED
    BY <1>1, <2>1, <2>2, <2>3, NoRequestType
<1>3. CASE QueueFromRun(c)
  <2> DEFINE r == [NoRequest EXCEPT
         !.kind = "queue", !.stage = "loaded",
         !.existing = {posts[p].channel :
                         p \in {q \in Posts : posts[q].status \notin {"absent", "cancelled"}}}]
  <2>1. SetRequest(c, r) /\ UNCHANGED attempt /\ request[c].kind = "none"
    BY <1>3 DEF QueueFromRun, Arrive, actuationVars
  <2>2. attempt[c].stage = "none"
    BY <1>0, <2>1 DEF Fits
  <2>3. \A p \in Posts : posts[p].channel \in Channels
    BY DEF PublishingInv, TypeOK, SocialPosts
  <2>4. r \in Requests /\ r.kind = "queue"
    BY <2>3, NoRequestType DEF Requests, Kinds
  <2> HIDE DEF r
  <2>5. Fits(attempt'[c], r)
    BY <2>1, <2>2, <2>4 DEF Fits
  <2> QED
    BY <1>1, <2>1, <2>4, <2>5
<1>4. CASE queue_posts(c) \/ schedule_post(c) \/ cancel_post(c)
  <2>1. End(c) /\ UNCHANGED attempt /\ request[c].stage = "loaded"
    BY <1>4 DEF queue_posts, schedule_post, cancel_post, At, actuationVars
  <2> QED
    BY <1>0, <1>2, <2>1 DEF Fits
<1>5. CASE \E p \in Posts, kind \in {"schedule", "cancel"} : LoadForEdit(c, p, kind)
  <2>1. PICK p \in Posts, kind \in {"schedule", "cancel"} : LoadForEdit(c, p, kind)
    BY <1>5
  <2> DEFINE r == [NoRequest EXCEPT
         !.kind = kind, !.stage = "loaded", !.post = p, !.loaded = posts[p].status]
  <2>2. SetRequest(c, r) /\ UNCHANGED attempt /\ request[c].kind = "none"
    BY <2>1 DEF LoadForEdit, Arrive, actuationVars
  <2>3. posts[p].status \in PostStatuses
    BY DEF PublishingInv, TypeOK, SocialPosts
  <2>4. r \in Requests /\ r.kind = kind
    BY <2>3, NoRequestType DEF Requests, Kinds
  <2> HIDE DEF r
  <2>5. Fits(attempt'[c], r)
    BY <1>0, <2>2, <2>4 DEF Fits
  <2> QED
    BY <1>1, <2>2, <2>4, <2>5
<1>6. CASE \E p \in Posts : LoadForPublish(c, p)
  <2>1. PICK p \in Posts : LoadForPublish(c, p)
    BY <1>6
  <2> DEFINE r == [NoRequest EXCEPT
         !.kind = "publish", !.stage = "loaded", !.post = p, !.loaded = posts[p].status]
  <2>2. SetRequest(c, r) /\ UNCHANGED attempt /\ request[c].kind = "none"
    BY <2>1 DEF LoadForPublish, Arrive, actuationVars
  <2>3. posts[p].status \in PostStatuses
    BY DEF PublishingInv, TypeOK, SocialPosts
  <2>4. r \in Requests /\ r.kind = "publish"
    BY <2>3, NoRequestType DEF Requests, Kinds
  <2> HIDE DEF r
  <2>5. Fits(attempt'[c], r)
    BY <1>0, <2>2, <2>4 DEF Fits
  <2> QED
    BY <1>1, <2>2, <2>4, <2>5
<1>7. CASE CountForPublish(c)
  <2> DEFINE r == [request[c] EXCEPT !.stage = "allowed", !.believed = Committed]
  <2>1. /\ request[c].kind = "publish" /\ request[c].stage = "loaded"
        /\ UNCHANGED attempt
        /\ SetRequest(c, r) \/ End(c)
    BY <1>7 DEF CountForPublish, At, actuationVars
  <2>2. attempt[c].stage = "none"
    BY <1>0, <2>1 DEF Fits
  <2>3. r \in Requests /\ r.kind = "publish"
    BY <1>0, <2>1 DEF Requests
  <2>4. Fits(attempt'[c], r)
    BY <2>1, <2>2, <2>3 DEF Fits
  <2> HIDE DEF r
  <2> QED
    BY <1>1, <1>2, <2>1, <2>2, <2>3, <2>4
<1>8. CASE RecordOutcome(c) \/ RollBack(c)
  BY <1>2, <1>8 DEF RecordOutcome, RollBack
<1>9. CASE CountForExport(c)
  <2>1. PICK pieces \in SUBSET Channels :
          SetRequest(c, [NoRequest EXCEPT
              !.kind = "export", !.stage = "allowed",
              !.pieces = pieces, !.believed = Committed])
    BY <1>9 DEF CountForExport
  <2> DEFINE r == [NoRequest EXCEPT
              !.kind = "export", !.stage = "allowed",
              !.pieces = pieces, !.believed = Committed]
  <2>2. UNCHANGED attempt
    BY <1>9 DEF CountForExport, actuationVars
  <2>3. r \in Requests /\ r.kind = "export" /\ r.stage = "allowed"
    BY <1>0, NoRequestType DEF Requests, Kinds
  <2>4. SetRequest(c, r)
    BY <2>1
  <2> HIDE DEF r
  <2>5. Fits(attempt'[c], r)
    BY <2>3 DEF Fits
  <2> QED
    BY <1>1, <2>2, <2>3, <2>4, <2>5
<1>10. CASE NextPiece(c)
  <2>1. /\ Forget(c) /\ UNCHANGED request
        /\ request[c].kind = "export" /\ request[c].stage = "allowed"
    BY <1>10 DEF NextPiece, At
  <2>2. \A d \in Callers \ {c} : attempt'[d] = attempt[d]
    BY <1>0, <2>1 DEF Forget
  <2>3. Fits(attempt'[c], request'[c])
    BY <1>0, <2>1 DEF Fits
  <2> QED
    BY <1>0, <2>1, <2>2, <2>3
<1>11. CASE EndExport(c)
  <2>1. End(c) /\ attempt[c].stage = "none" /\ UNCHANGED attempt
    BY <1>11 DEF EndExport, actuationVars
  <2> QED
    BY <1>2, <2>1
<1>12. CASE ClaimKey(c)
  <2>1. PICK k :
          /\ \/ request[c].kind = "publish" /\ k = request[c].post
             \/ request[c].kind = "export"
          /\ \E ok : Claim(c, k, ok)
          /\ CountClaimed(c, k)
    BY <1>12 DEF ClaimKey
  <2> DEFINE r == [request[c] EXCEPT
           !.pieces = @ \ {k},
           !.believed = @ + (IF actions[k].status = "absent" THEN 1 ELSE 0)]
  <2>2. SetRequest(c, r)
    BY <2>1 DEF CountClaimed
  <2>3. request[c].believed \in Nat /\ request[c].pieces \in SUBSET Channels
    BY <1>0 DEF Requests
  <2>4. r \in Requests
    <3>1. request[c].believed + (IF actions[k].status = "absent" THEN 1 ELSE 0) \in Nat
      BY <2>3
    <3>2. request[c].pieces \ {k} \in SUBSET Channels
      BY <2>3
    <3> QED
      BY <1>0, <3>1, <3>2 DEF Requests
  <2>7. r.kind = request[c].kind /\ r.stage = "allowed" /\ r.post = request[c].post
    BY <1>0, <1>12 DEF Requests, ClaimKey
  <2>5. /\ attempt'[c].key = k
        /\ \A d \in Callers \ {c} : attempt'[d] = attempt[d]
    <3>1. PICK ok : Claim(c, k, ok)
      BY <2>1
    <3>2. \E a : a.key = k /\ attempt' = [attempt EXCEPT ![c] = a]
      BY <3>1, Zenon DEF Claim
    <3> QED
      BY <1>0, <3>2
  <2> HIDE DEF r
  <2>6. Fits(attempt'[c], r)
    BY <2>1, <2>4, <2>5, <2>7 DEF Fits
  <2> QED
    BY <1>1, <2>2, <2>4, <2>5, <2>6
<1>13. CASE Act(c)
  <2>1. UNCHANGED request /\ request[c].stage = "allowed"
    BY <1>13 DEF Act
  <2>2. /\ \A d \in Callers \ {c} : attempt'[d] = attempt[d]
        /\ attempt'[c].key = attempt[c].key
        /\ attempt[c].stage # "none"
    <3>1. CASE Settle(c)
      BY <1>0, <3>1 DEF Settle, Attempts
    <3>2. CASE Perform(c, actuator = "fake")
      <4>1. PICK outcome \in Outcomes : Performed(c, outcome)
        BY <3>2, PerformedShape DEF PublishingInv
      <4>2. attempt[c].stage = "claimed"
        BY <3>2, PerformedShape DEF PublishingInv
      <4> QED
        BY <1>0, <4>1, <4>2 DEF Performed, Attempts
    <3> QED
      BY <1>13, <3>1, <3>2 DEF Act
  <2>3. Fits(attempt'[c], request'[c])
    BY <1>0, <2>1, <2>2 DEF Fits
  <2> QED
    BY <1>0, <2>1, <2>2, <2>3
<1>14. CASE ActRaises(c)
  <2>1. /\ request[c].kind = "export" /\ request[c].stage = "allowed"
        /\ \/ UNCHANGED request
           \/ \E piece \in request[c].pieces :
                SetRequest(c, [request[c] EXCEPT !.pieces = @ \ {piece}])
    BY <1>14 DEF ActRaises, At
  <2>2. \A d \in Callers \ {c} : attempt'[d] = attempt[d]
    BY <1>0, <1>14 DEF ActRaises, StoreFails
  <2>3. CASE UNCHANGED request
    <3>1. Fits(attempt'[c], request'[c])
      BY <1>0, <2>1, <2>3 DEF Fits
    <3> QED
      BY <1>0, <2>2, <2>3, <3>1
  <2>4. ASSUME NEW piece \in request[c].pieces,
               SetRequest(c, [request[c] EXCEPT !.pieces = @ \ {piece}])
        PROVE  Goal
    <3> DEFINE r == [request[c] EXCEPT !.pieces = @ \ {piece}]
    <3>1. r \in Requests /\ r.kind = "export" /\ r.stage = "allowed"
      BY <1>0, <2>1 DEF Requests
    <3>2. SetRequest(c, r)
      BY <2>4
    <3> HIDE DEF r
    <3>3. Fits(attempt'[c], r)
      BY <3>1 DEF Fits
    <3> QED
      BY <1>1, <2>2, <3>1, <3>2, <3>3
  <2> QED
    BY <2>1, <2>3, <2>4
<1> QED
  BY <1>3, <1>4, <1>5, <1>6, <1>7, <1>8, <1>9, <1>10, <1>11, <1>12, <1>13, <1>14
  DEF RequestStep

(* What a request step leaves of the rest of the state.                     *)
LEMMA RequestStepRest ==
    ASSUME PublishingInv, NEW c \in Callers, RequestStep(c)
    PROVE  recent' \in Seq(Keys) /\ UNCHANGED <<approved, actuator>>
<1>0. recent \in Seq(Keys) /\ request[c] \in Requests
  BY DEF PublishingInv, TypeOK
<1>1. CASE ClaimKey(c)
  <2>1. PICK k \in Keys : CountClaimed(c, k)
    BY <1>0, <1>1, PublishingAssumption DEF ClaimKey, Requests
  <2>2. Append(recent, k) \in Seq(Keys)
    BY <1>0
  <2>3. recent' \in Seq(Keys)
    BY <1>0, <2>1, <2>2 DEF CountClaimed
  <2> QED
    BY <1>1, <2>3 DEF ClaimKey
<1>2. CASE ~ClaimKey(c)
  <2>1. UNCHANGED <<recent, approved, actuator>>
    BY <1>2
    DEF RequestStep, QueueFromRun, queue_posts, LoadForEdit, schedule_post, cancel_post,
        LoadForPublish, CountForPublish, CountForExport, Act, ActRaises, RecordOutcome,
        RollBack, NextPiece, EndExport
  <2> QED
    BY <1>0, <2>1
<1> QED
  BY <1>1, <1>2

(* Nothing is published, claimed or asked for at first.                     *)
LEMMA PublishingInvInit == Init => PublishingInv
<1> SUFFICES ASSUME Init PROVE PublishingInv
  OBVIOUS
<1>1. ActuationInv
  BY ActuationInvInit DEF Init
<1>2. posts \in [Posts -> SocialPosts] /\ \A p \in Posts : posts[p].status = "absent"
  BY PublishingAssumption DEF Init, SocialPosts, PostStatuses
<1>3. /\ request \in [Callers -> Requests]
      /\ \A c \in Callers : request[c].kind = "none" /\ request[c].stage = "idle"
  BY NoRequestType DEF Init
<1>4. \A c \in Callers : attempt[c].stage = "none"
  BY NoAttemptType DEF Init, ActuationInit
<1>8. recent \in Seq(Keys) /\ approved \in BOOLEAN /\ actuator \in {"none", "fake", "real"}
  <2>1. recent = <<>> /\ approved = FALSE /\ actuator \in {"none", "fake", "real"}
    BY DEF Init
  <2>2. <<>> \in Seq(Keys)
    OBVIOUS
  <2> QED
    BY <2>1, <2>2, Zenon
<1>9. ActuationTypeOK
  BY <1>1 DEF ActuationInv
<1>5. TypeOK
  BY <1>2, <1>3, <1>4, <1>8, <1>9 DEF TypeOK
<1>6. NobodyIsIdle
  BY <1>3 DEF NobodyIsIdle
<1>7. PublishedWentOut
  BY <1>2 DEF PublishedWentOut
<1> QED
  BY <1>1, <1>5, <1>6, <1>7 DEF PublishingInv

(* The invariant is inductive: a request step, a restart, time, a human.    *)
LEMMA PublishingInvNext == PublishingInv /\ [Next]_vars => PublishingInv'
<1> SUFFICES ASSUME PublishingInv, [Next]_vars PROVE PublishingInv'
  OBVIOUS
<1>1. ASSUME NEW c \in Callers, RequestStep(c) PROVE PublishingInv'
  <2>1. [ActuationNext]_actuationVars
    BY <1>1, RequestStepIsActuation DEF PublishingInv
  <2>2. ActuationInv'
    BY <2>1, ActuationInvNext DEF PublishingInv
  <2>3. /\ request' \in [Callers -> Requests]
        /\ \A d \in Callers \ {c} : request'[d] = request[d] /\ attempt'[d] = attempt[d]
        /\ Fits(attempt'[c], request'[c])
    BY <1>1, RequestStepFits
  <2>4. \A d \in Callers : Fits(attempt'[d], request'[d])
    BY <2>3 DEF Fits, PublishingInv, TypeOK, NobodyIsIdle
  <2>5. posts' \in [Posts -> SocialPosts]
    BY <1>1, PostsStep
  <2>6. TypeOK'
    BY <1>1, <2>2, <2>3, <2>4, <2>5, RequestStepRest
    DEF TypeOK, Fits, ActuationInv, PublishingInv
  <2>7. PublishedWentOut'
    <3> SUFFICES ASSUME NEW p \in Posts, posts'[p].status = "published"
                 PROVE  p \in landed' /\ actions'[p] = Success
      BY DEF PublishedWentOut, Success
    <3>1. p \in landed /\ actions[p] = Success
      BY <1>1, PostsStep DEF PublishingInv, PublishedWentOut, Success
    <3>2. p \in Keys
      BY PublishingAssumption
    <3> QED
      BY <2>1, <3>1, <3>2, SuccessStays DEF PublishingInv
  <2> QED
    BY <2>2, <2>4, <2>6, <2>7 DEF PublishingInv, NobodyIsIdle, Fits
<1>2. CASE Approve \/ Age \/ UNCHANGED vars
  <2>1. UNCHANGED <<actuationVars, posts, request, actuator>>
    BY <1>2 DEF Approve, Age, vars, actuationVars
  <2>2. [ActuationNext]_actuationVars
    BY <2>1
  <2>3. ActuationInv'
    BY <2>2, ActuationInvNext DEF PublishingInv
  <2>4. recent' \in Seq(Keys) /\ approved' \in BOOLEAN
    <3>1. \/ recent' = recent
          \/ recent # <<>> /\ recent' = Tail(recent)
      BY <1>2 DEF Approve, Age, vars
    <3>2. recent \in Seq(Keys)
      BY DEF PublishingInv, TypeOK
    <3>3. recent' \in Seq(Keys)
      BY <3>1, <3>2
    <3>4. approved' = TRUE \/ approved' = approved
      BY <1>2, Zenon DEF Approve, Age, vars
    <3>5. approved \in BOOLEAN
      BY DEF PublishingInv, TypeOK
    <3>6. approved' \in BOOLEAN
      BY <3>4, <3>5, Zenon
    <3> QED
      BY <3>3, <3>6
  <2>7. ActuationTypeOK'
    BY <2>3 DEF ActuationInv
  <2>8. /\ posts' = posts /\ request' = request
        /\ actuator' = actuator /\ attempt' = attempt
    BY <2>1, SMT DEF actuationVars
  <2>9. TypeOK
    BY DEF PublishingInv
  <2>5. TypeOK'
    BY <2>4, <2>7, <2>8, <2>9, Zenon DEF TypeOK
  <2>6. NobodyIsIdle' /\ PublishedWentOut'
    BY <2>1 DEF PublishingInv, NobodyIsIdle, PublishedWentOut, actuationVars
  <2> QED
    BY <2>3, <2>5, <2>6 DEF PublishingInv
<1>3. CASE Restart
  <2>1. /\ attempt' = [c \in Callers |-> IF c \in Callers THEN NoAttempt ELSE attempt[c]]
        /\ UNCHANGED <<actions, calls, landed>>
    BY <1>3 DEF Restart
  <2>2. ActuationInv'
    BY <2>1, ForgettingKeepsInv DEF PublishingInv
  <2>3. /\ request' \in [Callers -> Requests]
        /\ \A c \in Callers : request'[c].kind = "none" /\ request'[c].stage = "idle"
    BY <1>3, NoRequestType DEF Restart
  <2>4. \A c \in Callers : attempt'[c].stage = "none"
    BY <2>1, NoAttemptType
  <2>5. UNCHANGED <<posts, recent, approved>> /\ actuator' \in {"none", "fake", "real"}
    BY <1>3 DEF Restart
  <2>6. TypeOK'
    BY <2>2, <2>3, <2>4, <2>5 DEF PublishingInv, TypeOK, ActuationInv
  <2> QED
    BY <2>1, <2>2, <2>3, <2>5, <2>6 DEF PublishingInv, NobodyIsIdle, PublishedWentOut
<1> QED
  BY <1>1, <1>2, <1>3 DEF Next

-----------------------------------------------------------------------------

THEOREM PublishingInvariant == Spec => []PublishingInv
<1> QED
  BY PublishingInvInit, PublishingInvNext, PTL DEF Spec

(* The tables, the requests and the attempts under them are well formed.    *)
THEOREM PublishingTypeCorrect == Spec => []TypeOK
<1>1. PublishingInv => TypeOK
  BY DEF PublishingInv
<1> QED
  BY <1>1, PublishingInvariant, PTL

(* EXPORT and the calendar, whatever their interleavings, restarts and      *)
(* repeated presses, call the provider at most once under a key.            *)
THEOREM PublishingCallsOnce == Spec => []AtMostOneCall
<1>1. PublishingInv => AtMostOneCall
  BY DEF PublishingInv, ActuationInv
<1> QED
  BY <1>1, PublishingInvariant, PTL

(* ... and no call is missing from the ledger.                              *)
THEOREM PublishingCallsAreOnRecord == Spec => []EveryCallIsOnRecord
<1>1. PublishingInv => EveryCallIsOnRecord
  BY DEF PublishingInv, ActuationInv
<1> QED
  BY <1>1, PublishingInvariant, PTL

(* A post shown as published was published, and stays on record as such.    *)
THEOREM PublishedPostsWentOut == Spec => []PublishedWentOut
<1>1. PublishingInv => PublishedWentOut
  BY DEF PublishingInv
<1> QED
  BY <1>1, PublishingInvariant, PTL

-----------------------------------------------------------------------------
(* The weekly cap: what counts against it, and who may go over it.          *)

\* The places of the week's list whose rows count against the cap.
Counting(rows, week) ==
    {i \in DOMAIN week : rows[week[i]].status \notin {"refused", "failed"}}

\* Every row of the week is in the ledger.
RecentAreRows == \A i \in DOMAIN recent : actions[recent[i]].status # "absent"

\* A caller that may still claim believes that what it is about to claim fits.
BelievesItFits(r, a) ==
    r.stage = "allowed" =>
        /\ r.kind = "publish" /\ a.stage = "none" => r.believed < WeeklyCap
        /\ r.kind = "export" /\ r.pieces # {} => r.believed + Cardinality(r.pieces) <= WeeklyCap

CapInv ==
    /\ PublishingInv
    /\ RecentAreRows
    /\ \A c \in Callers : BelievesItFits(request[c], attempt[c])

(* There are finitely many such places.                                     *)
LEMMA CountingType ==
    ASSUME NEW rows, NEW week \in Seq(Keys)
    PROVE  IsFiniteSet(Counting(rows, week)) /\ Cardinality(Counting(rows, week)) \in Nat
<1>1. IsFiniteSet(1 .. Len(week))
  BY FS_Interval
<1>2. Counting(rows, week) \in SUBSET (1 .. Len(week))
  BY DEF Counting
<1> QED
  BY <1>1, <1>2, FS_Subset, FS_CardinalityType

(* A list whose rows count for less counts for less.                        *)
LEMMA FewerCount ==
    ASSUME NEW rows, NEW later, NEW week \in Seq(Keys),
           \A i \in DOMAIN week : rows[week[i]].status \in {"refused", "failed"}
                                      => later[week[i]].status \in {"refused", "failed"}
    PROVE  Cardinality(Counting(later, week)) <= Cardinality(Counting(rows, week))
<1>1. Counting(later, week) \in SUBSET Counting(rows, week)
  BY DEF Counting
<1> QED
  BY <1>1, CountingType, FS_Subset

(* A row that joins the week counts for one at most.                        *)
LEMMA OneMoreCounts ==
    ASSUME NEW rows, NEW later, NEW week \in Seq(Keys), NEW k \in Keys,
           \A i \in DOMAIN week : rows[week[i]].status \in {"refused", "failed"}
                                      => later[week[i]].status \in {"refused", "failed"}
    PROVE  Cardinality(Counting(later, Append(week, k))) <= Cardinality(Counting(rows, week)) + 1
<1> DEFINE S == Counting(rows, week)
           T == Counting(later, Append(week, k))
           n == Len(week) + 1
<1>1. /\ Append(week, k) \in Seq(Keys) /\ Len(week) \in Nat
      /\ DOMAIN Append(week, k) = 1 .. n /\ DOMAIN week = 1 .. Len(week)
      /\ \A i \in DOMAIN week : Append(week, k)[i] = week[i]
  OBVIOUS
<1>2. \A i \in T : i \in S \/ i = n
  BY <1>1 DEF Counting
<1>3. IsFiniteSet(S) /\ Cardinality(S) \in Nat /\ Cardinality(T) \in Nat
  BY <1>1, CountingType
<1> HIDE DEF S, T, n
<1>4. T \in SUBSET (S \cup {n})
  BY <1>2
<1>5. IsFiniteSet(S \cup {n}) /\ Cardinality(S \cup {n}) \in {Cardinality(S), Cardinality(S) + 1}
  BY <1>3, FS_AddElement
<1>6. Cardinality(T) <= Cardinality(S \cup {n})
  BY <1>4, <1>5, FS_Subset
<1>7. Cardinality(T) <= Cardinality(S) + 1
  BY <1>3, <1>5, <1>6
<1> QED
  BY <1>7 DEF S, T

(* A row that leaves the week takes at most itself away.                    *)
LEMMA TailCounts ==
    ASSUME NEW rows, NEW week \in Seq(Keys), week # << >>
    PROVE  Cardinality(Counting(rows, Tail(week))) <= Cardinality(Counting(rows, week))
<1> DEFINE S == Counting(rows, week)
           T == Counting(rows, Tail(week))
           f == [i \in T |-> i + 1]
<1>1. /\ Tail(week) \in Seq(Keys) /\ Len(week) \in Nat \ {0}
      /\ DOMAIN Tail(week) = 1 .. Len(week) - 1 /\ DOMAIN week = 1 .. Len(week)
      /\ \A i \in DOMAIN Tail(week) : Tail(week)[i] = week[i + 1]
  OBVIOUS
<1>2. \A i \in T : i \in Nat /\ i + 1 \in S
  BY <1>1 DEF Counting
<1>3. IsFiniteSet(S)
  BY CountingType
<1> HIDE DEF S, T
<1>4. f \in [T -> S] /\ \A i, j \in T : f[i] = f[j] => i = j
  BY <1>2
<1> HIDE DEF f
<1>5. f \in Injection(T, S)
  BY <1>4 DEF Injection, IsInjective
<1>6. Cardinality(T) <= Cardinality(S)
  BY <1>3, <1>5, FS_Injection
<1> QED
  BY <1>6 DEF S, T

(* What was refused or failed stays so, and no row is deleted.              *)
LEMMA SettledForGood ==
    ASSUME ActuationInv, [ActuationNext]_actuationVars, NEW j \in Keys
    PROVE  /\ actions[j].status \in {"refused", "failed"}
                  => actions'[j].status \in {"refused", "failed"}
           /\ actions[j].status # "absent" => actions'[j].status # "absent"
<1>0. actions \in [Keys -> ActionRows] /\ attempt \in [Callers -> Attempts]
  BY DEF ActuationInv, ActuationTypeOK
<1>1. ASSUME NEW c \in Callers, NEW k \in Keys, NEW ok \in BOOLEAN, Claim(c, k, ok),
             actions[j].status # "absent"
      PROVE  actions'[j] = actions[j]
  <2>1. CASE actions[k].status = "absent"
    <3>1. j # k /\ actions' = [actions EXCEPT ![k] = [status |-> "in_flight", fake |-> FALSE]]
      BY <1>1, <2>1 DEF Claim
    <3> QED
      BY <1>0, <3>1
  <2>2. CASE actions[k].status # "absent"
    BY <1>1, <2>2 DEF Claim
  <2> QED
    BY <2>1, <2>2
<1>2. ASSUME NEW c \in Callers, NEW fake \in BOOLEAN, Perform(c, fake) PROVE UNCHANGED actions
  BY <1>2, PerformedShape
<1>3. ASSUME NEW c \in Callers, Settle(c)
      PROVE  /\ actions[j].status \in {"refused", "failed"} => actions'[j] = actions[j]
             /\ actions'[j].status = "absent" => actions[j].status = "absent"
  <2>1. actions[attempt[c].key].status = "in_flight"
    BY <1>3 DEF Settle, ActuationInv, HeldIsInFlight, Held
  <2>2. actions' = [actions EXCEPT ![attempt[c].key] =
                       [status |-> attempt[c].outcome.status,
                        fake |-> /\ attempt[c].outcome.fake
                                 /\ attempt[c].outcome.status = "succeeded"]]
    BY <1>3, <2>1 DEF Settle
  <2>3. attempt[c].outcome.status # "absent"
    BY <1>0 DEF Attempts, Outcomes, Statuses
  <2>4. CASE j = attempt[c].key
    BY <1>0, <2>1, <2>2, <2>3, <2>4
  <2>5. CASE j # attempt[c].key
    BY <1>0, <2>2, <2>5
  <2> QED
    BY <2>4, <2>5
<1>4. ASSUME NEW c \in Callers, StoreFails(c) \/ Forget(c) PROVE UNCHANGED actions
  BY <1>4 DEF StoreFails, Forget
<1> QED
  BY <1>1, <1>2, <1>3, <1>4 DEF ActuationNext, actuationVars

(* A claim's effect on the week and on its caller.                          *)
LEMMA ClaimCounts ==
    ASSUME CapInv, NEW c \in Callers, ClaimKey(c)
    PROVE  \E k \in Keys :
             /\ request'[c] = [request[c] EXCEPT
                   !.pieces = @ \ {k},
                   !.believed = @ + (IF actions[k].status = "absent" THEN 1 ELSE 0)]
             /\ recent' = IF actions[k].status = "absent" THEN Append(recent, k) ELSE recent
             /\ actions[k].status = "absent" => actions'[k].status = "in_flight"
             /\ attempt'[c].stage # "none" /\ attempt[c].stage = "none"
             /\ \/ request[c].kind = "publish"
                \/ request[c].kind = "export" /\ k \in request[c].pieces
<1>0. /\ request \in [Callers -> Requests] /\ attempt \in [Callers -> Attempts]
      /\ actions \in [Keys -> ActionRows]
  BY DEF CapInv, PublishingInv, TypeOK, ActuationTypeOK
<1>1. PICK k :
          /\ \/ request[c].kind = "publish" /\ k = request[c].post
             \/ request[c].kind = "export" /\ k \in request[c].pieces
          /\ \E ok : Claim(c, k, ok)
          /\ CountClaimed(c, k)
  BY DEF ClaimKey
<1>2. k \in Keys
  BY <1>0, <1>1, PublishingAssumption DEF Requests
<1>3. PICK ok : Claim(c, k, ok)
  BY <1>1
<1>4. attempt[c].stage = "none" /\ attempt'[c].stage # "none"
  <2>1. attempt[c].stage = "none"
    BY <1>3 DEF Claim
  <2>2. \E a : a.stage # "none" /\ attempt' = [attempt EXCEPT ![c] = a]
    <3>1. CASE actions[k].status = "absent"
      <4>1. attempt' = [attempt EXCEPT ![c] =
                 [stage |-> "claimed", key |-> k, approved |-> ok, outcome |-> NoOutcome]]
        BY <1>3, <3>1 DEF Claim
      <4> QED
        BY <4>1
    <3>2. CASE actions[k].status # "absent"
      <4>1. \E outcome : attempt' = [attempt EXCEPT ![c] =
                 [stage |-> "returned", key |-> k, approved |-> ok, outcome |-> outcome]]
        BY <1>3, <3>2, Zenon DEF Claim
      <4> QED
        BY <4>1
    <3> QED
      BY <3>1, <3>2
  <2> QED
    BY <1>0, <2>1, <2>2
<1>5. actions[k].status = "absent" => actions'[k].status = "in_flight"
  BY <1>0, <1>2, <1>3 DEF Claim
<1>6. request'[c] = [request[c] EXCEPT
          !.pieces = @ \ {k},
          !.believed = @ + (IF actions[k].status = "absent" THEN 1 ELSE 0)]
  BY <1>0, <1>1 DEF CountClaimed, SetRequest
<1>7. recent' = IF actions[k].status = "absent" THEN Append(recent, k) ELSE recent
  BY <1>1 DEF CountClaimed
<1> QED
  BY <1>1, <1>2, <1>4, <1>5, <1>6, <1>7

(* Only a claim touches the week's list in a request.                       *)
LEMMA WeekIsOfClaims ==
    ASSUME NEW c \in Callers, RequestStep(c), ~ClaimKey(c)
    PROVE  recent' = recent
BY DEF RequestStep, QueueFromRun, queue_posts, LoadForEdit, schedule_post, cancel_post,
       LoadForPublish, CountForPublish, CountForExport, Act, ActRaises, RecordOutcome,
       RollBack, NextPiece, EndExport

(* Its caller believes that what it may still claim fits, as it did.        *)
LEMMA BeliefStays ==
    ASSUME CapInv, NEW c \in Callers, RequestStep(c)
    PROVE  BelievesItFits(request'[c], attempt'[c])
<1>0. /\ request \in [Callers -> Requests] /\ attempt \in [Callers -> Attempts]
      /\ BelievesItFits(request[c], attempt[c])
      /\ WeeklyCap \in Nat /\ IsFiniteSet(Channels)
      /\ Committed \in Nat
  BY PublishingAssumption, CommittedType DEF CapInv, PublishingInv, TypeOK, ActuationTypeOK
<1>1. \A S : S \in SUBSET Channels => IsFiniteSet(S) /\ Cardinality(S) \in Nat
  BY <1>0, FS_Subset, FS_CardinalityType
<1>2. request[c] \in Requests /\ request[c].pieces \in SUBSET Channels /\ request[c].believed \in Nat
  BY <1>0 DEF Requests
<1>3. ASSUME NEW r, SetRequest(c, r) PROVE request'[c] = r
  BY <1>0, <1>3 DEF SetRequest
<1>4. CASE ClaimKey(c)
  <2>1. PICK k \in Keys :
             /\ request'[c] = [request[c] EXCEPT
                   !.pieces = @ \ {k},
                   !.believed = @ + (IF actions[k].status = "absent" THEN 1 ELSE 0)]
             /\ attempt'[c].stage # "none"
             /\ \/ request[c].kind = "publish"
                \/ request[c].kind = "export" /\ k \in request[c].pieces
    BY <1>4, ClaimCounts
  <2>2. /\ request'[c].pieces = request[c].pieces \ {k}
        /\ request'[c].believed \in {request[c].believed, request[c].believed + 1}
        /\ request'[c].kind = request[c].kind
    BY <1>2, <2>1 DEF Requests
  <2>3. request[c].stage = "allowed"
    BY <1>4 DEF ClaimKey
  <2>4. CASE request[c].kind = "publish"
    BY <2>1, <2>2, <2>4 DEF BelievesItFits
  <2>5. CASE request[c].kind = "export" /\ k \in request[c].pieces
    <3>1. Cardinality(request[c].pieces \ {k}) = Cardinality(request[c].pieces) - 1
      BY <1>1, <1>2, <2>5, FS_RemoveElement
    <3>2. request[c].believed + Cardinality(request[c].pieces) <= WeeklyCap
      BY <1>0, <2>3, <2>5 DEF BelievesItFits
    <3>3. request'[c].believed + Cardinality(request'[c].pieces) <= WeeklyCap
      BY <1>0, <1>1, <1>2, <2>2, <3>1, <3>2
    <3> QED
      BY <2>2, <2>5, <3>3 DEF BelievesItFits
  <2> QED
    BY <2>1, <2>4, <2>5
<1>5. CASE CountForPublish(c)
  <2> DEFINE r == [request[c] EXCEPT !.stage = "allowed", !.believed = Committed]
  <2>1. CASE headroom > 0 /\ actuator # "none"
    <3>1. request'[c] = r
      BY <1>3, <1>5, <2>1 DEF CountForPublish
    <3>2. Committed < WeeklyCap
      BY <1>0, <2>1 DEF headroom
    <3>3. request[c].kind = "publish"
      BY <1>5 DEF CountForPublish, At
    <3>4. r.kind = "publish" /\ r.believed = Committed
      BY <1>2, <3>3 DEF Requests
    <3> HIDE DEF r
    <3> QED
      BY <3>1, <3>2, <3>4 DEF BelievesItFits
  <2>2. CASE ~(headroom > 0 /\ actuator # "none")
    <3>1. End(c)
      BY <1>5, <2>2 DEF CountForPublish
    <3> QED
      BY <1>3, <3>1, NoRequestType DEF End, BelievesItFits
  <2> QED
    BY <2>1, <2>2
<1>6. CASE CountForExport(c)
  <2>1. PICK pieces \in SUBSET Channels :
         /\ Cardinality(pieces) = IF Cardinality(Channels) <= headroom
                                  THEN Cardinality(Channels) ELSE headroom
         /\ SetRequest(c, [NoRequest EXCEPT
              !.kind = "export", !.stage = "allowed",
              !.pieces = pieces, !.believed = Committed])
    BY <1>6 DEF CountForExport
  <2> DEFINE r == [NoRequest EXCEPT
              !.kind = "export", !.stage = "allowed",
              !.pieces = pieces, !.believed = Committed]
  <2>2. request'[c] = r
    BY <1>3, <2>1
  <2>3. r.kind = "export" /\ r.pieces = pieces /\ r.believed = Committed
    BY NoRequestType DEF Requests
  <2>4. pieces # {} => Cardinality(pieces) # 0
    BY <1>1, FS_EmptySet
  <2>5. headroom \in Nat /\ Cardinality(pieces) <= headroom
    BY <1>0, <1>1, <2>1 DEF headroom
  <2>6. pieces # {} => Committed + Cardinality(pieces) <= WeeklyCap
    BY <1>0, <1>1, <2>4, <2>5 DEF headroom
  <2> HIDE DEF r
  <2> QED
    BY <2>2, <2>3, <2>6 DEF BelievesItFits
<1>7. CASE Act(c)
  <2>1. request' = request /\ (Perform(c, actuator = "fake") \/ Settle(c))
    BY <1>7 DEF Act
  <2>2. attempt'[c].stage # "none"
    <3>1. CASE Settle(c)
      BY <1>0, <3>1 DEF Settle, Attempts
    <3>2. CASE Perform(c, actuator = "fake")
      <4>1. PICK outcome \in Outcomes : Performed(c, outcome)
        BY <3>2, PerformedShape DEF CapInv, PublishingInv
      <4> QED
        BY <1>0, <4>1 DEF Performed, Attempts
    <3> QED
      BY <2>1, <3>1, <3>2
  <2> QED
    BY <1>0, <2>1, <2>2 DEF BelievesItFits
<1>8. CASE ActRaises(c)
  <2>1. /\ request[c].kind = "export" /\ request[c].stage = "allowed"
        /\ \/ UNCHANGED request
           \/ \E piece \in request[c].pieces :
                SetRequest(c, [request[c] EXCEPT !.pieces = @ \ {piece}])
    BY <1>8 DEF ActRaises, At
  <2>2. CASE UNCHANGED request
    BY <1>0, <2>1, <2>2 DEF BelievesItFits
  <2>3. ASSUME NEW piece \in request[c].pieces,
               SetRequest(c, [request[c] EXCEPT !.pieces = @ \ {piece}])
        PROVE  BelievesItFits(request'[c], attempt'[c])
    <3>1. request'[c] = [request[c] EXCEPT !.pieces = @ \ {piece}]
      BY <1>3, <2>3
    <3>2. /\ request'[c].pieces = request[c].pieces \ {piece}
          /\ request'[c].believed = request[c].believed /\ request'[c].kind = "export"
      BY <1>2, <2>1, <3>1 DEF Requests
    <3>3. Cardinality(request[c].pieces \ {piece}) = Cardinality(request[c].pieces) - 1
      BY <1>1, <1>2, <2>3, FS_RemoveElement
    <3>4. request[c].believed + Cardinality(request[c].pieces) <= WeeklyCap
      BY <1>0, <2>1, <2>3 DEF BelievesItFits
    <3>5. request[c].believed + Cardinality(request[c].pieces \ {piece}) <= WeeklyCap
      BY <1>0, <1>1, <1>2, <3>3, <3>4
    <3> QED
      BY <3>2, <3>5 DEF BelievesItFits
  <2> QED
    BY <2>1, <2>2, <2>3
<1>9. CASE NextPiece(c)
  BY <1>0, <1>9 DEF NextPiece, At, BelievesItFits
<1>10. CASE \/ QueueFromRun(c)
            \/ \E p \in Posts, kind \in {"schedule", "cancel"} : LoadForEdit(c, p, kind)
            \/ \E p \in Posts : LoadForPublish(c, p)
  <2>1. ASSUME NEW r, SetRequest(c, r), r.stage = "loaded"
        PROVE  BelievesItFits(request'[c], attempt'[c])
    BY <1>3, <2>1 DEF BelievesItFits
  <2>2. CASE QueueFromRun(c)
    <3> DEFINE r == [NoRequest EXCEPT
               !.kind = "queue", !.stage = "loaded",
               !.existing = {posts[p].channel :
                               p \in {q \in Posts : posts[q].status \notin {"absent", "cancelled"}}}]
    <3>1. SetRequest(c, r)
      BY <2>2 DEF QueueFromRun
    <3>2. r.stage = "loaded"
      BY NoRequestType DEF Requests
    <3> HIDE DEF r
    <3> QED
      BY <2>1, <3>1, <3>2
  <2>3. ASSUME NEW p \in Posts, NEW kind \in {"schedule", "cancel", "publish"},
               SetRequest(c, [NoRequest EXCEPT
                 !.kind = kind, !.stage = "loaded", !.post = p, !.loaded = posts[p].status])
        PROVE  BelievesItFits(request'[c], attempt'[c])
    <3> DEFINE r == [NoRequest EXCEPT
                 !.kind = kind, !.stage = "loaded", !.post = p, !.loaded = posts[p].status]
    <3>1. r.stage = "loaded"
      BY NoRequestType DEF Requests
    <3>2. SetRequest(c, r)
      BY <2>3
    <3> HIDE DEF r
    <3> QED
      BY <2>1, <3>1, <3>2
  <2>4. CASE \E p \in Posts, kind \in {"schedule", "cancel"} : LoadForEdit(c, p, kind)
    BY <2>3, <2>4 DEF LoadForEdit
  <2>5. CASE \E p \in Posts : LoadForPublish(c, p)
    BY <2>3, <2>5 DEF LoadForPublish
  <2> QED
    BY <1>10, <2>2, <2>4, <2>5
<1>11. CASE \/ queue_posts(c) \/ schedule_post(c) \/ cancel_post(c) \/ RecordOutcome(c)
            \/ RollBack(c) \/ EndExport(c)
  <2>1. SetRequest(c, NoRequest)
    BY <1>11 DEF queue_posts, schedule_post, cancel_post, RecordOutcome, RollBack, EndExport, End
  <2> QED
    BY <1>3, <2>1, NoRequestType DEF BelievesItFits
<1> QED
  BY <1>4, <1>5, <1>6, <1>7, <1>8, <1>9, <1>10, <1>11 DEF RequestStep

(* The week starts empty.                                                   *)
LEMMA CapInvInit == Init => CapInv
<1> SUFFICES ASSUME Init PROVE CapInv
  OBVIOUS
<1>1. recent = << >> /\ \A c \in Callers : request[c].stage = "idle"
  BY NoRequestType DEF Init
<1>2. RecentAreRows
  BY <1>1 DEF RecentAreRows
<1> QED
  BY <1>1, <1>2, PublishingInvInit DEF CapInv, BelievesItFits

(* Every step keeps the beliefs, and one that adds to what counts against   *)
(* the cap is the claim of a caller that believed there was room.           *)
LEMMA CapStep ==
    ASSUME CapInv, [Next]_vars
    PROVE  /\ CapInv'
           /\ \/ Cardinality(Counting(actions', recent')) <= Cardinality(Counting(actions, recent))
              \/ /\ Cardinality(Counting(actions', recent'))
                        <= Cardinality(Counting(actions, recent)) + 1
                 /\ \E c \in Callers :
                       /\ request[c].stage = "allowed"
                       /\ request'[c].believed > request[c].believed
                       /\ request[c].believed < WeeklyCap
<1> DEFINE NoMore == Cardinality(Counting(actions', recent')) <= Cardinality(Counting(actions, recent))
           OneMore == /\ Cardinality(Counting(actions', recent'))
                             <= Cardinality(Counting(actions, recent)) + 1
                      /\ \E c \in Callers :
                            /\ request[c].stage = "allowed"
                            /\ request'[c].believed > request[c].believed
                            /\ request[c].believed < WeeklyCap
<1>0. /\ PublishingInv /\ PublishingInv' /\ recent \in Seq(Keys) /\ recent' \in Seq(Keys)
      /\ request \in [Callers -> Requests] /\ ActuationInv /\ RecentAreRows
  BY PublishingInvNext DEF CapInv, PublishingInv, TypeOK
<1>1. Cardinality(Counting(actions, recent)) \in Nat
  BY <1>0, CountingType
<1>2. \A i \in DOMAIN recent : recent[i] \in Keys
  BY <1>0
<1>3. ASSUME NEW c \in Callers, RequestStep(c)
      PROVE  /\ RecentAreRows' /\ (NoMore \/ OneMore)
             /\ \A d \in Callers : BelievesItFits(request'[d], attempt'[d])
  <2>1. [ActuationNext]_actuationVars
    BY <1>0, <1>3, RequestStepIsActuation DEF PublishingInv
  <2>2. \A i \in DOMAIN recent :
            /\ actions[recent[i]].status \in {"refused", "failed"}
                  => actions'[recent[i]].status \in {"refused", "failed"}
            /\ actions'[recent[i]].status # "absent"
    BY <1>0, <1>2, <2>1, SettledForGood DEF RecentAreRows
  <2>3. \A d \in Callers : BelievesItFits(request'[d], attempt'[d])
    BY <1>0, <1>3, BeliefStays, RequestStepFits DEF CapInv
  <2>4. CASE recent' = recent
    <3>1. RecentAreRows'
      BY <2>2, <2>4 DEF RecentAreRows
    <3>2. NoMore
      BY <1>0, <2>2, <2>4, FewerCount
    <3> QED
      BY <2>3, <3>1, <3>2
  <2>5. CASE recent' # recent
    <3>1. ClaimKey(c)
      BY <1>3, <2>5, WeekIsOfClaims
    <3>2. PICK k \in Keys :
             /\ request'[c] = [request[c] EXCEPT
                   !.pieces = @ \ {k},
                   !.believed = @ + (IF actions[k].status = "absent" THEN 1 ELSE 0)]
             /\ recent' = IF actions[k].status = "absent" THEN Append(recent, k) ELSE recent
             /\ actions[k].status = "absent" => actions'[k].status = "in_flight"
             /\ attempt[c].stage = "none"
             /\ \/ request[c].kind = "publish"
                \/ request[c].kind = "export" /\ k \in request[c].pieces
      BY <3>1, ClaimCounts
    <3>3. /\ actions[k].status = "absent" /\ recent' = Append(recent, k)
          /\ actions'[k].status = "in_flight"
      BY <2>5, <3>2
    <3>4. RecentAreRows'
      <4>1. \A i \in DOMAIN recent' : \/ i \in DOMAIN recent /\ recent'[i] = recent[i]
                                    \/ recent'[i] = k
        BY <1>0, <3>3
      <4> QED
        BY <2>2, <3>3, <4>1 DEF RecentAreRows
    <3>5. Cardinality(Counting(actions', recent')) <= Cardinality(Counting(actions, recent)) + 1
      BY <1>0, <2>2, <3>3, OneMoreCounts
    <3>6. request[c].stage = "allowed" /\ BelievesItFits(request[c], attempt[c])
      BY <3>1 DEF ClaimKey, CapInv
    <3>7. /\ request[c].believed \in Nat /\ request[c].pieces \in SUBSET Channels
          /\ request'[c].believed = request[c].believed + 1
      BY <1>0, <3>2, <3>3 DEF Requests
    <3>8. request[c].believed < WeeklyCap
      <4>1. CASE request[c].kind = "publish"
        BY <3>2, <3>6, <4>1 DEF BelievesItFits
      <4>2. CASE request[c].kind = "export" /\ k \in request[c].pieces
        <5>1. /\ IsFiniteSet(request[c].pieces) /\ Cardinality(request[c].pieces) \in Nat
              /\ Cardinality(request[c].pieces) # 0
          BY <3>7, <4>2, PublishingAssumption, FS_Subset, FS_CardinalityType, FS_EmptySet
        <5>2. request[c].believed + Cardinality(request[c].pieces) <= WeeklyCap
          BY <3>6, <4>2 DEF BelievesItFits
        <5> QED
          BY <3>7, <5>1, <5>2, PublishingAssumption
      <4> QED
        BY <3>2, <4>1, <4>2
    <3>9. OneMore
      BY <3>5, <3>6, <3>7, <3>8
    <3> QED
      BY <2>3, <3>4, <3>9
  <2> QED
    BY <2>4, <2>5
<1>4. CASE Approve \/ UNCHANGED vars
  <2>1. UNCHANGED <<actions, recent, request, attempt>>
    BY <1>4 DEF Approve, vars, actuationVars
  <2>2. NoMore
    BY <1>1, <2>1
  <2> QED
    BY <1>0, <2>1, <2>2 DEF CapInv, RecentAreRows
<1>5. CASE Age
  <2>1. UNCHANGED <<actions, request, attempt>> /\ recent # << >> /\ recent' = Tail(recent)
    BY <1>5 DEF Age, actuationVars
  <2>2. NoMore
    BY <1>0, <2>1, TailCounts
  <2>3. \A i \in DOMAIN recent' : i + 1 \in DOMAIN recent /\ recent'[i] = recent[i + 1]
    BY <1>0, <2>1
  <2>4. RecentAreRows'
    BY <1>0, <2>1, <2>3 DEF RecentAreRows
  <2> QED
    BY <1>0, <2>1, <2>2, <2>4 DEF CapInv
<1>6. CASE Restart
  <2>1. UNCHANGED <<actions, recent>> /\ \A c \in Callers : request'[c].stage = "idle"
    BY <1>6, NoRequestType DEF Restart
  <2>2. NoMore
    BY <1>1, <2>1
  <2> QED
    BY <1>0, <2>1, <2>2 DEF CapInv, RecentAreRows, BelievesItFits
<1> QED
  BY <1>0, <1>3, <1>4, <1>5, <1>6 DEF Next, CapInv

(* However many channels, callers and restarts, the week's cap is passed by *)
(* one row at a time, and only by a caller whose count was overtaken: the   *)
(* cap cannot be passed by a caller who knows of every row (publish_cap     *)
(* headroom; the count and the claim are two transactions).                 *)
THEOREM CapIsPassedOnlyByAStaleCount == Spec => OnlyAStaleCountOvershoots
<1>1. ASSUME CapInv, [Next]_vars, OverTheCap', ~OverTheCap
      PROVE  \E c \in Callers :
                 /\ request[c].stage = "allowed"
                 /\ request'[c].believed > request[c].believed
                 /\ request[c].believed < Committed
  <2>1. OverTheCap' <=> Cardinality(Counting(actions', recent')) > WeeklyCap
    BY DEF OverTheCap, Counting
  <2>2. OverTheCap <=> Cardinality(Counting(actions, recent)) > WeeklyCap
    BY DEF OverTheCap, Counting
  <2>3. Committed = Cardinality(Counting(actions, recent))
    <3>1. \A i \in DOMAIN recent : recent[i] \in Keys /\ actions[recent[i]].status # "absent"
      BY <1>1 DEF CapInv, PublishingInv, TypeOK, RecentAreRows
    <3>2. actions \in [Keys -> ActionRows]
      BY <1>1 DEF CapInv, PublishingInv, TypeOK, ActuationTypeOK
    <3>3. \A i \in DOMAIN recent :
              actions[recent[i]].status \in {"succeeded", "in_flight"}
                  <=> actions[recent[i]].status \notin {"refused", "failed"}
      BY <3>1, <3>2 DEF ActionRows, Statuses
    <3>4. {i \in DOMAIN recent : actions[recent[i]].status \in {"succeeded", "in_flight"}}
              = Counting(actions, recent)
      BY <3>3 DEF Counting
    <3> QED
      BY <3>4 DEF Committed
  <2>4. /\ Cardinality(Counting(actions, recent)) \in Nat
        /\ Cardinality(Counting(actions', recent')) \in Nat /\ WeeklyCap \in Nat
    <3>1. CapInv' /\ recent \in Seq(Keys) /\ recent' \in Seq(Keys)
      BY <1>1, CapStep DEF CapInv, PublishingInv, TypeOK
    <3> QED
      BY <3>1, CountingType, PublishingAssumption
  <2>5. Committed = WeeklyCap
    BY <1>1, <2>1, <2>2, <2>3, <2>4, CapStep
  <2> QED
    BY <1>1, <2>1, <2>2, <2>4, <2>5, CapStep
<1>2. CapInv /\ [Next]_vars => CapInv'
  BY CapStep
<1>3. CapInv /\ [Next]_vars =>
        (OverTheCap' /\ ~OverTheCap =>
           \E c \in Callers :
               /\ request[c].stage = "allowed"
               /\ request'[c].believed > request[c].believed
               /\ request[c].believed < Committed)
  BY <1>1
<1> QED
  BY <1>2, <1>3, CapInvInit, PTL DEF Spec, OnlyAStaleCountOvershoots

=============================================================================
