------------------------------ MODULE Actuation ------------------------------
(***************************************************************************)
(* app/actuators: the only way the system touches the outside world.  A    *)
(* caller of actuate() claims an idempotency key by inserting its row into *)
(* the actions table, performs the effect, and settles the row with what   *)
(* happened.  Every database call is its own transaction, so each is a     *)
(* step; between any two of them another caller runs or the process dies.  *)
(*                                                                         *)
(* Who calls, with which key and when, is left open here: Publishing gives *)
(* the two callers the application has.  The provider is external: it may  *)
(* publish and answer, publish and not answer, or do neither.              *)
(***************************************************************************)
EXTENDS Naturals

CONSTANTS
    Callers,    \* concurrent executions of actuate()
    Keys        \* idempotency keys

ASSUME KeysAssumption == Keys # {}

VARIABLES
    actions,    \* the actions table: the row each key holds
    attempt,    \* what each caller's actuate() is doing
    calls,      \* how often the provider was called under a key
    landed      \* the keys whose effect exists at the provider

actuationVars == <<actions, attempt, calls, landed>>

Statuses == {"succeeded", "failed", "refused"}

\* Outcome: `fake` says no credential was configured and nothing left.
Outcomes == [status : Statuses, fake : BOOLEAN, replayed : BOOLEAN]

Outcome(status, fake) == [status |-> status, fake |-> fake, replayed |-> FALSE]

\* A row of the table, or "absent" when no row holds the key.
ActionRows == [status : {"absent", "in_flight"} \union Statuses, fake : BOOLEAN]

NoAction == [status |-> "absent", fake |-> FALSE]

AttemptStages == {"none", "claimed", "performed", "returned", "raised"}

Attempts ==
    [stage : AttemptStages, key : Keys, approved : BOOLEAN, outcome : Outcomes]

NoOutcome == Outcome("refused", FALSE)

\* actuate() has not been called; the other fields mean nothing.
NoAttempt ==
    [stage |-> "none", key |-> CHOOSE k \in Keys : TRUE, approved |-> FALSE,
     outcome |-> NoOutcome]

-----------------------------------------------------------------------------
(* The actions store: the unique index on the key is the lock.              *)

\* Faulty variant: a settled failure may be claimed again.
ClaimAgainAfterFailure(c, k, approved) ==
    /\ attempt[c].stage = "none"
    /\ IF actions[k].status \in {"absent", "failed"}
       THEN /\ actions' = [actions EXCEPT ![k] = [status |-> "in_flight", fake |-> FALSE]]
            /\ attempt' = [attempt EXCEPT ![c] =
                 [stage |-> "claimed", key |-> k, approved |-> approved,
                  outcome |-> NoOutcome]]
       ELSE /\ attempt' = [attempt EXCEPT ![c] =
                 [stage |-> "returned", key |-> k, approved |-> approved,
                  outcome |->
                    IF actions[k].status = "in_flight"
                    THEN Outcome("refused", FALSE)
                    ELSE [status |-> actions[k].status, fake |-> actions[k].fake,
                          replayed |-> TRUE]]]
            /\ UNCHANGED actions
    /\ UNCHANGED <<calls, landed>>

\* Faulty variant: the row is left for the settle to write.
ClaimWithoutRow(c, k, approved) ==
    /\ attempt[c].stage = "none"
    /\ actions[k].status = "absent"
    /\ attempt' = [attempt EXCEPT ![c] =
         [stage |-> "claimed", key |-> k, approved |-> approved,
          outcome |-> NoOutcome]]
    /\ UNCHANGED <<actions, calls, landed>>

\* The insert wins the key, or the row that holds it is the answer: an attempt
\* in flight is a refusal, a settled one is replayed.
Claim(c, k, approved) ==
    /\ attempt[c].stage = "none"
    /\ IF actions[k].status = "absent"
       THEN /\ actions' = [actions EXCEPT ![k] = [status |-> "in_flight", fake |-> FALSE]]
            /\ attempt' = [attempt EXCEPT ![c] =
                 [stage |-> "claimed", key |-> k, approved |-> approved,
                  outcome |-> NoOutcome]]
       ELSE /\ attempt' = [attempt EXCEPT ![c] =
                 [stage |-> "returned", key |-> k, approved |-> approved,
                  outcome |->
                    IF actions[k].status = "in_flight"
                    THEN Outcome("refused", FALSE)
                    ELSE [status |-> actions[k].status, fake |-> actions[k].fake,
                          replayed |-> TRUE]]]
            /\ UNCHANGED actions
    /\ UNCHANGED <<calls, landed>>

Performed(c, outcome) ==
    attempt' = [attempt EXCEPT ![c].stage = "performed", ![c].outcome = outcome]

\* No approver on record: refused after the claim, so the refusal has a row.
RefuseUnapproved(c) ==
    /\ attempt[c].stage = "claimed"
    /\ ~attempt[c].approved
    /\ Performed(c, Outcome("refused", FALSE))
    /\ UNCHANGED <<actions, calls, landed>>

\* A policy, channel or connection check stops the actuator before any call;
\* the check itself may also fail.
PerformRefused(c, fake) ==
    /\ attempt[c].stage = "claimed"
    /\ attempt[c].approved
    /\ \E status \in {"refused", "failed"} : Performed(c, Outcome(status, fake))
    /\ UNCHANGED <<actions, calls, landed>>

\* No publisher configured: success is reported and nothing leaves.
PerformSimulated(c) ==
    /\ attempt[c].stage = "claimed"
    /\ attempt[c].approved
    /\ Performed(c, Outcome("succeeded", TRUE))
    /\ UNCHANGED <<actions, calls, landed>>

\* The provider is called.  A failure it reports may still have published.
PerformCall(c) ==
    LET k == attempt[c].key IN
    /\ attempt[c].stage = "claimed"
    /\ attempt[c].approved
    /\ calls' = [calls EXCEPT ![k] = @ + 1]
    /\ \/ /\ landed' = landed \union {k}
          /\ \E status \in {"succeeded", "failed"} : Performed(c, Outcome(status, FALSE))
       \/ /\ Performed(c, Outcome("failed", FALSE))
          /\ UNCHANGED landed
    /\ UNCHANGED actions

Perform(c, fake) ==
    \/ RefuseUnapproved(c)
    \/ PerformRefused(c, fake)
    \/ fake /\ PerformSimulated(c)
    \/ ~fake /\ PerformCall(c)

\* An UPDATE by key: it finds the row, or silently nothing.  That nothing left
\* is kept for a simulated success alone (result["simulated"]).
Settle(c) ==
    LET k == attempt[c].key IN
    /\ attempt[c].stage = "performed"
    /\ attempt' = [attempt EXCEPT ![c].stage = "returned"]
    /\ actions' = IF actions[k].status = "absent"
                  THEN actions
                  ELSE [actions EXCEPT ![k] = [status |-> attempt[c].outcome.status,
                                               fake |-> /\ attempt[c].outcome.fake
                                                        /\ attempt[c].outcome.status = "succeeded"]]
    /\ UNCHANGED <<calls, landed>>

\* The store cannot reach the database, at the claim or at the settle; actuate()
\* lets the error out.
StoreFails(c) ==
    /\ attempt[c].stage \in {"none", "performed"}
    /\ attempt' = [attempt EXCEPT ![c].stage = "raised"]
    /\ UNCHANGED <<actions, calls, landed>>

\* The caller's process dies, or the caller is done with the attempt.
Forget(c) ==
    /\ attempt' = [attempt EXCEPT ![c] = NoAttempt]
    /\ UNCHANGED <<actions, calls, landed>>

-----------------------------------------------------------------------------

ActuationInit ==
    /\ actions = [k \in Keys |-> NoAction]
    /\ attempt = [c \in Callers |-> NoAttempt]
    /\ calls = [k \in Keys |-> 0]
    /\ landed = {}

ActuationNext ==
    \E c \in Callers :
        \/ \E k \in Keys, approved \in BOOLEAN : Claim(c, k, approved)
        \/ \E fake \in BOOLEAN : Perform(c, fake)
        \/ Settle(c)
        \/ StoreFails(c)
        \/ Forget(c)

ActuationSpec == ActuationInit /\ [][ActuationNext]_actuationVars

-----------------------------------------------------------------------------

ActuationTypeOK ==
    /\ actions \in [Keys -> ActionRows]
    /\ attempt \in [Callers -> Attempts]
    /\ calls \in [Keys -> Nat]
    /\ landed \subseteq Keys

(* The provider is called at most once under a key, whatever crashes,       *)
(* retries and concurrent attempts there are.  (actuate: "Perform one side  *)
(* effect, exactly once"; contract.py rule 2.)                              *)
AtMostOneCall == \A k \in Keys : calls[k] <= 1

(* A call to the provider has a row that does not deny it: in flight,       *)
(* succeeded for real, or failed.  (contract.py rule 1: "the record is      *)
(* written BEFORE the call".)                                               *)
EveryCallIsOnRecord ==
    \A k \in Keys :
        calls[k] > 0 =>
            /\ actions[k].status \in {"in_flight", "succeeded", "failed"}
            /\ ~actions[k].fake

=============================================================================
