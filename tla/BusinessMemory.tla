---------------------------- MODULE BusinessMemory ----------------------------
(***************************************************************************)
(* What the agent durably knows of one business: the profile its owner     *)
(* confirmed at onboarding and the preferences it was told, both in one    *)
(* JSONB column (businesses.dna), and the rules distilled from rejections  *)
(* that wait for approval (learned_style).  services/memory_service,       *)
(* feedback_service and onboarding_service, and their routes.              *)
(*                                                                         *)
(* A request is a transaction.  A writer of the column locks the row when  *)
(* it reads it for the last time and holds it until it commits, so that    *)
(* read and write are one step; what it read before is the other.          *)
(***************************************************************************)
EXTENDS Naturals, Sequences, FiniteSets, SequencesExt, Filtering

CONSTANTS
    MemoryRequests,     \* requests to the memory, onboarding and feedback routes
    Keys,               \* rules, up to case and spacing
    TooLong,            \* those among them longer than MAX_RULE_LENGTH
    MAX_PREFERENCES,
    MinOccurrences      \* DEFAULT_MIN_OCCURRENCES

ASSUME BusinessMemoryAssumption ==
    /\ IsFiniteSet(MemoryRequests) /\ IsFiniteSet(Keys) /\ TooLong \subseteq Keys
    /\ {MAX_PREFERENCES, MinOccurrences} \subseteq Nat \ {0}

VARIABLES
    dna,            \* businesses.dna: the preferences and the rest of it
    feedback,       \* rejections, by the rule their reason stands for
    learned,        \* learned_style
    asked           \* every request

memoryVars == <<dna, feedback, learned, asked>>

-----------------------------------------------------------------------------

\* A rule as it was typed; two spellings of a rule are one rule.
Rule == [key: Keys, spelling: {"first", "other"}]
KeysOf(rules) == {rules[i].key : i \in DOMAIN rules}

\* Faulty variant: the newest rule is left out of the comparison.
HoldsBeforeTheNewest(rules, key) == \E i \in DOMAIN rules \ {Len(rules)} : rules[i].key = key

Holds(rules, key) == key \in KeysOf(rules)

NoRequest == [kind |-> "none", step |-> "idle", key |-> CHOOSE k \in Keys : TRUE,
              before |-> << >>, counted |-> 0, taken |-> {}]

MemoryInit ==
    /\ dna = [preferences |-> << >>, profile |-> 0]
    /\ feedback = [k \in Keys |-> 0]
    /\ learned = {}
    /\ asked = [r \in MemoryRequests |-> NoRequest]

Completed(r) == asked' = [asked EXCEPT ![r] = [NoRequest EXCEPT !.step = "done"]]
Free(r) == asked[r].step = "idle"

-----------------------------------------------------------------------------
(* Writing the column *)

\* Faulty variant: the locked query returns the object this session already holds.
AsItWasRead(r) ==
    IF asked[r].step = "resolved" THEN asked[r].before[1] ELSE dna

\* _load with the lock: the row as the writers before this one left it.
Locked(r) == dna

\* _with_preferences: a new object, every other key as it was.
with_preferences(old, preferences) == [old EXCEPT !.preferences = preferences]

\* remember: blank and over-long rules are refused, a rule in force is not added again,
\* and a full list refuses.
Remembered(old, rule) ==
    IF Holds(old.preferences, rule.key) THEN old
    ELSE with_preferences(old, Append(old.preferences, rule))
Refuses(old, rule) ==
    \/ rule.key \in TooLong
    \/ ~ Holds(old.preferences, rule.key) /\ Len(old.preferences) >= MAX_PREFERENCES

AddPreference(r) ==
    /\ Free(r)
    /\ \E rule \in Rule :
          dna' = IF Refuses(Locked(r), rule) THEN dna ELSE Remembered(Locked(r), rule)
    /\ Completed(r)
    /\ UNCHANGED <<feedback, learned>>

\* update_preference and delete_preference resolve the id first, without the lock; an id
\* that no longer stands for a rule is a 404.
Resolve(r) ==
    /\ Free(r)
    /\ \E k \in KeysOf(dna.preferences), kind \in {"revise", "forget"} :
          asked' = [asked EXCEPT ![r] = [NoRequest EXCEPT !.kind = kind, !.key = k,
                                            !.step = "resolved", !.before = << dna >>]]
    /\ UNCHANGED <<dna, feedback, learned>>

\* forget: a rule that is gone already is no error.
ForgetPreference(r) ==
    LET now == Locked(r) IN
    /\ asked[r].step = "resolved" /\ asked[r].kind = "forget"
    /\ dna' = IF Holds(now.preferences, asked[r].key)
              THEN with_preferences(now,
                      Picked(now.preferences,
                             {i \in DOMAIN now.preferences :
                                 now.preferences[i].key # asked[r].key}))
              ELSE dna
    /\ Completed(r)
    /\ UNCHANGED <<feedback, learned>>

\* revise: in place; refused when the rule is gone, or when the new text is another rule
\* in force.
Revise(r) ==
    LET now == Locked(r) IN
    /\ asked[r].step = "resolved" /\ asked[r].kind = "revise"
    /\ \E new \in {rule \in Rule : rule.key \notin TooLong} :
          dna' = IF /\ Holds(now.preferences, asked[r].key)
                    /\ new.key = asked[r].key \/ ~ Holds(now.preferences, new.key)
                 THEN with_preferences(now,
                         [i \in DOMAIN now.preferences |->
                             IF now.preferences[i].key = asked[r].key THEN new
                             ELSE now.preferences[i]])
                 ELSE dna
    /\ Completed(r)
    /\ UNCHANGED <<feedback, learned>>

\* save_confirmed_dna: the profile is replaced, the preferences are carried over.
Confirm(r) ==
    /\ Free(r)
    /\ dna' = [preferences |-> Locked(r).preferences, profile |-> Locked(r).profile + 1]
    /\ Completed(r)
    /\ UNCHANGED <<feedback, learned>>

-----------------------------------------------------------------------------
(* Feedback *)

\* record, and the first query of distil, which sees its own rejection.
Reject(r) ==
    /\ Free(r)
    /\ \E k \in Keys :
          asked' = [asked EXCEPT ![r] = [NoRequest EXCEPT !.kind = "reject", !.key = k,
                                            !.step = "counted", !.counted = feedback[k] + 1]]
    /\ UNCHANGED <<dna, feedback, learned>>

\* The rules that were ever proposed.
EverProposed == {p.key : p \in learned}

\* The rules in force and every rule proposed so far.
ReadTaken(r) ==
    /\ asked[r].step = "counted"
    /\ asked' = [asked EXCEPT ![r].step = "distilling",
                              ![r].taken = KeysOf(dna.preferences) \cup EverProposed]
    /\ UNCHANGED <<dna, feedback, learned>>

\* A reason that recurs becomes a proposal; the transaction commits.
Propose(r) ==
    LET k == asked[r].key IN
    /\ asked[r].step = "distilling"
    /\ feedback' = [feedback EXCEPT ![k] = @ + 1]
    /\ learned' = IF asked[r].counted >= MinOccurrences /\ k \notin asked[r].taken
                  THEN learned \cup {[key |-> k, by |-> r, status |-> "proposed"]}
                  ELSE learned
    /\ Completed(r)
    /\ UNCHANGED dna

\* approve_proposal: approved and in force, in one transaction; a rule that cannot be
\* remembered leaves the proposal as it was.
Approve(r) ==
    /\ Free(r)
    /\ \E p \in learned :
          LET rule == [key |-> p.key, spelling |-> "first"] IN
          IF Refuses(Locked(r), rule) THEN UNCHANGED <<dna, learned>>
          ELSE /\ dna' = Remembered(Locked(r), rule)
               /\ learned' = (learned \ {p}) \cup {[p EXCEPT !.status = "approved"]}
    /\ Completed(r)
    /\ UNCHANGED feedback

MemoryNext ==
    \E r \in MemoryRequests :
       \/ AddPreference(r) \/ Resolve(r) \/ ForgetPreference(r) \/ Revise(r) \/ Confirm(r)
       \/ Reject(r) \/ ReadTaken(r) \/ Propose(r) \/ Approve(r)

MemorySpec == MemoryInit /\ [][MemoryNext]_memoryVars

-----------------------------------------------------------------------------
(* Properties *)

\* The list holds no rule twice and is never longer than it may be.
MemoryTypeOK ==
    /\ dna.preferences \in Seq(Rule) /\ dna.profile \in Nat
    /\ Len(dna.preferences) <= MAX_PREFERENCES
    /\ Cardinality(KeysOf(dna.preferences)) = Len(dna.preferences)
    /\ feedback \in [Keys -> Nat]
    /\ learned \subseteq [key: Keys, by: MemoryRequests, status: {"proposed", "approved"}]
    /\ \A r \in MemoryRequests :
          asked[r].step \in {"idle", "resolved", "counted", "distilling", "done"}

OneEdit(old, new) ==
    \/ new = old
    \/ \E rule \in Rule : new = Append(old, rule)
    \/ \E i \in DOMAIN old : new = RemoveAt(old, i)
    \/ \E i \in DOMAIN old, rule \in Rule : new = [old EXCEPT ![i] = rule]

\* Whatever requests overlap, a writer changes what it was asked to and nothing else: one
\* preference at most is added, removed or reworded, every other one keeps its place, and
\* the confirmed profile (with the claims the business must not make) never goes back.
WritersKeepTheRest ==
    [][ /\ OneEdit(dna.preferences, dna'.preferences)
        /\ dna'.profile \in {dna.profile, dna.profile + 1}
        /\ dna'.profile # dna.profile => dna'.preferences = dna.preferences ]_memoryVars

=============================================================================
