--------------------------- MODULE Services_proofs ---------------------------
(***************************************************************************)
(* Proofs about the components that meet only in the database: the model   *)
(* router's budget, the visibility probes, the knowledge base and the      *)
(* leads, each about the component's own specification, and at the end     *)
(* about ServicesSpec, where every component's behaviours are also         *)
(* behaviours of its own.  Accounts and platform connections, run events   *)
(* and the components that handle texts have modules of theirs.            *)
(***************************************************************************)
EXTENDS Services, Accounts_proofs, RunEvents_proofs, Content_proofs,
        FiniteSetTheorems, SequenceTheorems, WellFoundedInduction, TLAPS

-----------------------------------------------------------------------------
(* The model router's budget.                                               *)

(* The constants are numbers.                                               *)
LEMMA RouterConstants ==
    /\ IsFiniteSet(Calls)
    /\ Concurrency \in Nat \ {0} /\ Limit \in Nat /\ Surplus \in Nat /\ MaxEdits \in Nat
BY ModelRouterAssumption

\* A call of a provider, whatever chain it came from.
IsCall(x) == \E step, chain, i, ceiling :
    x = [step |-> step, chain |-> chain, at |-> i, ceiling |-> ceiling]

(* A call with its step changed.                                            *)
LEMMA CallEnds ==
    ASSUME NEW x, IsCall(x), NEW step
    PROVE  IsCall([x EXCEPT !.step = step]) /\ [x EXCEPT !.step = step].step = step
<1>1. PICK old, chain, i, ceiling :
        x = [step |-> old, chain |-> chain, at |-> i, ceiling |-> ceiling]
  BY DEF IsCall
<1>2. [x EXCEPT !.step = step] = [step |-> step, chain |-> chain, at |-> i, ceiling |-> ceiling]
  BY <1>1
<1> QED
  BY <1>2 DEF IsCall

(* A price is a number, and so is an estimate.                              *)
LEMMA Prices ==
    ASSUME NEW model, is_priced(model), NEW ceiling \in Ceilings
    PROVE  estimate_usd(model, ceiling) \in {0, 1, 2, 4}
<1>1. /\ PRICE_TABLE["claude-opus-5"] = 2 /\ PRICE_TABLE["openai/gpt-4.1"] = 1
      /\ PRICE_TABLE["fake/strong"] = 0
      /\ model \in {"claude-opus-5", "openai/gpt-4.1", "fake/strong"}
  BY DEF PRICE_TABLE, is_priced
<1>2. ceiling \in {1, 2}
  BY DEF Ceilings
<1> QED
  BY <1>1, <1>2 DEF estimate_usd

(* DearestEstimate is what its name says.                                   *)
LEMMA Dearest ==
    /\ DearestEstimate \in Nat
    /\ \A model, ceiling :
          is_priced(model) /\ ceiling \in Ceilings /\ estimate_usd(model, ceiling) <= Limit
             => estimate_usd(model, ceiling) <= DearestEstimate
<1>1. Affordable \subseteq {0, 1, 2, 4}
  <2>1. \A m \in DOMAIN PRICE_TABLE, n \in Ceilings : estimate_usd(m, n) \in {0, 1, 2, 4}
    BY Prices DEF is_priced
  <2> QED
    BY <2>1 DEF Affordable
<1>2. 0 \in Affordable
  <2>1. /\ PRICE_TABLE["fake/strong"] = 0 /\ "fake/strong" \in DOMAIN PRICE_TABLE
    BY DEF PRICE_TABLE
  <2>2. estimate_usd("fake/strong", 1) = 0 /\ 1 \in Ceilings
    BY <2>1 DEF estimate_usd, Ceilings
  <2> QED
    BY <2>1, <2>2, RouterConstants DEF Affordable
<1>3. \E e \in Affordable : \A f \in Affordable : f <= e
  <2>1. CASE 4 \in Affordable
    BY <1>1, <2>1
  <2>2. CASE 4 \notin Affordable /\ 2 \in Affordable
    BY <1>1, <2>2
  <2>3. CASE 4 \notin Affordable /\ 2 \notin Affordable /\ 1 \in Affordable
    BY <1>1, <2>3
  <2>4. CASE 4 \notin Affordable /\ 2 \notin Affordable /\ 1 \notin Affordable
    BY <1>1, <1>2, <2>4
  <2> QED
    BY <2>1, <2>2, <2>3, <2>4
<1>4. DearestEstimate \in Affordable /\ \A f \in Affordable : f <= DearestEstimate
  BY <1>3 DEF DearestEstimate
<1>5. ASSUME NEW model, NEW ceiling \in Ceilings, is_priced(model),
             estimate_usd(model, ceiling) <= Limit
      PROVE  estimate_usd(model, ceiling) <= DearestEstimate
  <2>1. estimate_usd(model, ceiling) \in 0 .. Limit
    BY <1>5, Prices, RouterConstants
  <2>2. estimate_usd(model, ceiling) \in Affordable
    BY <1>5, <2>1 DEF Affordable, is_priced
  <2> QED
    BY <1>4, <2>2
<1> QED
  BY <1>1, <1>4, <1>5

\* What the guard priced a call at.
Estimate(x) == estimate_usd(x.chain[x.at].model, x.ceiling)

\* A call that passed the guard: its model is priced, and the price fitted the limit.
Passed(x) ==
    /\ x.ceiling \in Ceilings
    /\ is_priced(x.chain[x.at].model)
    /\ Estimate(x) <= Limit

(* The guard: what it lets through under a budget still fits.               *)
LEMMA GuardHolds ==
    ASSUME NEW chain, NEW i, NEW ceiling \in Ceilings, budgeted \in BOOLEAN, spent \in Nat,
           NEW x, x = Attempt(chain, i, ceiling)
    PROVE  /\ IsCall(x)
           /\ x.step = "awaiting" /\ budgeted =>
                 Passed(x) /\ Estimate(x) \in Nat /\ Estimate(x) + spent <= Limit
<1> DEFINE Ends(how) == [step |-> how, chain |-> chain, at |-> i, ceiling |-> ceiling]
<1>1. \/ x = Ends("failed") \/ x = Ends("refused")
      \/ x = Ends("awaiting") /\ ~ budgeted
      \/ /\ x = Ends("awaiting") /\ is_priced(chain[i].model)
         /\ can_afford(estimate_usd(chain[i].model, ceiling))
  BY DEF Attempt
<1>2. IsCall(x)
  BY <1>1 DEF IsCall
<1>3. CASE x = Ends("failed") \/ x = Ends("refused")
  BY <1>2, <1>3
<1>4. CASE x = Ends("awaiting") /\ ~ budgeted
  BY <1>2, <1>4
<1>5. CASE /\ x = Ends("awaiting") /\ is_priced(chain[i].model)
           /\ can_afford(estimate_usd(chain[i].model, ceiling))
  <2>1. x.chain = chain /\ x.at = i /\ x.ceiling = ceiling
    BY <1>5
  <2>5. Estimate(x) = estimate_usd(chain[i].model, ceiling) /\ is_priced(x.chain[x.at].model)
    BY <1>5, <2>1 DEF Estimate
  <2>2. Estimate(x) \in {0, 1, 2, 4}
    BY <1>5, <2>5, Prices
  <2>3. Estimate(x) + spent <= Limit
    BY <1>5, <2>5 DEF can_afford
  <2>4. Estimate(x) <= Limit
    BY <2>2, <2>3, RouterConstants
  <2> QED
    BY <1>2, <2>1, <2>2, <2>3, <2>4, <2>5 DEF Passed
<1> QED
  BY <1>1, <1>3, <1>4, <1>5

\* The states of the router, without the types of what routing only compares.
RouterTypes ==
    /\ budgeted \in BOOLEAN /\ governed \in BOOLEAN
    /\ spent \in Nat
    /\ configured.ceiling \in Ceilings /\ known.ceiling \in Ceilings
    /\ configured \in Configurations /\ known \in Configurations
    /\ DOMAIN call = Calls /\ call = [c \in Calls |-> call[c]]
    /\ \A c \in Calls : IsCall(call[c])

\* What one more call may add beyond the last that fitted.
Batch == DearestEstimate + Surplus
Ceiling == Limit + (Concurrency - 1) * Batch + Surplus

\* One call in flight counts with its own estimate and the others with the dearest: the one
\* that passed the guard last fitted with everything booked before it.
BudgetInv ==
    /\ ~ budgeted => spent = 0
    /\ Cardinality(InFlight) <= Concurrency
    /\ budgeted =>
          /\ \A c \in InFlight : Passed(call[c])
          /\ IF InFlight = {} THEN spent <= Ceiling
             ELSE \E c \in InFlight :
                     spent + Estimate(call[c]) + Surplus
                        + ((Cardinality(InFlight) - 1) * Batch) <= Ceiling

(* Numbers: what BudgetInv adds and multiplies.                             *)
LEMMA BatchNumbers ==
    /\ Batch \in Nat /\ Ceiling \in Nat
    /\ Ceiling = Limit + (Concurrency - 1) * DearestEstimate + Concurrency * Surplus
    /\ \A n \in Nat : /\ n * Batch \in Nat /\ (n + 1) * Batch = n * Batch + Batch
                      /\ n <= Concurrency - 1 => n * Batch <= (Concurrency - 1) * Batch
<1>1. DearestEstimate \in Nat /\ Surplus \in Nat /\ Concurrency \in Nat \ {0} /\ Limit \in Nat
  BY Dearest, RouterConstants
<1>2. Batch \in Nat
  BY <1>1 DEF Batch
<1>3. \A n, d, s \in Nat : (n - 1) * d + n * s = (n - 1) * (d + s) + s
  OBVIOUS
<1>4. \A n, m, b \in Nat : n <= m => n * b <= m * b /\ n * b \in Nat /\ (n + 1) * b = n * b + b
  OBVIOUS
<1>5. (Concurrency - 1) * Batch \in Nat
  BY <1>1, <1>2
<1>6. (Concurrency - 1) * DearestEstimate + Concurrency * Surplus = (Concurrency - 1) * Batch + Surplus
  BY <1>1, <1>3 DEF Batch
<1>7. (Concurrency - 1) * DearestEstimate \in Nat /\ Concurrency * Surplus \in Nat
  BY <1>1
<1>8. Ceiling \in Nat
  BY <1>1, <1>5 DEF Ceiling
<1>9. Ceiling = Limit + (Concurrency - 1) * DearestEstimate + Concurrency * Surplus
  <2> DEFINE p == (Concurrency - 1) * Batch
  <2> DEFINE q == (Concurrency - 1) * DearestEstimate
  <2> DEFINE r == Concurrency * Surplus
  <2>1. p \in Nat /\ q \in Nat /\ r \in Nat /\ q + r = p + Surplus /\ Ceiling = Limit + p + Surplus
    BY <1>5, <1>6, <1>7 DEF Ceiling
  <2> HIDE DEF p, q, r
  <2>2. Ceiling = Limit + q + r
    BY <1>1, <2>1
  <2> QED
    BY <2>2 DEF q, r
<1>10. ASSUME NEW n \in Nat
       PROVE  /\ n * Batch \in Nat /\ (n + 1) * Batch = n * Batch + Batch
              /\ n <= Concurrency - 1 => n * Batch <= (Concurrency - 1) * Batch
  BY <1>1, <1>2, <1>4
<1> QED
  BY <1>2, <1>8, <1>9, <1>10

(* One call changes: who is in flight then.                                 *)
LEMMA InFlightAfter ==
    ASSUME RouterTypes, NEW c \in Calls, NEW new, IsCall(new), call' = [call EXCEPT ![c] = new]
    PROVE  /\ DOMAIN call' = Calls /\ call' = [d \in Calls |-> call'[d]]
           /\ \A d \in Calls : IsCall(call'[d])
           /\ call'[c] = new /\ \A d \in Calls \ {c} : call'[d] = call[d]
           /\ InFlight' = IF new.step = "awaiting" THEN InFlight \cup {c} ELSE InFlight \ {c}
           /\ IsFiniteSet(InFlight) /\ IsFiniteSet(InFlight')
<1>1. DOMAIN call = Calls /\ call = [d \in Calls |-> call[d]] /\ \A d \in Calls : IsCall(call[d])
  BY DEF RouterTypes
<1>2. DOMAIN call' = Calls /\ call' = [d \in Calls |-> call'[d]]
  BY <1>1
<1>3. call'[c] = new /\ \A d \in Calls \ {c} : call'[d] = call[d]
  BY <1>1
<1>4. \A d \in Calls : IsCall(call'[d])
  BY <1>1, <1>3
<1>5. InFlight' = IF new.step = "awaiting" THEN InFlight \cup {c} ELSE InFlight \ {c}
  BY <1>3 DEF InFlight
<1>6. InFlight \subseteq Calls /\ InFlight' \subseteq Calls
  BY DEF InFlight
<1>7. IsFiniteSet(InFlight) /\ IsFiniteSet(InFlight')
  BY <1>6, RouterConstants, FS_Subset
<1> QED
  BY <1>2, <1>3, <1>4, <1>5, <1>7

(* The guard lets a call through: everything in flight fits one batch.      *)
LEMMA CallAdmitted ==
    ASSUME RouterTypes, BudgetInv, NEW c \in Calls, NEW new, IsCall(new), new.step = "awaiting",
           call' = [call EXCEPT ![c] = new], UNCHANGED <<budgeted, spent>>,
           c \in InFlight \/ Cardinality(InFlight) < Concurrency,
           budgeted => Passed(new) /\ Estimate(new) \in Nat /\ Estimate(new) + spent <= Limit
    PROVE  BudgetInv'
<1>1. /\ call'[c] = new /\ \A d \in Calls \ {c} : call'[d] = call[d]
      /\ InFlight' = InFlight \cup {c} /\ IsFiniteSet(InFlight) /\ InFlight \subseteq Calls
  BY InFlightAfter DEF InFlight
<1> DEFINE n == Cardinality(InFlight')
<1>2. n \in Nat \ {0} /\ n <= Concurrency
  <2>1. Cardinality(InFlight) \in Nat /\ Cardinality(InFlight) <= Concurrency
    BY <1>1, FS_CardinalityType DEF BudgetInv
  <2>2. n = IF c \in InFlight THEN Cardinality(InFlight) ELSE Cardinality(InFlight) + 1
    BY <1>1, FS_AddElement
  <2>3. IsFiniteSet(InFlight') /\ InFlight' # {}
    BY <1>1, FS_AddElement
  <2>4. n # 0
    BY <2>3, FS_EmptySet
  <2> QED
    BY <2>1, <2>2, <2>4, RouterConstants
<1>3. ASSUME budgeted
      PROVE  spent + Estimate(new) + Surplus + ((n - 1) * Batch) <= Ceiling
  <2>1. (n - 1) * Batch \in Nat /\ (n - 1) * Batch <= (Concurrency - 1) * Batch
    <3>1. n - 1 \in Nat /\ n - 1 <= Concurrency - 1
      BY <1>2, RouterConstants
    <3> QED
      BY <3>1, BatchNumbers
  <2>2. (Concurrency - 1) * Batch \in Nat
    <3>1. Concurrency - 1 \in Nat
      BY RouterConstants
    <3> QED
      BY <3>1, BatchNumbers
  <2> DEFINE p == (n - 1) * Batch
  <2> DEFINE q == (Concurrency - 1) * Batch
  <2>3. p \in Nat /\ q \in Nat /\ p <= q /\ Ceiling = Limit + q + Surplus
    BY <2>1, <2>2 DEF Ceiling
  <2> HIDE DEF p, q
  <2>4. spent + Estimate(new) + Surplus + p <= Ceiling
    BY <1>3, <2>3, RouterConstants DEF RouterTypes
  <2> QED
    BY <2>4 DEF p
<1> HIDE DEF n
<1>4. ASSUME budgeted, NEW d \in InFlight' PROVE Passed(call'[d])
  <2>1. CASE d = c
    BY <1>1, <1>4, <2>1
  <2>2. CASE d # c
    BY <1>1, <1>4, <2>2 DEF BudgetInv
  <2> QED
    BY <2>1, <2>2
<1>5. ~ budgeted' => spent' = 0
  BY DEF BudgetInv
<1>6. budgeted => \E d \in InFlight' : spent' + Estimate(call'[d]) + Surplus
                        + ((Cardinality(InFlight') - 1) * Batch) <= Ceiling
  BY <1>1, <1>3 DEF n
<1>7. InFlight' # {}
  BY <1>1
<1> QED
  BY <1>2, <1>4, <1>5, <1>6, <1>7 DEF BudgetInv, n

(* A call in flight ends: it booked no more than it was priced at and the   *)
(* surplus.                                                                 *)
LEMMA CallLeaves ==
    ASSUME RouterTypes, BudgetInv, NEW c \in InFlight, NEW new, IsCall(new),
           new.step # "awaiting", call' = [call EXCEPT ![c] = new], UNCHANGED budgeted,
           spent' \in Nat, budgeted => spent' <= spent + Estimate(call[c]) + Surplus,
           ~ budgeted => spent' = spent
    PROVE  BudgetInv'
<1>1. c \in Calls /\ InFlight \subseteq Calls
  BY DEF InFlight
<1>2. /\ \A d \in Calls \ {c} : call'[d] = call[d]
      /\ InFlight' = InFlight \ {c} /\ IsFiniteSet(InFlight) /\ IsFiniteSet(InFlight')
  BY <1>1, InFlightAfter
<1> DEFINE n == Cardinality(InFlight')
<1>3. n \in Nat /\ Cardinality(InFlight) = n + 1 /\ (InFlight' # {} => n # 0)
  <2>1. n = Cardinality(InFlight) - 1 /\ Cardinality(InFlight) \in Nat /\ n \in Nat
    BY <1>2, FS_RemoveElement, FS_CardinalityType
  <2>2. n = 0 => InFlight' = {}
    BY <1>2, FS_EmptySet
  <2> QED
    BY <2>1, <2>2
<1>4. n <= Concurrency
  BY <1>3, RouterConstants DEF BudgetInv
<1> HIDE DEF n
<1>5. ASSUME NEW d \in InFlight, budgeted
      PROVE  Passed(call[d]) /\ Estimate(call[d]) \in Nat /\ Estimate(call[d]) <= DearestEstimate
  <2>1. Passed(call[d])
    BY <1>5 DEF BudgetInv
  <2>2. Estimate(call[d]) \in {0, 1, 2, 4}
    BY <2>1, Prices DEF Passed, Estimate
  <2>3. Estimate(call[d]) <= DearestEstimate
    BY <2>1, Dearest DEF Passed, Estimate
  <2> QED
    BY <2>1, <2>2, <2>3
<1>6. ASSUME budgeted, InFlight' = {} PROVE spent' <= Ceiling
  <2>1. n = 0
    BY <1>6, FS_EmptySet DEF n
  <2>2. PICK d \in InFlight : spent + Estimate(call[d]) + Surplus
                                 + ((Cardinality(InFlight) - 1) * Batch) <= Ceiling
    BY <1>6 DEF BudgetInv
  <2>3. d = c
    BY <1>2, <1>6
  <2>4. (Cardinality(InFlight) - 1) * Batch = 0
    BY <1>3, <2>1, BatchNumbers
  <2>5. spent + Estimate(call[c]) + Surplus + 0 <= Ceiling
    BY <2>2, <2>3, <2>4
  <2>6. Estimate(call[c]) \in Nat /\ Ceiling \in Nat
    BY <1>5, <1>6, BatchNumbers
  <2> QED
    BY <1>6, <2>5, <2>6, RouterConstants DEF RouterTypes
<1>7. ASSUME budgeted, InFlight' # {}
      PROVE  \E d \in InFlight' : spent' + Estimate(call'[d]) + Surplus + ((n - 1) * Batch) <= Ceiling
  <2>1. PICK d \in InFlight : spent + Estimate(call[d]) + Surplus
                                 + ((Cardinality(InFlight) - 1) * Batch) <= Ceiling
    BY <1>2, <1>7 DEF BudgetInv
  <2>2. (Cardinality(InFlight) - 1) * Batch = n * Batch
    BY <1>3
  <2>3. n * Batch = (n - 1) * Batch + Batch /\ (n - 1) * Batch \in Nat
    <3>1. n - 1 \in Nat /\ n = (n - 1) + 1
      BY <1>3, <1>7
    <3>2. ((n - 1) + 1) * Batch = (n - 1) * Batch + Batch
      BY <3>1, BatchNumbers
    <3> QED
      BY <3>1, <3>2, BatchNumbers
  <2> DEFINE p == (n - 1) * Batch
  <2>4. p \in Nat /\ spent + Estimate(call[d]) + Surplus + (p + Batch) <= Ceiling
    BY <2>1, <2>2, <2>3
  <2> HIDE DEF p
  <2>5. ASSUME NEW e \in InFlight' PROVE Estimate(call'[e]) = Estimate(call[e]) /\ e \in InFlight
    BY <1>1, <1>2, <2>5
  <2>6. \E e \in InFlight' : spent' + Estimate(call'[e]) + Surplus + p <= Ceiling
    <3>1. CASE d = c
      <4>1. PICK e \in InFlight' : TRUE
        BY <1>7
      <4>2. Estimate(call'[e]) = Estimate(call[e]) /\ Estimate(call[e]) \in Nat
            /\ Estimate(call[e]) <= DearestEstimate
        BY <1>5, <1>7, <2>5
      <4>3. spent' + Estimate(call'[e]) + Surplus + p <= Ceiling
        BY <1>5, <1>7, <2>4, <3>1, <4>2, RouterConstants, Dearest, BatchNumbers
        DEF RouterTypes, Batch
      <4> QED
        BY <4>3
    <3>2. CASE d # c
      <4>1. d \in InFlight' /\ Estimate(call'[d]) = Estimate(call[d])
        BY <1>2, <2>5, <3>2
      <4>2. /\ Estimate(call[c]) \in Nat /\ Estimate(call[c]) <= DearestEstimate
            /\ Estimate(call[d]) \in Nat
        BY <1>5, <1>7
      <4>3. spent' + Estimate(call'[d]) + Surplus + p <= Ceiling
        BY <1>7, <2>4, <4>1, <4>2, RouterConstants, Dearest, BatchNumbers
        DEF RouterTypes, Batch
      <4> QED
        BY <4>1, <4>3
    <3> QED
      BY <3>1, <3>2
  <2> QED
    BY <2>6 DEF p
<1>8. ASSUME budgeted, NEW d \in InFlight' PROVE Passed(call'[d])
  BY <1>1, <1>2, <1>5, <1>8
<1>9. ~ budgeted' => spent' = 0
  BY DEF BudgetInv
<1> QED
  BY <1>4, <1>6, <1>7, <1>8, <1>9 DEF BudgetInv, n

(* What an operator saves is a configuration.                               *)
LEMMA OperatorTypes ==
    ASSUME RouterTypes, SetRoute \/ SetProvider \/ SetSampling \/ Reload
    PROVE  /\ configured' \in Configurations /\ known' \in Configurations
           /\ configured'.ceiling \in Ceilings /\ known'.ceiling \in Ceilings
           /\ UNCHANGED <<governed, budgeted, spent, call>>
<1>1. configured \in Configurations /\ known \in Configurations
  BY DEF RouterTypes
<1>2. ASSUME NEW x \in Configurations
      PROVE  /\ x.chain \in Chains /\ x.off \in SUBSET (Hosted \cup {"ollama"})
             /\ x.address \in BOOLEAN /\ x.ceiling \in Ceilings
  BY <1>2, Zenon DEF Configurations
<1>3. ASSUME NEW x \in Configurations, NEW chain \in Chains, NEW off \in SUBSET (Hosted \cup {"ollama"}),
             NEW address \in BOOLEAN, NEW ceiling \in Ceilings
      PROVE  /\ [x EXCEPT !.chain = chain] \in Configurations
             /\ [x EXCEPT !.off = off, !.address = address] \in Configurations
             /\ [x EXCEPT !.ceiling = ceiling] \in Configurations
  <2>1. [x EXCEPT !.chain = chain] \in Configurations
    BY Zenon DEF Configurations
  <2>2. [x EXCEPT !.off = off, !.address = address] \in Configurations
    BY Zenon DEF Configurations
  <2>3. [x EXCEPT !.ceiling = ceiling] \in Configurations
    BY Zenon DEF Configurations
  <2> QED
    BY <2>1, <2>2, <2>3
<1>4. CASE SetRoute
  <2>1. PICK chain \in Chains : Edit([configured EXCEPT !.chain = chain])
    BY <1>4 DEF SetRoute
  <2>2. [configured EXCEPT !.chain = chain] \in Configurations
    BY <1>1, <1>2, <1>3
  <2> QED
    BY <1>1, <1>2, <2>1, <2>2 DEF Edit
<1>5. CASE SetProvider
  <2>1. PICK p \in Hosted \cup {"ollama"}, enabled, address \in BOOLEAN :
          Edit([configured EXCEPT !.off = IF enabled THEN @ \ {p} ELSE @ \cup {p},
                                  !.address = IF p = "ollama" THEN address ELSE @])
    BY <1>5 DEF SetProvider
  <2> DEFINE off == IF enabled THEN configured.off \ {p} ELSE configured.off \cup {p}
  <2> DEFINE there == IF p = "ollama" THEN address ELSE configured.address
  <2> DEFINE new == [configured EXCEPT !.off = off, !.address = there]
  <2>2. off \in SUBSET (Hosted \cup {"ollama"})
    BY <1>1, <1>2
  <2>3. there \in BOOLEAN
    BY <1>1, <1>2, Zenon
  <2>4. Edit(new)
    BY <2>1, Zenon
  <2> HIDE DEF off, there
  <2>5. new \in Configurations
    BY <1>1, <1>2, <1>3, <2>2, <2>3
  <2> HIDE DEF new
  <2> QED
    BY <1>1, <1>2, <2>4, <2>5 DEF Edit
<1>6. CASE SetSampling
  <2>1. PICK ceiling \in Ceilings : Edit([configured EXCEPT !.ceiling = ceiling])
    BY <1>6 DEF SetSampling
  <2>2. [configured EXCEPT !.ceiling = ceiling] \in Configurations
    BY <1>1, <1>2, <1>3
  <2> QED
    BY <1>1, <1>2, <2>1, <2>2 DEF Edit
<1>7. CASE Reload
  <2>1. \/ known' = [known EXCEPT !.chain = configured.chain]
        \/ known' = [known EXCEPT !.off = configured.off, !.address = configured.address]
        \/ known' = [known EXCEPT !.ceiling = configured.ceiling]
    BY <1>7 DEF Reload
  <2>4. /\ configured.chain \in Chains /\ configured.off \in SUBSET (Hosted \cup {"ollama"})
        /\ configured.address \in BOOLEAN /\ configured.ceiling \in Ceilings
    BY <1>1, <1>2, Zenon
  <2>5. ASSUME known' = [known EXCEPT !.chain = configured.chain]
        PROVE  known' \in Configurations
    BY <1>1, <2>4, <2>5, Zenon DEF Configurations
  <2>6. ASSUME known' = [known EXCEPT !.off = configured.off, !.address = configured.address]
        PROVE  known' \in Configurations
    BY <1>1, <2>4, <2>6, Zenon DEF Configurations
  <2>7. ASSUME known' = [known EXCEPT !.ceiling = configured.ceiling]
        PROVE  known' \in Configurations
    BY <1>1, <2>4, <2>7, Zenon DEF Configurations
  <2>2. known' \in Configurations
    BY <2>1, <2>5, <2>6, <2>7
  <2>3. UNCHANGED <<configured, governed, budgeted, spent, call>>
    BY <1>7 DEF Reload
  <2> QED
    BY <1>1, <1>2, <2>2, <2>3
<1> QED
  BY <1>4, <1>5, <1>6, <1>7

(* A probe takes a slot and is let through, refused or skipped.             *)
LEMMA ProbeHolds ==
    ASSUME RouterTypes, BudgetInv, NEW c \in Calls, Probe(c)
    PROVE  RouterTypes' /\ BudgetInv'
<1>1. /\ call[c].step = "planned" /\ Cardinality(InFlight) < Concurrency
      /\ UNCHANGED <<governed, budgeted, configured, known, spent>>
  BY DEF Probe
<1>2. PICK new : /\ call' = [call EXCEPT ![c] = new]
                 /\ \/ exhausted /\ new = [Planned EXCEPT !.step = "skipped"]
                    \/ new = Attempt(resolve, 1, max_tokens)
  BY DEF Probe, Settle
<1>3. IsCall([Planned EXCEPT !.step = "skipped"]) /\ [Planned EXCEPT !.step = "skipped"].step = "skipped"
  <2>1. IsCall(Planned)
    BY DEF Planned, IsCall
  <2> QED
    BY <2>1, CallEnds
<1>4. max_tokens \in Ceilings
  BY DEF max_tokens, RouterTypes, Ceilings
<1>5. /\ IsCall(new)
      /\ new.step = "awaiting" /\ budgeted =>
            Passed(new) /\ Estimate(new) \in Nat /\ Estimate(new) + spent <= Limit
  BY <1>2, <1>3, <1>4, GuardHolds DEF RouterTypes
<1>6. RouterTypes'
  BY <1>1, <1>2, <1>5, InFlightAfter DEF RouterTypes
<1>7. CASE new.step = "awaiting"
  BY <1>1, <1>2, <1>5, <1>7, CallAdmitted, <1>6
<1>8. CASE new.step # "awaiting"
  <2>1. InFlight' = InFlight \ {c} /\ \A d \in Calls \ {c} : call'[d] = call[d]
    BY <1>2, <1>5, <1>8, InFlightAfter
  <2>2. c \notin InFlight
    BY <1>1 DEF InFlight
  <2>3. InFlight' = InFlight /\ \A d \in InFlight : call'[d] = call[d]
    BY <2>1, <2>2 DEF InFlight
  <2>4. BudgetInv'
    BY <1>1, <2>3 DEF BudgetInv
  <2> QED
    BY <1>6, <2>4
<1> QED
  BY <1>7, <1>8

(* An answer books at most the estimate and the surplus, or the call falls  *)
(* back through the guard, or it is over.                                   *)
LEMMA AnswerHolds ==
    ASSUME RouterTypes, BudgetInv, NEW c \in Calls, Answer(c)
    PROVE  RouterTypes' /\ BudgetInv'
<1> DEFINE now == call[c]
<1> DEFINE e == now.chain[now.at]
<1>1. /\ now.step = "awaiting" /\ c \in InFlight
      /\ UNCHANGED <<governed, budgeted, configured, known>>
  BY DEF Answer, InFlight
<1>2. IsCall(now) /\ spent \in Nat /\ budgeted \in BOOLEAN
  BY DEF RouterTypes
<1>3. CASE \E charge \in ChargesOf(e, now.ceiling) :
             /\ spent' = IF budgeted THEN spent + charge ELSE spent
             /\ Settle(c, [now EXCEPT !.step = "answered"])
  <2>1. PICK charge \in ChargesOf(e, now.ceiling) :
             /\ spent' = IF budgeted THEN spent + charge ELSE spent
             /\ Settle(c, [now EXCEPT !.step = "answered"])
    BY <1>3
  <2> DEFINE new == [now EXCEPT !.step = "answered"]
  <2>2. IsCall(new) /\ new.step = "answered" /\ call' = [call EXCEPT ![c] = new]
    BY <1>2, <2>1, CallEnds DEF Settle
  <2> HIDE DEF new
  <2>3. budgeted => charge \in Nat /\ charge <= Estimate(now) + Surplus /\ Estimate(now) \in Nat
    <3> SUFFICES ASSUME budgeted
                 PROVE  charge \in Nat /\ charge <= Estimate(now) + Surplus /\ Estimate(now) \in Nat
      OBVIOUS
    <3>1. Passed(now)
      BY <1>1 DEF BudgetInv
    <3>2. Estimate(now) \in {0, 1, 2, 4} /\ Estimate(now) = PRICE_TABLE[e.model] * now.ceiling
      BY <3>1, Prices DEF Passed, Estimate, estimate_usd
    <3>3. charge \in {0} \/ charge \in 0 .. (Estimate(now) + Surplus)
      BY <2>1, <3>2 DEF ChargesOf
    <3>4. Surplus \in Nat /\ Estimate(now) \in Nat
      BY <3>2, RouterConstants
    <3>5. ASSUME NEW paid \in {0} \cup 0 .. (Estimate(now) + Surplus)
          PROVE  paid \in Nat /\ paid <= Estimate(now) + Surplus
      BY <3>4, <3>5
    <3> QED
      BY <3>3, <3>4, <3>5
  <2>4. spent' \in Nat /\ (budgeted => spent' <= spent + Estimate(now) + Surplus)
    BY <1>2, <2>1, <2>3, RouterConstants
  <2>5. RouterTypes'
    BY <1>1, <2>2, <2>4, InFlightAfter DEF RouterTypes
  <2>6. BudgetInv'
    BY <1>1, <2>1, <2>2, <2>4, CallLeaves
  <2> QED
    BY <2>5, <2>6
<1>4. CASE UNCHANGED spent /\ \E new : /\ call' = [call EXCEPT ![c] = new]
                                       /\ \/ new = Attempt(now.chain, now.at + 1, now.ceiling)
                                          \/ new = [now EXCEPT !.step = "failed"]
  <2>1. PICK new : /\ call' = [call EXCEPT ![c] = new]
                   /\ \/ new = Attempt(now.chain, now.at + 1, now.ceiling)
                      \/ new = [now EXCEPT !.step = "failed"]
    BY <1>4
  <2>2. CASE new = Attempt(now.chain, now.at + 1, now.ceiling)
    <3>1. IsCall(new)
      BY <2>2 DEF Attempt, IsCall
    <3>2. new.step = "awaiting" /\ budgeted =>
            Passed(new) /\ Estimate(new) \in Nat /\ Estimate(new) + spent <= Limit
      <4> SUFFICES ASSUME budgeted PROVE new.step = "awaiting" =>
                      Passed(new) /\ Estimate(new) \in Nat /\ Estimate(new) + spent <= Limit
        OBVIOUS
      <4>1. now.ceiling \in Ceilings
        BY <1>1 DEF BudgetInv, Passed
      <4> QED
        BY <1>2, <2>2, <4>1, GuardHolds
    <3>3. RouterTypes'
      BY <1>1, <1>4, <2>1, <3>1, InFlightAfter DEF RouterTypes
    <3>4. CASE new.step = "awaiting"
      BY <1>1, <1>4, <2>1, <3>1, <3>2, <3>3, <3>4, CallAdmitted
    <3>5. CASE new.step # "awaiting"
      <4>1. budgeted => Estimate(now) \in Nat
        BY <1>1, Prices DEF BudgetInv, Passed, Estimate
      <4>2. spent' \in Nat /\ (budgeted => spent' <= spent + Estimate(now) + Surplus)
        BY <1>2, <1>4, <4>1, RouterConstants
      <4> QED
        BY <1>1, <1>4, <2>1, <3>1, <3>3, <3>5, <4>2, CallLeaves
    <3> QED
      BY <3>4, <3>5
  <2>3. CASE new = [now EXCEPT !.step = "failed"]
    <3>1. IsCall(new) /\ new.step = "failed"
      BY <1>2, <2>3, CallEnds
    <3>2. RouterTypes'
      BY <1>1, <1>4, <2>1, <3>1, InFlightAfter DEF RouterTypes
    <3>3. budgeted => Estimate(now) \in Nat
      BY <1>1, Prices DEF BudgetInv, Passed, Estimate
    <3>4. spent' \in Nat /\ (budgeted => spent' <= spent + Estimate(now) + Surplus)
      BY <1>2, <1>4, <3>3, RouterConstants
    <3>5. BudgetInv'
      BY <1>1, <1>4, <2>1, <3>1, <3>4, CallLeaves
    <3> QED
      BY <3>2, <3>5
  <2> QED
    BY <2>1, <2>2, <2>3
<1> QED
  BY <1>3, <1>4 DEF Answer, Settle

(* The router begins within its invariant.                                 *)
LEMMA RouterStart == ModelRouterInit => RouterTypes /\ BudgetInv
<1> SUFFICES ASSUME ModelRouterInit PROVE RouterTypes /\ BudgetInv
  OBVIOUS
<1>1. Unconfigured \in Configurations /\ Unconfigured.ceiling \in Ceilings
  BY DEF Unconfigured, Configurations, Chains, Ceilings
<1>2. call = [c \in Calls |-> Planned] /\ IsCall(Planned) /\ Planned.step = "planned"
  BY DEF ModelRouterInit, Planned, IsCall
<1>3. InFlight = {}
  BY <1>2 DEF InFlight
<1>4. RouterTypes
  BY <1>1, <1>2 DEF ModelRouterInit, RouterTypes
<1>5. BudgetInv
  BY <1>3, FS_EmptySet, RouterConstants, BatchNumbers DEF ModelRouterInit, BudgetInv
<1> QED
  BY <1>4, <1>5

(* And stays within it.                                                    *)
LEMMA RouterStep == RouterTypes /\ BudgetInv /\ [ModelRouterNext]_routerVars => (RouterTypes /\ BudgetInv)'
<1> SUFFICES ASSUME RouterTypes, BudgetInv, [ModelRouterNext]_routerVars
             PROVE  (RouterTypes /\ BudgetInv)'
  OBVIOUS
<1>1. ASSUME NEW c \in Calls, Probe(c) PROVE (RouterTypes /\ BudgetInv)'
  BY <1>1, ProbeHolds
<1>2. ASSUME NEW c \in Calls, Answer(c) PROVE (RouterTypes /\ BudgetInv)'
  BY <1>2, AnswerHolds
<1>5. UNCHANGED <<budgeted, spent, call>> => (BudgetInv' <=> BudgetInv)
  BY DEF BudgetInv, InFlight
<1>3. CASE SetRoute \/ SetProvider \/ SetSampling \/ Reload
  <2>1. RouterTypes'
    BY <1>3, OperatorTypes DEF RouterTypes
  <2>2. UNCHANGED <<budgeted, spent, call>>
    BY <1>3, OperatorTypes
  <2> QED
    BY <1>5, <2>1, <2>2
<1>4. CASE UNCHANGED routerVars
  <2>1. RouterTypes' /\ UNCHANGED <<budgeted, spent, call>>
    BY <1>4 DEF routerVars, RouterTypes
  <2> QED
    BY <1>5, <2>1
<1> QED
  BY <1>1, <1>2, <1>3, <1>4 DEF ModelRouterNext

(* cost guard (llm/budget): "The ceiling holds to within one batch", for    *)
(* every number of calls and slots, every limit, and whatever an operator   *)
(* changes between a call's guard and its answer.                           *)
THEOREM SpendingStopsWithinOneBatch == ModelRouterSpec => []OvershootIsOneBatch
<1>3. RouterTypes /\ BudgetInv => OvershootIsOneBatch
  <2> SUFFICES ASSUME RouterTypes, BudgetInv PROVE spent <= Ceiling
    BY BatchNumbers DEF OvershootIsOneBatch
  <2>1. CASE ~ budgeted \/ InFlight = {}
    BY <2>1, BatchNumbers DEF BudgetInv
  <2>2. CASE budgeted /\ InFlight # {}
    <3>1. PICK c \in InFlight : spent + Estimate(call[c]) + Surplus
                                   + ((Cardinality(InFlight) - 1) * Batch) <= Ceiling
      BY <2>2 DEF BudgetInv
    <3>2. Passed(call[c])
      BY <2>2 DEF BudgetInv
    <3>3. Estimate(call[c]) \in {0, 1, 2, 4}
      BY <3>2, Prices DEF Passed, Estimate
    <3>4. Cardinality(InFlight) - 1 \in Nat
      <4>1. InFlight \subseteq Calls
        BY DEF InFlight
      <4>2. IsFiniteSet(InFlight)
        BY <4>1, RouterConstants, FS_Subset
      <4> QED
        BY <2>2, <4>2, FS_EmptySet, FS_CardinalityType
    <3>5. (Cardinality(InFlight) - 1) * Batch \in Nat
      BY <3>4, BatchNumbers
    <3> DEFINE p == (Cardinality(InFlight) - 1) * Batch
    <3>6. p \in Nat /\ spent + Estimate(call[c]) + Surplus + p <= Ceiling
      BY <3>1, <3>5
    <3> HIDE DEF p
    <3>7. Ceiling \in Nat
      BY BatchNumbers
    <3> QED
      BY <3>3, <3>6, <3>7, RouterConstants DEF RouterTypes
  <2> QED
    BY <2>1, <2>2
<1> QED
  BY RouterStart, RouterStep, <1>3, PTL DEF ModelRouterSpec

-----------------------------------------------------------------------------
(* The types of the router, beside what its invariant says of them.         *)

\* What the types say of a call, and that one in flight is somewhere in its chain.
CallTyped(x) ==
    /\ x.step \in {"planned", "awaiting", "answered", "failed", "refused", "skipped"}
    /\ x.ceiling \in Ceilings
    /\ Len(x.chain) \in Nat /\ x.at \in 0 .. Len(x.chain) + 1
    /\ x.step = "awaiting" => x.at \in 1 .. Len(x.chain)

\* What the types say beyond the invariant.
RouterRest ==
    /\ credentials \subseteq Hosted
    /\ loading \in {"routes", "providers", "sampling"}
    /\ edits \in 0 .. MaxEdits
    /\ localBuilt \in BOOLEAN
    /\ exhausted \in BOOLEAN
    /\ \A c \in Calls : CallTyped(call[c])

(* The types follow.                                                        *)
LEMMA RouterTypesFollow == RouterTypes /\ RouterRest => ModelRouterTypeOK
BY DEF RouterTypes, RouterRest, CallTyped, ModelRouterTypeOK

(* The chain a call starts with is a sequence of entries.                   *)
LEMMA ResolvedChain == ASSUME RouterTypes PROVE Len(resolve) \in Nat
<1> DEFINE T == {Entry("anthropic", "claude-opus-5"), Entry("openrouter", "openai/gpt-4.1"),
                 Entry("fake", "fake/strong"), Entry("ollama", "llama3.1")}
<1> DEFINE kept == {i \in DOMAIN chain_for_task : routable(chain_for_task[i].provider)}
<1>0. /\ Entry("anthropic", "claude-opus-5") \in T /\ Entry("openrouter", "openai/gpt-4.1") \in T
      /\ Entry("fake", "fake/strong") \in T /\ Entry("ollama", "llama3.1") \in T
  OBVIOUS
<1> HIDE DEF T
<1>1. TIER_CHAINS \in Seq(T) /\ FAKE_CHAINS \in Seq(T)
  BY <1>0 DEF TIER_CHAINS, FAKE_CHAINS
<1>2. /\ << >> \in Seq(T)
      /\ <<Entry("ollama", "llama3.1"), Entry("openrouter", "openai/gpt-4.1")>> \in Seq(T)
  BY <1>0
<1>8. \A chain \in Chains : chain \in Seq(T)
  BY <1>2, Zenon DEF Chains
<1>3. known.chain \in Chains
  BY Zenon DEF RouterTypes, Configurations
<1>4. chain_for_task \in Seq(T)
  BY <1>1, <1>3, <1>8 DEF chain_for_task
<1>5. kept \in SUBSET (1 .. Len(chain_for_task))
  BY <1>4
<1>6. Picked(chain_for_task, kept) \in Seq(T)
  BY <1>4, <1>5, PickedIsLeft
<1>7. resolve \in Seq(T)
  BY <1>1, <1>6 DEF resolve
<1> QED
  BY <1>7

(* An attempt at a place of its chain, or just past its end, is typed.      *)
LEMMA AttemptTyped ==
    ASSUME NEW chain, Len(chain) \in Nat, NEW i \in 1 .. Len(chain) + 1,
           NEW ceiling \in Ceilings, NEW x, x = Attempt(chain, i, ceiling)
    PROVE  CallTyped(x)
<1> DEFINE Ends(how) == [step |-> how, chain |-> chain, at |-> i, ceiling |-> ceiling]
<1>1. \/ x = Ends("failed") \/ x = Ends("refused")
      \/ x = Ends("awaiting") /\ ~ (i > Len(chain))
  BY DEF Attempt
<1> QED
  BY <1>1 DEF CallTyped

(* A call that was not made yet is typed.                                   *)
LEMMA PlannedTyped == IsCall(Planned) /\ CallTyped(Planned)
<1>1. Planned = [step |-> "planned", chain |-> << >>, at |-> 0, ceiling |-> 1]
  BY DEF Planned
<1>2. IsCall(Planned)
  BY <1>1 DEF IsCall
<1>3. Len(<< >>) = 0
  OBVIOUS
<1>4. /\ Planned.step = "planned" /\ Planned.chain = << >> /\ Planned.at = 0
      /\ Planned.ceiling = 1
  BY <1>1
<1>5. CallTyped(Planned)
  BY <1>3, <1>4 DEF CallTyped, Ceilings
<1> QED
  BY <1>2, <1>5

(* A call whose step alone changes stays typed, unless it begins to wait.   *)
LEMMA EndedTyped ==
    ASSUME NEW x, IsCall(x), CallTyped(x), NEW step \in {"answered", "failed", "skipped"}
    PROVE  CallTyped([x EXCEPT !.step = step])
<1>1. PICK old, chain, i, ceiling :
        x = [step |-> old, chain |-> chain, at |-> i, ceiling |-> ceiling]
  BY DEF IsCall
<1>2. [x EXCEPT !.step = step] = [step |-> step, chain |-> chain, at |-> i, ceiling |-> ceiling]
  BY <1>1
<1> QED
  BY <1>1, <1>2 DEF CallTyped

(* Every step keeps the rest of the types.                                  *)
LEMMA RouterRestKept == RouterTypes /\ RouterRest /\ [ModelRouterNext]_routerVars => RouterRest'
<1> SUFFICES ASSUME RouterTypes, RouterRest, [ModelRouterNext]_routerVars PROVE RouterRest'
  OBVIOUS
<1>1. ASSUME NEW c \in Calls, NEW new, CallTyped(new), Settle(c, new),
             UNCHANGED <<credentials, loading, edits>>
      PROVE  RouterRest'
  <2>1. call' = [call EXCEPT ![c] = new] /\ DOMAIN call = Calls
    BY <1>1 DEF Settle, RouterTypes
  <2>2. \A d \in Calls : CallTyped(call'[d])
    BY <1>1, <2>1 DEF RouterRest
  <2>3. localBuilt' \in BOOLEAN
    BY <1>1, Zenon DEF Settle, RouterRest
  <2>4. exhausted' \in BOOLEAN
    BY <1>1, Zenon DEF Settle, RouterRest
  <2> QED
    BY <1>1, <2>2, <2>3, <2>4 DEF RouterRest
<1>2. ASSUME NEW c \in Calls, Probe(c) PROVE RouterRest'
  <2>1. PICK new : /\ Settle(c, new)
                   /\ \/ new = [Planned EXCEPT !.step = "skipped"]
                      \/ new = Attempt(resolve, 1, max_tokens)
    BY <1>2 DEF Probe
  <2>2. IsCall(Planned) /\ CallTyped(Planned)
    BY PlannedTyped
  <2>3. max_tokens \in Ceilings
    BY DEF max_tokens, RouterTypes, Ceilings
  <2>4. 1 \in 1 .. Len(resolve) + 1
    BY ResolvedChain
  <2>5. new = Attempt(resolve, 1, max_tokens) => CallTyped(new)
    BY <2>3, <2>4, ResolvedChain, AttemptTyped
  <2>6. CallTyped([Planned EXCEPT !.step = "skipped"])
    BY <2>2, EndedTyped
  <2> QED
    BY <1>1, <1>2, <2>1, <2>5, <2>6 DEF Probe
<1>3. ASSUME NEW c \in Calls, Answer(c) PROVE RouterRest'
  <2> DEFINE now == call[c]
  <2>1. now.step = "awaiting" /\ UNCHANGED <<credentials, loading, edits>>
    BY <1>3 DEF Answer
  <2>2. IsCall(now) /\ CallTyped(now)
    BY DEF RouterTypes, RouterRest
  <2>3. PICK new : /\ Settle(c, new)
                   /\ \/ new = [now EXCEPT !.step = "answered"]
                      \/ new = [now EXCEPT !.step = "failed"]
                      \/ new = Attempt(now.chain, now.at + 1, now.ceiling)
    BY <1>3 DEF Answer
  <2> HIDE DEF now
  <2>4. now.at + 1 \in 1 .. Len(now.chain) + 1 /\ Len(now.chain) \in Nat
        /\ now.ceiling \in Ceilings
    BY <2>1, <2>2 DEF CallTyped
  <2>5. new = Attempt(now.chain, now.at + 1, now.ceiling) => CallTyped(new)
    BY <2>4, AttemptTyped
  <2>6. CallTyped([now EXCEPT !.step = "answered"]) /\ CallTyped([now EXCEPT !.step = "failed"])
    BY <2>2, EndedTyped
  <2> QED
    BY <1>1, <2>1, <2>3, <2>5, <2>6
<1>4. ASSUME NEW new, Edit(new) PROVE RouterRest'
  <2>1. edits' \in 0 .. MaxEdits
    BY <1>4, RouterConstants DEF Edit, RouterRest
  <2> QED
    BY <1>4, <2>1 DEF Edit, RouterRest
<1>5. CASE SetRoute \/ SetProvider \/ SetSampling
  <2>1. \E new : Edit(new)
    BY <1>5 DEF SetRoute, SetProvider, SetSampling
  <2> QED
    BY <1>4, <2>1
<1>6. CASE Reload
  <2>1. edits' \in 0 .. MaxEdits
    BY <1>6, RouterConstants DEF Reload, RouterRest
  <2>2. loading' \in {"routes", "providers", "sampling"}
    BY <1>6 DEF Reload, RouterRest
  <2>3. UNCHANGED <<credentials, localBuilt, exhausted, call>>
    BY <1>6 DEF Reload
  <2> QED
    BY <2>1, <2>2, <2>3 DEF RouterRest
<1>7. CASE UNCHANGED routerVars
  BY <1>7 DEF routerVars, RouterRest
<1> QED
  BY <1>2, <1>3, <1>5, <1>6, <1>7 DEF ModelRouterNext

(* llm/router: a call always stands at a place of its own chain, and the    *)
(* router's tables have their types.                                        *)
THEOREM RouterTypeCorrect == ModelRouterSpec => []ModelRouterTypeOK
<1>1. ModelRouterInit => RouterRest
  <2> SUFFICES ASSUME ModelRouterInit PROVE RouterRest
    OBVIOUS
  <2>1. call = [c \in Calls |-> Planned] /\ CallTyped(Planned)
    BY PlannedTyped DEF ModelRouterInit
  <2>2. edits \in 0 .. MaxEdits /\ \A c \in Calls : CallTyped(call[c])
    BY <2>1, RouterConstants DEF ModelRouterInit
  <2>3. localBuilt \in BOOLEAN /\ exhausted \in BOOLEAN
    BY Zenon DEF ModelRouterInit
  <2> QED
    BY <2>2, <2>3 DEF ModelRouterInit, RouterRest
<1> QED
  BY <1>1, RouterStart, RouterStep, RouterRestKept, RouterTypesFollow, PTL DEF ModelRouterSpec

-----------------------------------------------------------------------------
(* The visibility probes.                                                   *)

\* A run in flight and a stored row, whatever their fields hold.
ProbeFields ==
    {"step", "asked", "baseline", "outcomes", "saving", "at", "fresh", "missing", "comparable"}
RowFields == {"question", "model", "at", "by", "fresh", "outcome"}
IsProbe(x) == x = [f \in ProbeFields |-> x[f]]
IsRow(r) == r = [f \in RowFields |-> r[f]]

\* The rows R answer none of these questions after `time`, and, if that is a fresh one, none
\* in the window before it either.
Apart(R, questions, time, fresh) ==
    \A r \in R : r.question \in questions =>
        r.at <= time /\ (fresh => r.at + Window < time)

\* What holds of a run in flight, given the rows and the time.
Sound(x, R, now) ==
    /\ IsProbe(x)
    /\ x.step \in {"measured", "resolved", "stamped", "written"} =>
          DOMAIN x.outcomes \subseteq x.saving \X GeoModels
    /\ x.step \in {"stamped", "written"} =>
          x.at \in Nat /\ x.at <= now /\ Apart(R, x.saving, x.at, x.fresh)
    /\ x.step = "written" =>
          /\ x.missing \subseteq DOMAIN x.outcomes
          /\ \A k \in x.missing, r \in R : ~ (r.at = x.at /\ Key(r) = k)

Locking == {"resolved", "stamped", "written"}

\* Two saves never hold the same question.
LocksHold == \A p, o \in Probers :
    p # o /\ prober[p].step \in Locking /\ prober[o].step \in Locking =>
        prober[p].saving \cap prober[o].saving = {}

RowsKnown == \A r \in rows : IsRow(r) /\ r.at \in Nat /\ r.at <= geoClock

GeoInv ==
    /\ geoClock \in Nat
    /\ prober = [p \in Probers |-> prober[p]]
    /\ \A p \in Probers : Sound(prober[p], rows, geoClock)
    /\ LocksHold
    /\ RowsKnown
    /\ RunsAreAWindowApart

(* A run stays sound while no row is stored and time does not run back.     *)
LEMMA SoundStays ==
    ASSUME NEW x, NEW R, NEW now \in Nat, NEW later \in Nat, now <= later, Sound(x, R, now)
    PROVE  Sound(x, R, later)
BY DEF Sound

(* One run takes a step, and nothing is stored.                             *)
LEMMA OneProbeMoves ==
    ASSUME GeoInv, NEW p \in Probers, NEW new, Step(p, new), UNCHANGED rows,
           geoClock' \in Nat, geoClock <= geoClock', Sound(new, rows, geoClock'),
           new.step \in Locking => \A o \in Probers \ {p} :
               prober[o].step \in Locking => prober[o].saving \cap new.saving = {}
    PROVE  GeoInv'
<1>1. prober' = [o \in Probers |-> prober'[o]]
  BY DEF GeoInv, Step
<1>2. prober'[p] = new /\ \A o \in Probers \ {p} : prober'[o] = prober[o]
  BY DEF GeoInv, Step
<1>3. ASSUME NEW o \in Probers PROVE Sound(prober'[o], rows', geoClock')
  <2>1. CASE o = p
    BY <1>2, <2>1
  <2>2. CASE o # p
    <3>1. Sound(prober[o], rows, geoClock')
      BY SoundStays DEF GeoInv
    <3> QED
      BY <1>2, <2>2, <3>1
  <2> QED
    BY <2>1, <2>2
<1>4. LocksHold'
  <2> SUFFICES ASSUME NEW o \in Probers, NEW q \in Probers, o # q, prober'[o].step \in Locking,
                      prober'[q].step \in Locking
               PROVE  prober'[o].saving \cap prober'[q].saving = {}
    BY DEF LocksHold
  <2>1. CASE o = p
    BY <1>2, <2>1
  <2>2. CASE q = p
    BY <1>2, <2>2
  <2>3. CASE o # p /\ q # p
    BY <1>2, <2>3 DEF GeoInv, LocksHold
  <2> QED
    BY <2>1, <2>2, <2>3
<1>5. RowsKnown' /\ RunsAreAWindowApart'
  BY DEF GeoInv, RowsKnown, RunsAreAWindowApart
<1> QED
  BY <1>1, <1>3, <1>4, <1>5 DEF GeoInv

(* A run that holds no lock and no time.                                    *)
LEMMA ProbeMovesFreely ==
    ASSUME GeoInv, NEW p \in Probers, NEW new, Step(p, new), UNCHANGED <<rows, geoClock>>,
           Sound(new, rows, geoClock), new.step \notin Locking
    PROVE  GeoInv'
<1>1. geoClock' \in Nat /\ geoClock <= geoClock' /\ Sound(new, rows, geoClock')
  BY DEF GeoInv
<1> QED
  BY <1>1, OneProbeMoves

(* A run that begins holds no lock.                                         *)
LEMMA StartProbeHolds == ASSUME GeoInv, NEW p \in Probers, StartProbe(p) PROVE GeoInv'
<1> DEFINE new == [prober[p] EXCEPT !.step = "asking", !.asked = build_prompt_set(profile),
                                    !.baseline = latest_share_of_voice]
<1>1. Step(p, new) /\ UNCHANGED <<rows, geoClock>>
  BY DEF StartProbe
<1>2. IsProbe(prober[p])
  BY DEF GeoInv, Sound
<1>3. IsProbe(new) /\ new.step = "asking"
  BY <1>2 DEF IsProbe, ProbeFields
<1> HIDE DEF new
<1>4. Sound(new, rows, geoClock) /\ new.step \notin Locking
  BY <1>3 DEF Sound, Locking
<1> QED
  BY <1>1, <1>4, ProbeMovesFreely

(* Whatever was asked, what is saved are the questions that were measured.  *)
LEMMA FinishAskingHolds == ASSUME GeoInv, NEW p \in Probers, FinishAsking(p) PROVE GeoInv'
<1> DEFINE now == prober[p]
<1>1. now.step = "asking" /\ UNCHANGED <<rows, geoClock>> /\ IsProbe(now)
  BY DEF FinishAsking, GeoInv, Sound
<1>2. PICK ran \in Probed(now.asked) : \E measured \in [ran -> Outcomes \cap Endings] :
          Step(p, Scored(now, measured))
  BY Zenon DEF FinishAsking
<1>3. PICK measured \in [ran -> Outcomes \cap Endings] : Step(p, Scored(now, measured))
  BY <1>2
<1> DEFINE new == Scored(now, measured)
<1>4. /\ IsProbe(new) /\ new.saving = {k[1] : k \in ran} /\ new.outcomes = measured
      /\ DOMAIN measured = ran /\ new.step \in {"idle", "measured"}
  BY <1>1 DEF Scored, IsProbe, ProbeFields
<1>5. Step(p, new)
  BY <1>3
<1> HIDE DEF new
<1>6. ran \subseteq {k[1] : k \in ran} \X GeoModels
  <2>1. Probed(now.asked) \subseteq SUBSET (now.asked \X GeoModels)
    BY DEF Probed
  <2>2. ran \subseteq now.asked \X GeoModels
    BY <1>2, <2>1
  <2> QED
    BY <2>2
<1>7. Sound(new, rows, geoClock) /\ new.step \notin Locking
  BY <1>4, <1>6 DEF Sound, Locking
<1> QED
  BY <1>1, <1>5, <1>7, ProbeMovesFreely

(* The questions are locked one save at a time.                             *)
LEMMA ResolveHolds == ASSUME GeoInv, NEW p \in Probers, ResolvePrompts(p) PROVE GeoInv'
<1> DEFINE now == prober[p]
<1> DEFINE new == [now EXCEPT !.step = "resolved"]
<1>1. /\ now.step = "measured" /\ Unlocked(p, now.saving) /\ Step(p, new)
      /\ UNCHANGED <<rows, geoClock>>
  BY DEF ResolvePrompts
<1>2. Sound(now, rows, geoClock) /\ geoClock \in Nat
  BY DEF GeoInv
<1>3. /\ IsProbe(new) /\ new.step = "resolved" /\ new.saving = now.saving
      /\ new.outcomes = now.outcomes
  BY <1>2 DEF Sound, IsProbe, ProbeFields
<1> HIDE DEF new
<1>4. Sound(new, rows, geoClock')
  BY <1>1, <1>2, <1>3 DEF Sound
<1>5. ASSUME NEW o \in Probers \ {p}, prober[o].step \in Locking
      PROVE  prober[o].saving \cap new.saving = {}
  BY <1>1, <1>3, <1>5 DEF Unlocked, Locking
<1>6. geoClock' \in Nat /\ geoClock <= geoClock'
  BY <1>1, <1>2
<1> QED
  BY <1>1, <1>4, <1>5, <1>6, OneProbeMoves

(* No answer to a question of a save is younger than the time it takes, and *)
(* none is within a window of a time of its own.                            *)
LEMMA RecentOrApart ==
    ASSUME GeoInv, NEW saving, NEW recent, recent = RecentRuns(saving, geoClock)
    PROVE  IF recent # {}
           THEN /\ Newest(recent) \in Nat /\ Newest(recent) <= geoClock
                /\ Apart(rows, saving, Newest(recent), FALSE)
           ELSE Apart(rows, saving, geoClock, TRUE)
<1>1. \A r \in rows : r.at \in Nat /\ r.at <= geoClock
  BY DEF GeoInv, RowsKnown
<1>2. geoClock \in Nat /\ Window \in Nat
  BY GeoProbesAssumption DEF GeoInv
<1>3. \A r \in rows : r.question \in saving /\ r.at \notin recent => r.at + Window < geoClock
  BY <1>1, <1>2 DEF RecentRuns
<1>4. ASSUME NEW t \in recent PROVE \E r \in rows : t = r.at /\ t + Window >= geoClock
  BY <1>4 DEF RecentRuns
<1>5. CASE recent = {}
  BY <1>1, <1>2, <1>3, <1>5 DEF Apart
<1>6. CASE recent # {}
  <2>1. recent \subseteq 0 .. geoClock
    BY <1>1, <1>2, <1>4
  <2>2. \E t \in recent : \A u \in recent : u <= t
    BY <1>2, <1>6, <2>1, HasGreatest
  <2> DEFINE t == Newest(recent)
  <2>3. t \in recent /\ \A u \in recent : u <= t
    BY <2>2 DEF Newest
  <2> HIDE DEF t
  <2>4. t \in Nat /\ t <= geoClock /\ t + Window >= geoClock
    BY <1>2, <1>4, <2>1, <2>3
  <2>5. ASSUME NEW r \in rows, r.question \in saving PROVE r.at <= t
    <3>1. CASE r.at \in recent
      BY <2>3, <3>1
    <3>2. CASE r.at \notin recent
      BY <1>1, <1>2, <1>3, <2>4, <2>5, <3>2
    <3> QED
      BY <3>1, <3>2
  <2> QED
    BY <1>6, <2>4, <2>5 DEF Apart, t
<1> QED
  BY <1>5, <1>6

(* A save takes its time.                                                   *)
LEMMA StampHolds == ASSUME GeoInv, NEW p \in Probers, Stamp(p) PROVE GeoInv'
<1> DEFINE now == prober[p]
<1> DEFINE recent == RecentRuns(now.saving, geoClock)
<1>1. now.step = "resolved" /\ UNCHANGED rows
  BY DEF Stamp
<1>2. Sound(now, rows, geoClock) /\ geoClock \in Nat
  BY DEF GeoInv
<1>3. PICK stamp, fresh :
          /\ Step(p, [now EXCEPT !.step = "stamped", !.at = stamp, !.fresh = fresh])
          /\ IF recent # {} THEN stamp = Newest(recent) /\ fresh = FALSE /\ geoClock' = geoClock
             ELSE stamp = geoClock /\ fresh = TRUE /\ geoClock' = geoClock + 1
  BY DEF Stamp
<1> DEFINE new == [now EXCEPT !.step = "stamped", !.at = stamp, !.fresh = fresh]
<1>4. /\ IsProbe(new) /\ new.step = "stamped" /\ new.at = stamp /\ new.saving = now.saving
      /\ new.outcomes = now.outcomes /\ new.fresh = fresh
  BY <1>2 DEF Sound, IsProbe, ProbeFields
<1>5. stamp \in Nat /\ stamp <= geoClock /\ Apart(rows, now.saving, stamp, fresh)
  <2>1. CASE recent # {}
    <3>1. /\ Newest(recent) \in Nat /\ Newest(recent) <= geoClock
          /\ Apart(rows, now.saving, Newest(recent), FALSE)
      BY <2>1, RecentOrApart
    <3>2. stamp = Newest(recent) /\ fresh = FALSE
      BY <1>3, <2>1
    <3> HIDE DEF recent
    <3> QED
      BY <3>1, <3>2, Zenon
  <2>2. CASE recent = {}
    <3>1. Apart(rows, now.saving, geoClock, TRUE)
      BY <2>2, RecentOrApart
    <3>2. stamp = geoClock /\ fresh = TRUE
      BY <1>3, <2>2
    <3>3. stamp \in Nat /\ stamp <= geoClock
      BY <1>2, <3>2
    <3> QED
      BY <3>1, <3>2, <3>3, Zenon
  <2> QED
    BY <2>1, <2>2
<1>7. geoClock' \in Nat /\ geoClock <= geoClock'
  BY <1>2, <1>3
<1>8. Step(p, new)
  BY <1>3
<1> HIDE DEF new
<1>9. Sound(new, rows, geoClock')
  BY <1>1, <1>2, <1>4, <1>5, <1>7 DEF Sound
<1>10. ASSUME NEW o \in Probers \ {p}, prober[o].step \in Locking
       PROVE  prober[o].saving \cap new.saving = {}
  BY <1>1, <1>4, <1>10 DEF GeoInv, LocksHold, Locking
<1> QED
  BY <1>1, <1>7, <1>8, <1>9, <1>10, OneProbeMoves

(* A save tells the answers that are stored from those that are missing.    *)
LEMMA WriteHolds == ASSUME GeoInv, NEW p \in Probers, WriteRows(p) PROVE GeoInv'
<1> DEFINE now == prober[p]
<1> DEFINE missing == DOMAIN now.outcomes \ {Key(r) : r \in {o \in rows : o.at = now.at}}
<1> DEFINE new == [now EXCEPT !.step = "written", !.missing = missing]
<1>1. now.step = "stamped" /\ Step(p, new) /\ UNCHANGED <<rows, geoClock>>
  BY DEF WriteRows
<1>2. Sound(now, rows, geoClock) /\ geoClock \in Nat
  BY DEF GeoInv
<1>3. /\ IsProbe(new) /\ new.step = "written" /\ new.at = now.at /\ new.saving = now.saving
      /\ new.outcomes = now.outcomes /\ new.missing = missing /\ new.fresh = now.fresh
  BY <1>2 DEF Sound, IsProbe, ProbeFields
<1>4. /\ missing \subseteq DOMAIN now.outcomes
      /\ \A k \in missing, r \in rows : ~ (r.at = now.at /\ Key(r) = k)
  OBVIOUS
<1> HIDE DEF new, missing
<1>5. Sound(new, rows, geoClock')
  BY <1>1, <1>2, <1>3, <1>4 DEF Sound
<1>6. ASSUME NEW o \in Probers \ {p}, prober[o].step \in Locking
      PROVE  prober[o].saving \cap new.saving = {}
  BY <1>1, <1>3, <1>6 DEF GeoInv, LocksHold, Locking
<1>7. geoClock' \in Nat /\ geoClock <= geoClock'
  BY <1>1, <1>2
<1> QED
  BY <1>1, <1>5, <1>6, <1>7, OneProbeMoves

(* A save commits: what it found missing is missing still, and its time is  *)
(* as far from every other answer to its questions as it was, because no    *)
(* other save could have stored one meanwhile.                              *)
LEMMA CommitHolds == ASSUME GeoInv, NEW p \in Probers, CommitRows(p) PROVE GeoInv'
<1> DEFINE now == prober[p]
<1> DEFINE Ours(r) == r.at = now.at /\ Key(r) \in DOMAIN now.outcomes \ now.missing
<1> DEFINE Updated(r) == [r EXCEPT !.outcome = now.outcomes[Key(r)]]
<1> DEFINE New(k) == [question |-> k[1], model |-> k[2], at |-> now.at, by |-> p,
                      fresh |-> now.fresh, outcome |-> now.outcomes[k]]
<1> DEFINE last == [Absentee EXCEPT !.comparable = now.comparable]
<1>1. /\ now.step = "written" /\ Step(p, last) /\ geoClock' = geoClock
      /\ rows' = {IF Ours(r) THEN Updated(r) ELSE r : r \in rows} \cup {New(k) : k \in now.missing}
  BY DEF CommitRows
<1>2. /\ geoClock \in Nat /\ Sound(now, rows, geoClock)
      /\ \A r \in rows : IsRow(r) /\ r.at \in Nat /\ r.at <= geoClock
  BY DEF GeoInv, RowsKnown
<1>3. IsProbe(last) /\ last.step = "idle"
  BY DEF Absentee, IsProbe, ProbeFields
<1> HIDE DEF last
<1>4. /\ DOMAIN now.outcomes \subseteq now.saving \X GeoModels
      /\ now.at \in Nat /\ now.at <= geoClock /\ Apart(rows, now.saving, now.at, now.fresh)
      /\ now.missing \subseteq DOMAIN now.outcomes
      /\ \A k \in now.missing, r \in rows : ~ (r.at = now.at /\ Key(r) = k)
  BY <1>1, <1>2 DEF Sound
<1>5. ASSUME NEW r, IsRow(r)
      PROVE  /\ IsRow(Updated(r)) /\ Updated(r).question = r.question /\ Updated(r).at = r.at
             /\ Updated(r).model = r.model /\ Updated(r).fresh = r.fresh
  BY <1>5 DEF IsRow, RowFields
<1>6. ASSUME NEW k \in now.missing
      PROVE  /\ IsRow(New(k)) /\ New(k).question = k[1] /\ k[1] \in now.saving /\ New(k).at = now.at
             /\ Key(New(k)) = k /\ New(k).model = k[2] /\ New(k).fresh = now.fresh
  <2>1. k = <<k[1], k[2]>> /\ k[1] \in now.saving /\ k[2] \in GeoModels
    BY <1>4
  <2> QED
    BY <2>1 DEF IsRow, RowFields, Key
<1> DEFINE After(r) == IF Ours(r) THEN Updated(r) ELSE r
<1>7. ASSUME NEW r \in rows
      PROVE  /\ After(r) \in rows' /\ IsRow(After(r)) /\ After(r).question = r.question
             /\ After(r).at = r.at /\ After(r).model = r.model /\ After(r).fresh = r.fresh
             /\ Key(After(r)) = Key(r)
  <2>1. After(r) \in rows'
    BY <1>1
  <2> HIDE DEF Updated, Ours
  <2>2. /\ IsRow(After(r)) /\ After(r).question = r.question /\ After(r).at = r.at
        /\ After(r).model = r.model /\ After(r).fresh = r.fresh
    BY <1>2, <1>5
  <2> QED
    BY <2>1, <2>2 DEF Key
<1>8. ASSUME NEW s \in rows'
      PROVE  \/ \E r \in rows : s = After(r)
             \/ \E k \in now.missing : s = New(k)
  BY <1>1
<1>9. ASSUME NEW k \in now.missing PROVE New(k) \in rows'
  BY <1>1
<1> HIDE DEF New, After
<1>10. prober'[p] = last /\ \A o \in Probers \ {p} : prober'[o] = prober[o]
  BY <1>1 DEF GeoInv, Step
<1>11. prober' = [o \in Probers |-> prober'[o]]
  BY <1>1 DEF GeoInv, Step
<1>12. ASSUME NEW o \in Probers PROVE Sound(prober'[o], rows', geoClock')
  <2>1. CASE o = p
    BY <1>3, <1>10, <2>1 DEF Sound
  <2>2. CASE o # p
    <3> DEFINE x == prober[o]
    <3>1. Sound(x, rows, geoClock) /\ prober'[o] = x
      BY <1>10, <2>2 DEF GeoInv
    <3>2. ASSUME x.step \in {"stamped", "written"} PROVE Apart(rows', x.saving, x.at, x.fresh)
      <4>1. x.saving \cap now.saving = {}
        BY <1>1, <2>2, <3>2 DEF GeoInv, LocksHold, Locking
      <4>2. Apart(rows, x.saving, x.at, x.fresh)
        BY <3>1, <3>2 DEF Sound
      <4>3. ASSUME NEW s \in rows', s.question \in x.saving
            PROVE  s.at <= x.at /\ (x.fresh => s.at + Window < x.at)
        <5>1. CASE \E r \in rows : s = After(r)
          BY <1>7, <4>2, <4>3, <5>1 DEF Apart
        <5>2. CASE \E k \in now.missing : s = New(k)
          BY <1>6, <4>1, <4>3, <5>2
        <5> QED
          BY <1>8, <4>3, <5>1, <5>2
      <4> QED
        BY <4>3 DEF Apart
    <3>3. ASSUME x.step = "written", NEW k \in x.missing, NEW s \in rows'
          PROVE  ~ (s.at = x.at /\ Key(s) = k)
      <4>1. CASE \E r \in rows : s = After(r)
        BY <1>7, <3>1, <3>3, <4>1 DEF Sound
      <4>2. CASE \E j \in now.missing : s = New(j)
        <5>1. x.saving \cap now.saving = {}
          BY <1>1, <2>2, <3>3 DEF GeoInv, LocksHold, Locking
        <5>2. k[1] \in x.saving
          BY <3>1, <3>3 DEF Sound
        <5> QED
          BY <1>6, <4>2, <5>1, <5>2
      <4> QED
        BY <1>8, <4>1, <4>2
    <3> QED
      BY <1>1, <3>1, <3>2, <3>3 DEF Sound
  <2> QED
    BY <2>1, <2>2
<1>13. LocksHold'
  <2> SUFFICES ASSUME NEW o \in Probers, NEW q \in Probers, o # q, prober'[o].step \in Locking,
                      prober'[q].step \in Locking
               PROVE  prober'[o].saving \cap prober'[q].saving = {}
    BY DEF LocksHold
  <2>1. o # p /\ q # p
    BY <1>3, <1>10 DEF Locking
  <2> QED
    BY <1>10, <2>1 DEF GeoInv, LocksHold
<1>14. RowsKnown'
  <2> SUFFICES ASSUME NEW s \in rows' PROVE IsRow(s) /\ s.at \in Nat /\ s.at <= geoClock
    BY <1>1 DEF RowsKnown
  <2>1. CASE \E r \in rows : s = After(r)
    BY <1>2, <1>7, <2>1
  <2>2. CASE \E k \in now.missing : s = New(k)
    BY <1>4, <1>6, <2>2
  <2> QED
    BY <1>8, <2>1, <2>2
<1>15. RunsAreAWindowApart'
  <2>1. ASSUME NEW r \in rows, NEW k \in now.missing, r.question = k[1]
        PROVE  r.at <= now.at /\ (now.fresh => r.at + Window < now.at)
    BY <1>4, <1>6, <2>1 DEF Apart
  <2>2. Window \in Nat
    BY GeoProbesAssumption
  <2> SUFFICES ASSUME NEW s \in rows', NEW t \in rows', s.question = t.question
               PROVE  /\ s.model = t.model /\ s.at = t.at => s = t
                      /\ t.fresh /\ s.at < t.at => t.at - s.at > Window
    BY DEF RunsAreAWindowApart
  <2>3. CASE (\E r \in rows : s = After(r)) /\ (\E r \in rows : t = After(r))
    <3>1. PICK r \in rows, o \in rows : s = After(r) /\ t = After(o)
      BY <2>3
    <3>2. r.question = o.question /\ s.at = r.at /\ t.at = o.at
          /\ s.model = r.model /\ t.model = o.model /\ t.fresh = o.fresh
      BY <1>7, <3>1
    <3>3. /\ r.model = o.model /\ r.at = o.at => r = o
          /\ o.fresh /\ r.at < o.at => o.at - r.at > Window
      BY <3>2 DEF GeoInv, RunsAreAWindowApart
    <3> QED
      BY <3>1, <3>2, <3>3
  <2>4. CASE (\E r \in rows : s = After(r)) /\ (\E k \in now.missing : t = New(k))
    <3>1. PICK r \in rows, k \in now.missing : s = After(r) /\ t = New(k)
      BY <2>4
    <3>2. /\ r.at = s.at /\ t.at = now.at /\ r.question = k[1] /\ t.fresh = now.fresh
          /\ s.model = r.model /\ Key(t) = k /\ Key(t) = <<t.question, t.model>>
          /\ Key(r) = <<r.question, r.model>>
      BY <1>6, <1>7, <3>1 DEF Key
    <3>3. ~ (s.model = t.model /\ s.at = t.at)
      <4>1. ~ (r.at = now.at /\ Key(r) = k)
        BY <1>4
      <4> QED
        BY <1>6, <1>7, <3>1, <3>2, <4>1
    <3> QED
      BY <1>2, <1>4, <2>1, <2>2, <3>2, <3>3
  <2>5. CASE (\E k \in now.missing : s = New(k)) /\ (\E r \in rows : t = After(r))
    <3>1. PICK r \in rows, k \in now.missing : t = After(r) /\ s = New(k)
      BY <2>5
    <3>2. /\ r.at = t.at /\ s.at = now.at /\ r.question = k[1]
          /\ t.model = r.model /\ Key(s) = k /\ Key(s) = <<s.question, s.model>>
          /\ Key(r) = <<r.question, r.model>>
      BY <1>6, <1>7, <3>1 DEF Key
    <3>3. ~ (s.model = t.model /\ s.at = t.at)
      <4>1. ~ (r.at = now.at /\ Key(r) = k)
        BY <1>4
      <4> QED
        BY <1>6, <1>7, <3>1, <3>2, <4>1
    <3> QED
      BY <1>2, <1>4, <2>1, <2>2, <3>2, <3>3
  <2>6. CASE (\E k \in now.missing : s = New(k)) /\ (\E k \in now.missing : t = New(k))
    <3>1. PICK k \in now.missing, j \in now.missing : s = New(k) /\ t = New(j)
      BY <2>6
    <3>2. s.at = now.at /\ t.at = now.at /\ Key(s) = k /\ Key(t) = j
      BY <1>6, <3>1
    <3>3. s.model = t.model => k = j
      BY <3>2 DEF Key
    <3> QED
      BY <1>4, <3>1, <3>2, <3>3
  <2> QED
    BY <1>8, <2>3, <2>4, <2>5, <2>6
<1> QED
  BY <1>1, <1>2, <1>11, <1>12, <1>13, <1>14, <1>15 DEF GeoInv

(* A run ends without its save.                                             *)
LEMMA LoseHolds == ASSUME GeoInv, NEW p \in Probers, LoseProbe(p) PROVE GeoInv'
<1>1. Step(p, Absentee) /\ UNCHANGED <<rows, geoClock>>
  BY DEF LoseProbe
<1>2. IsProbe(Absentee) /\ Absentee.step = "idle"
  BY DEF Absentee, IsProbe, ProbeFields
<1>3. Sound(Absentee, rows, geoClock) /\ Absentee.step \notin Locking
  BY <1>2 DEF Sound, Locking
<1> QED
  BY <1>1, <1>3, ProbeMovesFreely

(* The owner's edits and the clock change no run and no row.                *)
LEMMA GeoStays ==
    ASSUME GeoInv, UNCHANGED <<rows, prober>>, geoClock' \in Nat, geoClock <= geoClock'
    PROVE  GeoInv'
<1>1. ASSUME NEW p \in Probers PROVE Sound(prober'[p], rows', geoClock')
  BY SoundStays DEF GeoInv
<1>2. LocksHold' /\ RunsAreAWindowApart' /\ RowsKnown'
  BY DEF GeoInv, LocksHold, RunsAreAWindowApart, RowsKnown
<1> QED
  BY <1>1, <1>2 DEF GeoInv

(* geo_service and probe_store: a re-sent run folds onto the one it         *)
(* retries.  For every number of runs in flight, every window and set of    *)
(* models, whatever the owner confirms meanwhile and wherever a budget ends *)
(* a run: a time has one answer to a question by a model, and no time is    *)
(* opened within a window of an answer to one of its questions.             *)
THEOREM RetriesFold == GeoSpec => []RunsAreAWindowApart
<1>1. GeoInit => GeoInv
  <2> SUFFICES ASSUME GeoInit PROVE GeoInv
    OBVIOUS
  <2>1. prober = [p \in Probers |-> Absentee] /\ rows = {} /\ geoClock = 1
    BY DEF GeoInit
  <2>2. IsProbe(Absentee) /\ Absentee.step = "idle"
    BY DEF Absentee, IsProbe, ProbeFields
  <2>3. ASSUME NEW p \in Probers PROVE Sound(prober[p], rows, geoClock) /\ prober[p].step \notin Locking
    BY <2>1, <2>2 DEF Sound, Locking
  <2>4. LocksHold
    BY <2>3 DEF LocksHold
  <2>5. RowsKnown /\ RunsAreAWindowApart
    BY <2>1 DEF RowsKnown, RunsAreAWindowApart
  <2> QED
    BY <2>1, <2>3, <2>4, <2>5 DEF GeoInv
<1>2. GeoInv /\ [GeoNext]_geoVars => GeoInv'
  <2> SUFFICES ASSUME GeoInv, [GeoNext]_geoVars PROVE GeoInv'
    OBVIOUS
  <2>1. ASSUME NEW p \in Probers, StartProbe(p) PROVE GeoInv'
    BY <2>1, StartProbeHolds
  <2>2. ASSUME NEW p \in Probers, FinishAsking(p) PROVE GeoInv'
    BY <2>2, FinishAskingHolds
  <2>3. ASSUME NEW p \in Probers, ResolvePrompts(p) PROVE GeoInv'
    BY <2>3, ResolveHolds
  <2>4. ASSUME NEW p \in Probers, Stamp(p) PROVE GeoInv'
    BY <2>4, StampHolds
  <2>5. ASSUME NEW p \in Probers, WriteRows(p) PROVE GeoInv'
    BY <2>5, WriteHolds
  <2>6. ASSUME NEW p \in Probers, CommitRows(p) PROVE GeoInv'
    BY <2>6, CommitHolds
  <2>7. ASSUME NEW p \in Probers, LoseProbe(p) PROVE GeoInv'
    BY <2>7, LoseHolds
  <2>8. geoClock \in Nat
    BY DEF GeoInv
  <2>9. CASE EditProfile \/ NewPromptSet
    <3>1. PICK new : Reprofile(new)
      BY <2>9, Zenon DEF EditProfile, NewPromptSet
    <3> QED
      BY <2>8, <3>1, GeoStays DEF Reprofile
  <2>10. CASE GeoTick
    BY <2>8, <2>10, GeoStays DEF GeoTick
  <2>11. CASE UNCHANGED geoVars
    BY <2>8, <2>11, GeoStays DEF geoVars
  <2> QED
    BY <2>1, <2>2, <2>3, <2>4, <2>5, <2>6, <2>7, <2>9, <2>10, <2>11 DEF GeoNext
<1>3. GeoInv => RunsAreAWindowApart
  BY DEF GeoInv
<1> QED
  BY <1>1, <1>2, <1>3, PTL DEF GeoSpec

-----------------------------------------------------------------------------
(* The types of the probes, beside what their invariant says of them.       *)

GeoRows   == [question: Question, model: GeoModels, at: Nat, by: Probers, fresh: BOOLEAN,
              outcome: Outcomes]
GeoStates == {"idle", "asking", "measured", "resolved", "stamped", "written"}

\* A run's fields, and that what it has to save it has measured.
ProbeTyped(x, now) ==
    /\ IsProbe(x) /\ x.step \in GeoStates
    /\ x.asked \subseteq Question /\ x.saving \subseteq Question
    /\ x.at \in Nat /\ x.at <= now /\ x.comparable \in BOOLEAN /\ x.fresh \in BOOLEAN
    /\ x.step \in {"measured", "resolved", "stamped", "written"} =>
          /\ DOMAIN x.outcomes \subseteq Question \X GeoModels
          /\ \A k \in DOMAIN x.outcomes : x.outcomes[k] \in Outcomes
    /\ x.step = "written" => x.missing \subseteq DOMAIN x.outcomes

\* The types as an invariant: a time is never one the clock has not reached.
GeoRest ==
    /\ profile \in Profiles
    /\ geoClock \in Nat
    /\ settings \in 0 .. MaxSettings /\ runs \in 0 .. MaxRuns
    /\ rows \subseteq GeoRows
    /\ \A r \in rows : r.at <= geoClock
    /\ prober = [p \in Probers |-> prober[p]]
    /\ \A p \in Probers : ProbeTyped(prober[p], geoClock)

(* The types follow.                                                        *)
LEMMA GeoTypesFollow == GeoRest => GeoTypeOK
<1> SUFFICES ASSUME GeoRest PROVE GeoTypeOK
  OBVIOUS
<1>1. rows \subseteq [question: Question, model: GeoModels, at: Nat, by: Probers,
                      fresh: BOOLEAN, outcome: Outcomes]
  BY Zenon DEF GeoRest, GeoRows
<1>2. DOMAIN prober = Probers
  BY DEF GeoRest
<1>3. ASSUME NEW p \in Probers
      PROVE  /\ prober[p].step \in {"idle", "asking", "measured", "resolved", "stamped",
                                    "written"}
             /\ prober[p].asked \subseteq Question /\ prober[p].saving \subseteq Question
             /\ prober[p].at \in Nat
             /\ prober[p].comparable \in BOOLEAN /\ prober[p].fresh \in BOOLEAN
  BY Zenon DEF GeoRest, ProbeTyped, GeoStates
<1> QED
  BY <1>1, <1>2, <1>3 DEF GeoRest, GeoTypeOK

(* A run that is over, or not begun, is typed.                              *)
LEMMA AbsenteeTyped ==
    ASSUME NEW now \in Nat, NEW comparable \in BOOLEAN
    PROVE  /\ ProbeTyped(Absentee, now)
           /\ ProbeTyped([Absentee EXCEPT !.comparable = comparable], now)
<1>1. ASSUME NEW x, IsProbe(x), x.step = "idle", x.asked = {}, x.saving = {},
             x.at = 0, x.comparable \in BOOLEAN, x.fresh = FALSE
      PROVE  ProbeTyped(x, now)
  <2>1. x.fresh \in BOOLEAN /\ x.comparable \in BOOLEAN
    BY <1>1, Zenon
  <2>2. x.step \in GeoStates
    BY <1>1 DEF GeoStates
  <2> QED
    BY <1>1, <2>1, <2>2 DEF ProbeTyped
<1>2. /\ IsProbe(Absentee) /\ Absentee.step = "idle" /\ Absentee.asked = {}
      /\ Absentee.saving = {} /\ Absentee.at = 0 /\ Absentee.comparable = FALSE
      /\ Absentee.fresh = FALSE
  BY DEF Absentee, IsProbe, ProbeFields
<1> DEFINE last == [Absentee EXCEPT !.comparable = comparable]
<1>3. /\ IsProbe(last) /\ last.step = "idle" /\ last.asked = {} /\ last.saving = {}
      /\ last.at = 0 /\ last.comparable = comparable /\ last.fresh = FALSE
  BY DEF Absentee, IsProbe, ProbeFields
<1> HIDE DEF last
<1>4. Absentee.comparable \in BOOLEAN /\ last.comparable \in BOOLEAN
  BY <1>2, <1>3, Zenon
<1>5. ProbeTyped(Absentee, now)
  BY <1>1, <1>2, <1>4
<1>6. ProbeTyped(last, now)
  BY <1>1, <1>3, <1>4
<1> QED
  BY <1>5, <1>6 DEF last

(* One run takes a step to a typed state and no row is written.             *)
LEMMA TypedProbeMoves ==
    ASSUME GeoRest, NEW p \in Probers, NEW new, Step(p, new),
           geoClock' \in Nat, geoClock <= geoClock', ProbeTyped(new, geoClock'),
           UNCHANGED <<profile, settings>>, runs' \in 0 .. MaxRuns,
           rows' \subseteq GeoRows, \A r \in rows' : r.at <= geoClock'
    PROVE  GeoRest'
<1>1. prober' = [o \in Probers |-> prober'[o]]
  BY DEF GeoRest, Step
<1>2. prober'[p] = new /\ \A o \in Probers \ {p} : prober'[o] = prober[o]
  BY DEF GeoRest, Step
<1>3. ASSUME NEW o \in Probers PROVE ProbeTyped(prober'[o], geoClock')
  <2>1. CASE o = p
    BY <1>2, <2>1
  <2>2. CASE o # p
    <3>1. ProbeTyped(prober[o], geoClock) /\ prober'[o] = prober[o] /\ geoClock \in Nat
      BY <1>2, <2>2 DEF GeoRest
    <3> QED
      BY <3>1 DEF ProbeTyped
  <2> QED
    BY <2>1, <2>2
<1> QED
  BY <1>1, <1>3 DEF GeoRest

(* The questions of a confirmed profile are questions.                      *)
LEMMA QuestionsOfAProfile ==
    ASSUME profile \in Profiles, profile.name # Blank, profile.city # Blank
    PROVE  build_prompt_set(profile) \subseteq Question
<1>1. /\ profile.version \in {1, 2} /\ profile.locale \in Locales /\ profile.name \in Brands
      /\ profile.city \in Towns /\ profile.services \subseteq Offers
  BY DEF Profiles
<1> DEFINE Subjects == Brands \cup Offers \cup (Offers \X Towns)
<1> DEFINE Ask(c, about) == [version |-> profile.version, locale |-> profile.locale,
                             category |-> c, about |-> about]
<1>2. ASSUME NEW c \in Asked, NEW about \in Subjects PROVE Ask(c, about) \in Question
  BY <1>1 DEF Question
<1>3. profile.services \X {profile.city} \subseteq Subjects
  BY <1>1
<1> HIDE DEF Subjects, Ask
<1>4. {profile.name} \subseteq Subjects /\ profile.services \subseteq Subjects
  BY <1>1 DEF Subjects
<1>5. ASSUME NEW q \in build_prompt_set(profile)
      PROVE  \E c \in Asked, about \in Subjects : q = Ask(c, about)
  BY <1>3, <1>4 DEF build_prompt_set, Ask
<1> QED
  BY <1>2, <1>5

(* The steps of a run up to its save keep the types.                        *)
LEMMA AskingTyped ==
    ASSUME GeoRest, NEW p \in Probers, StartProbe(p) \/ FinishAsking(p) \/ ResolvePrompts(p)
    PROVE  GeoRest'
<1> DEFINE now == prober[p]
<1>1. UNCHANGED <<profile, settings, rows, geoClock>> /\ runs' \in 0 .. MaxRuns
  <2>1. runs \in 0 .. MaxRuns /\ MaxRuns \in Nat
    BY GeoProbesAssumption DEF GeoRest
  <2> QED
    BY <2>1 DEF StartProbe, FinishAsking, ResolvePrompts
<1>2. /\ geoClock \in Nat /\ ProbeTyped(now, geoClock) /\ IsProbe(now)
      /\ rows \subseteq GeoRows /\ \A r \in rows : r.at <= geoClock
  BY DEF GeoRest, ProbeTyped
<1>3. ASSUME NEW new, Step(p, new), ProbeTyped(new, geoClock) PROVE GeoRest'
  BY <1>1, <1>2, <1>3, TypedProbeMoves
<1>4. CASE StartProbe(p)
  <2> DEFINE new == [now EXCEPT !.step = "asking", !.asked = build_prompt_set(profile),
                                !.baseline = latest_share_of_voice]
  <2>1. Step(p, new)
    BY <1>4 DEF StartProbe
  <2>2. /\ IsProbe(new) /\ new.step = "asking" /\ new.asked = build_prompt_set(profile)
        /\ new.saving = now.saving /\ new.at = now.at /\ new.comparable = now.comparable
        /\ new.fresh = now.fresh
    BY <1>2 DEF IsProbe, ProbeFields
  <2>3. build_prompt_set(profile) \subseteq Question
    BY <1>4, QuestionsOfAProfile DEF GeoRest, StartProbe
  <2> HIDE DEF new, now
  <2>4. ProbeTyped(new, geoClock)
    BY <1>2, <2>2, <2>3 DEF ProbeTyped, GeoStates
  <2> QED
    BY <1>3, <2>1, <2>4
<1>5. CASE FinishAsking(p)
  <2>1. now.step = "asking" /\ now.asked \subseteq Question
    BY <1>2, <1>5 DEF FinishAsking, ProbeTyped
  <2>2. PICK ran \in Probed(now.asked) : \E measured \in [ran -> Outcomes \cap Endings] :
           Step(p, Scored(now, measured))
    BY <1>5, Zenon DEF FinishAsking
  <2>3. PICK measured \in [ran -> Outcomes \cap Endings] : Step(p, Scored(now, measured))
    BY <2>2
  <2> DEFINE new == Scored(now, measured)
  <2>4. new.comparable = Comparable(now.baseline, share_of_voice(measured))
    BY <1>2 DEF Scored, IsProbe, ProbeFields
  <2>5. Step(p, new)
    BY <2>3
  <2>6. /\ IsProbe(new) /\ new.asked = {} /\ new.saving = {k[1] : k \in ran}
        /\ new.outcomes = measured /\ new.at = now.at /\ new.fresh = now.fresh
        /\ new.step \in {"idle", "measured"}
    BY <1>2 DEF Scored, IsProbe, ProbeFields
  <2>7. {k[1] : k \in ran} \subseteq Question /\ ran \subseteq Question \X GeoModels
    <3>1. Probed(now.asked) \subseteq SUBSET (now.asked \X GeoModels)
      BY DEF Probed
    <3>2. ran \subseteq now.asked \X GeoModels
      BY <2>2, <3>1
    <3> QED
      BY <2>1, <3>2
  <2>8. DOMAIN measured = ran /\ \A k \in ran : measured[k] \in Outcomes
    OBVIOUS
  <2>9. now.at \in Nat /\ now.at <= geoClock /\ now.fresh \in BOOLEAN
    BY <1>2 DEF ProbeTyped
  <2> HIDE DEF new, now
  <2>10. new.comparable \in BOOLEAN
    BY <2>4, Zenon DEF Comparable
  <2>11. ProbeTyped(new, geoClock)
    BY <2>6, <2>7, <2>8, <2>9, <2>10 DEF ProbeTyped, GeoStates
  <2> QED
    BY <1>3, <2>5, <2>11
<1>6. CASE ResolvePrompts(p)
  <2> DEFINE new == [now EXCEPT !.step = "resolved"]
  <2>1. Step(p, new) /\ now.step = "measured"
    BY <1>6 DEF ResolvePrompts
  <2>2. /\ IsProbe(new) /\ new.step = "resolved" /\ new.asked = now.asked
        /\ new.outcomes = now.outcomes
        /\ new.saving = now.saving /\ new.at = now.at /\ new.comparable = now.comparable
        /\ new.fresh = now.fresh
    BY <1>2 DEF IsProbe, ProbeFields
  <2> HIDE DEF new, now
  <2>3. ProbeTyped(new, geoClock)
    BY <1>2, <2>1, <2>2 DEF ProbeTyped, GeoStates
  <2> QED
    BY <1>3, <2>1, <2>3
<1> QED
  BY <1>4, <1>5, <1>6

(* A save's time is one the clock has reached.                              *)
LEMMA StampTyped == ASSUME GeoRest, NEW p \in Probers, Stamp(p) PROVE GeoRest'
<1> DEFINE now == prober[p]
<1> DEFINE recent == RecentRuns(now.saving, geoClock)
<1>1. now.step = "resolved" /\ UNCHANGED <<profile, settings, runs, rows>>
  BY DEF Stamp
<1>2. /\ geoClock \in Nat /\ ProbeTyped(now, geoClock) /\ IsProbe(now)
      /\ rows \subseteq GeoRows /\ \A r \in rows : r.at <= geoClock
  BY DEF GeoRest, ProbeTyped
<1>3. PICK stamp, fresh :
          /\ fresh = TRUE \/ fresh = FALSE
          /\ Step(p, [now EXCEPT !.step = "stamped", !.at = stamp, !.fresh = fresh])
          /\ IF recent # {} THEN stamp = Newest(recent) /\ geoClock' = geoClock
             ELSE stamp = geoClock /\ geoClock' = geoClock + 1
  BY DEF Stamp
<1>4. \A r \in rows : r.at \in Nat
  BY <1>2 DEF GeoRows
<1>5. recent # {} => Newest(recent) \in recent
  <2> SUFFICES ASSUME recent # {} PROVE Newest(recent) \in recent
    OBVIOUS
  <2>1. recent \subseteq 0 .. geoClock
    BY <1>2, <1>4 DEF RecentRuns
  <2>2. \E t \in recent : \A u \in recent : u <= t
    BY <1>2, <2>1, HasGreatest
  <2> QED
    BY <2>2 DEF Newest
<1>6. stamp \in Nat /\ stamp <= geoClock /\ geoClock' \in Nat /\ geoClock <= geoClock'
  <2>1. CASE recent = {}
    BY <1>2, <1>3, <2>1
  <2>2. CASE recent # {}
    <3>1. PICK r \in rows : Newest(recent) = r.at
      BY <1>5, <2>2 DEF RecentRuns
    <3> QED
      BY <1>2, <1>3, <1>4, <2>2, <3>1
  <2> QED
    BY <2>1, <2>2
<1> DEFINE new == [now EXCEPT !.step = "stamped", !.at = stamp, !.fresh = fresh]
<1>7. Step(p, new)
  BY <1>3
<1>8. /\ IsProbe(new) /\ new.step = "stamped" /\ new.asked = now.asked
      /\ new.outcomes = now.outcomes /\ new.at = stamp
      /\ new.saving = now.saving /\ new.comparable = now.comparable /\ new.fresh = fresh
  BY <1>2 DEF IsProbe, ProbeFields
<1> HIDE DEF new, now, recent
<1>9. stamp <= geoClock'
  BY <1>2, <1>6
<1>10. ProbeTyped(new, geoClock')
  <2>1. new.fresh \in BOOLEAN
    BY <1>3, <1>8, Zenon
  <2>2. new.comparable \in BOOLEAN
    BY <1>2, <1>8 DEF ProbeTyped
  <2> QED
    BY <1>1, <1>2, <1>6, <1>8, <1>9, <2>1, <2>2 DEF ProbeTyped, GeoStates
<1>11. rows' \subseteq GeoRows /\ \A r \in rows' : r.at <= geoClock'
  BY <1>1, <1>2, <1>4, <1>6
<1>12. runs' \in 0 .. MaxRuns
  BY <1>1 DEF GeoRest
<1> QED
  BY <1>1, <1>6, <1>7, <1>10, <1>11, <1>12, TypedProbeMoves

(* Comparing with the rows stores nothing, and losing a run neither.        *)
LEMMA WriteTyped ==
    ASSUME GeoRest, NEW p \in Probers, WriteRows(p) \/ LoseProbe(p)
    PROVE  GeoRest'
<1> DEFINE now == prober[p]
<1>1. UNCHANGED <<profile, settings, rows, geoClock>> /\ runs' \in 0 .. MaxRuns
  BY DEF WriteRows, LoseProbe, GeoRest
<1>2. /\ geoClock \in Nat /\ ProbeTyped(now, geoClock) /\ IsProbe(now)
      /\ rows \subseteq GeoRows /\ \A r \in rows : r.at <= geoClock
  BY DEF GeoRest, ProbeTyped
<1>3. ASSUME NEW new, Step(p, new), ProbeTyped(new, geoClock) PROVE GeoRest'
  BY <1>1, <1>2, <1>3, TypedProbeMoves
<1>4. CASE WriteRows(p)
  <2> DEFINE missing == DOMAIN now.outcomes \ {Key(r) : r \in {o \in rows : o.at = now.at}}
  <2> DEFINE new == [now EXCEPT !.step = "written", !.missing = missing]
  <2>1. Step(p, new) /\ now.step = "stamped"
    BY <1>4 DEF WriteRows
  <2>2. /\ IsProbe(new) /\ new.step = "written" /\ new.asked = now.asked
        /\ new.outcomes = now.outcomes /\ new.missing = missing /\ new.fresh = now.fresh
        /\ new.saving = now.saving /\ new.at = now.at /\ new.comparable = now.comparable
    BY <1>2 DEF IsProbe, ProbeFields
  <2>3. missing \subseteq DOMAIN now.outcomes
    OBVIOUS
  <2> HIDE DEF new, now, missing
  <2>4. ProbeTyped(new, geoClock)
    BY <1>2, <2>1, <2>2, <2>3 DEF ProbeTyped, GeoStates
  <2> QED
    BY <1>3, <2>1, <2>4
<1>5. CASE LoseProbe(p)
  <2>1. Step(p, Absentee)
    BY <1>5 DEF LoseProbe
  <2>2. ProbeTyped(Absentee, geoClock)
    BY <1>2, AbsenteeTyped
  <2> QED
    BY <1>3, <2>1, <2>2
<1> QED
  BY <1>4, <1>5

(* What a save commits are rows.                                            *)
LEMMA CommitTyped == ASSUME GeoRest, NEW p \in Probers, CommitRows(p) PROVE GeoRest'
<1> DEFINE now == prober[p]
<1> DEFINE Ours(r) == r.at = now.at /\ Key(r) \in DOMAIN now.outcomes \ now.missing
<1> DEFINE Updated(r) == [r EXCEPT !.outcome = now.outcomes[Key(r)]]
<1> DEFINE New(k) == [question |-> k[1], model |-> k[2], at |-> now.at, by |-> p,
                      fresh |-> now.fresh, outcome |-> now.outcomes[k]]
<1>1. /\ now.step = "written"
      /\ Step(p, [Absentee EXCEPT !.comparable = now.comparable])
      /\ rows' = {IF Ours(r) THEN Updated(r) ELSE r : r \in rows} \cup {New(k) : k \in now.missing}
      /\ UNCHANGED <<profile, settings, geoClock>> /\ runs' \in 0 .. MaxRuns
  BY DEF CommitRows, GeoRest
<1>2. /\ geoClock \in Nat /\ ProbeTyped(now, geoClock)
      /\ rows \subseteq GeoRows /\ \A r \in rows : r.at <= geoClock
  BY DEF GeoRest
<1>3. /\ DOMAIN now.outcomes \subseteq Question \X GeoModels
      /\ \A k \in DOMAIN now.outcomes : now.outcomes[k] \in Outcomes
      /\ now.missing \subseteq DOMAIN now.outcomes
      /\ now.at \in Nat /\ now.at <= geoClock /\ now.comparable \in BOOLEAN
      /\ now.fresh \in BOOLEAN
  BY <1>1, <1>2 DEF ProbeTyped
<1>4. ASSUME NEW r \in rows, Ours(r) PROVE Updated(r) \in GeoRows /\ Updated(r).at = r.at
  <2>1. r \in GeoRows /\ now.outcomes[Key(r)] \in Outcomes
    BY <1>2, <1>3, <1>4
  <2> DEFINE outcome == now.outcomes[Key(r)]
  <2>2. IsRow(r) /\ r.question \in Question /\ r.model \in GeoModels /\ r.at \in Nat
        /\ r.by \in Probers /\ r.fresh \in BOOLEAN
    BY <2>1 DEF GeoRows, IsRow, RowFields
  <2> HIDE DEF outcome
  <2> DEFINE u == [r EXCEPT !.outcome = outcome]
  <2>3. /\ IsRow(u) /\ u.question = r.question /\ u.model = r.model /\ u.at = r.at
        /\ u.by = r.by /\ u.outcome = outcome /\ u.fresh = r.fresh
    BY <2>2 DEF IsRow, RowFields
  <2>4. Updated(r) = u
    BY DEF outcome
  <2> HIDE DEF u, Updated, now
  <2>5. u \in GeoRows
    BY <1>2, <2>1, <2>2, <2>3 DEF GeoRows, IsRow, RowFields, outcome
  <2> QED
    BY <2>3, <2>4, <2>5
<1>5. ASSUME NEW k \in now.missing PROVE New(k) \in GeoRows /\ New(k).at = now.at
  <2>1. k[1] \in Question /\ k[2] \in GeoModels /\ now.outcomes[k] \in Outcomes
    BY <1>3
  <2> HIDE DEF now
  <2> QED
    BY <1>2, <1>3, <2>1 DEF GeoRows
<1>6. ASSUME NEW s \in rows' PROVE s \in GeoRows /\ s.at <= geoClock
  <2>1. \/ \E r \in rows : s = r \/ (Ours(r) /\ s = Updated(r))
        \/ \E k \in now.missing : s = New(k)
    BY <1>1
  <2> HIDE DEF now, Ours, Updated, New
  <2> QED
    BY <1>2, <1>3, <1>4, <1>5, <2>1
<1> DEFINE last == [Absentee EXCEPT !.comparable = now.comparable]
<1>7. ProbeTyped(last, geoClock)
  BY <1>2, <1>3, AbsenteeTyped
<1>8. Step(p, last) /\ geoClock' = geoClock /\ UNCHANGED <<profile, settings>>
      /\ runs' \in 0 .. MaxRuns
  BY <1>1
<1> HIDE DEF now, Ours, Updated, New, last
<1> QED
  BY <1>2, <1>6, <1>7, <1>8, TypedProbeMoves

(* services/geo_service and the probe store: rows and runs have their       *)
(* types, a row only ever holds an outcome that was measured, and no row is *)
(* dated in the future, for every number of runs and models, with a budget  *)
(* that ends runs early and without one.                                    *)
THEOREM GeoTypeCorrect == GeoSpec => []GeoTypeOK
<1>1. GeoInit => GeoRest
  <2> SUFFICES ASSUME GeoInit PROVE GeoRest
    OBVIOUS
  <2>1. /\ profile = Unconfirmed /\ geoClock = 1 /\ settings = 0 /\ runs = 0 /\ rows = {}
        /\ prober = [p \in Probers |-> Absentee]
    BY DEF GeoInit
  <2>2. profile \in Profiles
    BY <2>1 DEF Unconfirmed, Profiles, Locales
  <2>3. settings \in 0 .. MaxSettings /\ runs \in 0 .. MaxRuns
    BY <2>1, GeoProbesAssumption
  <2>4. ProbeTyped(Absentee, 1)
    BY AbsenteeTyped
  <2> QED
    BY <2>1, <2>2, <2>3, <2>4 DEF GeoRest
<1>2. GeoRest /\ [GeoNext]_geoVars => GeoRest'
  <2> SUFFICES ASSUME GeoRest, [GeoNext]_geoVars PROVE GeoRest'
    OBVIOUS
  <2>0. geoClock \in Nat /\ \A r \in rows : r.at \in Nat /\ r.at <= geoClock
    BY DEF GeoRest, GeoRows
  <2>1. ASSUME NEW p \in Probers, StartProbe(p) \/ FinishAsking(p) \/ ResolvePrompts(p)
        PROVE  GeoRest'
    BY <2>1, AskingTyped
  <2>2. ASSUME NEW p \in Probers, Stamp(p) PROVE GeoRest'
    BY <2>2, StampTyped
  <2>3. ASSUME NEW p \in Probers, WriteRows(p) \/ LoseProbe(p) PROVE GeoRest'
    BY <2>3, WriteTyped
  <2>4. ASSUME NEW p \in Probers, CommitRows(p) PROVE GeoRest'
    BY <2>4, CommitTyped
  <2>5. ASSUME NEW new \in Profiles, Reprofile(new) PROVE GeoRest'
    <3>1. settings' \in 0 .. MaxSettings
      BY <2>5, GeoProbesAssumption DEF Reprofile, GeoRest
    <3> QED
      BY <2>5, <3>1 DEF Reprofile, GeoRest
  <2>6. CASE EditProfile
    BY <2>5, <2>6 DEF EditProfile
  <2>7. CASE NewPromptSet
    <3>1. [profile EXCEPT !.version = 2] \in Profiles
      BY DEF GeoRest, Profiles
    <3> QED
      BY <2>5, <2>7, <3>1 DEF NewPromptSet
  <2>8. CASE GeoTick
    <3>1. geoClock' \in Nat /\ geoClock <= geoClock' /\ UNCHANGED <<profile, settings, runs, rows, prober>>
      BY <2>0, <2>8 DEF GeoTick
    <3>2. \A p \in Probers : ProbeTyped(prober[p], geoClock')
      BY <2>0, <3>1 DEF GeoRest, ProbeTyped
    <3>3. \A r \in rows : r.at <= geoClock'
      BY <2>0, <3>1
    <3> QED
      BY <3>1, <3>2, <3>3 DEF GeoRest
  <2>9. CASE UNCHANGED geoVars
    BY <2>9 DEF geoVars, GeoRest
  <2> QED
    BY <2>1, <2>2, <2>3, <2>4, <2>6, <2>7, <2>8, <2>9 DEF GeoNext
<1> QED
  BY <1>1, <1>2, GeoTypesFollow, PTL DEF GeoSpec

-----------------------------------------------------------------------------
(* The knowledge base.                                                      *)

UploadFields == {"step", "passages", "known", "vectors", "rows", "tenant"}
IsUpload(x) == x = [f \in UploadFields |-> x[f]]

\* A row whose vector is that of its own text.
TrueRows == {[text |-> t, vector |-> t] : t \in Texts}

\* An upload, the rows committed for it and its document.  Rows are there only from the
\* commit on, and only while the document is; a verdict on the document is the upload's end.
UploadHolds(x, stored, doc) ==
    /\ IsUpload(x)
    /\ x.passages \in Seq(Texts) /\ x.rows \in Seq(TrueRows) /\ stored \in Seq(TrueRows)
    /\ \A t \in DOMAIN x.vectors : x.vectors[t] = t
    /\ x.step \in {"extracting", "hashing", "embedding"} => x.rows = << >>
    /\ Len(x.rows) <= Len(x.passages)
    /\ \A i \in 1 .. Len(x.rows) : x.rows[i].text = x.passages[i]
    /\ x.step \notin {"indexed", "stored", "lost"} => stored = << >>
    /\ doc.status = "absent" => stored = << >>
    /\ x.step = "writing" /\ x.rows # << >> => doc.status # "absent"
    /\ x.step = "indexed" =>
          Len(x.rows) = Len(x.passages) /\ (doc.status # "absent" => stored = x.rows)
    /\ doc.status \in {"failed", "no_text"} => x.step = "refused"
    /\ doc.status = "indexed" =>
          /\ x.step = "stored"
          /\ Len(stored) = Len(x.passages) /\ doc.chunk_count = Len(stored)
          /\ \A i \in 1 .. Len(stored) : stored[i].text = x.passages[i]

KnowledgeInv ==
    /\ upload = [u \in Uploads |-> upload[u]]
    /\ chunks = [u \in Uploads |-> chunks[u]]
    /\ document = [u \in Uploads |-> document[u]]
    /\ \A u \in Uploads : UploadHolds(upload[u], chunks[u], document[u])

(* One upload, its rows and its document change.                            *)
LEMMA OneUploadMoves ==
    ASSUME KnowledgeInv, NEW u \in Uploads, NEW new, NEW stored, NEW doc,
           upload' = [upload EXCEPT ![u] = new], chunks' = [chunks EXCEPT ![u] = stored],
           document' = [document EXCEPT ![u] = doc], UploadHolds(new, stored, doc)
    PROVE  KnowledgeInv'
<1>1. upload' = [v \in Uploads |-> upload'[v]] /\ upload'[u] = new
      /\ \A v \in Uploads \ {u} : upload'[v] = upload[v]
  BY DEF KnowledgeInv
<1>2. chunks' = [v \in Uploads |-> chunks'[v]] /\ chunks'[u] = stored
      /\ \A v \in Uploads \ {u} : chunks'[v] = chunks[v]
  BY DEF KnowledgeInv
<1>3. document' = [v \in Uploads |-> document'[v]] /\ document'[u] = doc
      /\ \A v \in Uploads \ {u} : document'[v] = document[v]
  BY DEF KnowledgeInv
<1>4. ASSUME NEW v \in Uploads PROVE UploadHolds(upload'[v], chunks'[v], document'[v])
  <2>1. CASE v = u
    BY <1>1, <1>2, <1>3, <2>1
  <2>2. CASE v # u
    BY <1>1, <1>2, <1>3, <2>2 DEF KnowledgeInv
  <2> QED
    BY <2>1, <2>2
<1> QED
  BY <1>1, <1>2, <1>3, <1>4 DEF KnowledgeInv

(* Only an upload changes.                                                  *)
LEMMA OnlyAnUploadMoves ==
    ASSUME KnowledgeInv, NEW u \in Uploads, NEW new, SetUpload(u, new),
           UNCHANGED <<document, chunks>>, UploadHolds(new, chunks[u], document[u])
    PROVE  KnowledgeInv'
<1>1. chunks' = [chunks EXCEPT ![u] = chunks[u]] /\ document' = [document EXCEPT ![u] = document[u]]
  BY DEF KnowledgeInv
<1> QED
  BY <1>1, OneUploadMoves DEF SetUpload

(* An upload nobody sent yet.                                               *)
LEMMA Unsent ==
    /\ IsUpload(NotSent) /\ NotSent.step = "idle" /\ NotSent.passages = << >>
    /\ NotSent.rows = << >> /\ NotSent.vectors = << >>
<1> DEFINE b == CHOOSE b \in Tenants : TRUE
<1>1. NotSent = [step |-> "idle", passages |-> << >>, known |-> {}, vectors |-> << >>,
                 rows |-> << >>, tenant |-> b]
  BY DEF NotSent
<1> HIDE DEF b
<1> QED
  BY <1>1 DEF IsUpload, UploadFields

(* The first steps of an upload, up to its vectors, store nothing.          *)
LEMMA ReadingHolds ==
    ASSUME KnowledgeInv, NEW u \in Uploads, CreateDocument(u) \/ Extract(u) \/ LookUp(u)
    PROVE  KnowledgeInv'
<1>1. UploadHolds(upload[u], chunks[u], document[u]) /\ document = [v \in Uploads |-> document[v]]
      /\ chunks = [v \in Uploads |-> chunks[v]]
  BY DEF KnowledgeInv
<1>2. CASE CreateDocument(u)
  <2>1. PICK passages \in Passages, b \in Tenants :
          SetUpload(u, [NotSent EXCEPT !.step = "extracting", !.tenant = b, !.passages = passages])
    BY <1>2 DEF CreateDocument
  <2> DEFINE new == [NotSent EXCEPT !.step = "extracting", !.tenant = b, !.passages = passages]
  <2> DEFINE doc == [status |-> "pending", chunk_count |-> 0]
  <2>2. /\ IsUpload(new) /\ new.step = "extracting" /\ new.passages = passages
        /\ new.rows = << >> /\ new.vectors = << >>
    BY Unsent DEF IsUpload, UploadFields
  <2>3. passages \in Seq(Texts)
    BY DEF Passages
  <2>4. chunks[u] = << >>
    BY <1>1, <1>2 DEF CreateDocument, UploadHolds
  <2>5. doc.status = "pending"
    OBVIOUS
  <2>6. upload' = [upload EXCEPT ![u] = new] /\ document' = [document EXCEPT ![u] = doc]
    BY <1>2, <2>1 DEF CreateDocument, SetUpload
  <2> HIDE DEF new, doc
  <2>7. chunks' = [chunks EXCEPT ![u] = << >>]
    BY <1>1, <1>2, <2>4 DEF CreateDocument
  <2>8. Len(<< >>) = 0 /\ DOMAIN << >> = {} /\ << >> \in Seq(TrueRows)
    OBVIOUS
  <2>9. Len(passages) \in Nat
    BY <2>3
  <2>10. UploadHolds(new, << >>, doc)
    BY <2>2, <2>3, <2>5, <2>8, <2>9 DEF UploadHolds
  <2> QED
    BY <2>6, <2>7, <2>10, OneUploadMoves
<1>3. CASE Extract(u)
  <2>1. PICK next \in {"hashing", "no_text", "failed", "raised"} :
          SetUpload(u, [upload[u] EXCEPT !.step = next])
    BY <1>3 DEF Extract
  <2> DEFINE new == [upload[u] EXCEPT !.step = next]
  <2>2. /\ IsUpload(new) /\ new.step = next /\ new.passages = upload[u].passages
        /\ new.rows = upload[u].rows /\ new.vectors = upload[u].vectors
    BY <1>1 DEF UploadHolds, IsUpload, UploadFields
  <2> HIDE DEF new
  <2>3. UploadHolds(new, chunks[u], document[u])
    BY <1>1, <1>3, <2>2 DEF UploadHolds, Extract
  <2> QED
    BY <1>3, <2>1, <2>3, OnlyAnUploadMoves DEF Extract, new
<1>4. CASE LookUp(u)
  <2> DEFINE new == [upload[u] EXCEPT !.step = "embedding", !.known = existing_hashes(u)]
  <2>1. SetUpload(u, new)
    BY <1>4 DEF LookUp
  <2>2. /\ IsUpload(new) /\ new.step = "embedding" /\ new.passages = upload[u].passages
        /\ new.rows = upload[u].rows /\ new.vectors = upload[u].vectors
    BY <1>1 DEF UploadHolds, IsUpload, UploadFields
  <2> HIDE DEF new
  <2>3. UploadHolds(new, chunks[u], document[u])
    BY <1>1, <1>4, <2>2 DEF UploadHolds, LookUp
  <2> QED
    BY <1>4, <2>1, <2>3, OnlyAnUploadMoves DEF LookUp
<1> QED
  BY <1>2, <1>3, <1>4

(* However an answer's items are ordered, every text has its own vector.    *)
LEMMA VectorsOfTheirTexts ==
    ASSUME NEW batch, NEW response, Complete(response, batch),
           NEW vectors, vectors = ByHash(batch, ordered_vectors(response, batch))
    PROVE  \A t \in DOMAIN vectors : vectors[t] = t
<1> SUFFICES ASSUME NEW t \in DOMAIN vectors PROVE vectors[t] = t
  OBVIOUS
<1> DEFINE ordered == ordered_vectors(response, batch)
<1> DEFINE i == CHOOSE i \in DOMAIN batch : batch[i] = t
<1>1. t \in Range(batch) /\ vectors[t] = ordered[i]
  BY DEF ByHash
<1>2. \E j \in DOMAIN batch : batch[j] = t
  BY <1>1 DEF Range
<1>3. i \in DOMAIN batch /\ batch[i] = t
  BY <1>2
<1> HIDE DEF i
<1> DEFINE k == CHOOSE k \in DOMAIN response : response[k] = i
<1>4. i \in Range(response)
  BY <1>3 DEF Complete
<1>5. k \in DOMAIN response /\ response[k] = i
  BY <1>4 DEF Range
<1>6. ordered[i] = batch[response[k]]
  BY <1>3 DEF ordered_vectors
<1> HIDE DEF k, ordered
<1> QED
  BY <1>1, <1>3, <1>5, <1>6

(* The provider's answer.                                                   *)
LEMMA EmbedHolds ==
    ASSUME KnowledgeInv, NEW u \in Uploads, Embed(u)
    PROVE  KnowledgeInv'
<1>1. UploadHolds(upload[u], chunks[u], document[u]) /\ upload[u].step = "embedding"
      /\ UNCHANGED <<document, chunks>>
  BY DEF KnowledgeInv, Embed
<1>2. ASSUME SetUpload(u, [upload[u] EXCEPT !.step = "raised"]) PROVE KnowledgeInv'
  <2> DEFINE new == [upload[u] EXCEPT !.step = "raised"]
  <2>1. /\ IsUpload(new) /\ new.step = "raised" /\ new.passages = upload[u].passages
        /\ new.rows = upload[u].rows /\ new.vectors = upload[u].vectors
    BY <1>1 DEF UploadHolds, IsUpload, UploadFields
  <2> HIDE DEF new
  <2>2. UploadHolds(new, chunks[u], document[u])
    BY <1>1, <2>1 DEF UploadHolds
  <2> QED
    BY <1>1, <1>2, <2>2, OnlyAnUploadMoves DEF new
<1>3. ASSUME NEW vectors, \A t \in DOMAIN vectors : vectors[t] = t,
             SetUpload(u, [upload[u] EXCEPT !.step = "writing", !.vectors = vectors])
      PROVE  KnowledgeInv'
  <2> DEFINE new == [upload[u] EXCEPT !.step = "writing", !.vectors = vectors]
  <2>1. /\ IsUpload(new) /\ new.step = "writing" /\ new.passages = upload[u].passages
        /\ new.rows = upload[u].rows /\ new.vectors = vectors
    BY <1>1 DEF UploadHolds, IsUpload, UploadFields
  <2> HIDE DEF new
  <2>2. upload[u].rows = << >>
    BY <1>1 DEF UploadHolds
  <2>3. UploadHolds(new, chunks[u], document[u])
    BY <1>1, <1>3, <2>1, <2>2 DEF UploadHolds
  <2> QED
    BY <1>1, <1>3, <2>3, OnlyAnUploadMoves DEF new
<1>4. \/ SetUpload(u, [upload[u] EXCEPT !.step = "raised"])
      \/ \E response : /\ Complete(response, Fresh(u))
                       /\ SetUpload(u, [upload[u] EXCEPT !.step = "writing",
                            !.vectors = ByHash(Fresh(u), ordered_vectors(response, Fresh(u)))])
  BY DEF Embed
<1> QED
  BY <1>2, <1>3, <1>4, VectorsOfTheirTexts

(* A passage is written with its own vector, computed or copied.            *)
LEMMA WriteChunkHolds ==
    ASSUME KnowledgeInv, NEW u \in Uploads, WriteChunk(u)
    PROVE  KnowledgeInv'
<1> DEFINE now == upload[u]
<1> DEFINE text == now.passages[Len(now.rows) + 1]
<1>1. UploadHolds(now, chunks[u], document[u]) /\ UNCHANGED <<document, chunks>>
      /\ now.step = "writing" /\ Len(now.rows) < Len(now.passages)
  BY DEF KnowledgeInv, WriteChunk
<1>2. IsUpload(now) /\ now.passages \in Seq(Texts) /\ now.rows \in Seq(TrueRows)
      /\ \A t \in DOMAIN now.vectors : now.vectors[t] = t
  BY <1>1 DEF UploadHolds
<1>3. text \in Texts /\ Len(now.rows) + 1 \in 1 .. Len(now.passages)
  BY <1>1, <1>2
<1>4. ASSUME SetUpload(u, [now EXCEPT !.step = "raised"]) PROVE KnowledgeInv'
  <2> DEFINE new == [now EXCEPT !.step = "raised"]
  <2>1. /\ IsUpload(new) /\ new.step = "raised" /\ new.passages = now.passages
        /\ new.rows = now.rows /\ new.vectors = now.vectors
    BY <1>2 DEF IsUpload, UploadFields
  <2> HIDE DEF new
  <2>2. UploadHolds(new, chunks[u], document[u])
    BY <1>1, <2>1 DEF UploadHolds
  <2> QED
    BY <1>1, <1>4, <2>2, OnlyAnUploadMoves DEF new
<1>5. ASSUME NEW vector \in Vectors(u, text), document[u].status # "absent",
             SetUpload(u, [now EXCEPT !.rows = Append(@, [text |-> text, vector |-> vector])])
      PROVE  KnowledgeInv'
  <2>1. vector = text
    <3>1. CASE text \in DOMAIN now.vectors
      BY <1>2, <1>5, <3>1 DEF Vectors
    <3>2. CASE text \notin DOMAIN now.vectors
      <4>1. PICK row \in Visible(u) : row.text = text /\ vector = row.vector
        BY <1>5, <3>2 DEF Vectors
      <4>2. row \in TrueRows
        <5>1. CASE row \in Range(now.rows)
          BY <1>2, <5>1 DEF Range
        <5>2. CASE \E v \in Mine(u) : row \in Range(chunks[v])
          <6>1. PICK v \in Uploads : row \in Range(chunks[v])
            BY <5>2 DEF Mine
          <6>2. chunks[v] \in Seq(TrueRows)
            BY DEF KnowledgeInv, UploadHolds
          <6> QED
            BY <6>1, <6>2 DEF Range
        <5>3. row \in Visible(u)
          BY <4>1
        <5>4. row \in Range(now.rows) \/ row \in UNION {Range(chunks[v]) : v \in Mine(u)}
          BY <5>3 DEF Visible
        <5>5. CASE row \in UNION {Range(chunks[v]) : v \in Mine(u)}
          <6>1. \E v \in Mine(u) : row \in Range(chunks[v])
            BY <5>5
          <6> QED
            BY <5>2, <6>1
        <5> QED
          BY <5>1, <5>4, <5>5
      <4> QED
        BY <4>1, <4>2 DEF TrueRows
    <3> QED
      BY <3>1, <3>2
  <2> DEFINE row == [text |-> text, vector |-> vector]
  <2>2. row \in TrueRows /\ row.text = text
    BY <1>3, <2>1 DEF TrueRows
  <2> HIDE DEF row
  <2> DEFINE kept == Append(now.rows, row)
  <2> DEFINE new == [now EXCEPT !.rows = kept]
  <2>3. SetUpload(u, new)
    BY <1>5 DEF row
  <2>4. kept \in Seq(TrueRows) /\ Len(kept) = Len(now.rows) + 1 /\ Len(now.rows) \in Nat
        /\ kept[Len(now.rows) + 1] = row /\ \A i \in 1 .. Len(now.rows) : kept[i] = now.rows[i]
    BY <1>2, <2>2
  <2> HIDE DEF kept
  <2>5. /\ IsUpload(new) /\ new.step = "writing" /\ new.passages = now.passages
        /\ new.rows = kept /\ new.vectors = now.vectors
    BY <1>1, <1>2 DEF IsUpload, UploadFields
  <2> HIDE DEF new
  <2>6. ASSUME NEW i \in 1 .. Len(kept) PROVE kept[i].text = now.passages[i]
    <3>1. CASE i \in 1 .. Len(now.rows)
      <4>1. now.rows[i].text = now.passages[i]
        BY <1>1, <3>1 DEF UploadHolds
      <4> QED
        BY <2>4, <3>1, <4>1
    <3>2. CASE i = Len(now.rows) + 1
      BY <2>2, <2>4, <3>2
    <3> QED
      BY <2>4, <2>6, <3>1, <3>2
  <2>7. Len(kept) <= Len(now.passages)
    BY <1>2, <1>3, <2>4
  <2>8. UploadHolds(new, chunks[u], document[u])
    BY <1>1, <1>5, <2>4, <2>5, <2>6, <2>7 DEF UploadHolds
  <2> QED
    BY <1>1, <2>3, <2>8, OnlyAnUploadMoves
<1>6. \/ SetUpload(u, [now EXCEPT !.step = "raised"])
      \/ /\ document[u].status # "absent"
         /\ \E vector \in Vectors(u, text) :
               SetUpload(u, [now EXCEPT !.rows = Append(@, [text |-> text, vector |-> vector])])
  BY DEF WriteChunk
<1> QED
  BY <1>4, <1>5, <1>6

(* The commit stores every passage.                                         *)
LEMMA StoreHolds ==
    ASSUME KnowledgeInv, NEW u \in Uploads, Store(u)
    PROVE  KnowledgeInv'
<1> DEFINE now == upload[u]
<1> DEFINE new == [now EXCEPT !.step = "indexed"]
<1>1. /\ UploadHolds(now, chunks[u], document[u]) /\ document = [v \in Uploads |-> document[v]]
      /\ now.step = "writing" /\ Len(now.rows) = Len(now.passages) /\ document' = document
      /\ chunks' = [chunks EXCEPT ![u] = now.rows] /\ SetUpload(u, new)
  BY DEF KnowledgeInv, Store
<1>2. /\ IsUpload(new) /\ new.step = "indexed" /\ new.passages = now.passages
      /\ new.rows = now.rows /\ new.vectors = now.vectors
  BY <1>1 DEF UploadHolds, IsUpload, UploadFields
<1> HIDE DEF new
<1>3. document' = [document EXCEPT ![u] = document[u]]
  BY <1>1
<1>4. document[u].status = "absent" => now.rows = << >>
  BY <1>1 DEF UploadHolds
<1>5. UploadHolds(new, now.rows, document[u])
  BY <1>1, <1>2, <1>4 DEF UploadHolds
<1> QED
  BY <1>1, <1>3, <1>5, OneUploadMoves DEF SetUpload

(* The verdict: an upload that raised leaves no row, one that was indexed   *)
(* all of them.                                                             *)
LEMMA FinishHolds ==
    ASSUME KnowledgeInv, NEW u \in Uploads, Finish(u)
    PROVE  KnowledgeInv'
<1> DEFINE now == upload[u]
<1> DEFINE status == IF now.step = "raised" THEN "failed" ELSE now.step
<1> DEFINE new == [NotSent EXCEPT !.tenant = now.tenant, !.passages = now.passages,
                                  !.step = IF status = "indexed" THEN "stored" ELSE "refused"]
<1> DEFINE stored == IF now.step # "raised" THEN chunks[u] ELSE << >>
<1> DEFINE verdict == [status |-> status,
                       chunk_count |-> IF status = "indexed" THEN Len(now.rows) ELSE 0]
<1> DEFINE doc == IF document[u].status = "absent" THEN document[u] ELSE verdict
<1>1. /\ UploadHolds(now, chunks[u], document[u])
      /\ document = [v \in Uploads |-> document[v]] /\ chunks = [v \in Uploads |-> chunks[v]]
      /\ now.step \in IngestStatus \cup {"raised"}
  BY DEF KnowledgeInv, Finish
<1>2. upload' = [upload EXCEPT ![u] = new] /\ chunks' = [chunks EXCEPT ![u] = stored]
      /\ document' = [document EXCEPT ![u] = doc]
  BY <1>1 DEF Finish, SetUpload, RolledBack
<1>3. /\ IsUpload(new) /\ new.passages = now.passages /\ new.rows = << >> /\ new.vectors = << >>
      /\ new.step = IF status = "indexed" THEN "stored" ELSE "refused"
  BY Unsent DEF IsUpload, UploadFields
<1>4. verdict.status = status /\ (status = "indexed" => verdict.chunk_count = Len(now.rows))
  OBVIOUS
<1>5. status \in IngestStatus /\ (status = "indexed" <=> now.step = "indexed")
  BY <1>1 DEF IngestStatus
<1>6. status # "indexed" => stored = << >>
  BY <1>1 DEF UploadHolds, IngestStatus
<1>7. status = "indexed" => stored = chunks[u]
  OBVIOUS
<1> HIDE DEF new, verdict
<1>8. UploadHolds(new, stored, doc)
  <2>1. Len(<< >>) = 0 /\ DOMAIN << >> = {} /\ << >> \in Seq(TrueRows)
    OBVIOUS
  <2>2. now.passages \in Seq(Texts) /\ Len(now.passages) \in Nat /\ chunks[u] \in Seq(TrueRows)
    BY <1>1 DEF UploadHolds
  <2>3. CASE status # "indexed"
    <3>1. new.step = "refused" /\ stored = << >> /\ doc.status # "indexed"
      <4>1. document[u].status = "absent" => doc.status = "absent"
        OBVIOUS
      <4> QED
        BY <1>3, <1>4, <1>6, <2>3, <4>1
    <3> HIDE DEF stored, doc, status
    <3> QED
      BY <1>3, <2>1, <2>2, <3>1 DEF UploadHolds
  <2>4. CASE status = "indexed"
    <3>1. now.step = "indexed" /\ new.step = "stored" /\ stored = chunks[u]
      BY <1>3, <1>5, <1>7, <2>4
    <3>2. /\ document[u].status = "absent" => chunks[u] = << >> /\ doc.status = "absent"
          /\ document[u].status # "absent" =>
                /\ chunks[u] = now.rows /\ Len(now.rows) = Len(now.passages)
                /\ doc.status = "indexed" /\ doc.chunk_count = Len(now.rows)
      BY <1>1, <1>4, <2>4, <3>1 DEF UploadHolds
    <3>3. \A i \in 1 .. Len(now.rows) : now.rows[i].text = now.passages[i]
      BY <1>1 DEF UploadHolds
    <3> HIDE DEF stored, doc, status
    <3> QED
      BY <1>3, <2>1, <2>2, <3>1, <3>2, <3>3 DEF UploadHolds
  <2> QED
    BY <2>3, <2>4
<1> QED
  BY <1>2, <1>8, OneUploadMoves

(* The process dies: what was committed stays.                              *)
LEMMA LoseUploadHolds ==
    ASSUME KnowledgeInv, NEW u \in Uploads, LoseUpload(u)
    PROVE  KnowledgeInv'
<1> DEFINE now == upload[u]
<1> DEFINE new == [NotSent EXCEPT !.step = "lost", !.tenant = now.tenant,
                                  !.passages = now.passages]
<1>1. /\ UploadHolds(now, chunks[u], document[u]) /\ SetUpload(u, new)
      /\ UNCHANGED <<document, chunks>> /\ now.step \notin {"stored", "refused"}
  BY DEF KnowledgeInv, LoseUpload
<1>2. /\ IsUpload(new) /\ new.passages = now.passages /\ new.rows = << >> /\ new.vectors = << >>
      /\ new.step = "lost"
  BY Unsent DEF IsUpload, UploadFields
<1> HIDE DEF new
<1>3. Len(<< >>) = 0 /\ DOMAIN << >> = {} /\ << >> \in Seq(TrueRows)
  OBVIOUS
<1>4. now.passages \in Seq(Texts) /\ Len(now.passages) \in Nat
  BY <1>1 DEF UploadHolds
<1>5. UploadHolds(new, chunks[u], document[u])
  BY <1>1, <1>2, <1>3, <1>4 DEF UploadHolds
<1> QED
  BY <1>1, <1>5, OnlyAnUploadMoves

(* A document is deleted with its rows, and not while a transaction holds   *)
(* it.                                                                      *)
LEMMA DeleteHolds ==
    ASSUME KnowledgeInv, NEW u \in Uploads, DeleteDocument(u)
    PROVE  KnowledgeInv'
<1> DEFINE now == upload[u]
<1>1. /\ UploadHolds(now, chunks[u], document[u]) /\ upload = [v \in Uploads |-> upload[v]]
      /\ document' = [document EXCEPT ![u] = NoDocument] /\ ~ Held(u)
      /\ chunks' = [chunks EXCEPT ![u] = << >>] /\ upload' = upload
  BY DEF KnowledgeInv, DeleteDocument
<1>2. NoDocument.status = "absent" /\ Len(<< >>) = 0 /\ << >> \in Seq(TrueRows)
  BY DEF NoDocument
<1>3. UploadHolds(now, << >>, NoDocument)
  BY <1>1, <1>2 DEF UploadHolds, Held
<1>4. upload' = [upload EXCEPT ![u] = now]
  BY <1>1
<1> QED
  BY <1>1, <1>3, <1>4, OneUploadMoves

(* No upload was sent at the beginning.                                    *)
LEMMA KnowledgeStart == KnowledgeInit => KnowledgeInv
<1> SUFFICES ASSUME KnowledgeInit, NEW u \in Uploads
             PROVE  UploadHolds(upload[u], chunks[u], document[u])
  BY DEF KnowledgeInit, KnowledgeInv
<1>1. upload[u] = NotSent /\ chunks[u] = << >> /\ document[u] = NoDocument
  BY DEF KnowledgeInit
<1>2. /\ IsUpload(NotSent) /\ NotSent.step = "idle" /\ NotSent.passages = << >>
      /\ NotSent.rows = << >> /\ NotSent.vectors = << >>
  BY Unsent
<1>3. /\ NoDocument.status = "absent" /\ Len(<< >>) = 0 /\ DOMAIN << >> = {}
      /\ << >> \in Seq(TrueRows) /\ << >> \in Seq(Texts)
  BY DEF NoDocument
<1> QED
  BY <1>1, <1>2, <1>3 DEF UploadHolds

(* Every step of an upload keeps the invariant.                            *)
LEMMA KnowledgeStep == KnowledgeInv /\ [KnowledgeNext]_knowledgeVars => KnowledgeInv'
<1> SUFFICES ASSUME KnowledgeInv, [KnowledgeNext]_knowledgeVars PROVE KnowledgeInv'
  OBVIOUS
<1>1. ASSUME NEW u \in Uploads, CreateDocument(u) \/ Extract(u) \/ LookUp(u) PROVE KnowledgeInv'
  BY <1>1, ReadingHolds
<1>2. ASSUME NEW u \in Uploads, Embed(u) PROVE KnowledgeInv'
  BY <1>2, EmbedHolds
<1>3. ASSUME NEW u \in Uploads, WriteChunk(u) PROVE KnowledgeInv'
  BY <1>3, WriteChunkHolds
<1>4. ASSUME NEW u \in Uploads, Store(u) PROVE KnowledgeInv'
  BY <1>4, StoreHolds
<1>5. ASSUME NEW u \in Uploads, Finish(u) PROVE KnowledgeInv'
  BY <1>5, FinishHolds
<1>6. ASSUME NEW u \in Uploads, LoseUpload(u) PROVE KnowledgeInv'
  BY <1>6, LoseUploadHolds
<1>7. ASSUME NEW u \in Uploads, DeleteDocument(u) PROVE KnowledgeInv'
  BY <1>7, DeleteHolds
<1>8. CASE UNCHANGED knowledgeVars
  BY <1>8 DEF knowledgeVars, KnowledgeInv
<1> QED
  BY <1>1, <1>2, <1>3, <1>4, <1>5, <1>6, <1>7, <1>8 DEF KnowledgeNext

(* kb_service and document_service: what a search can find is stored with   *)
(* the vector of its own text, nothing is left of a failed upload or a      *)
(* deleted document, and a document shown as indexed is all there: for      *)
(* every number of uploads, passages and businesses, and however uploads,   *)
(* deletions and crashes interleave.                                        *)
THEOREM SearchFindsTheTruth == KnowledgeSpec => []SearchFindsWhatWasKept
<1>3. KnowledgeInv => SearchFindsWhatWasKept
  <2> SUFFICES ASSUME KnowledgeInv, NEW u \in Uploads
               PROVE  /\ \A row \in Range(chunks[u]) : row.vector = row.text
                      /\ document[u].status \in {"absent", "failed", "no_text"} => chunks[u] = << >>
                      /\ upload[u].step = "refused" => chunks[u] = << >>
                      /\ document[u].status = "indexed" =>
                            /\ [i \in DOMAIN chunks[u] |-> chunks[u][i].text] = upload[u].passages
                            /\ document[u].chunk_count = Len(chunks[u])
    BY DEF SearchFindsWhatWasKept
  <2>1. UploadHolds(upload[u], chunks[u], document[u])
    BY DEF KnowledgeInv
  <2>2. chunks[u] \in Seq(TrueRows) /\ upload[u].passages \in Seq(Texts)
    BY <2>1 DEF UploadHolds
  <2>3. \A row \in Range(chunks[u]) : row.vector = row.text
    <3>1. \A row \in TrueRows : row.vector = row.text
      BY DEF TrueRows
    <3> QED
      BY <2>2, <3>1 DEF Range
  <2>4. /\ document[u].status \in {"absent", "failed", "no_text"} => chunks[u] = << >>
        /\ upload[u].step = "refused" => chunks[u] = << >>
    BY <2>1 DEF UploadHolds
  <2>5. ASSUME document[u].status = "indexed"
        PROVE  /\ [i \in DOMAIN chunks[u] |-> chunks[u][i].text] = upload[u].passages
               /\ document[u].chunk_count = Len(chunks[u])
    <3>1. /\ Len(chunks[u]) = Len(upload[u].passages)
          /\ document[u].chunk_count = Len(chunks[u])
          /\ \A i \in 1 .. Len(chunks[u]) : chunks[u][i].text = upload[u].passages[i]
      BY <2>1, <2>5 DEF UploadHolds
    <3>2. upload[u].passages = [i \in 1 .. Len(upload[u].passages) |-> upload[u].passages[i]]
          /\ DOMAIN chunks[u] = 1 .. Len(chunks[u])
      BY <2>2
    <3> QED
      BY <3>1, <3>2
  <2> QED
    BY <2>3, <2>4, <2>5
<1> QED
  BY KnowledgeStart, KnowledgeStep, <1>3, PTL DEF KnowledgeSpec

-----------------------------------------------------------------------------
(* The types of the documents, beside what KnowledgeInv says of them.       *)

Documents   == [status: IngestStatus \cup {"absent", "pending"}, chunk_count: 0 .. MaxPassages]
UploadSteps == {"idle", "extracting", "hashing", "embedding", "writing",
                "raised", "stored", "refused", "lost"} \cup IngestStatus

\* What the types say of an upload beyond the invariant.
UploadTyped(x) ==
    /\ x.step \in UploadSteps
    /\ x.passages \in Passages \cup {<< >>}
    /\ x.known \subseteq Texts
    /\ DOMAIN x.vectors \subseteq Texts
    /\ x.tenant \in Tenants

KnowledgeRest ==
    \A u \in Uploads : /\ UploadTyped(upload[u])
                       /\ Len(chunks[u]) <= MaxPassages
                       /\ document[u] \in Documents

(* The passages of a document are a sequence within its bound.              *)
LEMMA PassagesAreFew ==
    /\ MaxPassages \in Nat
    /\ \A passages \in Passages \cup {<< >>} :
          passages \in Seq(Texts) /\ Len(passages) \in 0 .. MaxPassages
<1>1. MaxPassages \in Nat
  BY KnowledgeBaseAssumption
<1>2. ASSUME NEW passages \in Passages
      PROVE  passages \in Seq(Texts) /\ Len(passages) \in 0 .. MaxPassages
  <2>1. PICK n \in 1 .. MaxPassages : passages \in [1 .. n -> Texts]
    BY DEF Passages
  <2>2. n \in Nat
    BY <1>1
  <2>3. passages \in Seq(Texts) /\ Len(passages) = n
    BY <2>1, <2>2
  <2> QED
    BY <1>1, <2>3
<1>3. << >> \in Seq(Texts) /\ Len(<< >>) = 0
  OBVIOUS
<1>4. 0 \in 0 .. MaxPassages
  BY <1>1
<1> QED
  BY <1>1, <1>2, <1>3, <1>4

(* Rows with the vectors of their own texts, within the bound, are typed.   *)
LEMMA RowListsOfTrueRows ==
    ASSUME NEW list \in Seq(TrueRows), Len(list) <= MaxPassages
    PROVE  list \in RowLists
<1>1. Len(list) \in 0 .. MaxPassages
  BY PassagesAreFew
<1>2. ASSUME NEW row \in TrueRows PROVE row \in Rows
  BY DEF TrueRows, Rows
<1>3. list \in [1 .. Len(list) -> Rows]
  BY <1>2
<1> QED
  BY <1>1, <1>3 DEF RowLists

(* The types follow.                                                        *)
LEMMA KnowledgeTypesFollow == KnowledgeInv /\ KnowledgeRest => KnowledgeTypeOK
<1> SUFFICES ASSUME KnowledgeInv, KnowledgeRest PROVE KnowledgeTypeOK
  OBVIOUS
<1>1. ASSUME NEW u \in Uploads PROVE chunks[u] \in RowLists /\ upload[u].rows \in RowLists
  <2>1. /\ chunks[u] \in Seq(TrueRows) /\ upload[u].rows \in Seq(TrueRows)
        /\ Len(upload[u].rows) <= Len(upload[u].passages)
    BY DEF KnowledgeInv, UploadHolds
  <2>2. Len(chunks[u]) <= MaxPassages /\ upload[u].passages \in Passages \cup {<< >>}
    BY DEF KnowledgeRest, UploadTyped
  <2>3. Len(upload[u].rows) <= MaxPassages
    BY <2>1, <2>2, PassagesAreFew
  <2> QED
    BY <2>1, <2>2, <2>3, RowListsOfTrueRows
<1>2. chunks \in [Uploads -> RowLists]
  BY <1>1 DEF KnowledgeInv
<1>3. document \in [Uploads -> Documents]
  BY DEF KnowledgeInv, KnowledgeRest
<1>4. ASSUME NEW u \in Uploads PROVE UploadTyped(upload[u]) /\ upload[u].rows \in RowLists
  BY <1>1 DEF KnowledgeRest
<1> QED
  BY <1>2, <1>3, <1>4, Zenon DEF KnowledgeTypeOK, UploadTyped, UploadSteps, Documents

(* One upload, its rows and its document change.                            *)
LEMMA TypedUploadMoves ==
    ASSUME KnowledgeInv, KnowledgeRest, NEW u \in Uploads, NEW new, UploadTyped(new),
           SetUpload(u, new), chunks' = chunks \/ \E stored : Len(stored) <= MaxPassages /\
                                                      chunks' = [chunks EXCEPT ![u] = stored],
           document' = document \/ \E doc \in Documents : document' = [document EXCEPT ![u] = doc]
    PROVE  KnowledgeRest'
<1>1. upload'[u] = new /\ \A v \in Uploads \ {u} : upload'[v] = upload[v]
  BY DEF KnowledgeInv, SetUpload
<1>2. \A v \in Uploads : Len(chunks'[v]) <= MaxPassages
  BY DEF KnowledgeInv, KnowledgeRest
<1>3. \A v \in Uploads : document'[v] \in Documents
  BY DEF KnowledgeInv, KnowledgeRest
<1> QED
  BY <1>1, <1>2, <1>3 DEF KnowledgeRest

(* An upload nobody sent yet is typed; some business there is.              *)
LEMMA UnsentTyped == UploadTyped(NotSent) /\ NotSent.known = {} /\ NoDocument \in Documents
<1> DEFINE b == CHOOSE b \in Tenants : TRUE
<1>1. b \in Tenants
  BY KnowledgeBaseAssumption
<1>2. NotSent = [step |-> "idle", passages |-> << >>, known |-> {}, vectors |-> << >>,
                 rows |-> << >>, tenant |-> b]
  BY DEF NotSent
<1> HIDE DEF b
<1>3. DOMAIN << >> = {}
  OBVIOUS
<1>4. /\ NotSent.step = "idle" /\ NotSent.passages = << >> /\ NotSent.known = {}
      /\ NotSent.vectors = << >> /\ NotSent.tenant = b
  BY <1>2
<1>5. UploadTyped(NotSent)
  BY <1>1, <1>3, <1>4 DEF UploadTyped, UploadSteps
<1>6. NoDocument \in Documents
  BY PassagesAreFew DEF NoDocument, Documents
<1> QED
  BY <1>4, <1>5, <1>6

(* The texts a search can find are texts.                                   *)
LEMMA TextsAreTexts == ASSUME KnowledgeInv, NEW u \in Uploads PROVE existing_hashes(u) \subseteq Texts
<1>1. ASSUME NEW v \in Uploads PROVE TextsIn(chunks[v]) \subseteq Texts
  <2>1. chunks[v] \in Seq(TrueRows)
    BY DEF KnowledgeInv, UploadHolds
  <2>2. \A row \in TrueRows : row.text \in Texts
    BY DEF TrueRows
  <2> QED
    BY <2>1, <2>2 DEF TextsIn
<1> QED
  BY <1>1 DEF existing_hashes, Mine

(* The texts that were embedded are passages.                               *)
LEMMA FreshAreTexts ==
    ASSUME KnowledgeInv, NEW u \in Uploads, NEW vectors
    PROVE  DOMAIN ByHash(Fresh(u), vectors) \subseteq Texts
<1> DEFINE passages == upload[u].passages
<1> DEFINE kept == {i \in DOMAIN passages : passages[i] \notin upload[u].known}
<1>1. passages \in Seq(Texts)
  BY DEF KnowledgeInv, UploadHolds
<1> HIDE DEF passages
<1>2. Picked(passages, kept) \in Seq(Texts)
  BY <1>1, PickedIsLeft
<1>3. Fresh(u) \in Seq(Texts)
  BY <1>2 DEF Fresh, passages
<1>4. Range(Fresh(u)) \subseteq Texts
  BY <1>3 DEF Range
<1> QED
  BY <1>4 DEF ByHash

(* Every step keeps the rest of the types.                                  *)
LEMMA KnowledgeRestKept ==
    KnowledgeInv /\ KnowledgeRest /\ [KnowledgeNext]_knowledgeVars => KnowledgeRest'
<1> SUFFICES ASSUME KnowledgeInv, KnowledgeRest, [KnowledgeNext]_knowledgeVars
             PROVE  KnowledgeRest'
  OBVIOUS
<1>1. ASSUME NEW u \in Uploads, NEW step \in UploadSteps,
             SetUpload(u, [upload[u] EXCEPT !.step = step]),
             chunks' = chunks \/ chunks' = [chunks EXCEPT ![u] = upload[u].rows],
             UNCHANGED document
      PROVE  KnowledgeRest'
  <2> DEFINE new == [upload[u] EXCEPT !.step = step]
  <2>1. IsUpload(upload[u]) /\ UploadTyped(upload[u])
        /\ Len(upload[u].rows) <= Len(upload[u].passages) /\ upload[u].rows \in Seq(TrueRows)
    BY DEF KnowledgeInv, UploadHolds, KnowledgeRest
  <2>2. /\ new.step = step /\ new.passages = upload[u].passages /\ new.known = upload[u].known
        /\ new.vectors = upload[u].vectors /\ new.tenant = upload[u].tenant
    BY <2>1 DEF IsUpload, UploadFields
  <2> HIDE DEF new
  <2>3. UploadTyped(new)
    BY <2>1, <2>2 DEF UploadTyped
  <2>4. Len(upload[u].rows) <= MaxPassages
    BY <2>1, PassagesAreFew DEF UploadTyped
  <2> QED
    BY <1>1, <2>3, <2>4, TypedUploadMoves DEF new
<1>2. ASSUME NEW u \in Uploads, CreateDocument(u) PROVE KnowledgeRest'
  <2>1. PICK passages \in Passages, b \in Tenants :
          SetUpload(u, [NotSent EXCEPT !.step = "extracting", !.tenant = b, !.passages = passages])
    BY <1>2 DEF CreateDocument
  <2> DEFINE new == [NotSent EXCEPT !.step = "extracting", !.tenant = b, !.passages = passages]
  <2>2. /\ new.step = "extracting" /\ new.passages = passages /\ new.known = NotSent.known
        /\ new.vectors = NotSent.vectors /\ new.tenant = b
    BY Unsent DEF IsUpload, UploadFields
  <2>3. [status |-> "pending", chunk_count |-> 0] \in Documents
    BY PassagesAreFew DEF Documents
  <2>4. document' = [document EXCEPT ![u] = [status |-> "pending", chunk_count |-> 0]]
        /\ chunks' = chunks
    BY <1>2 DEF CreateDocument
  <2> HIDE DEF new
  <2>5. UploadTyped(new)
    BY <2>2, UnsentTyped DEF UploadTyped, UploadSteps
  <2> QED
    BY <2>1, <2>3, <2>4, <2>5, TypedUploadMoves DEF new
<1>3. ASSUME NEW u \in Uploads, Extract(u) PROVE KnowledgeRest'
  <2>1. {"hashing", "no_text", "failed", "raised"} \subseteq UploadSteps
    BY DEF UploadSteps, IngestStatus
  <2> QED
    BY <1>1, <1>3, <2>1 DEF Extract
<1>4. ASSUME NEW u \in Uploads, LookUp(u) PROVE KnowledgeRest'
  <2> DEFINE new == [upload[u] EXCEPT !.step = "embedding", !.known = existing_hashes(u)]
  <2>1. IsUpload(upload[u]) /\ UploadTyped(upload[u])
    BY DEF KnowledgeInv, UploadHolds, KnowledgeRest
  <2>2. /\ new.step = "embedding" /\ new.passages = upload[u].passages
        /\ new.known = existing_hashes(u)
        /\ new.vectors = upload[u].vectors /\ new.tenant = upload[u].tenant
    BY <2>1 DEF IsUpload, UploadFields
  <2>3. SetUpload(u, new) /\ UNCHANGED <<document, chunks>>
    BY <1>4 DEF LookUp
  <2> HIDE DEF new
  <2>4. UploadTyped(new)
    BY <2>1, <2>2, TextsAreTexts DEF UploadTyped, UploadSteps
  <2> QED
    BY <2>3, <2>4, TypedUploadMoves
<1>5. ASSUME NEW u \in Uploads, Embed(u) PROVE KnowledgeRest'
  <2>1. "raised" \in UploadSteps
    BY DEF UploadSteps
  <2>2. CASE SetUpload(u, [upload[u] EXCEPT !.step = "raised"])
    BY <1>1, <1>5, <2>1, <2>2 DEF Embed
  <2>3. ASSUME NEW vectors, SetUpload(u, [upload[u] EXCEPT !.step = "writing",
                                              !.vectors = ByHash(Fresh(u), vectors)])
        PROVE  KnowledgeRest'
    <3> DEFINE named == ByHash(Fresh(u), vectors)
    <3>1. DOMAIN named \subseteq Texts
      BY FreshAreTexts
    <3> HIDE DEF named
    <3> DEFINE new == [upload[u] EXCEPT !.step = "writing", !.vectors = named]
    <3>2. IsUpload(upload[u]) /\ UploadTyped(upload[u])
      BY DEF KnowledgeInv, UploadHolds, KnowledgeRest
    <3>3. /\ new.step = "writing" /\ new.passages = upload[u].passages
          /\ new.known = upload[u].known /\ new.vectors = named
          /\ new.tenant = upload[u].tenant
      BY <3>2 DEF IsUpload, UploadFields
    <3>4. SetUpload(u, new) /\ UNCHANGED <<document, chunks>>
      BY <1>5, <2>3 DEF Embed, named
    <3> HIDE DEF new
    <3>5. UploadTyped(new)
      BY <3>1, <3>2, <3>3 DEF UploadTyped, UploadSteps
    <3> QED
      BY <3>4, <3>5, TypedUploadMoves
  <2>4. \/ SetUpload(u, [upload[u] EXCEPT !.step = "raised"])
        \/ \E vectors : SetUpload(u, [upload[u] EXCEPT !.step = "writing",
                                          !.vectors = ByHash(Fresh(u), vectors)])
    BY <1>5 DEF Embed
  <2> QED
    BY <2>2, <2>3, <2>4
<1>6. ASSUME NEW u \in Uploads, WriteChunk(u) PROVE KnowledgeRest'
  <2>1. "raised" \in UploadSteps
    BY DEF UploadSteps
  <2>2. CASE SetUpload(u, [upload[u] EXCEPT !.step = "raised"])
    BY <1>1, <1>6, <2>1, <2>2 DEF WriteChunk
  <2>3. ASSUME NEW row, SetUpload(u, [upload[u] EXCEPT !.rows = Append(@, row)])
        PROVE  KnowledgeRest'
    <3> DEFINE kept == Append(upload[u].rows, row)
    <3> DEFINE new == [upload[u] EXCEPT !.rows = kept]
    <3>1. SetUpload(u, new) /\ UNCHANGED <<document, chunks>>
      BY <1>6, <2>3 DEF WriteChunk
    <3> HIDE DEF kept
    <3>2. IsUpload(upload[u]) /\ UploadTyped(upload[u])
      BY DEF KnowledgeInv, UploadHolds, KnowledgeRest
    <3>3. /\ new.step = upload[u].step /\ new.passages = upload[u].passages
          /\ new.known = upload[u].known /\ new.vectors = upload[u].vectors
          /\ new.tenant = upload[u].tenant
      BY <3>2 DEF IsUpload, UploadFields
    <3> HIDE DEF new
    <3>4. UploadTyped(new)
      BY <3>2, <3>3 DEF UploadTyped
    <3> QED
      BY <3>1, <3>4, TypedUploadMoves
  <2>4. \/ SetUpload(u, [upload[u] EXCEPT !.step = "raised"])
        \/ \E row : SetUpload(u, [upload[u] EXCEPT !.rows = Append(@, row)])
    BY <1>6 DEF WriteChunk
  <2> QED
    BY <2>2, <2>3, <2>4
<1>7. ASSUME NEW u \in Uploads, Store(u) PROVE KnowledgeRest'
  <2>1. "indexed" \in UploadSteps
    BY DEF UploadSteps, IngestStatus
  <2> QED
    BY <1>1, <1>7, <2>1 DEF Store
<1>8. ASSUME NEW u \in Uploads, Finish(u) PROVE KnowledgeRest'
  <2> DEFINE now == upload[u]
  <2> DEFINE status == IF now.step = "raised" THEN "failed" ELSE now.step
  <2> DEFINE verdict == [status |-> status,
                         chunk_count |-> IF status = "indexed" THEN Len(now.rows) ELSE 0]
  <2> DEFINE last == IF status = "indexed" THEN "stored" ELSE "refused"
  <2> DEFINE new == [NotSent EXCEPT !.tenant = now.tenant, !.passages = now.passages,
                                    !.step = last]
  <2>1. /\ UploadTyped(now) /\ Len(now.rows) <= Len(now.passages) /\ now.rows \in Seq(TrueRows)
        /\ now.step \in IngestStatus \cup {"raised"}
    BY <1>8 DEF KnowledgeInv, UploadHolds, KnowledgeRest, Finish
  <2>2. Len(now.rows) \in 0 .. MaxPassages /\ 0 \in 0 .. MaxPassages
    BY <2>1, PassagesAreFew DEF UploadTyped
  <2>3. status \in IngestStatus \cup {"absent", "pending"}
    BY <2>1 DEF IngestStatus
  <2>4. verdict \in Documents
    BY <2>2, <2>3 DEF Documents
  <2>5. last \in UploadSteps
    BY DEF UploadSteps
  <2>6. document' = document \/ document' = [document EXCEPT ![u] = verdict]
    BY <1>8 DEF Finish
  <2>7. Len(<< >>) <= MaxPassages
    BY PassagesAreFew
  <2>8. chunks' = chunks \/ chunks' = [chunks EXCEPT ![u] = << >>]
    BY <1>8 DEF Finish, RolledBack
  <2>9. SetUpload(u, new)
    BY <1>8 DEF Finish
  <2> HIDE DEF status, verdict, last
  <2>10. /\ new.step = last /\ new.passages = now.passages /\ new.known = NotSent.known
         /\ new.vectors = NotSent.vectors /\ new.tenant = now.tenant
    BY Unsent DEF IsUpload, UploadFields
  <2> HIDE DEF new, now
  <2>11. UploadTyped(new)
    BY <2>1, <2>5, <2>10, UnsentTyped DEF UploadTyped
  <2> QED
    BY <2>4, <2>6, <2>7, <2>8, <2>9, <2>11, TypedUploadMoves
<1>9. ASSUME NEW u \in Uploads, LoseUpload(u) PROVE KnowledgeRest'
  <2> DEFINE new == [NotSent EXCEPT !.step = "lost", !.tenant = upload[u].tenant,
                                    !.passages = upload[u].passages]
  <2>1. SetUpload(u, new) /\ UNCHANGED <<document, chunks>>
    BY <1>9 DEF LoseUpload
  <2>2. /\ new.step = "lost" /\ new.passages = upload[u].passages /\ new.known = NotSent.known
        /\ new.vectors = NotSent.vectors /\ new.tenant = upload[u].tenant
    BY Unsent DEF IsUpload, UploadFields
  <2>3. UploadTyped(upload[u])
    BY DEF KnowledgeRest
  <2> HIDE DEF new
  <2>4. UploadTyped(new)
    BY <2>2, <2>3, UnsentTyped DEF UploadTyped, UploadSteps
  <2> QED
    BY <2>1, <2>4, TypedUploadMoves
<1>10. ASSUME NEW u \in Uploads, DeleteDocument(u) PROVE KnowledgeRest'
  <2>1. /\ document' = [document EXCEPT ![u] = NoDocument]
        /\ chunks' = [chunks EXCEPT ![u] = << >>] /\ upload' = upload
    BY <1>10 DEF DeleteDocument
  <2>2. Len(<< >>) <= MaxPassages
    BY PassagesAreFew
  <2>3. \A v \in Uploads : Len(chunks'[v]) <= MaxPassages
    BY <2>1, <2>2 DEF KnowledgeInv, KnowledgeRest
  <2>4. \A v \in Uploads : document'[v] \in Documents
    BY <2>1, UnsentTyped DEF KnowledgeInv, KnowledgeRest
  <2> QED
    BY <2>1, <2>3, <2>4 DEF KnowledgeRest
<1>11. CASE UNCHANGED knowledgeVars
  BY <1>11 DEF knowledgeVars, KnowledgeRest
<1> QED
  BY <1>2, <1>3, <1>4, <1>5, <1>6, <1>7, <1>8, <1>9, <1>10, <1>11 DEF KnowledgeNext

(* kb_service: documents, chunks and uploads have their types.              *)
THEOREM KnowledgeTypeCorrect == KnowledgeSpec => []KnowledgeTypeOK
<1>1. KnowledgeInit => KnowledgeRest
  <2> SUFFICES ASSUME KnowledgeInit PROVE KnowledgeRest
    OBVIOUS
  <2>1. Len(<< >>) <= MaxPassages
    BY PassagesAreFew
  <2> QED
    BY <2>1, UnsentTyped DEF KnowledgeInit, KnowledgeRest
<1> QED
  BY <1>1, KnowledgeStart, KnowledgeStep, KnowledgeRestKept, KnowledgeTypesFollow, PTL
  DEF KnowledgeSpec

-----------------------------------------------------------------------------
(* From a piece to a lead.                                                  *)

PublicationFields == {"step", "owner", "surface", "answerable", "ctas", "minted", "tries"}
LinkFields        == {"owner", "by", "ref", "click_count"}
VisitorFields     ==
    {"step", "code", "ref", "page", "click", "human", "told", "resent", "link"}
IsPublication(x) == x = [f \in PublicationFields |-> x[f]]
IsLink(x)        == x = [f \in LinkFields |-> x[f]]
IsVisitor(x)     == x = [f \in VisitorFields |-> x[f]]

\* A code whose row in L is of this owner.
OwnedBy(code, owner, L) == code \in Codes /\ owner # NoOwner /\ L[code].owner = owner

\* A publication against the links: a live page can be answered, every code minted has a row,
\* and every link but the one being retargeted has its code in its target.
PublicationHolds(x, L) ==
    /\ IsPublication(x)
    /\ x.step = "idle" => x.surface = "none" /\ x.minted = << >>
    /\ x.step # "idle" => x.owner # NoOwner
    /\ x.surface = "landing_page" => x.answerable
    /\ x.minted \in Seq(Codes)
    /\ x.step = "retargeting" => Len(x.minted) > 0
    /\ \A i \in 1 .. Len(x.minted) :
          /\ L[x.minted[i]].owner # NoOwner
          /\ x.step # "retargeting" \/ i < Len(x.minted) => L[x.minted[i]].ref = x.minted[i]

\* A link against the publications: its row is of the business that published its piece.
LinkHolds(code, x, P) ==
    /\ IsLink(x)
    /\ x.ref \in {NoCode, code}
    /\ x.owner # NoOwner =>
          x.by \in Publications /\ P[x.by].step # "idle" /\ P[x.by].owner = x.owner

\* Whoever came by a link that had been handed out, and was not sent back, carries its code.
CarriesItsCode(x, P, L) == x.ref = x.code /\ OwnedBy(x.code, P[x.page].owner, L)

\* A visitor's lead: the business of the page, and a link of that business or none.
LeadHolds(l, x, P, L) ==
    /\ l.owner = P[x.page].owner
    /\ l.short_link # NoCode => OwnedBy(l.short_link, l.owner, L)
    /\ x.told /\ ~x.resent => l.short_link = x.code

\* A visitor against publications, links and leads.
VisitorHolds(v, x, P, L, D) ==
    /\ IsVisitor(x)
    /\ x.step # "unknown_link"
    /\ x.click = "pending" => x.code \in Codes
    /\ x.step \in {"reading", "storing", "received"} =>
          x.page \in Publications /\ P[x.page].surface = "landing_page" /\ P[x.page].step # "idle"
    /\ x.step = "reading" =>
          /\ x.ref \in Codes \cup {NoCode}
          /\ x.told /\ ~x.resent => CarriesItsCode(x, P, L)
    /\ x.step = "storing" =>
          /\ x.link = NoCode \/ OwnedBy(x.link, P[x.page].owner, L)
          /\ x.told /\ ~x.resent => x.link = x.code
    /\ x.step # "received" => \A l \in D : l.by # v
    /\ x.step = "received" =>
          \E l \in D : l.by = v /\ (\A m \in D : m.by = v => m = l) /\ LeadHolds(l, x, P, L)

\* The strengthening of LeadsReachTheirOwner that every step preserves.
LeadInv ==
    /\ publication = [p \in Publications |-> publication[p]]
    /\ short_links = [c \in Codes |-> short_links[c]]
    /\ visitor = [v \in Visitors |-> visitor[v]]
    /\ \A p \in Publications : PublicationHolds(publication[p], short_links)
    /\ \A c \in Codes : LinkHolds(c, short_links[c], publication)
    /\ \A v \in Visitors : VisitorHolds(v, visitor[v], publication, short_links, leads)

\* What is published stays published, and a link keeps its owner, piece and code.
Grown(P, L, Q, M) ==
    /\ \A p \in Publications : P[p].step # "idle" =>
          /\ Q[p].step # "idle" /\ Q[p].owner = P[p].owner
          /\ Q[p].surface = P[p].surface
    /\ \A c \in Codes : L[c].owner # NoOwner =>
          /\ M[c].owner = L[c].owner /\ M[c].by = L[c].by
          /\ L[c].ref = c => M[c].ref = c

(* A page that passed its checks has a field to answer to.                  *)
LEMMA PublishedPagesAnswer == \A page \in Publishable : page.answerable
<1> SUFFICES ASSUME NEW page \in Publishable PROVE page.answerable
  OBVIOUS
<1>1. PICK spec : page = Laid(spec) /\ ~HasErrors(spec)
  BY DEF Publishable
<1>2. ~_check_reachability(spec)
  BY <1>1 DEF HasErrors
<1>3. \E i \in DOMAIN spec.form_fields : spec.form_fields[i] \in REACHABLE_FIELDS
  BY <1>2 DEF _check_reachability
<1> QED
  BY <1>1, <1>3 DEF Laid

(* A visitor who does not move is none the worse for what is published      *)
(* meanwhile.                                                               *)
LEMMA VisitorStays ==
    ASSUME NEW v, NEW x, NEW P, NEW L, NEW Q, NEW M, NEW D,
           VisitorHolds(v, x, P, L, D), Grown(P, L, Q, M)
    PROVE  VisitorHolds(v, x, Q, M, D)
<1>1. ASSUME NEW c, NEW o, OwnedBy(c, o, L) PROVE OwnedBy(c, o, M)
  BY <1>1 DEF OwnedBy, Grown
<1>2. ASSUME x.step \in {"reading", "storing", "received"}
      PROVE  /\ x.page \in Publications /\ Q[x.page].surface = "landing_page"
             /\ Q[x.page].step # "idle" /\ Q[x.page].owner = P[x.page].owner
  BY <1>2 DEF VisitorHolds, Grown
<1>3. ASSUME x.step = "reading", x.told /\ ~x.resent PROVE CarriesItsCode(x, Q, M)
  <2>1. CarriesItsCode(x, P, L)
    BY <1>3 DEF VisitorHolds
  <2> QED
    BY <1>1, <1>2, <1>3, <2>1 DEF CarriesItsCode
<1>4. ASSUME x.step = "storing" PROVE x.link = NoCode \/ OwnedBy(x.link, Q[x.page].owner, M)
  BY <1>1, <1>2, <1>4 DEF VisitorHolds
<1>5. ASSUME x.step = "received"
      PROVE  \E l \in D : l.by = v /\ (\A m \in D : m.by = v => m = l) /\ LeadHolds(l, x, Q, M)
  <2>1. PICK l \in D : l.by = v /\ (\A m \in D : m.by = v => m = l) /\ LeadHolds(l, x, P, L)
    BY <1>5 DEF VisitorHolds
  <2>2. LeadHolds(l, x, Q, M)
    BY <1>1, <1>2, <1>5, <2>1 DEF LeadHolds
  <2> QED
    BY <2>1, <2>2
<1> QED
  BY <1>2, <1>3, <1>4, <1>5 DEF VisitorHolds

(* A publication moves: it must hold, and what was there stays.             *)
LEMMA PublicationMoves ==
    ASSUME LeadInv, NEW p \in Publications, NEW new, SetPublication(p, new),
           UNCHANGED <<link_clicks, leads, visitor>>,
           short_links' = [c \in Codes |-> short_links'[c]],
           \A q \in Publications \ {p} : PublicationHolds(publication[q], short_links'),
           PublicationHolds(new, short_links'),
           \A c \in Codes : LinkHolds(c, short_links'[c], publication'),
           Grown(publication, short_links, publication', short_links')
    PROVE  LeadInv'
<1>1. publication' = [q \in Publications |-> publication'[q]]
      /\ \A q \in Publications : publication'[q] = IF q = p THEN new ELSE publication[q]
  BY DEF LeadInv, SetPublication
<1>2. \A q \in Publications : PublicationHolds(publication'[q], short_links')
  BY <1>1
<1>3. \A v \in Visitors : VisitorHolds(v, visitor'[v], publication', short_links', leads')
  BY VisitorStays DEF LeadInv
<1>4. visitor' = [v \in Visitors |-> visitor'[v]]
  BY DEF LeadInv
<1> QED
  BY <1>1, <1>2, <1>3, <1>4 DEF LeadInv

(* A piece goes live.                                                       *)
LEMMA BeginHolds ==
    ASSUME LeadInv, NEW p \in Publications, NEW surface \in {"landing_page", "article"},
           NEW answerable, NEW ctas, Begin(p, surface, answerable, ctas),
           surface = "landing_page" => answerable
    PROVE  LeadInv'
<1>1. /\ publication[p].step = "idle"
      /\ UNCHANGED <<short_links, link_clicks, leads, visitor>>
  BY DEF Begin
<1>2. PICK owner \in Businesses :
        SetPublication(p, [Unpublished EXCEPT !.step = "minting", !.owner = owner,
                            !.surface = surface, !.answerable = answerable, !.ctas = ctas])
  BY DEF Begin
<1> DEFINE new == [Unpublished EXCEPT !.step = "minting", !.owner = owner,
                    !.surface = surface, !.answerable = answerable, !.ctas = ctas]
<1>3. /\ IsPublication(new) /\ new.step = "minting" /\ new.owner = owner
      /\ new.surface = surface /\ new.answerable = answerable /\ new.minted = << >>
  BY DEF IsPublication, PublicationFields, Unpublished
<1>4. SetPublication(p, new)
  BY <1>2
<1> HIDE DEF new
<1>5. PublicationHolds(new, short_links')
  BY <1>3, LeadLoopAssumption DEF PublicationHolds
<1>6. \A q \in Publications : publication'[q] = IF q = p THEN new ELSE publication[q]
  BY <1>4 DEF LeadInv, SetPublication
<1>7. Grown(publication, short_links, publication', short_links')
  BY <1>1, <1>6 DEF Grown
<1>8. \A c \in Codes : LinkHolds(c, short_links'[c], publication')
  BY <1>1, <1>7 DEF LeadInv, LinkHolds, Grown
<1> QED
  BY <1>1, <1>4, <1>5, <1>7, <1>8, PublicationMoves DEF LeadInv

(* A link is minted, or its code is not free, or its channel has no tags.   *)
LEMMA CreateLinkHolds ==
    ASSUME LeadInv, NEW p \in Publications, create_link(p) PROVE LeadInv'
<1> DEFINE now == publication[p]
<1> DEFINE next == Len(now.minted) + 1
<1>1. /\ now.step = "minting" /\ next <= Len(now.ctas)
      /\ UNCHANGED <<link_clicks, leads, visitor>>
  BY DEF create_link
<1>2. PICK code \in Codes :
          IF ~now.ctas[next] \/ Exists(code)
          THEN /\ SetPublication(p, [now EXCEPT !.tries = @ + 1,
                      !.step = IF ~now.ctas[next] \/ now.tries + 1 = MAX_CODE_ATTEMPTS
                               THEN "raised" ELSE @])
               /\ UNCHANGED short_links
          ELSE /\ SetPublication(p, [now EXCEPT !.step = "retargeting", !.tries = 0,
                                                !.minted = Append(@, code)])
               /\ short_links' = [short_links EXCEPT ![code] =
                                    [NoLink EXCEPT !.owner = now.owner, !.by = p]]
  BY DEF create_link
<1>3. PublicationHolds(now, short_links) /\ now.owner # NoOwner /\ IsPublication(now)
      /\ now.minted \in Seq(Codes)
  BY <1>1 DEF LeadInv, PublicationHolds
<1>4. CASE ~now.ctas[next] \/ Exists(code)
  <2> DEFINE step == IF ~now.ctas[next] \/ now.tries + 1 = MAX_CODE_ATTEMPTS
                     THEN "raised" ELSE now.step
  <2> DEFINE tries == now.tries + 1
  <2> DEFINE new == [now EXCEPT !.tries = tries, !.step = step]
  <2>1. SetPublication(p, new) /\ short_links' = short_links
    BY <1>2, <1>4
  <2>2. step \in {"raised", "minting"}
    BY <1>1
  <2> HIDE DEF step, tries
  <2>3. /\ IsPublication(new) /\ new.step = step /\ new.owner = now.owner
        /\ new.surface = now.surface /\ new.answerable = now.answerable
        /\ new.minted = now.minted
    BY <1>3 DEF IsPublication, PublicationFields
  <2> HIDE DEF new
  <2>4. PublicationHolds(new, short_links')
    BY <1>1, <1>3, <2>1, <2>2, <2>3 DEF PublicationHolds
  <2>5. \A q \in Publications : publication'[q] = IF q = p THEN new ELSE publication[q]
    BY <2>1 DEF LeadInv, SetPublication
  <2>6. Grown(publication, short_links, publication', short_links')
    BY <1>1, <2>1, <2>2, <2>3, <2>5 DEF Grown
  <2>7. \A c \in Codes : LinkHolds(c, short_links'[c], publication')
    BY <2>1, <2>6 DEF LeadInv, LinkHolds, Grown
  <2> QED
    BY <1>1, <2>1, <2>4, <2>6, <2>7, PublicationMoves DEF LeadInv
<1>5. CASE ~(~now.ctas[next] \/ Exists(code))
  <2> DEFINE minted == Append(now.minted, code)
  <2> DEFINE new == [now EXCEPT !.step = "retargeting", !.tries = 0, !.minted = minted]
  <2> DEFINE link == [NoLink EXCEPT !.owner = now.owner, !.by = p]
  <2>1. SetPublication(p, new) /\ short_links' = [short_links EXCEPT ![code] = link]
    BY <1>2, <1>5
  <2>2. short_links[code].owner = NoOwner
    BY <1>5, LeadLoopAssumption DEF Exists
  <2>3. /\ minted \in Seq(Codes) /\ Len(minted) = Len(now.minted) + 1 /\ Len(now.minted) \in Nat
        /\ minted[Len(now.minted) + 1] = code
        /\ \A i \in 1 .. Len(now.minted) : minted[i] = now.minted[i]
    BY <1>3
  <2> DEFINE some == CHOOSE q \in Publications : TRUE
  <2>4. NoLink = [owner |-> NoOwner, by |-> some, ref |-> NoCode, click_count |-> 0]
    BY DEF NoLink
  <2> HIDE DEF minted, some
  <2>5. IsLink(link) /\ link.owner = now.owner /\ link.by = p /\ link.ref = NoCode
    BY <2>4 DEF IsLink, LinkFields
  <2>6. /\ IsPublication(new) /\ new.step = "retargeting" /\ new.owner = now.owner
        /\ new.surface = now.surface /\ new.answerable = now.answerable
        /\ new.minted = minted
    BY <1>3 DEF IsPublication, PublicationFields
  <2> HIDE DEF new, link
  <2>7. /\ short_links' = [c \in Codes |-> short_links'[c]]
        /\ \A c \in Codes : short_links'[c] = IF c = code THEN link ELSE short_links[c]
    BY <2>1 DEF LeadInv
  <2>8. \A q \in Publications : publication'[q] = IF q = p THEN new ELSE publication[q]
    BY <2>1 DEF LeadInv, SetPublication
  <2>9. \A q \in Publications \ {p} : PublicationHolds(publication[q], short_links')
    BY <2>2, <2>7 DEF LeadInv, PublicationHolds
  <2>10. PublicationHolds(new, short_links')
    <3>1. ASSUME NEW i \in 1 .. Len(minted)
          PROVE  /\ short_links'[minted[i]].owner # NoOwner
                 /\ i < Len(minted) => short_links'[minted[i]].ref = minted[i]
      <4>1. CASE i = Len(now.minted) + 1
        BY <1>3, <2>3, <2>5, <2>7, <4>1
      <4>2. CASE i \in 1 .. Len(now.minted)
        <5>1. /\ now.minted[i] \in Codes /\ short_links[now.minted[i]].owner # NoOwner
              /\ short_links[now.minted[i]].ref = now.minted[i]
          BY <1>1, <1>3, <4>2 DEF PublicationHolds
        <5> QED
          BY <2>2, <2>3, <2>7, <4>2, <5>1
      <4> QED
        BY <2>3, <4>1, <4>2
    <3> QED
      BY <1>3, <2>3, <2>6, <3>1 DEF PublicationHolds
  <2>11. Grown(publication, short_links, publication', short_links')
    BY <1>1, <2>2, <2>6, <2>7, <2>8 DEF Grown
  <2>12. ASSUME NEW c \in Codes PROVE LinkHolds(c, short_links'[c], publication')
    <3>1. CASE c = code
      BY <1>3, <2>5, <2>6, <2>7, <2>8, <3>1 DEF LinkHolds
    <3>2. CASE c # code
      BY <2>7, <2>11, <3>2 DEF LeadInv, LinkHolds, Grown
    <3> QED
      BY <3>1, <3>2
  <2> QED
    BY <1>1, <2>1, <2>7, <2>9, <2>10, <2>11, <2>12, PublicationMoves
<1> QED
  BY <1>4, <1>5

(* The target of the last link minted gets its code.                        *)
LEMMA RetargetHolds ==
    ASSUME LeadInv, NEW p \in Publications, retarget_link(p) PROVE LeadInv'
<1> DEFINE now == publication[p]
<1> DEFINE code == now.minted[Len(now.minted)]
<1> DEFINE new == [now EXCEPT !.step = "minting"]
<1>1. /\ now.step = "retargeting" /\ SetPublication(p, new)
      /\ short_links' = [short_links EXCEPT ![code].ref = code]
      /\ UNCHANGED <<link_clicks, leads, visitor>>
  BY DEF retarget_link, with_ref
<1>2. PublicationHolds(now, short_links) /\ IsPublication(now) /\ now.minted \in Seq(Codes)
      /\ Len(now.minted) > 0
  BY <1>1 DEF LeadInv, PublicationHolds
<1>3. Len(now.minted) \in 1 .. Len(now.minted) /\ code \in Codes /\ IsLink(short_links[code])
  BY <1>2 DEF LeadInv, LinkHolds
<1>4. /\ IsPublication(new) /\ new.step = "minting" /\ new.owner = now.owner
      /\ new.surface = now.surface /\ new.answerable = now.answerable
      /\ new.minted = now.minted
  BY <1>2 DEF IsPublication, PublicationFields
<1> DEFINE link == [short_links[code] EXCEPT !.ref = code]
<1>5. short_links' = [short_links EXCEPT ![code] = link]
  BY <1>1
<1>6. /\ IsLink(link) /\ link.ref = code /\ link.owner = short_links[code].owner
      /\ link.by = short_links[code].by
  BY <1>3 DEF IsLink, LinkFields
<1> HIDE DEF link, new
<1>7. /\ short_links' = [c \in Codes |-> short_links'[c]]
      /\ \A c \in Codes : short_links'[c] = IF c = code THEN link ELSE short_links[c]
  BY <1>5 DEF LeadInv
<1>8. \A q \in Publications : publication'[q] = IF q = p THEN new ELSE publication[q]
  BY <1>1 DEF LeadInv, SetPublication
<1>9. ASSUME NEW q \in Publications \ {p} PROVE PublicationHolds(publication[q], short_links')
  <2>1. PublicationHolds(publication[q], short_links)
    BY DEF LeadInv
  <2>2. \A i \in 1 .. Len(publication[q].minted) : publication[q].minted[i] \in Codes
    BY <2>1 DEF PublicationHolds
  <2> HIDE DEF code
  <2> QED
    BY <1>6, <1>7, <2>1, <2>2 DEF PublicationHolds
<1>10. PublicationHolds(new, short_links')
  <2>1. ASSUME NEW i \in 1 .. Len(now.minted)
        PROVE  /\ short_links'[now.minted[i]].owner # NoOwner
               /\ short_links'[now.minted[i]].ref = now.minted[i]
    <3>1. /\ now.minted[i] \in Codes /\ short_links[now.minted[i]].owner # NoOwner
          /\ i < Len(now.minted) => short_links[now.minted[i]].ref = now.minted[i]
      BY <1>2 DEF PublicationHolds
    <3>2. CASE i < Len(now.minted)
      BY <1>6, <1>7, <3>1, <3>2
    <3>3. CASE i = Len(now.minted)
      BY <1>6, <1>7, <3>1, <3>3
    <3>4. Len(now.minted) \in Nat
      BY <1>2
    <3> QED
      BY <3>2, <3>3, <3>4
  <2> QED
    BY <1>1, <1>2, <1>4, <2>1 DEF PublicationHolds
<1>11. Grown(publication, short_links, publication', short_links')
  BY <1>1, <1>4, <1>6, <1>7, <1>8 DEF Grown
<1>12. ASSUME NEW c \in Codes PROVE LinkHolds(c, short_links'[c], publication')
  <2>1. LinkHolds(c, short_links[c], publication)
    BY DEF LeadInv
  <2> HIDE DEF code
  <2> QED
    BY <1>6, <1>7, <1>11, <2>1 DEF LinkHolds, Grown
<1> QED
  BY <1>1, <1>7, <1>9, <1>10, <1>11, <1>12, PublicationMoves

(* The addresses are handed out.                                            *)
LEMMA TellHolds == ASSUME LeadInv, NEW p \in Publications, Tell(p) PROVE LeadInv'
<1> DEFINE now == publication[p]
<1> DEFINE new == [now EXCEPT !.step = "told"]
<1>1. /\ now.step = "minting" /\ SetPublication(p, new)
      /\ UNCHANGED <<short_links, link_clicks, leads, visitor>>
  BY DEF Tell
<1>2. PublicationHolds(now, short_links) /\ IsPublication(now)
  BY <1>1 DEF LeadInv, PublicationHolds
<1>3. /\ IsPublication(new) /\ new.step = "told" /\ new.owner = now.owner
      /\ new.surface = now.surface /\ new.answerable = now.answerable
      /\ new.minted = now.minted
  BY <1>2 DEF IsPublication, PublicationFields
<1> HIDE DEF new
<1>4. PublicationHolds(new, short_links')
  BY <1>1, <1>2, <1>3 DEF PublicationHolds
<1>5. \A q \in Publications : publication'[q] = IF q = p THEN new ELSE publication[q]
  BY <1>1 DEF LeadInv, SetPublication
<1>6. Grown(publication, short_links, publication', short_links')
  BY <1>1, <1>3, <1>5 DEF Grown
<1>7. \A c \in Codes : LinkHolds(c, short_links'[c], publication')
  BY <1>1, <1>6 DEF LeadInv, LinkHolds, Grown
<1> QED
  BY <1>1, <1>4, <1>6, <1>7, PublicationMoves DEF LeadInv

(* A visitor moves, and at most one lead of theirs is stored: it is enough  *)
(* that the visitor holds, and the links.                                   *)
LEMMA VisitorMoves ==
    ASSUME LeadInv, NEW v \in Visitors, NEW new, SetVisitor(v, new), UNCHANGED publication,
           short_links' = [c \in Codes |-> short_links'[c]],
           \A c \in Codes :
              /\ IsLink(short_links'[c]) /\ short_links'[c].owner = short_links[c].owner
              /\ short_links'[c].by = short_links[c].by /\ short_links'[c].ref = short_links[c].ref,
           \A l \in leads' : l.by # v => l \in leads,
           leads \subseteq leads',
           VisitorHolds(v, new, publication', short_links', leads')
    PROVE  LeadInv'
<1>1. Grown(publication, short_links, publication', short_links')
  BY DEF Grown
<1>2. visitor' = [w \in Visitors |-> visitor'[w]]
      /\ \A w \in Visitors : visitor'[w] = IF w = v THEN new ELSE visitor[w]
  BY DEF LeadInv, SetVisitor
<1>3. \A p \in Publications : PublicationHolds(publication'[p], short_links')
  <2> SUFFICES ASSUME NEW p \in Publications PROVE PublicationHolds(publication[p], short_links')
    OBVIOUS
  <2>1. PublicationHolds(publication[p], short_links)
    BY DEF LeadInv
  <2>2. \A i \in 1 .. Len(publication[p].minted) : publication[p].minted[i] \in Codes
    BY <2>1 DEF PublicationHolds
  <2> QED
    BY <2>1, <2>2 DEF PublicationHolds
<1>4. \A c \in Codes : LinkHolds(c, short_links'[c], publication')
  BY DEF LeadInv, LinkHolds
<1>5. ASSUME NEW w \in Visitors, w # v
      PROVE  VisitorHolds(w, visitor'[w], publication', short_links', leads')
  <2> DEFINE x == visitor[w]
  <2>1. VisitorHolds(w, x, publication', short_links', leads)
    BY <1>1, VisitorStays DEF LeadInv
  <2>2. visitor'[w] = x
    BY <1>2, <1>5
  <2> HIDE DEF x
  <2>3. x.step # "received" => \A l \in leads' : l.by # w
    BY <1>5, <2>1 DEF VisitorHolds
  <2>4. ASSUME x.step = "received"
        PROVE  \E l \in leads' : /\ l.by = w /\ (\A m \in leads' : m.by = w => m = l)
                                 /\ LeadHolds(l, x, publication', short_links')
    <3>1. PICK l \in leads : /\ l.by = w /\ (\A m \in leads : m.by = w => m = l)
                             /\ LeadHolds(l, x, publication', short_links')
      BY <2>1, <2>4 DEF VisitorHolds
    <3> QED
      BY <1>5, <3>1
  <2>5. VisitorHolds(w, x, publication', short_links', leads')
    BY <2>1, <2>3, <2>4 DEF VisitorHolds
  <2> QED
    BY <2>2, <2>5
<1>6. \A w \in Visitors : VisitorHolds(w, visitor'[w], publication', short_links', leads')
  BY <1>2, <1>5
<1>7. publication' = [p \in Publications |-> publication'[p]]
  BY DEF LeadInv
<1> QED
  BY <1>2, <1>3, <1>4, <1>6, <1>7 DEF LeadInv

(* A newcomer's record.                                                     *)
LEMMA NewcomerFields ==
    /\ IsVisitor(Newcomer) /\ Newcomer.step = "away" /\ Newcomer.click = "none"
    /\ Newcomer.told = FALSE /\ Newcomer.resent = FALSE
<1> DEFINE some == NoLink.by
<1>1. Newcomer = [step |-> "away", code |-> NoCode, ref |-> NoCode, page |-> some,
                  click |-> "none", human |-> TRUE, told |-> FALSE, resent |-> FALSE,
                  link |-> NoCode]
  BY DEF Newcomer
<1> HIDE DEF some
<1> QED
  BY <1>1 DEF IsVisitor, VisitorFields

(* What leaves the links and the leads alone leaves them in order.          *)
LEMMA NothingStored ==
    ASSUME LeadInv, UNCHANGED <<short_links, leads>>
    PROVE  /\ short_links' = [c \in Codes |-> short_links'[c]]
           /\ \A c \in Codes :
                /\ IsLink(short_links'[c]) /\ short_links'[c].owner = short_links[c].owner
                /\ short_links'[c].by = short_links[c].by
                /\ short_links'[c].ref = short_links[c].ref
           /\ leads' = leads
BY DEF LeadInv, LinkHolds

(* A visitor follows a link: if it was handed out, its code is in the       *)
(* address it leads to, and it is a link of the business of the page.       *)
LEMMA FollowHolds == ASSUME LeadInv, NEW v \in Visitors, follow(v) PROVE LeadInv'
<1>1. /\ visitor[v].step = "away"
      /\ UNCHANGED <<publication, short_links, link_clicks, leads>>
  BY DEF follow
<1>2. PICK owner \in Businesses, human \in BOOLEAN : \E code \in hub(owner) :
          SetVisitor(v, [Newcomer EXCEPT
              !.step = IF Page(short_links[code].by) THEN "reading" ELSE "gone",
              !.code = code, !.ref = short_links[code].ref, !.page = short_links[code].by,
              !.click = "pending", !.human = human, !.told = HandedOut(code)])
  BY DEF follow
<1>3. PICK code \in hub(owner) :
          SetVisitor(v, [Newcomer EXCEPT
              !.step = IF Page(short_links[code].by) THEN "reading" ELSE "gone",
              !.code = code, !.ref = short_links[code].ref, !.page = short_links[code].by,
              !.click = "pending", !.human = human, !.told = HandedOut(code)])
  BY <1>2
<1>4. code \in Codes /\ short_links[code].owner # NoOwner
  BY DEF hub, Exists
<1> DEFINE link == short_links[code]
<1>5. LinkHolds(code, link, publication)
  BY <1>4 DEF LeadInv
<1>6. HandedOut(code) => link.ref = code
  <2> SUFFICES ASSUME HandedOut(code) PROVE link.ref = code
    OBVIOUS
  <2>1. PICK p \in Publications : publication[p].step = "told" /\ code \in Minted(p)
    BY DEF HandedOut
  <2>2. PublicationHolds(publication[p], short_links)
    BY DEF LeadInv
  <2>3. publication[p].minted \in Seq(Codes)
    BY <2>2 DEF PublicationHolds
  <2>4. PICK i \in 1 .. Len(publication[p].minted) : publication[p].minted[i] = code
    BY <2>1, <2>3 DEF Minted
  <2> QED
    BY <2>1, <2>2, <2>4 DEF PublicationHolds
<1> DEFINE step == IF Page(link.by) THEN "reading" ELSE "gone"
<1> DEFINE handed == HandedOut(code)
<1> DEFINE new == [Newcomer EXCEPT !.step = step, !.code = code, !.ref = link.ref,
                    !.page = link.by, !.click = "pending", !.human = human, !.told = handed]
<1>7. SetVisitor(v, new)
  BY <1>3
<1>8. step = "gone" \/ (step = "reading" /\ publication[link.by].surface = "landing_page")
  BY DEF Page
<1>9. handed => link.ref = code
  BY <1>6
<1> HIDE DEF step, handed, link
<1>10. /\ IsVisitor(new) /\ new.step = step /\ new.code = code /\ new.ref = link.ref
       /\ new.page = link.by /\ new.told = handed
  BY NewcomerFields DEF IsVisitor, VisitorFields
<1> HIDE DEF new
<1>11. \A l \in leads : l.by # v
  BY <1>1 DEF LeadInv, VisitorHolds
<1>12. link.by \in Publications /\ publication[link.by].step # "idle"
       /\ link.owner = publication[link.by].owner /\ link.owner # NoOwner
       /\ link.ref \in {NoCode, code}
  BY <1>4, <1>5 DEF LinkHolds, link
<1>13. ASSUME new.step = "reading", new.told PROVE CarriesItsCode(new, publication, short_links)
  BY <1>4, <1>9, <1>10, <1>12, <1>13 DEF CarriesItsCode, OwnedBy, link
<1>14. VisitorHolds(v, new, publication, short_links, leads)
  BY <1>4, <1>8, <1>10, <1>11, <1>12, <1>13 DEF VisitorHolds
<1> QED
  BY <1>1, <1>7, <1>14, NothingStored, VisitorMoves

(* A click is recorded after the answer.                                    *)
LEMMA ClickHolds == ASSUME LeadInv, NEW v \in Visitors, record_click(v) PROVE LeadInv'
<1> DEFINE now == visitor[v]
<1> DEFINE new == [now EXCEPT !.click = "done"]
<1>1. /\ now.click = "pending" /\ SetVisitor(v, new) /\ UNCHANGED <<publication, leads>>
      /\ \/ short_links' = [short_links EXCEPT ![now.code].click_count = click_count(v)]
         \/ short_links' = short_links
  BY DEF record_click
<1>2. VisitorHolds(v, now, publication, short_links, leads) /\ IsVisitor(now) /\ now.code \in Codes
  BY <1>1 DEF LeadInv, VisitorHolds
<1>3. /\ IsVisitor(new) /\ new.click = "done"
      /\ new.step = now.step /\ new.code = now.code /\ new.ref = now.ref /\ new.page = now.page
      /\ new.told = now.told /\ new.resent = now.resent /\ new.link = now.link
  BY <1>2 DEF IsVisitor, VisitorFields
<1>4. /\ short_links' = [c \in Codes |-> short_links'[c]]
      /\ \A c \in Codes :
           /\ IsLink(short_links'[c]) /\ short_links'[c].owner = short_links[c].owner
           /\ short_links'[c].by = short_links[c].by
           /\ short_links'[c].ref = short_links[c].ref
  <2>1. CASE short_links' = short_links
    BY <2>1 DEF LeadInv, LinkHolds
  <2>2. CASE short_links' = [short_links EXCEPT ![now.code].click_count = click_count(v)]
    <3> DEFINE count == click_count(v)
    <3> DEFINE link == [short_links[now.code] EXCEPT !.click_count = count]
    <3>1. short_links' = [short_links EXCEPT ![now.code] = link]
      BY <2>2
    <3>2. IsLink(short_links[now.code])
      BY <1>2 DEF LeadInv, LinkHolds
    <3> HIDE DEF count
    <3>3. /\ IsLink(link) /\ link.owner = short_links[now.code].owner
          /\ link.by = short_links[now.code].by /\ link.ref = short_links[now.code].ref
      BY <3>2 DEF IsLink, LinkFields
    <3> HIDE DEF link
    <3>4. \A c \in Codes : IsLink(short_links[c])
      BY DEF LeadInv, LinkHolds
    <3> QED
      BY <1>2, <3>1, <3>3, <3>4 DEF LeadInv
  <2> QED
    BY <1>1, <2>1, <2>2
<1> HIDE DEF new
<1>5. Grown(publication, short_links, publication', short_links')
  BY <1>1, <1>4 DEF Grown
<1>6. VisitorHolds(v, now, publication', short_links', leads')
  BY <1>1, <1>2, <1>5, VisitorStays
<1>7. VisitorHolds(v, new, publication', short_links', leads')
  <2>1. ASSUME NEW l, LeadHolds(l, now, publication', short_links')
        PROVE  LeadHolds(l, new, publication', short_links')
    BY <1>3, <2>1 DEF LeadHolds
  <2> QED
    BY <1>3, <1>6, <2>1 DEF VisitorHolds, CarriesItsCode
<1> QED
  BY <1>1, <1>4, <1>7, VisitorMoves

(* An address is typed.                                                     *)
LEMMA TypedHolds == ASSUME LeadInv, NEW v \in Visitors, landing_page(v) PROVE LeadInv'
<1>1. /\ visitor[v].step = "away"
      /\ UNCHANGED <<publication, short_links, link_clicks, leads>>
  BY DEF landing_page
<1>2. PICK p \in Publications, ref \in Codes \cup {NoCode} :
          Page(p) /\ SetVisitor(v, [Newcomer EXCEPT !.step = "reading", !.page = p, !.ref = ref])
  BY DEF landing_page
<1> DEFINE new == [Newcomer EXCEPT !.step = "reading", !.page = p, !.ref = ref]
<1>3. /\ IsVisitor(new) /\ new.step = "reading" /\ new.page = p /\ new.ref = ref
      /\ new.click = "none" /\ new.told = FALSE
  BY NewcomerFields DEF IsVisitor, VisitorFields
<1>4. SetVisitor(v, new)
  BY <1>2
<1> HIDE DEF new
<1>5. \A l \in leads : l.by # v
  BY <1>1 DEF LeadInv, VisitorHolds
<1>6. publication[p].surface = "landing_page" /\ publication[p].step # "idle"
  BY <1>2 DEF LeadInv, PublicationHolds, Page
<1>7. VisitorHolds(v, new, publication, short_links, leads)
  BY <1>2, <1>3, <1>5, <1>6 DEF VisitorHolds
<1> QED
  BY <1>1, <1>4, <1>7, NothingStored, VisitorMoves

(* The form is sent: its code is credited if it is of the page's business.  *)
LEMMA SubmitHolds == ASSUME LeadInv, NEW v \in Visitors, submit_form(v) PROVE LeadInv'
<1> DEFINE now == visitor[v]
<1> DEFINE owner == publication[now.page].owner
<1> DEFINE link == _attributed_link(owner, now.ref)
<1> DEFINE new == [now EXCEPT !.step = "storing", !.link = link]
<1>1. /\ now.step = "reading" /\ SetVisitor(v, new)
      /\ UNCHANGED <<publication, short_links, link_clicks, leads>>
  BY DEF submit_form
<1>2. VisitorHolds(v, now, publication, short_links, leads)
  BY DEF LeadInv
<1>3. /\ IsVisitor(now) /\ now.ref \in Codes \cup {NoCode}
      /\ now.page \in Publications /\ publication[now.page].surface = "landing_page"
      /\ publication[now.page].step # "idle"
      /\ now.click = "pending" => now.code \in Codes
      /\ now.told /\ ~now.resent => CarriesItsCode(now, publication, short_links)
      /\ \A l \in leads : l.by # v
  BY <1>1, <1>2 DEF VisitorHolds
<1>4. link = NoCode \/ OwnedBy(link, owner, short_links)
  BY <1>3 DEF _attributed_link, Exists, OwnedBy
<1>5. ASSUME now.told /\ ~now.resent PROVE link = now.code
  BY <1>3, <1>5, LeadLoopAssumption DEF _attributed_link, Exists, OwnedBy, CarriesItsCode
<1> HIDE DEF link
<1>6. /\ IsVisitor(new) /\ new.step = "storing" /\ new.link = link
      /\ new.click = now.click /\ new.code = now.code /\ new.page = now.page
      /\ new.told = now.told /\ new.resent = now.resent
  BY <1>3 DEF IsVisitor, VisitorFields
<1> HIDE DEF new
<1>7. VisitorHolds(v, new, publication, short_links, leads)
  BY <1>3, <1>4, <1>5, <1>6 DEF VisitorHolds
<1> QED
  BY <1>1, <1>7, NothingStored, VisitorMoves

(* The form is shown again, without its code.                               *)
LEMMA SendBackHolds == ASSUME LeadInv, NEW v \in Visitors, SendBack(v) PROVE LeadInv'
<1> DEFINE now == visitor[v]
<1> DEFINE new == [now EXCEPT !.ref = NoCode, !.resent = TRUE]
<1>1. /\ now.step = "reading" /\ SetVisitor(v, new)
      /\ UNCHANGED <<publication, short_links, link_clicks, leads>>
  BY DEF SendBack
<1>2. VisitorHolds(v, now, publication, short_links, leads)
  BY DEF LeadInv
<1>3. /\ IsVisitor(new) /\ new.step = now.step /\ new.ref = NoCode /\ new.resent = TRUE
      /\ new.click = now.click /\ new.code = now.code /\ new.page = now.page
  BY <1>2 DEF VisitorHolds, IsVisitor, VisitorFields
<1> HIDE DEF new
<1>4. VisitorHolds(v, new, publication, short_links, leads)
  BY <1>1, <1>2, <1>3 DEF VisitorHolds
<1> QED
  BY <1>1, <1>4, NothingStored, VisitorMoves

(* The lead is stored: its business can see the link it names.              *)
LEMMA CreateLeadHolds == ASSUME LeadInv, NEW v \in Visitors, create_lead(v) PROVE LeadInv'
<1> DEFINE now == visitor[v]
<1> DEFINE owner == publication[now.page].owner
<1> DEFINE lead == [by |-> v, owner |-> owner, piece |-> now.page, short_link |-> now.link]
<1> DEFINE new == [now EXCEPT !.step = "received"]
<1>1. now.step = "storing" /\ UNCHANGED <<publication, short_links, link_clicks>>
  BY DEF create_lead
<1>2. VisitorHolds(v, now, publication, short_links, leads)
  BY DEF LeadInv
<1>3. LinkVisible(now.link, owner)
  BY <1>1, <1>2 DEF VisitorHolds, OwnedBy, LinkVisible
<1>4. SetVisitor(v, new) /\ leads' = leads \cup {lead}
  BY <1>3 DEF create_lead
<1>5. /\ IsVisitor(new) /\ new.step = "received" /\ new.link = now.link
      /\ new.click = now.click /\ new.code = now.code /\ new.page = now.page
      /\ new.told = now.told /\ new.resent = now.resent
  BY <1>2 DEF VisitorHolds, IsVisitor, VisitorFields
<1>6. lead.by = v /\ lead.owner = owner /\ lead.short_link = now.link
  OBVIOUS
<1> HIDE DEF new, lead
<1>7. \A l \in leads : l.by # v
  BY <1>1, <1>2 DEF VisitorHolds
<1>8. LeadHolds(lead, new, publication, short_links)
  BY <1>1, <1>2, <1>5, <1>6 DEF LeadHolds, VisitorHolds
<1>9. VisitorHolds(v, new, publication, short_links, leads')
  BY <1>1, <1>2, <1>4, <1>5, <1>6, <1>7, <1>8 DEF VisitorHolds
<1>10. /\ short_links' = [c \in Codes |-> short_links'[c]]
       /\ \A c \in Codes :
            /\ IsLink(short_links'[c]) /\ short_links'[c].owner = short_links[c].owner
            /\ short_links'[c].by = short_links[c].by
            /\ short_links'[c].ref = short_links[c].ref
  BY <1>1 DEF LeadInv, LinkHolds
<1>11. (\A l \in leads' : l.by # v => l \in leads) /\ leads \subseteq leads'
  BY <1>4, <1>6
<1> QED
  BY <1>1, <1>4, <1>9, <1>10, <1>11, VisitorMoves

(* Every step of publications and visitors keeps the invariant.             *)
LEMMA LeadStep == LeadInv /\ [LeadNext]_leadVars => LeadInv'
<1> SUFFICES ASSUME LeadInv, [LeadNext]_leadVars PROVE LeadInv'
  OBVIOUS
<1>1. ASSUME NEW p \in Publications, publish_landing_page(p) PROVE LeadInv'
  <2>1. PICK page \in Publishable : Begin(p, "landing_page", page.answerable, page.ctas)
    BY <1>1 DEF publish_landing_page
  <2> QED
    BY <2>1, BeginHolds, PublishedPagesAnswer
<1>2. ASSUME NEW p \in Publications, publish_distribution(p) PROVE LeadInv'
  <2>1. PICK ctas \in Plans : Begin(p, "article", FALSE, ctas)
    BY <1>2 DEF publish_distribution
  <2> QED
    BY <2>1, BeginHolds
<1>3. ASSUME NEW p \in Publications, create_link(p) \/ retarget_link(p) \/ Tell(p) PROVE LeadInv'
  BY <1>3, CreateLinkHolds, RetargetHolds, TellHolds
<1>4. ASSUME NEW v \in Visitors, \/ follow(v) \/ record_click(v)
                                 \/ landing_page(v) \/ submit_form(v) \/ SendBack(v)
                                 \/ create_lead(v)
      PROVE  LeadInv'
  BY <1>4, FollowHolds, ClickHolds, TypedHolds, SubmitHolds, SendBackHolds, CreateLeadHolds
<1>5. CASE UNCHANGED leadVars
  BY <1>5 DEF leadVars, LeadInv
<1> QED
  BY <1>1, <1>2, <1>3, <1>4, <1>5 DEF LeadNext

(* It holds before anything is published.                                   *)
LEMMA LeadStart == LeadInit => LeadInv
<1> SUFFICES ASSUME LeadInit PROVE LeadInv
  OBVIOUS
<1>1. IsPublication(Unpublished) /\ Unpublished.step = "idle" /\ Unpublished.surface = "none"
      /\ Unpublished.minted = << >> /\ << >> \in Seq(Codes) /\ Len(<< >>) = 0
  BY DEF IsPublication, PublicationFields, Unpublished
<1>2. PublicationHolds(Unpublished, short_links)
  BY <1>1 DEF PublicationHolds
<1> DEFINE some == CHOOSE q \in Publications : TRUE
<1>3. NoLink = [owner |-> NoOwner, by |-> some, ref |-> NoCode, click_count |-> 0]
  BY DEF NoLink
<1> HIDE DEF some
<1>4. IsLink(NoLink) /\ NoLink.owner = NoOwner /\ NoLink.ref = NoCode
  BY <1>3 DEF IsLink, LinkFields
<1>5. \A v \in Visitors : VisitorHolds(v, Newcomer, publication, short_links, leads)
  BY NewcomerFields DEF VisitorHolds, LeadInit
<1>6. \A c \in Codes : LinkHolds(c, NoLink, publication)
  BY <1>4 DEF LinkHolds
<1> QED
  BY <1>2, <1>5, <1>6 DEF LeadInit, LeadInv

(* It says what the form's sender is promised.                              *)
LEMMA LeadPromised == LeadInv => LeadsReachTheirOwner
<1> SUFFICES ASSUME LeadInv, NEW v \in Visitors
             PROVE  LET mine == {l \in leads : l.by = v} IN
                    /\ visitor[v].step # "unknown_link"
                    /\ visitor[v].step = "reading" => Usable(visitor[v].page)
                    /\ visitor[v].step = "received" =>
                          \E l \in mine :
                              /\ mine = {l}
                              /\ l.owner = publication[visitor[v].page].owner
                              /\ l.short_link # NoCode => short_links[l.short_link].owner = l.owner
                              /\ visitor[v].told /\ ~visitor[v].resent
                                    => l.short_link = visitor[v].code
  BY DEF LeadsReachTheirOwner
<1>1. VisitorHolds(v, visitor[v], publication, short_links, leads)
  BY DEF LeadInv
<1>2. visitor[v].step # "unknown_link"
  BY <1>1 DEF VisitorHolds
<1>3. visitor[v].step = "reading" => Usable(visitor[v].page)
  BY <1>1 DEF VisitorHolds, LeadInv, PublicationHolds, Usable
<1>4. ASSUME visitor[v].step = "received"
      PROVE  \E l \in {k \in leads : k.by = v} :
                /\ {k \in leads : k.by = v} = {l}
                /\ l.owner = publication[visitor[v].page].owner
                /\ l.short_link # NoCode => short_links[l.short_link].owner = l.owner
                /\ visitor[v].told /\ ~visitor[v].resent => l.short_link = visitor[v].code
  <2>1. PICK l \in leads : /\ l.by = v /\ (\A m \in leads : m.by = v => m = l)
                           /\ LeadHolds(l, visitor[v], publication, short_links)
    BY <1>1, <1>4 DEF VisitorHolds
  <2>2. {k \in leads : k.by = v} = {l}
    BY <2>1
  <2> QED
    BY <2>1, <2>2 DEF LeadHolds, OwnedBy
<1> QED
  BY <1>2, <1>3, <1>4

(* submit_form, create_lead: for any publications, codes and visitors, a    *)
(* published page can be answered and a form that was taken is one lead of  *)
(* the business whose page it was, under the link that brought the visitor. *)
THEOREM LeadsArrive == LeadSpec => []LeadsReachTheirOwner
BY LeadStart, LeadStep, LeadPromised, PTL DEF LeadSpec

-----------------------------------------------------------------------------
(* The types of links and leads, beside what LeadInv says of them.          *)

PublicationSteps == {"idle", "minting", "retargeting", "told", "raised"}
Clicks  == [by: Visitors, code: Codes, is_bot: BOOLEAN]
LeadSet == [by: Visitors, owner: Businesses, piece: Publications, short_link: Codes \cup {NoCode}]

\* What the types say of a publication, and why its tries are within their bound: a link
\* is only tried while attempts are left.
PublicationTyped(x) ==
    /\ x.step \in PublicationSteps
    /\ Len(x.ctas) \in Nat
    /\ Len(x.minted) <= Len(x.ctas)
    /\ x.tries \in 0 .. MAX_CODE_ATTEMPTS
    /\ x.step \in {"minting", "retargeting"} => x.tries < MAX_CODE_ATTEMPTS
    /\ x.step # "idle" => x.owner \in Businesses

LeadRest ==
    /\ \A p \in Publications : PublicationTyped(publication[p])
    /\ \A v \in Visitors : visitor[v].human \in BOOLEAN
    /\ link_clicks \subseteq Clicks
    /\ leads \subseteq LeadSet

(* A page that may be published, and a plan, have a number of links.        *)
LEMMA PiecesHaveLinks ==
    /\ \A page \in Publishable : Len(page.ctas) \in Nat
    /\ \A ctas \in Plans : Len(ctas) \in Nat
<1>1. ASSUME NEW page \in Publishable PROVE Len(page.ctas) \in Nat
  <2>1. PICK spec \in LandingPageSpec(MaxCtas) : page = Laid(spec)
    BY DEF Publishable
  <2> DEFINE Cta == [channel: Channels, text: BOOLEAN]
  <2>2. spec.ctas \in UNION {[1 .. n -> Cta] : n \in 0 .. MaxCtas}
    BY <2>1 DEF LandingPageSpec
  <2> HIDE DEF Cta
  <2>3. PICK n \in 0 .. MaxCtas : spec.ctas \in [1 .. n -> Cta]
    BY <2>2
  <2>4. n \in Nat
    BY LeadLoopAssumption
  <2> DEFINE listed == [i \in DOMAIN spec.ctas |-> spec.ctas[i].channel \in KNOWN_CHANNELS]
  <2>5. page.ctas = listed
    BY <2>1 DEF Laid
  <2>6. DOMAIN listed = 1 .. n
    BY <2>3
  <2>7. listed = [i \in 1 .. n |-> listed[i]]
    BY <2>6
  <2> HIDE DEF listed
  <2>8. Len(listed) = n
    BY <2>4, <2>7
  <2> QED
    BY <2>4, <2>5, <2>8
<1>2. ASSUME NEW ctas \in Plans PROVE Len(ctas) \in Nat
  <2>1. PICK n \in 1 .. MaxCtas : ctas \in [1 .. n -> BOOLEAN]
    BY DEF Plans
  <2>2. n \in Nat
    BY LeadLoopAssumption
  <2> QED
    BY <2>1, <2>2
<1> QED
  BY <1>1, <1>2

(* A publication moves to what is typed.                                    *)
LEMMA PublicationStaysTyped ==
    ASSUME LeadInv, LeadRest, NEW p \in Publications, NEW new, SetPublication(p, new),
           PublicationTyped(new), UNCHANGED <<link_clicks, leads, visitor>>
    PROVE  LeadRest'
<1>1. \A q \in Publications : publication'[q] = IF q = p THEN new ELSE publication[q]
  BY DEF LeadInv, SetPublication
<1>2. \A q \in Publications : PublicationTyped(publication[q])
  BY DEF LeadRest
<1>3. \A q \in Publications : PublicationTyped(publication'[q])
  BY <1>1, <1>2
<1>4. (\A v \in Visitors : visitor[v].human \in BOOLEAN)'
  BY DEF LeadRest
<1> QED
  BY <1>3, <1>4 DEF LeadRest, PublicationTyped

(* A piece goes live with its links to come.                                *)
LEMMA BeginTyped ==
    ASSUME LeadInv, LeadRest, NEW p \in Publications, NEW surface, NEW answerable, NEW ctas,
           Len(ctas) \in Nat, Begin(p, surface, answerable, ctas)
    PROVE  LeadRest'
<1>1. UNCHANGED <<link_clicks, leads, visitor>>
  BY DEF Begin
<1>2. PICK owner \in Businesses :
        SetPublication(p, [Unpublished EXCEPT !.step = "minting", !.owner = owner,
                            !.surface = surface, !.answerable = answerable, !.ctas = ctas])
  BY DEF Begin
<1> DEFINE new == [Unpublished EXCEPT !.step = "minting", !.owner = owner,
                    !.surface = surface, !.answerable = answerable, !.ctas = ctas]
<1>3. /\ new.step = "minting" /\ new.owner = owner /\ new.ctas = ctas
      /\ new.minted = << >> /\ new.tries = 0
  BY DEF Unpublished
<1>4. SetPublication(p, new)
  BY <1>2
<1> HIDE DEF new
<1>5. Len(<< >>) = 0 /\ 0 \in 0 .. MAX_CODE_ATTEMPTS /\ 0 < MAX_CODE_ATTEMPTS
  BY LeadLoopAssumption
<1>6. PublicationTyped(new)
  BY <1>3, <1>5 DEF PublicationTyped, PublicationSteps
<1> QED
  BY <1>1, <1>4, <1>6, PublicationStaysTyped

(* A link is minted, or an attempt is used up.                              *)
LEMMA CreateLinkTyped ==
    ASSUME LeadInv, LeadRest, NEW p \in Publications, create_link(p) PROVE LeadRest'
<1> DEFINE now == publication[p]
<1> DEFINE next == Len(now.minted) + 1
<1>1. /\ now.step = "minting" /\ next <= Len(now.ctas)
      /\ UNCHANGED <<link_clicks, leads, visitor>>
  BY DEF create_link
<1>2. PICK code \in Codes :
          IF ~now.ctas[next] \/ Exists(code)
          THEN SetPublication(p, [now EXCEPT !.tries = @ + 1,
                      !.step = IF ~now.ctas[next] \/ now.tries + 1 = MAX_CODE_ATTEMPTS
                               THEN "raised" ELSE @])
          ELSE SetPublication(p, [now EXCEPT !.step = "retargeting", !.tries = 0,
                                             !.minted = Append(@, code)])
  BY DEF create_link
<1>3. PublicationHolds(now, short_links) /\ IsPublication(now) /\ now.minted \in Seq(Codes)
  BY DEF LeadInv, PublicationHolds
<1>4. PublicationTyped(now)
  BY DEF LeadRest
<1>5. MAX_CODE_ATTEMPTS \in Nat
  BY LeadLoopAssumption
<1>6. CASE ~now.ctas[next] \/ Exists(code)
  <2> DEFINE step == IF ~now.ctas[next] \/ now.tries + 1 = MAX_CODE_ATTEMPTS
                     THEN "raised" ELSE now.step
  <2> DEFINE tries == now.tries + 1
  <2> DEFINE new == [now EXCEPT !.tries = tries, !.step = step]
  <2>1. SetPublication(p, new)
    BY <1>2, <1>6
  <2>2. tries \in 0 .. MAX_CODE_ATTEMPTS
    BY <1>1, <1>4, <1>5 DEF PublicationTyped
  <2>3. \/ step = "raised"
        \/ step = "minting" /\ tries < MAX_CODE_ATTEMPTS
    BY <1>1, <1>5, <2>2
  <2> HIDE DEF step, tries
  <2>4. /\ new.step = step /\ new.owner = now.owner /\ new.ctas = now.ctas
        /\ new.minted = now.minted /\ new.tries = tries
    BY <1>3 DEF IsPublication, PublicationFields
  <2> HIDE DEF new
  <2>5. PublicationTyped(new)
    BY <1>1, <1>4, <2>2, <2>3, <2>4 DEF PublicationTyped, PublicationSteps
  <2> QED
    BY <1>1, <2>1, <2>5, PublicationStaysTyped
<1>7. CASE ~(~now.ctas[next] \/ Exists(code))
  <2> DEFINE minted == Append(now.minted, code)
  <2> DEFINE new == [now EXCEPT !.step = "retargeting", !.tries = 0, !.minted = minted]
  <2>1. SetPublication(p, new)
    BY <1>2, <1>7
  <2>2. Len(minted) = next
    BY <1>3
  <2> HIDE DEF minted
  <2>3. /\ new.step = "retargeting" /\ new.owner = now.owner /\ new.ctas = now.ctas
        /\ new.minted = minted /\ new.tries = 0
    BY <1>3 DEF IsPublication, PublicationFields
  <2> HIDE DEF new
  <2>4. 0 \in 0 .. MAX_CODE_ATTEMPTS /\ 0 < MAX_CODE_ATTEMPTS
    BY LeadLoopAssumption
  <2>5. PublicationTyped(new)
    BY <1>1, <1>4, <2>2, <2>3, <2>4 DEF PublicationTyped, PublicationSteps
  <2> QED
    BY <1>1, <2>1, <2>5, PublicationStaysTyped
<1> QED
  BY <1>6, <1>7

(* A link gets its target, and the addresses are handed out.                *)
LEMMA RetargetTyped ==
    ASSUME LeadInv, LeadRest, NEW p \in Publications, retarget_link(p) \/ Tell(p)
    PROVE  LeadRest'
<1> DEFINE now == publication[p]
<1>1. PublicationHolds(now, short_links) /\ IsPublication(now)
  BY DEF LeadInv, PublicationHolds
<1>2. PublicationTyped(now)
  BY DEF LeadRest
<1>3. CASE retarget_link(p)
  <2> DEFINE new == [now EXCEPT !.step = "minting"]
  <2>1. now.step = "retargeting" /\ SetPublication(p, new)
        /\ UNCHANGED <<link_clicks, leads, visitor>>
    BY <1>3 DEF retarget_link
  <2>2. /\ new.step = "minting" /\ new.owner = now.owner /\ new.ctas = now.ctas
        /\ new.minted = now.minted /\ new.tries = now.tries
    BY <1>1 DEF IsPublication, PublicationFields
  <2> HIDE DEF new
  <2>3. now.tries < MAX_CODE_ATTEMPTS
    BY <2>1, <1>2 DEF PublicationTyped
  <2>4. PublicationTyped(new)
    BY <1>2, <2>1, <2>2, <2>3 DEF PublicationTyped, PublicationSteps
  <2> QED
    BY <2>1, <2>4, PublicationStaysTyped
<1>4. CASE Tell(p)
  <2> DEFINE new == [now EXCEPT !.step = "told"]
  <2>1. now.step = "minting" /\ SetPublication(p, new)
        /\ UNCHANGED <<link_clicks, leads, visitor>>
    BY <1>4 DEF Tell
  <2>2. /\ new.step = "told" /\ new.owner = now.owner /\ new.ctas = now.ctas
        /\ new.minted = now.minted /\ new.tries = now.tries
    BY <1>1 DEF IsPublication, PublicationFields
  <2> HIDE DEF new
  <2>3. PublicationTyped(new)
    BY <1>2, <2>1, <2>2 DEF PublicationTyped, PublicationSteps
  <2> QED
    BY <2>1, <2>3, PublicationStaysTyped
<1> QED
  BY <1>3, <1>4

(* A visitor moves; the rows stored for them are typed.                     *)
LEMMA VisitorStaysTyped ==
    ASSUME LeadInv, LeadRest, NEW v \in Visitors, NEW new, SetVisitor(v, new),
           new.human \in BOOLEAN, UNCHANGED publication,
           link_clicks' \subseteq Clicks, leads' \subseteq LeadSet
    PROVE  LeadRest'
<1>1. \A w \in Visitors : visitor'[w] = IF w = v THEN new ELSE visitor[w]
  BY DEF LeadInv, SetVisitor
<1>2. \A w \in Visitors : visitor[w].human \in BOOLEAN
  BY DEF LeadRest
<1>3. \A w \in Visitors : visitor'[w].human \in BOOLEAN
  BY <1>1, <1>2
<1>4. \A p \in Publications : PublicationTyped(publication'[p])
  BY DEF LeadRest
<1> QED
  BY <1>3, <1>4 DEF LeadRest

(* A visitor follows a link, or types an address.                           *)
LEMMA ArrivalTyped ==
    ASSUME LeadInv, LeadRest, NEW v \in Visitors, follow(v) \/ landing_page(v)
    PROVE  LeadRest'
<1>1. IsVisitor(Newcomer) /\ Newcomer.human = TRUE
  <2> DEFINE some == NoLink.by
  <2>1. Newcomer = [step |-> "away", code |-> NoCode, ref |-> NoCode, page |-> some,
                    click |-> "none", human |-> TRUE, told |-> FALSE, resent |-> FALSE,
                    link |-> NoCode]
    BY DEF Newcomer
  <2> HIDE DEF some
  <2> QED
    BY <2>1, NewcomerFields
<1>2. link_clicks \subseteq Clicks /\ leads \subseteq LeadSet
  BY DEF LeadRest
<1>3. CASE follow(v)
  <2>1. UNCHANGED <<publication, short_links, link_clicks, leads>>
    BY <1>3 DEF follow
  <2>2. PICK owner \in Businesses, human \in BOOLEAN : \E code \in hub(owner) :
            SetVisitor(v, [Newcomer EXCEPT
                !.step = IF Page(short_links[code].by) THEN "reading" ELSE "gone",
                !.code = code, !.ref = short_links[code].ref, !.page = short_links[code].by,
                !.click = "pending", !.human = human, !.told = HandedOut(code)])
    BY <1>3 DEF follow
  <2>3. PICK code \in hub(owner) :
            SetVisitor(v, [Newcomer EXCEPT
                !.step = IF Page(short_links[code].by) THEN "reading" ELSE "gone",
                !.code = code, !.ref = short_links[code].ref, !.page = short_links[code].by,
                !.click = "pending", !.human = human, !.told = HandedOut(code)])
    BY <2>2
  <2> DEFINE link == short_links[code]
  <2> DEFINE step == IF Page(link.by) THEN "reading" ELSE "gone"
  <2> DEFINE handed == HandedOut(code)
  <2> DEFINE new == [Newcomer EXCEPT !.step = step, !.code = code, !.ref = link.ref,
                      !.page = link.by, !.click = "pending", !.human = human, !.told = handed]
  <2>4. SetVisitor(v, new)
    BY <2>3
  <2> HIDE DEF step, handed, link
  <2>5. new.human = human
    BY <1>1 DEF IsVisitor, VisitorFields
  <2> HIDE DEF new
  <2>6. new.human \in BOOLEAN
    BY <2>5
  <2> QED
    BY <1>2, <2>1, <2>4, <2>6, VisitorStaysTyped
<1>4. CASE landing_page(v)
  <2>1. UNCHANGED <<publication, short_links, link_clicks, leads>>
    BY <1>4 DEF landing_page
  <2>2. PICK p \in Publications, ref \in Codes \cup {NoCode} :
            SetVisitor(v, [Newcomer EXCEPT !.step = "reading", !.page = p, !.ref = ref])
    BY <1>4 DEF landing_page
  <2> DEFINE new == [Newcomer EXCEPT !.step = "reading", !.page = p, !.ref = ref]
  <2>3. SetVisitor(v, new)
    BY <2>2
  <2>4. new.human = TRUE
    BY <1>1 DEF IsVisitor, VisitorFields
  <2> HIDE DEF new
  <2>5. new.human \in BOOLEAN
    BY <2>4
  <2> QED
    BY <1>2, <2>1, <2>3, <2>5, VisitorStaysTyped
<1> QED
  BY <1>3, <1>4

(* A click is recorded of whoever came by the link.                         *)
LEMMA ClickTyped ==
    ASSUME LeadInv, LeadRest, NEW v \in Visitors, record_click(v) PROVE LeadRest'
<1> DEFINE now == visitor[v]
<1> DEFINE new == [now EXCEPT !.click = "done"]
<1> DEFINE row == [by |-> v, code |-> now.code, is_bot |-> ~now.human]
<1>1. /\ now.click = "pending" /\ SetVisitor(v, new) /\ UNCHANGED <<publication, leads>>
      /\ link_clicks' = link_clicks \cup {row}
  BY DEF record_click
<1>2. IsVisitor(now) /\ now.code \in Codes
  BY <1>1 DEF LeadInv, VisitorHolds
<1>3. now.human \in BOOLEAN /\ link_clicks \subseteq Clicks /\ leads \subseteq LeadSet
  BY DEF LeadRest
<1>4. row \in Clicks
  <2> DEFINE bot == ~now.human
  <2>1. bot \in BOOLEAN
    OBVIOUS
  <2> HIDE DEF bot
  <2>2. [by |-> v, code |-> now.code, is_bot |-> bot] \in Clicks
    BY <1>2, <2>1 DEF Clicks
  <2> QED
    BY <2>2 DEF bot
<1>5. new.human = now.human
  BY <1>2 DEF IsVisitor, VisitorFields
<1> HIDE DEF new, row
<1>6. new.human \in BOOLEAN
  BY <1>3, <1>5
<1>7. link_clicks' \subseteq Clicks /\ leads' \subseteq LeadSet
  BY <1>1, <1>3, <1>4
<1> QED
  BY <1>1, <1>6, <1>7, VisitorStaysTyped

(* A form is sent, or shown again.                                          *)
LEMMA FormTyped ==
    ASSUME LeadInv, LeadRest, NEW v \in Visitors, submit_form(v) \/ SendBack(v)
    PROVE  LeadRest'
<1> DEFINE now == visitor[v]
<1>1. IsVisitor(now)
  BY DEF LeadInv, VisitorHolds
<1>2. now.human \in BOOLEAN /\ link_clicks \subseteq Clicks /\ leads \subseteq LeadSet
  BY DEF LeadRest
<1>3. CASE submit_form(v)
  <2> DEFINE link == _attributed_link(publication[now.page].owner, now.ref)
  <2> DEFINE new == [now EXCEPT !.step = "storing", !.link = link]
  <2>1. SetVisitor(v, new) /\ UNCHANGED <<publication, short_links, link_clicks, leads>>
    BY <1>3 DEF submit_form
  <2> HIDE DEF link
  <2>2. new.human = now.human
    BY <1>1 DEF IsVisitor, VisitorFields
  <2> HIDE DEF new
  <2>3. new.human \in BOOLEAN
    BY <1>2, <2>2
  <2> QED
    BY <1>2, <2>1, <2>3, VisitorStaysTyped
<1>4. CASE SendBack(v)
  <2> DEFINE new == [now EXCEPT !.ref = NoCode, !.resent = TRUE]
  <2>1. SetVisitor(v, new) /\ UNCHANGED <<publication, short_links, link_clicks, leads>>
    BY <1>4 DEF SendBack
  <2>2. new.human = now.human
    BY <1>1 DEF IsVisitor, VisitorFields
  <2> HIDE DEF new
  <2>3. new.human \in BOOLEAN
    BY <1>2, <2>2
  <2> QED
    BY <1>2, <2>1, <2>3, VisitorStaysTyped
<1> QED
  BY <1>3, <1>4

(* A lead is stored with the business of its page.                          *)
LEMMA CreateLeadTyped ==
    ASSUME LeadInv, LeadRest, NEW v \in Visitors, create_lead(v) PROVE LeadRest'
<1> DEFINE now == visitor[v]
<1> DEFINE owner == publication[now.page].owner
<1> DEFINE lead == [by |-> v, owner |-> owner, piece |-> now.page, short_link |-> now.link]
<1>1. /\ now.step = "storing" /\ UNCHANGED <<publication, short_links, link_clicks>>
      /\ \/ SetVisitor(v, [now EXCEPT !.step = "received"]) /\ leads' = leads \cup {lead}
         \/ SetVisitor(v, [now EXCEPT !.step = "unknown_link"]) /\ leads' = leads
  BY DEF create_lead
<1>2. IsVisitor(now) /\ now.page \in Publications /\ publication[now.page].step # "idle"
      /\ now.link \in Codes \cup {NoCode}
  BY <1>1 DEF LeadInv, VisitorHolds, OwnedBy
<1>3. now.human \in BOOLEAN /\ link_clicks \subseteq Clicks /\ leads \subseteq LeadSet
  BY DEF LeadRest
<1>4. owner \in Businesses
  BY <1>2 DEF LeadRest, PublicationTyped
<1> HIDE DEF owner
<1>5. lead \in LeadSet
  BY <1>2, <1>4 DEF LeadSet
<1> HIDE DEF lead
<1>6. PICK step : SetVisitor(v, [now EXCEPT !.step = step])
  BY <1>1
<1> DEFINE new == [now EXCEPT !.step = step]
<1>7. SetVisitor(v, new)
  BY <1>6
<1>8. new.human = now.human
  BY <1>2 DEF IsVisitor, VisitorFields
<1> HIDE DEF new
<1>9. new.human \in BOOLEAN
  BY <1>3, <1>8
<1>10. link_clicks' \subseteq Clicks /\ leads' \subseteq LeadSet
  BY <1>1, <1>3, <1>5
<1> QED
  BY <1>1, <1>7, <1>9, <1>10, VisitorStaysTyped

(* The types of leads, clicks and links hold in every reachable state: no   *)
(* publication mints more links than it has or draws a code once too often, *)
(* and every lead is of a business and a published piece (LeadTypeOK).      *)
THEOREM LeadTypeCorrect == LeadSpec => []LeadTypeOK
<1>1. LeadInit => LeadRest
  <2> SUFFICES ASSUME LeadInit PROVE LeadRest
    OBVIOUS
  <2>1. /\ Unpublished.step = "idle" /\ Unpublished.ctas = << >>
        /\ Unpublished.minted = << >> /\ Unpublished.tries = 0
    BY DEF Unpublished
  <2>2. Len(<< >>) = 0 /\ 0 \in 0 .. MAX_CODE_ATTEMPTS
    BY LeadLoopAssumption
  <2>3. PublicationTyped(Unpublished)
    BY <2>1, <2>2 DEF PublicationTyped, PublicationSteps
  <2> DEFINE some == NoLink.by
  <2>4. Newcomer = [step |-> "away", code |-> NoCode, ref |-> NoCode, page |-> some,
                    click |-> "none", human |-> TRUE, told |-> FALSE, resent |-> FALSE,
                    link |-> NoCode]
    BY DEF Newcomer
  <2> HIDE DEF some
  <2>5. Newcomer.human \in BOOLEAN
    BY <2>4
  <2> QED
    BY <2>3, <2>5 DEF LeadInit, LeadRest
<1>2. LeadInv /\ LeadRest /\ [LeadNext]_leadVars => LeadRest'
  <2> SUFFICES ASSUME LeadInv, LeadRest, [LeadNext]_leadVars PROVE LeadRest'
    OBVIOUS
  <2>1. ASSUME NEW p \in Publications, publish_landing_page(p) PROVE LeadRest'
    <3>1. PICK page \in Publishable : Begin(p, "landing_page", page.answerable, page.ctas)
      BY <2>1 DEF publish_landing_page
    <3> QED
      BY <3>1, BeginTyped, PiecesHaveLinks
  <2>2. ASSUME NEW p \in Publications, publish_distribution(p) PROVE LeadRest'
    <3>1. PICK ctas \in Plans : Begin(p, "article", FALSE, ctas)
      BY <2>2 DEF publish_distribution
    <3> QED
      BY <3>1, BeginTyped, PiecesHaveLinks
  <2>3. ASSUME NEW p \in Publications, create_link(p) \/ retarget_link(p) \/ Tell(p)
        PROVE  LeadRest'
    BY <2>3, CreateLinkTyped, RetargetTyped
  <2>4. ASSUME NEW v \in Visitors, \/ follow(v) \/ record_click(v)
                                   \/ landing_page(v) \/ submit_form(v) \/ SendBack(v)
                                   \/ create_lead(v)
        PROVE  LeadRest'
    BY <2>4, ArrivalTyped, ClickTyped, FormTyped, CreateLeadTyped
  <2>5. CASE UNCHANGED leadVars
    BY <2>5 DEF leadVars, LeadRest
  <2> QED
    BY <2>1, <2>2, <2>3, <2>4, <2>5 DEF LeadNext
<1>3. LeadInv /\ LeadRest => LeadTypeOK
  <2> SUFFICES ASSUME LeadInv, LeadRest PROVE LeadTypeOK
    OBVIOUS
  <2>1. ASSUME NEW p \in Publications
        PROVE  /\ publication[p].step \in {"idle", "minting", "retargeting", "told", "raised"}
               /\ Len(publication[p].minted) <= Len(publication[p].ctas)
               /\ publication[p].tries \in 0 .. MAX_CODE_ATTEMPTS
    BY DEF LeadRest, PublicationTyped, PublicationSteps
  <2>2. \A c \in Codes : short_links[c].ref \in {NoCode, c}
    BY DEF LeadInv, LinkHolds
  <2>3. link_clicks \subseteq Clicks /\ leads \subseteq LeadSet
    BY DEF LeadRest
  <2> QED
    BY <2>1, <2>2, <2>3 DEF LeadTypeOK, Clicks, LeadSet
<1> QED
  BY LeadStart, LeadStep, <1>1, <1>2, <1>3, PTL DEF LeadSpec

-----------------------------------------------------------------------------
(* The components side by side.                                             *)

(* A step of the services is a step of each component, or leaves it alone.  *)
LEMMA StepsAreOfTheParts ==
    [ServicesNext]_serviceVars =>
        /\ [ConnectionsNext]_connectionVars
        /\ [ModelRouterNext]_routerVars
        /\ [GeoNext]_geoVars
        /\ [EventsNext]_eventVars
        /\ [AccountsNext]_accountVars
        /\ [KnowledgeNext]_knowledgeVars
        /\ [LeadNext]_leadVars
        /\ [CrawlNext]_crawlVars
        /\ [DeliveryNext]_deliveryVars
        /\ [TurnNext]_turnVars
        /\ [MemoryNext]_memoryVars
        /\ [EvalNext]_evalVars
<1> SUFFICES ASSUME [ServicesNext]_serviceVars
             PROVE  /\ [ConnectionsNext]_connectionVars /\ [ModelRouterNext]_routerVars
                    /\ [GeoNext]_geoVars /\ [EventsNext]_eventVars
                    /\ [AccountsNext]_accountVars /\ [KnowledgeNext]_knowledgeVars
                    /\ [LeadNext]_leadVars /\ [CrawlNext]_crawlVars
                    /\ [DeliveryNext]_deliveryVars /\ [TurnNext]_turnVars
                    /\ [MemoryNext]_memoryVars /\ [EvalNext]_evalVars
  OBVIOUS
<1>1. CASE ServicesNext
  <2>1. [ConnectionsNext]_connectionVars /\ [ModelRouterNext]_routerVars /\ [GeoNext]_geoVars
    BY <1>1 DEF ServicesNext, Others
  <2>2. [EventsNext]_eventVars /\ [AccountsNext]_accountVars /\ [KnowledgeNext]_knowledgeVars
    BY <1>1 DEF ServicesNext, Others
  <2>3. [LeadNext]_leadVars /\ [CrawlNext]_crawlVars
    BY <1>1 DEF ServicesNext, Others
  <2>4. [DeliveryNext]_deliveryVars /\ [TurnNext]_turnVars
    BY <1>1 DEF ServicesNext, Others
  <2>5. [MemoryNext]_memoryVars /\ [EvalNext]_evalVars
    BY <1>1 DEF ServicesNext, Others
  <2> QED
    BY <2>1, <2>2, <2>3, <2>4, <2>5
<1>2. CASE UNCHANGED serviceVars
  BY <1>2 DEF serviceVars
<1> QED
  BY <1>1, <1>2

(* The services begin with every component at its beginning.                *)
LEMMA StartsAreOfTheParts ==
    ServicesInit => /\ ConnectionsInit /\ ModelRouterInit /\ GeoInit
                    /\ EventsInit /\ AccountsInit /\ KnowledgeInit
                    /\ LeadInit /\ CrawlInit /\ DeliveryInit /\ TurnInit
                    /\ MemoryInit /\ EvalInit
BY DEF ServicesInit

(* Seen alone, each of these components behaves as its own specification    *)
(* says: what is proved of it holds beside the others.                      *)
THEOREM ComponentsStandAlone ==
    ServicesSpec => /\ ConnectionsSpec /\ ModelRouterSpec /\ GeoSpec
                    /\ EventsSpec /\ AccountsSpec /\ KnowledgeSpec
                    /\ LeadSpec /\ CrawlSpec /\ DeliverySpec /\ TurnSpec
                    /\ MemorySpec /\ EvalSpec
BY StepsAreOfTheParts, StartsAreOfTheParts, PTL
DEF ServicesSpec, ConnectionsSpec, ModelRouterSpec, GeoSpec, EventsSpec, AccountsSpec,
    KnowledgeSpec, LeadSpec, CrawlSpec, DeliverySpec, TurnSpec, MemorySpec, EvalSpec

(* What the services promise together: one batch of overspending at most, a *)
(* live credential for every publish, a search that finds what was kept,    *)
(* leads that reach their owner, a crawl that does not call itself complete *)
(* when it is not, deliveries that were cleared and reports of them that    *)
(* are true, citations a grader vouched for, scores that were measured, one *)
(* ledger row for a call, a complete stream, sessions that end with the     *)
(* logout, rationed guesses, writers of the business's memory that change   *)
(* only what they were asked to, and a disconnect that lasts.               *)
THEOREM ServicesKeepTheirPromises ==
    ServicesSpec => [](/\ OvershootIsOneBatch
                       /\ SentWithALiveCredential
                       /\ SearchFindsWhatWasKept
                       /\ LeadsReachTheirOwner
                       /\ NothingWithinReachIsMissed
                       /\ WhatIsOutWasCleared
                       /\ ReportIsTrue
                       /\ CitationsAreVouchedFor
                       /\ ScoresAreOfTheModelsText
                       /\ EveryCallIsBookedOnce
                       /\ CursorSkipsNothing
                       /\ LogoutEndsOlderSessions
                       /\ GuessesAreRationed)
                    /\ WritersKeepTheRest
                    /\ ForgottenStaysForgotten
BY ComponentsStandAlone, SpendingStopsWithinOneBatch, PublishesWithALiveCredential,
   SearchFindsTheTruth, LeadsArrive, CompleteCrawlMissesNothing, OnlyClearedTextIsOut,
   ReportsAreTrue, OnlyVouchedPassagesAreCited, ReportShowsWhatWasMeasured,
   EveryWriterKeepsTheRest, DisconnectedStaysForgotten, CallsAreBookedOnce, CursorIsComplete, LogoutEndsSessions,
   GuessesRationed, PTL

(* Seen alone, the pages and the listing behave as their own specifications *)
(* say while a behaviour follows them: no other part starts them freely.    *)
LEMMA AuditsStart ==
    /\ ServicesInit => (part = "seo" => SeoInit)
    /\ ServicesInit => (part = "nap" => NapInit)
BY DEF ServicesInit

(* A step of whatever part is a step of theirs or leaves them where they are.*)
LEMMA AuditsMoveAlone == [ServicesNext]_serviceVars => [SeoNext]_seoVars /\ [NapNext]_napVars
<1> SUFFICES ASSUME [ServicesNext]_serviceVars PROVE [SeoNext]_seoVars /\ [NapNext]_napVars
  OBVIOUS
<1>1. CASE ServicesNext
  BY <1>1 DEF ServicesNext, Others
<1>2. CASE UNCHANGED serviceVars
  BY <1>2 DEF serviceVars
<1> QED
  BY <1>1, <1>2

(* Whichever part a behaviour follows, its variables keep their types       *)
(* (ServicesTypeOK), for any requests, documents, posts, pages and listings.*)
THEOREM ServicesTypeCorrect == ServicesSpec => []ServicesTypeOK
<1> DEFINE OnSeo == part = "seo"
           OnNap == part = "nap"
<1>1. /\ ServicesInit /\ OnSeo => SeoInit
      /\ ServicesInit /\ OnNap => NapInit
  BY AuditsStart
<1>2. /\ ~OnSeo /\ [ServicesNext]_serviceVars => ~OnSeo'
      /\ ~OnNap /\ [ServicesNext]_serviceVars => ~OnNap'
  BY DEF ServicesNext, serviceVars
<1>3. /\ OnSeo => SeoTypeOK
      /\ OnNap => NapTypeOK
      /\ ConnectionsTypeOK /\ ModelRouterTypeOK /\ GeoTypeOK /\ EventsTypeOK
      /\ AccountsTypeOK /\ KnowledgeTypeOK /\ TurnTypeOK /\ MemoryTypeOK
      /\ LeadTypeOK /\ CrawlTypeOK /\ DeliveryTypeOK /\ EvalTypeOK
      => ServicesTypeOK
  BY DEF ServicesTypeOK
<1> HIDE DEF OnSeo, OnNap
<1>4. ServicesSpec => [](OnSeo => SeoTypeOK)
  <2>1. ServicesSpec /\ OnSeo => SeoSpec
    BY <1>1, AuditsMoveAlone, PTL DEF ServicesSpec, SeoSpec
  <2>2. ServicesSpec /\ ~OnSeo => []~OnSeo
    BY <1>2, PTL DEF ServicesSpec
  <2> QED
    BY <2>1, <2>2, SeoTypeCorrect, PTL
<1>5. ServicesSpec => [](OnNap => NapTypeOK)
  <2>1. ServicesSpec /\ OnNap => NapSpec
    BY <1>1, AuditsMoveAlone, PTL DEF ServicesSpec, NapSpec
  <2>2. ServicesSpec /\ ~OnNap => []~OnNap
    BY <1>2, PTL DEF ServicesSpec
  <2> QED
    BY <2>1, <2>2, NapTypeCorrect, PTL
<1> QED
  BY ComponentsStandAlone, ConnectionTypeCorrect, RouterTypeCorrect, GeoTypeCorrect,
     EventsTypeCorrect, AccountsTypeCorrect, KnowledgeTypeCorrect, TurnTypeCorrect,
     MemoryTypeCorrect, LeadTypeCorrect, CrawlTypeCorrect, DeliveryTypeCorrect,
     EvalTypeCorrect, <1>3, <1>4, <1>5, PTL

(* Beside the others too, a listing that follows the hints of its audit     *)
(* gets better (HintsHelp): a behaviour of another part leaves it alone.    *)
THEOREM HintsHelpBesideTheRest == ServicesSpec => HintsHelp
<1> DEFINE OnNap == part = "nap"
<1>1. /\ ServicesInit /\ OnNap => NapInit
      /\ ~OnNap /\ [ServicesNext]_serviceVars => ~OnNap'
      /\ ~OnNap /\ [ServicesNext]_serviceVars => UNCHANGED napVars
  <2>1. ~OnNap /\ ServicesNext => UNCHANGED napVars
    BY DEF ServicesNext, Others
  <2> QED
    BY <2>1, AuditsStart DEF ServicesNext, serviceVars
<1> DEFINE Still == UNCHANGED napVars
<1>2. Still => [ \A finding \in findings :
             /\ finding.kind # "annotation"
             /\ listing' = [listing EXCEPT ![finding.field] = finding.value]
             => \/ NeverRight(confirmed, finding)
                \/ /\ consistency_score(findings') >= consistency_score(findings)
                   /\ \A f \in findings' :
                         f.field = finding.field => f.kind = "annotation" ]_napVars
  OBVIOUS
<1> HIDE DEF OnNap
<1>3. ServicesSpec /\ OnNap => NapSpec
  BY <1>1, AuditsMoveAlone, PTL DEF ServicesSpec, NapSpec
<1>4. ServicesSpec /\ ~OnNap => HintsHelp
  BY <1>1, <1>2, PTL DEF ServicesSpec, HintsHelp
<1> QED
  BY <1>3, <1>4, HintsAlwaysHelp, PTL

(* Beside the others too, a draft or a site that follows its hints gets     *)
(* better with every round: five are enough for a draft that has a keyword, *)
(* and as many as it takes to name every page for a site (AdviceHelps).     *)
THEOREM AdviceHelpsBesideTheRest == ServicesSpec => AdviceHelps
<1>1. ServicesInit => AdviceInv
  <2> SUFFICES ASSUME ServicesInit PROVE AdviceInv
    OBVIOUS
  <2>1. CASE part = "seo"
    BY <2>1, AuditsStart, AdviceInvStarts
  <2>2. CASE part # "seo"
    <3>1. draftPage = Flawless /\ site = GoodSite /\ revisions = 0
      BY <2>2 DEF ServicesInit
    <3> QED
      BY <3>1, IdleAdvice
  <2> QED
    BY <2>1, <2>2
<1> QED
  BY <1>1, AuditsMoveAlone, AdviceInvIsKept, AdviceInvHelps, PTL
     DEF ServicesSpec, AdviceHelps

=============================================================================
