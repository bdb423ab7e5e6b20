----------------------------- MODULE ModelRouter -----------------------------
(***************************************************************************)
(* llm/router: one budget shared by the model calls of a bounded fan-out   *)
(* (the probes of geo_service, or the calls of a distillation when the     *)
(* fan-out is one), the fallback chain of each call, and the operator's    *)
(* configuration (db/adapters/route_store, api/admin_models) as a resolver *)
(* holds it.                                                               *)
(*                                                                         *)
(* A router may be given a resolver and a call may be given a budget; both *)
(* are optional: `governed` and `budgeted` say which were given.           *)
(* Money is counted in units of the cheapest call.  Prompts, answers and   *)
(* models are abstracted to what routing tells apart: who serves a model,  *)
(* what it is priced at, and whether it refuses `temperature`.             *)
(***************************************************************************)
EXTENDS Naturals, FiniteSets, Sequences, Filtering

CONSTANTS
    Calls,          \* the calls of one fan-out
    Concurrency,    \* slots of its semaphore
    Limit,          \* BudgetState.limit_usd
    Surplus,        \* how far a provider's own count may pass the estimate
    MaxEdits        \* bound: changes an operator makes, and reloads of them

ASSUME ModelRouterAssumption ==
    /\ IsFiniteSet(Calls)
    /\ {Concurrency, Limit, Surplus, MaxEdits} \subseteq Nat
    /\ Concurrency > 0

VARIABLES
    credentials,    \* providers with a key in the environment
    governed,       \* was the router given a resolver?
    budgeted,       \* was the call given a budget?
    configured,     \* the rows: model_routes, provider_settings, sampling_policies
    known,          \* what the resolver last loaded of each
    loading,        \* the table a reload is about to read
    edits,          \* bound: edits and reloads so far
    localBuilt,     \* is the lazily built local adapter cached?
    spent,          \* BudgetState.spent_usd
    exhausted,      \* the fan-out's event: one call was refused
    call            \* every call

routerVars == <<credentials, governed, budgeted, configured, known, loading, edits, localBuilt,
                spent, exhausted, call>>

-----------------------------------------------------------------------------
(* The tables of the code *)

Entry(provider, model) == [provider |-> provider, model |-> model]
Hosted == {"openrouter", "anthropic"}
KEYLESS_PROVIDERS == {"ollama", "fake"}
MODELS_REJECTING_SAMPLING == {"claude-opus-5"}

\* Two hosted vendors, cheapest adequate first; the fake is the floor of every tier.
TIER_CHAINS == <<Entry("anthropic", "claude-opus-5"), Entry("openrouter", "openai/gpt-4.1")>>
FAKE_CHAINS == <<Entry("fake", "fake/strong")>>

\* The price table: an output allowance of one unit costs this much; a local model has no
\* row.  compute_usd raises for a model that has none.
PRICE_TABLE == [m \in {"claude-opus-5", "openai/gpt-4.1", "fake/strong"} |->
                   CASE m = "claude-opus-5"  -> 2
                     [] m = "openai/gpt-4.1" -> 1
                     [] OTHER                -> 0]
is_priced(model) == model \in DOMAIN PRICE_TABLE

\* What an operator may have saved: no usable chain, or a local model with a hosted fallback.
Chains == {<< >>, <<Entry("ollama", "llama3.1"), Entry("openrouter", "openai/gpt-4.1")>>}
Ceilings == {1, 2}                \* output ceiling: the adapter's default, or a raised one
Configurations == [chain: Chains, off: SUBSET (Hosted \cup {"ollama"}), address: BOOLEAN,
                   ceiling: Ceilings]
Unconfigured == [chain |-> << >>, off |-> {}, address |-> FALSE, ceiling |-> 1]

-----------------------------------------------------------------------------
(* Resolving a task *)

\* chain_for_task: an empty or wholly malformed row falls through to the default.
chain_for_task == IF governed /\ known.chain # << >> THEN known.chain ELSE TIER_CHAINS

\* build_providers: an adapter per key, the fake always; the local one once it was built.
Adapters == credentials \cup {"fake"} \cup (IF localBuilt THEN {"ollama"} ELSE {})

keyless_available ==
    IF known.address /\ "ollama" \notin known.off THEN {"ollama"} ELSE {}

routable(provider) ==
    /\ governed => provider \notin known.off
    /\ provider \in Adapters \/ (governed /\ provider \in keyless_available)

resolve ==
    LET chain == Picked(chain_for_task,
                        {i \in DOMAIN chain_for_task : routable(chain_for_task[i].provider)})
    IN  IF chain # << >> THEN chain ELSE FAKE_CHAINS

\* _provider_for: the local adapter is built on demand while its address is known.
Buildable(provider) == \/ provider \in Adapters
                       \/ provider = "ollama" /\ governed /\ known.address

max_tokens == IF governed THEN known.ceiling ELSE 1

\* estimate_usd: the model is assumed to emit its entire allowance.
estimate_usd(model, ceiling) == PRICE_TABLE[model] * ceiling

\* Faulty variant: the guard asks whether anything is left at all.
AffordsWhileAnyIsLeft(estimate) == spent <= Limit

can_afford(estimate) == estimate + spent <= Limit

-----------------------------------------------------------------------------
(* What a provider answers *)

\* How each adapter's complete() ends; "ok" carries a charge.  403 and 404 mean this model
\* only; 401, 402 and other 4xx mean the request; "unparsed" is a 200 whose tool arguments
\* are not an object, which the provider has charged for and no budget hears of.
Retryable == {"limited", "timeout", "server", "unavailable"}
Fatal     == {"rejected", "unparsed"}
AnthropicAnswers  == {"ok", "limited", "timeout", "server", "unavailable", "rejected"}
OpenRouterAnswers == AnthropicAnswers \cup {"unparsed"}
OllamaAnswers     == OpenRouterAnswers
AnswersOf(provider) == CASE provider = "anthropic"  -> AnthropicAnswers
                         [] provider = "openrouter" -> OpenRouterAnswers
                         [] provider = "ollama"     -> OllamaAnswers
                         [] OTHER                   -> {"ok"}

\* The charge of an answered call.  A local call costs nothing; a hosted one what its own
\* token count comes to, or, when it sent none, an estimate of the text alone.
ChargesOf(e, ceiling) ==
    IF e.provider \in KEYLESS_PROVIDERS THEN {0}
    ELSE 0 .. (PRICE_TABLE[e.model] * ceiling + Surplus)

-----------------------------------------------------------------------------
(* The call *)

Planned == [step |-> "planned", chain |-> << >>, at |-> 0, ceiling |-> 1]

InFlight == {c \in Calls : call[c].step = "awaiting"}

\* The synchronous stretch of complete() up to the next await: the adapter, then the guard.
\* An unpriced model raises where the guard asks for an estimate, so nothing local is ever
\* reached under a budget.
Attempt(chain, i, ceiling) ==
    LET Ends(how) == [step |-> how, chain |-> chain, at |-> i, ceiling |-> ceiling] IN
    IF i > Len(chain) \/ ~ Buildable(chain[i].provider)
    THEN Ends("failed")
    ELSE IF ~ budgeted THEN Ends("awaiting")
    ELSE IF ~ is_priced(chain[i].model) THEN Ends("failed")
    ELSE IF can_afford(estimate_usd(chain[i].model, ceiling)) THEN Ends("awaiting")
    ELSE Ends("refused")

Settle(c, new) ==
    /\ call' = [call EXCEPT ![c] = new]
    /\ exhausted' = (exhausted \/ new.step = "refused")
    /\ localBuilt' = (localBuilt \/ \E i \in 1 .. Len(new.chain) :
                         i <= new.at /\ new.chain[i].provider = "ollama"
                            /\ Buildable("ollama"))

ModelRouterInit ==
    /\ credentials \in SUBSET Hosted
    /\ governed \in BOOLEAN
    /\ budgeted \in BOOLEAN
    /\ configured = Unconfigured
    /\ known = Unconfigured
    /\ loading = "routes"
    /\ edits = 0
    /\ localBuilt = FALSE
    /\ spent = 0
    /\ exhausted = FALSE
    /\ call = [c \in Calls |-> Planned]

\* probe(): take a slot; once one call was refused the rest are not worth asking.
Probe(c) ==
    /\ call[c].step = "planned"
    /\ Cardinality(InFlight) < Concurrency
    /\ IF exhausted THEN Settle(c, [Planned EXCEPT !.step = "skipped"])
       ELSE Settle(c, Attempt(resolve, 1, max_tokens))
    /\ UNCHANGED <<credentials, governed, budgeted, configured, known, loading, edits, spent>>

\* complete() after the await: book the usage, fall back, or raise straight through.
Answer(c) ==
    /\ call[c].step = "awaiting"
    /\ LET now == call[c]
           e == now.chain[now.at] IN
       \E answer \in AnswersOf(e.provider) :
          IF answer = "ok"
          THEN /\ \E charge \in ChargesOf(e, now.ceiling) :
                     spent' = IF budgeted THEN spent + charge ELSE spent
               /\ Settle(c, [now EXCEPT !.step = "answered"])
          ELSE /\ Settle(c, IF answer \in Retryable THEN Attempt(now.chain, now.at + 1, now.ceiling)
                          ELSE [now EXCEPT !.step = "failed"])
               /\ UNCHANGED spent
    /\ UNCHANGED <<credentials, governed, budgeted, configured, known, loading, edits>>

-----------------------------------------------------------------------------
(* The operator *)

Edit(new) ==
    /\ governed
    /\ edits < MaxEdits
    /\ edits' = edits + 1
    /\ configured' = new
    /\ UNCHANGED <<credentials, governed, budgeted, known, loading, localBuilt, spent, exhausted,
                   call>>

\* set_route and clear_route: an empty chain deletes the row, which is the same as none.
SetRoute == \E chain \in Chains : Edit([configured EXCEPT !.chain = chain])

\* set_provider: one upsert, the switch and the address together.
SetProvider == \E p \in Hosted \cup {"ollama"}, enabled, address \in BOOLEAN :
    Edit([configured EXCEPT !.off = IF enabled THEN @ \ {p} ELSE @ \cup {p},
                            !.address = IF p = "ollama" THEN address ELSE @])

\* set_sampling and clear_sampling.
SetSampling == \E ceiling \in Ceilings : Edit([configured EXCEPT !.ceiling = ceiling])

\* refresh: three awaited reads, each assigned when it returns.
Reload ==
    /\ governed
    /\ edits < MaxEdits
    /\ CASE loading = "routes" ->
              known' = [known EXCEPT !.chain = configured.chain] /\ loading' = "providers"
         [] loading = "providers" ->
              /\ known' = [known EXCEPT !.off = configured.off, !.address = configured.address]
              /\ loading' = "sampling"
         [] OTHER ->
              known' = [known EXCEPT !.ceiling = configured.ceiling] /\ loading' = "routes"
    /\ edits' = IF loading = "sampling" THEN edits + 1 ELSE edits
    /\ UNCHANGED <<credentials, governed, budgeted, configured, localBuilt, spent, exhausted,
                   call>>

ModelRouterNext ==
    \/ \E c \in Calls : Probe(c) \/ Answer(c)
    \/ SetRoute
    \/ SetProvider
    \/ SetSampling
    \/ Reload

ModelRouterSpec == ModelRouterInit /\ [][ModelRouterNext]_routerVars

-----------------------------------------------------------------------------
(* Properties *)

ModelRouterTypeOK ==
    /\ credentials \subseteq Hosted
    /\ {governed, budgeted} \subseteq BOOLEAN
    /\ configured \in Configurations
    /\ known \in Configurations
    /\ loading \in {"routes", "providers", "sampling"}
    /\ edits \in 0 .. MaxEdits
    /\ localBuilt \in BOOLEAN
    /\ spent \in Nat
    /\ exhausted \in BOOLEAN
    /\ DOMAIN call = Calls
    /\ \A c \in Calls :
          /\ call[c].step \in {"planned", "awaiting", "answered", "failed", "refused", "skipped"}
          /\ call[c].ceiling \in Ceilings
          /\ call[c].at \in 0 .. Len(call[c].chain) + 1

Affordable == {estimate_usd(m, n) : m \in DOMAIN PRICE_TABLE, n \in Ceilings} \cap 0 .. Limit
DearestEstimate == CHOOSE e \in Affordable : \A f \in Affordable : f <= e

\* The ceiling holds to within one batch: calls that passed the guard together may each
\* cost what the guard priced, beyond the last one that fitted, and each may cost what the
\* provider's count adds.  Whatever a reload changes between a call's guard and its answer,
\* and however often a chain falls back, there is no more.
OvershootIsOneBatch ==
    spent <= Limit + (Concurrency - 1) * DearestEstimate + Concurrency * Surplus

=============================================================================
