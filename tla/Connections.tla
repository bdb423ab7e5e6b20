----------------------------- MODULE Connections -----------------------------
(***************************************************************************)
(* One business's connection to one platform: services/connection_service, *)
(* its routes in api/connections, the state cookie of api/oauth_state, the *)
(* rows of db/adapters/connection_store and the credential read of the     *)
(* social actuator.                                                        *)
(*                                                                         *)
(* A grant is the serial number of a credential the platform issued; what  *)
(* is sealed in a row is that number.  The unique index is on the account, *)
(* and every other lookup is by platform alone with no order: with two     *)
(* accounts it may return either row.  Each operation opens one session    *)
(* per call of the store and awaits the platform in between, so each is    *)
(* several steps.                                                          *)
(***************************************************************************)
EXTENDS Naturals, FiniteSets, Sequences

CONSTANTS
    Accounts,       \* accounts of the platform the business may authorise
    Requests,       \* requests and jobs that may be in flight together
    MaxOperations,  \* bound: operations begun in all
    MaxGrants,      \* bound: credentials the platform issues
    Horizon,        \* bound: the last instant
    CookieLife,     \* instants a state cookie can be redeemed for
    GrantLife       \* instants a credential lives, when the platform says

ASSUME ConnectionsAssumption ==
    /\ IsFiniteSet(Accounts)
    /\ {MaxOperations, MaxGrants, Horizon, CookieLife, GrantLife} \subseteq Nat

VARIABLES
    clock,      \* the instant everybody reads
    grants,     \* external: every grant issued, with its account and expiry
    accounts,   \* the rows of platform_connections, one per account
    sealed,     \* grants whose envelope this process can still open
    storable,   \* does this process hold a usable cipher?
    cookie,     \* the pending authorisation in the customer's browser
    request,    \* what each request has read and where it stands
    wipes,      \* auxiliary: how often each account's credential was forgotten
    begun       \* bound: operations begun so far

connectionVars ==
    <<clock, grants, accounts, sealed, storable, cookie, request, wipes, begun>>

-----------------------------------------------------------------------------
(* Values *)

None     == 0
Grants   == 1 .. MaxGrants
Unstated == Horizon + 1           \* expires_at IS NULL: the clock never gets there

Absent   == [status |-> "absent", expires |-> Unstated, access |-> None, refresh |-> None]
ConnectionRows ==
    [status: {"absent", "connected", "expired", "revoked"}, expires: 0 .. Unstated,
     access: 0 .. MaxGrants, refresh: 0 .. MaxGrants]

NoCookie == Horizon + 1           \* else the instant the state was signed

\* How one HTTP call to a platform ends: well, with a body that lacks the token or the
\* account, refused with a code or without, rate-limited, 5xx, or not at all.
HttpAnswers == {"ok", "hollow", "gone", "refused", "limited", "down", "unreachable"}
Transient   == {"limited", "down", "unreachable"}

\* A request: the operation, its next step, the grant it saw in the row it looked at, the
\* grant it holds, when it looked, the sweep's stale rows, and how often the account of the grant it holds had been wiped when it took it.
Resting == [op |-> "rest", step |-> "rest", seen |-> None, grant |-> None, at |-> 0,
            stale |-> {}, wiped |-> 0]
ConnectionRequests ==
    [op: {"rest", "callback", "disconnect", "refresh", "sweep", "publish"},
     step: {"rest", "exchange", "save", "tell", "forget", "reveal", "renew", "expire", "mark",
            "send"},
     seen: 0 .. MaxGrants, grant: 0 .. MaxGrants, at: 0 .. Horizon,
     stale: SUBSET Accounts, wiped: 0 .. MaxOperations]

Present  == {a \in Accounts : accounts[a].status # "absent"}

\* Faulty variant: usability read from the status column, so the sweep is load-bearing.
UsableByColumn(row) == row.status = "connected" /\ row.access # None

\* ConnectionView.is_expired and unusable_reason: the clock decides, the column only adds.
is_expired(row) == row.expires <= clock
usable(row) ==
    /\ row.status = "connected"
    /\ row.access # None
    /\ ~ is_expired(row)
status_is_stale(row) == row.status = "connected" /\ is_expired(row)

-----------------------------------------------------------------------------
(* The store *)

\* save_grant: insert or update by account; everything a wipe forgot is written again.
Stored(g) == [accounts EXCEPT ![grants[g].account] =
                 [status |-> "connected", expires |-> grants[g].expires, access |-> g,
                  refresh |-> IF grants[g].renewable THEN g ELSE None]]

\* set_status on whichever row the lookup returned; then with forget_credential.
WithStatus(a, status) == [accounts EXCEPT ![a].status = status]

\* Faulty variant: the renewal credential survives the wipe.
KeepsRefresh(a) == [accounts EXCEPT ![a] = [@ EXCEPT !.status = "revoked", !.access = None]]

Forgotten(a) ==
    [accounts EXCEPT ![a] = [@ EXCEPT !.status = "revoked", !.access = None, !.refresh = None]]

\* A cipher error: the envelope exists and this process cannot open it.
Unreadable(g) == g # None /\ g \notin sealed

-----------------------------------------------------------------------------
(* Steps shared by the operations *)

ConnectionsInit ==
    /\ clock = 0
    /\ grants = << >>
    /\ accounts = [a \in Accounts |-> Absent]
    /\ sealed = {}
    /\ storable \in BOOLEAN
    /\ cookie = NoCookie
    /\ request = [r \in Requests |-> Resting]
    /\ wipes = [a \in Accounts |-> 0]
    /\ begun = 0

At(r, op, step) == request[r].op = op /\ request[r].step = step
Move(r, new) == request' = [request EXCEPT ![r] = new]
Done(r) == Move(r, Resting)

\* A request begins: its first store call is part of the same step.
Begins(r) ==
    /\ request[r] = Resting
    /\ begun < MaxOperations
    /\ begun' = begun + 1

\* External: the platform issues a grant for an account, with or without an expiry and a
\* renewal credential.
Issue(a) ==
    /\ Len(grants) < MaxGrants
    /\ \E expires \in {Unstated, clock + GrantLife}, renewable \in BOOLEAN :
          /\ expires <= Unstated
          /\ grants' = Append(grants,
                [account |-> a, expires |-> expires, renewable |-> renewable])

-----------------------------------------------------------------------------
(* Connecting *)

\* oauth_state.verify_state: signed by this server for this flow, and not too long ago.
verify_state(signed) == signed # NoCookie /\ clock - signed <= CookieLife

\* start_connect: refused without a cipher.  There is one cookie: a flow for another
\* platform overwrites it, and then this flow cannot be redeemed, as if there were none.
StartConnect ==
    /\ storable
    /\ cookie' \in {clock, NoCookie}
    /\ UNCHANGED <<clock, grants, accounts, sealed, storable, request, wipes, begun>>

\* finish_connect up to the exchange: the cookie goes on every path; the flow goes on only
\* for this platform and business, in time, with the nonce echoed and a code.
Callback(r) ==
    /\ Begins(r)
    /\ cookie' = NoCookie
    /\ \E echoed, declined \in BOOLEAN :
          IF verify_state(cookie) /\ echoed /\ ~ declined
          THEN Move(r, [Resting EXCEPT !.op = "callback", !.step = "exchange"])
          ELSE UNCHANGED request
    /\ UNCHANGED <<clock, grants, accounts, sealed, storable, wipes>>

\* complete_connect, the await: an OAuthError leaves nothing, a grant is to be saved.
Exchange(r) ==
    /\ At(r, "callback", "exchange")
    /\ \/ \E a \in Accounts :
             /\ Issue(a)
             /\ Move(r, [request[r] EXCEPT !.step = "save", !.grant = Len(grants) + 1])
       \/ Done(r) /\ UNCHANGED grants
    /\ UNCHANGED <<clock, accounts, sealed, storable, cookie, wipes, begun>>

\* save_grant for a callback or a renewal: a cipher that refuses writes no row.
SaveGrant(r) ==
    /\ request[r].step = "save"
    /\ IF storable
       THEN /\ accounts' = Stored(request[r].grant)
            /\ sealed' = sealed \cup {request[r].grant}
       ELSE UNCHANGED <<accounts, sealed>>
    /\ Done(r)
    /\ UNCHANGED <<clock, grants, storable, cookie, wipes, begun>>

-----------------------------------------------------------------------------
(* Disconnecting *)

\* revoke_connection: read the credential first.  One that cannot be read, or is not
\* there, leaves nothing to tell the platform and the wipe still follows.
Disconnect(r) ==
    /\ Begins(r)
    /\ \E a \in Present : LET g == accounts[a].access IN
          Move(r, [Resting EXCEPT !.op = "disconnect", !.seen = g, !.grant = g,
                      !.step = IF g = None \/ Unreadable(g) THEN "forget" ELSE "tell"])
    /\ UNCHANGED <<clock, grants, accounts, sealed, storable, cookie, wipes>>

\* The platform revokes or refuses: however the call ends, the wipe follows.
TellPlatform(r) ==
    /\ At(r, "disconnect", "tell")
    /\ Move(r, [request[r] EXCEPT !.step = "forget"])
    /\ UNCHANGED <<clock, grants, accounts, sealed, storable, cookie, wipes, begun>>

Forget(r) ==
    /\ At(r, "disconnect", "forget")
    /\ \E a \in Present :
          /\ accounts' = Forgotten(a)
          /\ wipes' = [wipes EXCEPT ![a] = @ + 1]
    /\ Done(r)
    /\ UNCHANGED <<clock, grants, sealed, storable, cookie, begun>>

-----------------------------------------------------------------------------
(* Renewing, sweeping and using *)

\* refresh_connection: view, then reveal_refresh in a session of its own.
Refresh(r) ==
    /\ Begins(r)
    /\ Present # {}
    /\ Move(r, [Resting EXCEPT !.op = "refresh", !.step = "reveal"])
    /\ UNCHANGED <<clock, grants, accounts, sealed, storable, cookie, wipes>>

RevealRefresh(r) ==
    /\ At(r, "refresh", "reveal")
    /\ \E a \in Present : LET g == accounts[a].refresh IN
          IF Unreadable(g) THEN Done(r)
          ELSE Move(r, [request[r] EXCEPT !.seen = accounts[a].access, !.grant = g,
                           !.wiped = wipes[a],
                           !.step = IF g = None THEN "expire" ELSE "renew"])
    /\ UNCHANGED <<clock, grants, accounts, sealed, storable, cookie, wipes, begun>>

\* A grant takes two calls, the token endpoint and the account it belongs to; the first
\* that fails decides.  (A token issued before the second fails is recorded nowhere.)
GrantAnswer(token, identity) == IF token = "ok" THEN identity ELSE token

\* _failure of both adapters.  The fake provider refuses for good: it is built anew for
\* every request and knows no earlier token.
retryable(answer) == answer \in Transient

Renew(r) ==
    /\ At(r, "refresh", "renew")
    /\ \E token, identity \in HttpAnswers : LET answer == GrantAnswer(token, identity) IN
          IF answer = "ok"
          THEN /\ Issue(grants[request[r].grant].account)
               /\ Move(r, [request[r] EXCEPT !.step = "save", !.grant = Len(grants) + 1])
          ELSE /\ IF retryable(answer) THEN Done(r)
                  ELSE Move(r, [request[r] EXCEPT !.step = "expire"])
               /\ UNCHANGED grants
    /\ UNCHANGED <<clock, accounts, sealed, storable, cookie, wipes, begun>>

\* set_status EXPIRED, unconditionally: whatever the row has become meanwhile.
ExpireRow(r) ==
    /\ At(r, "refresh", "expire")
    /\ \E a \in Present : accounts' = WithStatus(a, "expired")
    /\ Done(r)
    /\ UNCHANGED <<clock, grants, sealed, storable, cookie, wipes, begun>>

\* sweep_expired_connections (and mark_expired_if_stale): read the rows, then write each
\* stale one by its platform.
Sweep(r) ==
    /\ Begins(r)
    /\ LET stale == {a \in Present : status_is_stale(accounts[a])} IN
          /\ stale # {}
          /\ Move(r, [Resting EXCEPT !.op = "sweep", !.step = "mark", !.stale = stale])
    /\ UNCHANGED <<clock, grants, accounts, sealed, storable, cookie, wipes>>

Mark(r) ==
    /\ At(r, "sweep", "mark")
    /\ \E a \in Present, done \in request[r].stale :
          /\ accounts' = WithStatus(a, "expired")
          /\ IF request[r].stale = {done} THEN Done(r)
             ELSE Move(r, [request[r] EXCEPT !.stale = @ \ {done}])
    /\ UNCHANGED <<clock, grants, sealed, storable, cookie, wipes, begun>>

\* SocialPostActuator.perform: the view decides, the credential is read afterwards.
CheckConnection(r) ==
    /\ Begins(r)
    /\ \E a \in Present :
          IF usable(accounts[a])
          THEN Move(r, [Resting EXCEPT !.op = "publish", !.step = "reveal", !.at = clock,
                                       !.seen = accounts[a].access])
          ELSE UNCHANGED request
    /\ UNCHANGED <<clock, grants, accounts, sealed, storable, cookie, wipes>>

\* _resolve_credential: absent and unreadable are both a refusal.
RevealAccess(r) ==
    /\ At(r, "publish", "reveal")
    /\ \E a \in Present : LET g == accounts[a].access IN
          IF g = None \/ Unreadable(g) THEN Done(r)
          ELSE Move(r, [request[r] EXCEPT !.step = "send", !.grant = g])
    /\ UNCHANGED <<clock, grants, accounts, sealed, storable, cookie, wipes, begun>>

Send(r) ==
    /\ At(r, "publish", "send")
    /\ Done(r)
    /\ UNCHANGED <<clock, grants, accounts, sealed, storable, cookie, wipes, begun>>

-----------------------------------------------------------------------------
(* The environment *)

Elapse ==
    /\ clock < Horizon
    /\ clock' = clock + 1
    /\ UNCHANGED <<grants, accounts, sealed, storable, cookie, request, wipes, begun>>

\* A restart ends what was in flight.  The ephemeral vault is empty afterwards, as after a
\* rotated key; the key may have been removed or set.
Redeploy ==
    /\ request' = [r \in Requests |-> Resting]
    /\ sealed' \in {sealed, {}}
    /\ storable' \in BOOLEAN
    /\ UNCHANGED <<clock, grants, accounts, cookie, wipes, begun>>

RequestStep(r) ==
    \/ Callback(r) \/ Exchange(r) \/ SaveGrant(r)
    \/ Disconnect(r) \/ TellPlatform(r) \/ Forget(r)
    \/ Refresh(r) \/ RevealRefresh(r) \/ Renew(r) \/ ExpireRow(r)
    \/ Sweep(r) \/ Mark(r)
    \/ CheckConnection(r) \/ RevealAccess(r) \/ Send(r)

ConnectionsNext ==
    \/ StartConnect
    \/ \E r \in Requests : RequestStep(r)
    \/ Elapse
    \/ Redeploy

ConnectionsSpec == ConnectionsInit /\ [][ConnectionsNext]_connectionVars

-----------------------------------------------------------------------------
(* Properties *)

ConnectionsTypeOK ==
    /\ clock \in 0 .. Horizon
    /\ grants \in Seq([account: Accounts, expires: 0 .. Unstated, renewable: BOOLEAN])
    /\ Len(grants) <= MaxGrants
    /\ accounts \in [Accounts -> ConnectionRows]
    /\ sealed \subseteq Grants
    /\ storable \in BOOLEAN
    /\ cookie \in 0 .. NoCookie
    /\ request \in [Requests -> ConnectionRequests]
    /\ wipes \in [Accounts -> 0 .. MaxOperations]
    /\ begun \in 0 .. MaxOperations

\* An account the customer disconnected holds a credential again only because the customer
\* authorised it again, or because a renewal had taken its credential before the wipe: no
\* renewal begun afterwards can bring it back.
ForgottenStaysForgotten ==
    [][\A a \in Accounts :
          accounts[a].status = "revoked" /\ accounts[a].access = None
             /\ accounts'[a].access # None
          => \E r \in Requests :
                /\ request[r].step = "save"
                /\ request[r].op = "refresh" => request[r].wiped < wipes[a]]_connectionVars

\* What a publish sends with is a credential the clock had not ended when the publish looked,
\* or it is not the one it looked at: one stored in its place meanwhile, or the other
\* account's where the business has two.  This needs no sweep ever to have run.
SentWithALiveCredential ==
    \A r \in Requests :
        At(r, "publish", "send") =>
            \/ grants[request[r].grant].expires > request[r].at
            \/ request[r].grant # request[r].seen

=============================================================================
