------------------------------ MODULE Accounts -------------------------------
(***************************************************************************)
(* Signing in and out of one account: api/auth, services/auth_service,     *)
(* core/security and core/rate_limit.  A session is a signed instant and   *)
(* nothing else; what ends it early is one column of the user's row, the   *)
(* watermark a logout raises.  A login counts against a window before its  *)
(* password is hashed and is given back when the password was right.       *)
(*                                                                         *)
(* The clock shows the running second: an instant is somewhere inside it,  *)
(* never exactly on a boundary, and many things happen within one second.  *)
(* Of the two dimensions of a limit only the email's is here: the          *)
(* address's is counted the same way and never given back.                 *)
(***************************************************************************)
EXTENDS Naturals, FiniteSets

CONSTANTS
    Logins,         \* requests to sign in, right password or not
    Logouts,        \* requests to sign out
    AttemptLimit,   \* LOGIN_RULES: attempts on one email per window
    WindowTicks,    \* and the window's length, in seconds
    HashGate,       \* PASSWORD_HASH_CONCURRENCY
    SessionAge,     \* SESSION_MAX_AGE, in seconds
    LastTick        \* bound: the clock

ASSUME AccountsAssumption ==
    /\ IsFiniteSet(Logins) /\ IsFiniteSet(Logouts)
    /\ {AttemptLimit, WindowTicks, HashGate, SessionAge, LastTick} \subseteq Nat \ {0}

VARIABLES
    tick,
    validFrom,      \* users.sessions_valid_from in seconds; 0: never logged out
    counts,         \* the shared counter and the process's own, per window
    strays,         \* history: refunds of attempts that were counted elsewhere
    wrong,          \* history: wrong passwords hashed, where and when they were counted
    login,          \* every request to sign in, and the token it got
    logout          \* every request to sign out

accountVars == <<tick, validFrom, counts, strays, wrong, login, logout>>

-----------------------------------------------------------------------------
(* Instants and tokens *)

Later(m, n) == IF m > n THEN m ELSE n

\* Faulty variant: the watermark is the second that is running.
WatermarkRoundedDown(t) == t

\* revocation_watermark rounds up, so that a token of this very second is refused.
revocation_watermark(t) == t + 1

\* session_issued_at: never a token its own watermark would refuse, hence one stamped up
\* to a second ahead.
session_issued_at(t, mark) == Later(t, mark)

session_is_revoked(issuedAt, mark) == mark # 0 /\ issuedAt < mark

\* revoke_sessions: GREATEST, so that a watermark never moves back.
greatest(stored, mark) == Later(stored, mark)

\* current_user: a signed token, young enough, not revoked.
Accepted(l) == /\ login[l].step = "in"
               /\ tick <= login[l].issuedAt + SessionAge
               /\ ~ session_is_revoked(login[l].issuedAt, validFrom)

-----------------------------------------------------------------------------
(* The limiter *)

Counters == {"shared", "local"}
Buckets == 0 .. LastTick \div WindowTicks
Bucket == tick \div WindowTicks
NoCounts == [w \in Counters |-> [b \in Buckets |-> 0]]

Bumped(w) == counts[w][Bucket] + 1
Down(n) == IF n = 0 THEN 0 ELSE n - 1

\* Faulty variant: an attempt is given back whatever its password was.
RefundsEveryAttempt(right) == TRUE

\* login: only a right password is given back.
Refunds(right) == right

-----------------------------------------------------------------------------

Unasked == [step |-> "idle", right |-> FALSE, at |-> "shared", bucket |-> 0, mark |-> 0,
            issuedAt |-> 0, minted |-> 0, ended |-> FALSE]

AccountsInit ==
    /\ tick = 1
    /\ validFrom = 0
    /\ counts = NoCounts /\ strays = NoCounts /\ wrong = NoCounts
    /\ login = [l \in Logins |-> Unasked]
    /\ logout = [o \in Logouts |-> [step |-> "idle", mark |-> 0, covers |-> {}]]

SetLogin(l, new) == login' = [login EXCEPT ![l] = new]

\* _throttle: count the attempt, on the shared counter or, while that fails, locally.
Throttle(l) ==
    /\ login[l].step = "idle"
    /\ \E w \in Counters, right \in BOOLEAN :
          /\ counts' = [counts EXCEPT ![w][Bucket] = Bumped(w)]
          /\ SetLogin(l, IF Bumped(w) > AttemptLimit THEN [Unasked EXCEPT !.step = "refused"]
                         ELSE [Unasked EXCEPT !.step = "allowed", !.right = right, !.at = w,
                                              !.bucket = Bucket])
    /\ UNCHANGED <<tick, validFrom, strays, wrong, logout>>

\* authenticate: the row is read, watermark included, then a hash waits for its turn.
LoadUser(l) ==
    /\ login[l].step = "allowed"
    /\ Cardinality({k \in Logins : login[k].step = "hashing"}) < HashGate
    /\ SetLogin(l, [login[l] EXCEPT !.step = "hashing", !.mark = validFrom])
    /\ UNCHANGED <<tick, validFrom, counts, strays, wrong, logout>>

\* verify_password_bounded returns (and an outdated hash is replaced).
Verify(l) ==
    LET now == login[l] IN
    /\ now.step = "hashing"
    /\ SetLogin(l, [now EXCEPT !.step = IF now.right THEN "verified" ELSE "failed"])
    /\ wrong' = IF now.right THEN wrong ELSE [wrong EXCEPT ![now.at][now.bucket] = @ + 1]
    /\ UNCHANGED <<tick, validFrom, counts, strays, logout>>

\* give_back: the window is recomputed, and both counters are refunded; the shared one
\* may not answer.
GiveBack(l) ==
    LET now == login[l] IN
    /\ \/ now.step = "verified"
       \/ now.step = "failed" /\ Refunds(now.right)
    /\ \E reached \in {Counters, {"local"}} :
          LET Hit(w, b) == w \in reached /\ b = Bucket /\ counts[w][b] > 0
              Stray(w, b) == Hit(w, b) /\ <<w, b>> # <<now.at, now.bucket>> IN
          /\ counts' = [w \in Counters |-> [b \in Buckets |->
                           IF Hit(w, b) THEN Down(counts[w][b]) ELSE counts[w][b]]]
          /\ strays' = [w \in Counters |-> [b \in Buckets |->
                           IF Stray(w, b) THEN strays[w][b] + 1 ELSE strays[w][b]]]
    /\ SetLogin(l, [Unasked EXCEPT !.mark = now.mark,
                       !.step = IF now.right THEN "refunded" ELSE "refused"])
    /\ UNCHANGED <<tick, validFrom, wrong, logout>>

\* _set_session_cookie, with the watermark read before the hash.
Mint(l) ==
    /\ login[l].step = "refunded"
    /\ SetLogin(l, [Unasked EXCEPT !.step = "in", !.minted = tick,
                       !.issuedAt = session_issued_at(tick, login[l].mark)])
    /\ UNCHANGED <<tick, validFrom, counts, strays, wrong, logout>>

\* logout: any correctly signed cookie that is not too old will do, a revoked one too.
BeginLogout(o) ==
    /\ logout[o].step = "idle"
    /\ \E l \in Logins : login[l].step = "in" /\ tick <= login[l].issuedAt + SessionAge
    /\ logout' = [logout EXCEPT ![o] = [step |-> "computed", mark |-> revocation_watermark(tick),
                                       covers |-> {l \in Logins : login[l].step = "in"}]]
    /\ UNCHANGED <<tick, validFrom, counts, strays, wrong, login>>

\* revoke_sessions: the update commits; from here on those sessions are over.
RevokeSessions(o) ==
    /\ logout[o].step = "computed"
    /\ validFrom' = greatest(validFrom, logout[o].mark)
    /\ login' = [l \in Logins |-> IF l \in logout[o].covers
                                  THEN [login[l] EXCEPT !.ended = TRUE] ELSE login[l]]
    /\ logout' = [logout EXCEPT ![o] = [step |-> "done", mark |-> 0, covers |-> {}]]
    /\ UNCHANGED <<tick, counts, strays, wrong>>

AccountsTick ==
    /\ tick < LastTick
    /\ tick' = tick + 1
    /\ UNCHANGED <<validFrom, counts, strays, wrong, login, logout>>

AccountsNext ==
    \/ \E l \in Logins :
          Throttle(l) \/ LoadUser(l) \/ Verify(l) \/ GiveBack(l) \/ Mint(l)
    \/ \E o \in Logouts : BeginLogout(o) \/ RevokeSessions(o)
    \/ AccountsTick

AccountsSpec == AccountsInit /\ [][AccountsNext]_accountVars

-----------------------------------------------------------------------------
(* Properties *)

AccountsTypeOK ==
    /\ tick \in 1 .. LastTick
    /\ validFrom \in Nat
    /\ {counts, strays, wrong} \subseteq [Counters -> [Buckets -> Nat]]
    /\ login \in [Logins -> [step: {"idle", "refused", "allowed", "hashing", "verified",
                                    "failed", "refunded", "in"},
                             right: BOOLEAN, at: Counters, bucket: Buckets, mark: Nat,
                             issuedAt: Nat, minted: Nat, ended: BOOLEAN]]
    /\ logout \in [Logouts -> [step: {"idle", "computed", "done"}, mark: Nat,
                               covers: SUBSET Logins]]

\* A logout ends every session that existed when it was asked for, for good, in whatever
\* order logouts and logins of the same moment commit.  The exception the code leaves is a
\* token stamped ahead of its second because it followed another logout within it.
LogoutEndsOlderSessions ==
    \A l \in Logins :
        login[l].ended => ~ Accepted(l) \/ login[l].issuedAt > login[l].minted

\* However attempts, refunds and failures of the shared counter interleave, a window lets
\* through as many wrong passwords as the limit, and one more for each refund that reached
\* it on behalf of an attempt counted in another window or by the other counter.
GuessesAreRationed ==
    \A w \in Counters, b \in Buckets : wrong[w][b] <= AttemptLimit + strays[w][b]

=============================================================================
