---------------------------- MODULE Accounts_proofs ----------------------------
(***************************************************************************)
(* What signing in and out, and connecting a platform, promise for every   *)
(* number of requests, every limit and every clock, proved.                *)
(*                                                                         *)
(* Sessions: a logout raises the watermark above the second in which the   *)
(* sessions it covers were minted, and the watermark never moves back.     *)
(* Guesses: an attempt that was let through and not yet judged is a wrong  *)
(* password to come, so those are counted together, against the counter    *)
(* as far as the limit, and against the refunds that strayed.              *)
(* Connections: the credentials of a row are of its own account, and a     *)
(* revoked row holds none.                                                 *)
(***************************************************************************)
EXTENDS Accounts, Connections, FiniteSetTheorems, SequenceTheorems, TLAPS

Tables == [Counters -> [Buckets -> Nat]]
Steps  == {"idle", "refused", "allowed", "hashing", "verified", "failed", "refunded", "in"}
Tokens == [step: Steps, right: BOOLEAN, at: Counters, bucket: Buckets, mark: Nat,
           issuedAt: Nat, minted: Nat, ended: BOOLEAN]
Orders == [step: {"idle", "computed", "done"}, mark: Nat, covers: SUBSET Logins]

AccountsTypes ==
    /\ tick \in 1 .. LastTick
    /\ validFrom \in Nat
    /\ counts \in Tables /\ strays \in Tables /\ wrong \in Tables
    /\ login \in [Logins -> Tokens]
    /\ logout \in [Logouts -> Orders]

\* Every token was minted by now, and a logout under way will raise the watermark above the
\* sessions it covers, which stay the sessions they are.
MintedByNow == \A l \in Logins : login[l].minted <= tick

CoversOlder ==
    \A o \in Logouts : logout[o].step = "computed" =>
        \A l \in logout[o].covers : login[l].step = "in" /\ login[l].minted < logout[o].mark

EndedIsBelow ==
    \A l \in Logins : login[l].ended => login[l].step = "in" /\ login[l].minted < validFrom

SessionsInv == MintedByNow /\ CoversOlder /\ EndedIsBelow

\* The attempts let through on a window whose password is still to be judged or refunded.
Pending(w, b) == {l \in Logins : /\ login[l].step \in {"allowed", "hashing", "verified"}
                                 /\ login[l].at = w /\ login[l].bucket = b}

Least(m, n) == IF m < n THEN m ELSE n

\* A password that failed was wrong: nothing that was judged right is judged again.
FailedWasWrong == \A l \in Logins : login[l].step = "failed" => ~ login[l].right

\* Every wrong password and every pending attempt is in the counter, below the limit.
GuessesInv ==
    \A w \in Counters, b \in Buckets :
        wrong[w][b] + Cardinality(Pending(w, b)) <= Least(counts[w][b], AttemptLimit) + strays[w][b]

-----------------------------------------------------------------------------

(* The window of any instant of the clock is one of the table's.            *)
LEMMA BucketType == ASSUME tick \in 1 .. LastTick PROVE Bucket \in Buckets
<1>1. LastTick \in Nat \ {0} /\ WindowTicks \in Nat \ {0}
  BY AccountsAssumption
<1>2. tick \div WindowTicks \in Nat /\ LastTick \div WindowTicks \in Nat
  BY <1>1
<1>3. tick \div WindowTicks <= LastTick \div WindowTicks
  BY <1>1
<1> QED
  BY <1>2, <1>3 DEF Bucket, Buckets

(* So is the first.                                                         *)
LEMMA FirstBucket == 0 \in Buckets /\ LastTick \in Nat \ {0}
<1>1. LastTick \in Nat \ {0} /\ WindowTicks \in Nat \ {0}
  BY AccountsAssumption
<1> QED
  BY <1>1 DEF Buckets

(* The initial state has its types.                                         *)
LEMMA AccountsTypesInit == AccountsInit => AccountsTypes
<1> SUFFICES ASSUME AccountsInit PROVE AccountsTypes
  OBVIOUS
<1>1. 0 \in Buckets /\ LastTick \in Nat \ {0}
  BY FirstBucket
<1>2. Unasked \in Tokens
  BY <1>1 DEF Unasked, Tokens, Steps, Counters
<1>3. NoCounts \in Tables
  BY DEF NoCounts, Tables
<1> QED
  BY <1>1, <1>2, <1>3 DEF AccountsInit, AccountsTypes, Orders

(* Every step keeps the types.                                              *)
LEMMA AccountsTypesStep == AccountsTypes /\ [AccountsNext]_accountVars => AccountsTypes'
<1> SUFFICES ASSUME AccountsTypes, [AccountsNext]_accountVars PROVE AccountsTypes'
  OBVIOUS
<1> USE DEF AccountsTypes
<1>a. Bucket \in Buckets
  BY BucketType
<1>b. 0 \in Buckets
  BY FirstBucket
<1>c. Unasked \in Tokens
  BY <1>b DEF Unasked, Tokens, Steps, Counters
<1>1. ASSUME NEW l \in Logins, Throttle(l) PROVE AccountsTypes'
  <2>1. PICK w \in Counters, right \in BOOLEAN :
          /\ counts' = [counts EXCEPT ![w][Bucket] = Bumped(w)]
          /\ SetLogin(l, IF Bumped(w) > AttemptLimit THEN [Unasked EXCEPT !.step = "refused"]
                         ELSE [Unasked EXCEPT !.step = "allowed", !.right = right, !.at = w,
                                              !.bucket = Bucket])
    BY <1>1 DEF Throttle
  <2>2. Bumped(w) \in Nat
    BY <1>a DEF Bumped, Tables
  <2>3. counts' \in Tables
    BY <2>1, <2>2, <1>a DEF Tables
  <2>4. login' \in [Logins -> Tokens]
    BY <2>1, <1>a, <1>c DEF SetLogin, Tokens, Steps, Unasked
  <2> QED
    BY <1>1, <2>3, <2>4 DEF Throttle
<1>2. ASSUME NEW l \in Logins, LoadUser(l) PROVE AccountsTypes'
  <2> DEFINE new == [login[l] EXCEPT !.step = "hashing", !.mark = validFrom]
  <2>1. login' = [login EXCEPT ![l] = new]
    BY <1>2 DEF LoadUser, SetLogin
  <2>2. new \in Tokens
    BY DEF Tokens, Steps
  <2> HIDE DEF new
  <2>3. login' \in [Logins -> Tokens]
    BY <2>1, <2>2
  <2> QED
    BY <1>2, <2>3 DEF LoadUser
<1>3. ASSUME NEW l \in Logins, Verify(l) PROVE AccountsTypes'
  <2>1. login' \in [Logins -> Tokens]
    BY <1>3 DEF Verify, SetLogin, Tokens, Steps
  <2>2. login[l].at \in Counters /\ login[l].bucket \in Buckets
    BY DEF Tokens
  <2>3. wrong' \in Tables
    BY <1>3, <2>2 DEF Verify, Tables
  <2> QED
    BY <1>3, <2>1, <2>3 DEF Verify
<1>4. ASSUME NEW l \in Logins, GiveBack(l) PROVE AccountsTypes'
  <2>1. counts' \in Tables /\ strays' \in Tables
    BY <1>4, <1>a DEF GiveBack, Tables, Down
  <2>2. login[l].mark \in Nat /\ login[l].right \in BOOLEAN
    BY DEF Tokens
  <2>3. login' \in [Logins -> Tokens]
    BY <1>4, <1>c, <2>2 DEF GiveBack, SetLogin, Tokens, Steps, Unasked
  <2> QED
    BY <1>4, <2>1, <2>3 DEF GiveBack
<1>5. ASSUME NEW l \in Logins, Mint(l) PROVE AccountsTypes'
  <2>1. tick \in Nat /\ login[l].mark \in Nat
    BY AccountsAssumption DEF Tokens
  <2>2. session_issued_at(tick, login[l].mark) \in Nat
    BY <2>1 DEF session_issued_at, Later
  <2>3. login' \in [Logins -> Tokens]
    BY <1>5, <1>c, <2>1, <2>2 DEF Mint, SetLogin, Tokens, Steps, Unasked
  <2> QED
    BY <1>5, <2>3 DEF Mint
<1>6. ASSUME NEW o \in Logouts, BeginLogout(o) PROVE AccountsTypes'
  <2>1. revocation_watermark(tick) \in Nat
    BY AccountsAssumption DEF revocation_watermark
  <2> QED
    BY <1>6, <2>1 DEF BeginLogout, Orders
<1>7. ASSUME NEW o \in Logouts, RevokeSessions(o) PROVE AccountsTypes'
  <2>1. logout[o].mark \in Nat
    BY DEF Orders
  <2>2. validFrom' \in Nat
    BY <1>7, <2>1 DEF RevokeSessions, greatest, Later
  <2>3. login' \in [Logins -> Tokens]
    BY <1>7 DEF RevokeSessions, Tokens
  <2> QED
    BY <1>7, <2>2, <2>3 DEF RevokeSessions, Orders
<1>8. CASE AccountsTick
  BY <1>8, AccountsAssumption DEF AccountsTick
<1>9. CASE UNCHANGED accountVars
  BY <1>9 DEF accountVars
<1> QED
  BY <1>1, <1>2, <1>3, <1>4, <1>5, <1>6, <1>7, <1>8, <1>9 DEF AccountsNext

-----------------------------------------------------------------------------
(* Sessions *)

(* No session exists, so none has to be over: the initial state.            *)
LEMMA SessionsInvInit == AccountsInit => SessionsInv
BY DEF AccountsInit, SessionsInv, MintedByNow, CoversOlder, EndedIsBelow, Unasked

(* Sessions end in the order of the clock, whatever step is taken.          *)
LEMMA SessionsInvStep ==
    AccountsTypes /\ SessionsInv /\ [AccountsNext]_accountVars => SessionsInv'
<1> SUFFICES ASSUME AccountsTypes, SessionsInv, [AccountsNext]_accountVars PROVE SessionsInv'
  OBVIOUS
<1> USE DEF SessionsInv, MintedByNow, CoversOlder, EndedIsBelow
<1>a. tick \in Nat /\ tick >= 1 /\ validFrom \in Nat
  BY AccountsAssumption DEF AccountsTypes
<1>b. login \in [Logins -> Tokens] /\ logout \in [Logouts -> Orders]
  BY DEF AccountsTypes
<1>c. \A l \in Logins : login[l].minted \in Nat
  BY <1>b DEF Tokens
<1>1. ASSUME NEW l \in Logins,
             login[l].step # "in",
             NEW new, new.minted = 0 \/ new.minted = login[l].minted \/ new.minted = tick,
             new.ended = FALSE \/ new.ended = login[l].ended,
             login' = [login EXCEPT ![l] = new],
             UNCHANGED <<tick, validFrom, logout>>
      PROVE SessionsInv'
  <2>1. \A k \in Logins : login'[k] = IF k = l THEN new ELSE login[k]
    BY <1>1, <1>b
  <2>2. MintedByNow'
    BY <1>1, <1>a, <1>c, <2>1
  <2>3. ~ login[l].ended
    BY <1>1
  <2>4. EndedIsBelow'
    BY <1>1, <2>1, <2>3
  <2>5. \A o \in Logouts : logout[o].step = "computed" => l \notin logout[o].covers
    BY <1>1
  <2>6. CoversOlder'
    <3> SUFFICES ASSUME NEW o \in Logouts, logout[o].step = "computed",
                        NEW k \in logout[o].covers
                 PROVE  login'[k].step = "in" /\ login'[k].minted < logout[o].mark
      BY <1>1
    <3>1. k \in Logins /\ k # l
      BY <1>b, <2>5 DEF Orders
    <3> QED
      BY <2>1, <3>1
  <2> QED
    BY <2>2, <2>4, <2>6
<1>2. ASSUME NEW l \in Logins, Throttle(l) PROVE SessionsInv'
  BY <1>1, <1>2 DEF Throttle, SetLogin, Unasked
<1>3. ASSUME NEW l \in Logins, LoadUser(l) PROVE SessionsInv'
  <2>1. login[l].minted = [login[l] EXCEPT !.step = "hashing", !.mark = validFrom].minted
        /\ login[l].ended = [login[l] EXCEPT !.step = "hashing", !.mark = validFrom].ended
    BY <1>b DEF Tokens
  <2> QED
    BY <1>1, <1>3, <2>1 DEF LoadUser, SetLogin
<1>4. ASSUME NEW l \in Logins, Verify(l) PROVE SessionsInv'
  <2> DEFINE new == [login[l] EXCEPT !.step = IF login[l].right THEN "verified" ELSE "failed"]
  <2>1. new.minted = login[l].minted /\ new.ended = login[l].ended
    BY <1>b DEF Tokens
  <2>2. /\ login[l].step # "in" /\ login' = [login EXCEPT ![l] = new]
        /\ UNCHANGED <<tick, validFrom, logout>>
    BY <1>4 DEF Verify, SetLogin
  <2> QED
    BY <1>1, <2>1, <2>2
<1>5. ASSUME NEW l \in Logins, GiveBack(l) PROVE SessionsInv'
  <2> DEFINE new == [Unasked EXCEPT !.mark = login[l].mark,
                        !.step = IF login[l].right THEN "refunded" ELSE "refused"]
  <2>1. new.minted = 0 /\ new.ended = FALSE
    BY DEF Unasked
  <2>2. /\ login[l].step # "in" /\ login' = [login EXCEPT ![l] = new]
        /\ UNCHANGED <<tick, validFrom, logout>>
    BY <1>5 DEF GiveBack, SetLogin
  <2> QED
    BY <1>1, <2>1, <2>2
<1>6. ASSUME NEW l \in Logins, Mint(l) PROVE SessionsInv'
  <2> DEFINE new == [Unasked EXCEPT !.step = "in", !.minted = tick,
                        !.issuedAt = session_issued_at(tick, login[l].mark)]
  <2>1. new.minted = tick /\ new.ended = FALSE
    BY DEF Unasked
  <2>2. /\ login[l].step # "in" /\ login' = [login EXCEPT ![l] = new]
        /\ UNCHANGED <<tick, validFrom, logout>>
    BY <1>6 DEF Mint, SetLogin
  <2> QED
    BY <1>1, <2>1, <2>2
<1>7. ASSUME NEW o \in Logouts, BeginLogout(o) PROVE SessionsInv'
  <2> DEFINE signedIn == {k \in Logins : login[k].step = "in"}
  <2>1. /\ logout'[o].covers = signedIn /\ logout'[o].mark = tick + 1
        /\ \A p \in Logouts : p # o => logout'[p] = logout[p]
    <3>1. logout' = [logout EXCEPT ![o] = [step |-> "computed", mark |-> tick + 1,
                                           covers |-> signedIn]]
      BY <1>7 DEF BeginLogout, revocation_watermark
    <3> HIDE DEF signedIn
    <3> QED
      BY <1>b, <3>1
  <2>2. \A l \in Logins : login[l].minted < tick + 1
    BY <1>a, <1>c
  <2>3. UNCHANGED <<login, tick, validFrom>>
    BY <1>7 DEF BeginLogout
  <2>4. CoversOlder'
    <3> SUFFICES ASSUME NEW p \in Logouts, logout'[p].step = "computed",
                        NEW l \in logout'[p].covers
                 PROVE  login[l].step = "in" /\ login[l].minted < logout'[p].mark
      BY <2>3
    <3>1. CASE p = o
      <4>1. l \in signedIn /\ logout'[p].mark = tick + 1
        BY <2>1, <3>1
      <4> QED
        BY <2>2, <4>1
    <3>2. CASE p # o
      BY <2>1, <3>2
    <3> QED
      BY <3>1, <3>2
  <2> QED
    BY <2>3, <2>4
<1>8. ASSUME NEW o \in Logouts, RevokeSessions(o) PROVE SessionsInv'
  <2>1. \A l \in Logins :
            /\ login'[l].step = login[l].step /\ login'[l].minted = login[l].minted
            /\ login'[l].ended = (l \in logout[o].covers \/ login[l].ended)
    <3>1. login' = [l \in Logins |-> IF l \in logout[o].covers
                                     THEN [login[l] EXCEPT !.ended = TRUE] ELSE login[l]]
      BY <1>8 DEF RevokeSessions
    <3> SUFFICES ASSUME NEW l \in Logins
                 PROVE  /\ login'[l].step = login[l].step /\ login'[l].minted = login[l].minted
                        /\ login'[l].ended = (l \in logout[o].covers \/ login[l].ended)
      OBVIOUS
    <3>2. login[l] \in Tokens
      BY <1>b
    <3>3. CASE l \in logout[o].covers
      <4>1. login'[l] = [login[l] EXCEPT !.ended = TRUE]
        BY <3>1, <3>3
      <4>2. /\ login'[l].step = login[l].step /\ login'[l].minted = login[l].minted
            /\ login'[l].ended = TRUE
        BY <3>2, <4>1 DEF Tokens
      <4> QED
        BY <3>3, <4>2
    <3>4. CASE l \notin logout[o].covers
      <4>1. login'[l] = login[l] /\ login[l].ended \in BOOLEAN
        BY <3>1, <3>2, <3>4 DEF Tokens
      <4> QED
        BY <3>4, <4>1
    <3> QED
      BY <3>3, <3>4
  <2>2. /\ logout[o].step = "computed" /\ logout[o].mark \in Nat
        /\ validFrom' = IF validFrom > logout[o].mark THEN validFrom ELSE logout[o].mark
    BY <1>8, <1>b DEF RevokeSessions, greatest, Later, Orders
  <2>3. validFrom' \in Nat /\ validFrom' >= validFrom /\ validFrom' >= logout[o].mark
    BY <1>a, <2>2
  <2>4. EndedIsBelow'
    <3> SUFFICES ASSUME NEW l \in Logins, login'[l].ended
                 PROVE  login[l].step = "in" /\ login[l].minted < validFrom'
      BY <2>1
    <3>1. CASE l \in logout[o].covers
      <4>1. login[l].step = "in" /\ login[l].minted < logout[o].mark
        BY <2>2, <3>1
      <4> QED
        BY <1>c, <2>2, <2>3, <4>1
    <3>2. CASE l \notin logout[o].covers
      <4>1. login[l].step = "in" /\ login[l].minted < validFrom
        BY <2>1, <3>2
      <4> QED
        BY <1>a, <1>c, <2>3, <4>1
    <3> QED
      BY <3>1, <3>2
  <2>5. \A p \in Logouts : logout'[p].step = "computed" => logout'[p] = logout[p]
    BY <1>8, <1>b DEF RevokeSessions
  <2>6. CoversOlder'
    <3> SUFFICES ASSUME NEW p \in Logouts, logout'[p].step = "computed",
                        NEW l \in logout'[p].covers
                 PROVE  login'[l].step = "in" /\ login'[l].minted < logout'[p].mark
      OBVIOUS
    <3>1. logout'[p] = logout[p] /\ l \in logout[p].covers /\ l \in Logins
      BY <1>b, <2>5 DEF Orders
    <3>2. login[l].step = "in" /\ login[l].minted < logout[p].mark
      BY <3>1
    <3> QED
      BY <2>1, <3>1, <3>2
  <2>7. MintedByNow'
    BY <1>8, <2>1 DEF RevokeSessions
  <2> QED
    BY <2>4, <2>6, <2>7
<1>9. CASE AccountsTick
  BY <1>9, <1>a, <1>c DEF AccountsTick
<1>10. CASE UNCHANGED accountVars
  BY <1>10 DEF accountVars
<1> QED
  BY <1>2, <1>3, <1>4, <1>5, <1>6, <1>7, <1>8, <1>9, <1>10 DEF AccountsNext

(* A token minted below the watermark, and not stamped ahead, is refused.   *)
LEMMA EndedIsRefused == AccountsTypes /\ SessionsInv => LogoutEndsOlderSessions
<1> SUFFICES ASSUME AccountsTypes, SessionsInv, NEW l \in Logins, login[l].ended,
                    ~ (login[l].issuedAt > login[l].minted)
             PROVE  ~ Accepted(l)
  BY DEF LogoutEndsOlderSessions
<1>1. login[l].minted \in Nat /\ login[l].issuedAt \in Nat /\ validFrom \in Nat
  BY DEF AccountsTypes, Tokens
<1>2. login[l].minted < validFrom
  BY DEF SessionsInv, EndedIsBelow
<1> QED
  BY <1>1, <1>2 DEF Accepted, session_is_revoked

-----------------------------------------------------------------------------
(* Guesses *)

(* No attempt was made, and none is pending: the initial state.             *)
LEMMA GuessesInvInit == AccountsInit => GuessesInv
<1> SUFFICES ASSUME AccountsInit, NEW w \in Counters, NEW b \in Buckets
             PROVE  wrong[w][b] + Cardinality(Pending(w, b))
                        <= Least(counts[w][b], AttemptLimit) + strays[w][b]
  BY DEF GuessesInv
<1>1. Pending(w, b) = {}
  BY DEF AccountsInit, Pending, Unasked
<1>2. Cardinality(Pending(w, b)) = 0
  BY <1>1, FS_EmptySet
<1>3. counts[w][b] = 0 /\ strays[w][b] = 0 /\ wrong[w][b] = 0
  BY DEF AccountsInit, NoCounts
<1>4. AttemptLimit \in Nat \ {0}
  BY AccountsAssumption
<1> QED
  BY <1>2, <1>3, <1>4 DEF Least

(* A failed password was a wrong one: initially nothing failed.             *)
LEMMA FailedWasWrongInit == AccountsInit => FailedWasWrong
BY DEF AccountsInit, FailedWasWrong, Unasked

(* ... and no step makes a failure of a right one.                          *)
LEMMA FailedWasWrongStep ==
    AccountsTypes /\ FailedWasWrong /\ [AccountsNext]_accountVars => FailedWasWrong'
<1> SUFFICES ASSUME AccountsTypes, FailedWasWrong, [AccountsNext]_accountVars
             PROVE  FailedWasWrong'
  OBVIOUS
<1> USE DEF FailedWasWrong
<1>a. login \in [Logins -> Tokens]
  BY DEF AccountsTypes
<1>0. ASSUME NEW l \in Logins, \A k \in Logins \ {l} : login'[k] = login[k],
             login'[l].step = "failed" => ~ login'[l].right
      PROVE  FailedWasWrong'
  BY <1>0
<1>1. ASSUME NEW l \in Logins, Throttle(l) PROVE FailedWasWrong'
  <2>1. PICK v \in Counters, right \in BOOLEAN :
          SetLogin(l, IF Bumped(v) > AttemptLimit THEN [Unasked EXCEPT !.step = "refused"]
                      ELSE [Unasked EXCEPT !.step = "allowed", !.right = right, !.at = v,
                                           !.bucket = Bucket])
    BY <1>1 DEF Throttle
  <2>2. \/ login' = [login EXCEPT ![l] = [Unasked EXCEPT !.step = "refused"]]
        \/ login' = [login EXCEPT ![l] = [Unasked EXCEPT !.step = "allowed", !.right = right,
                                             !.at = v, !.bucket = Bucket]]
    BY <2>1 DEF SetLogin
  <2>3. login'[l].step # "failed"
    BY <1>a, <2>2 DEF Unasked
  <2> QED
    BY <1>0, <1>a, <2>2, <2>3
<1>2. ASSUME NEW l \in Logins, LoadUser(l) PROVE FailedWasWrong'
  BY <1>2, <1>a DEF LoadUser, SetLogin, Tokens
<1>3. ASSUME NEW l \in Logins, Verify(l) PROVE FailedWasWrong'
  <2>1. /\ \A k \in Logins \ {l} : login'[k] = login[k]
        /\ login'[l] = [login[l] EXCEPT !.step = IF login[l].right THEN "verified" ELSE "failed"]
    BY <1>3, <1>a DEF Verify, SetLogin
  <2>2. /\ login'[l].step = (IF login[l].right THEN "verified" ELSE "failed")
        /\ login'[l].right = login[l].right
    BY <1>a, <2>1 DEF Tokens
  <2> QED
    BY <1>0, <2>1, <2>2
<1>4. ASSUME NEW l \in Logins, GiveBack(l) PROVE FailedWasWrong'
  <2>1. /\ \A k \in Logins \ {l} : login'[k] = login[k]
        /\ login'[l] = [Unasked EXCEPT !.mark = login[l].mark,
                          !.step = IF login[l].right THEN "refunded" ELSE "refused"]
    BY <1>4, <1>a DEF GiveBack, SetLogin
  <2>2. login'[l].step = IF login[l].right THEN "refunded" ELSE "refused"
    BY <2>1 DEF Unasked
  <2> QED
    BY <1>0, <2>1, <2>2
<1>5. ASSUME NEW l \in Logins, Mint(l) PROVE FailedWasWrong'
  <2>1. /\ \A k \in Logins \ {l} : login'[k] = login[k]
        /\ login'[l] = [Unasked EXCEPT !.step = "in", !.minted = tick,
                          !.issuedAt = session_issued_at(tick, login[l].mark)]
    BY <1>5, <1>a DEF Mint, SetLogin
  <2>2. login'[l].step = "in"
    BY <2>1 DEF Unasked
  <2> QED
    BY <1>0, <2>1, <2>2
<1>6. ASSUME NEW o \in Logouts, BeginLogout(o) PROVE FailedWasWrong'
  BY <1>6 DEF BeginLogout
<1>7. ASSUME NEW o \in Logouts, RevokeSessions(o) PROVE FailedWasWrong'
  BY <1>7, <1>a DEF RevokeSessions, Tokens
<1>8. CASE AccountsTick
  BY <1>8 DEF AccountsTick
<1>9. CASE UNCHANGED accountVars
  BY <1>9 DEF accountVars
<1> QED
  BY <1>1, <1>2, <1>3, <1>4, <1>5, <1>6, <1>7, <1>8, <1>9 DEF AccountsNext

(* What is pending is finite.                                               *)
LEMMA PendingFinite ==
    ASSUME NEW w, NEW b
    PROVE  IsFiniteSet(Pending(w, b)) /\ Cardinality(Pending(w, b)) \in Nat
<1>1. Pending(w, b) \subseteq Logins /\ IsFiniteSet(Logins)
  BY AccountsAssumption DEF Pending
<1>2. IsFiniteSet(Pending(w, b))
  BY <1>1, FS_Subset
<1> QED
  BY <1>2, FS_CardinalityType

(* A request that changes only itself changes only what it is pending on.   *)
LEMMA OnlyItselfMoves ==
    ASSUME NEW l \in Logins, \A k \in Logins \ {l} : login'[k] = login[k],
           NEW w \in Counters, NEW b \in Buckets
    PROVE  /\ \A k : k # l => (k \in Pending(w, b)' <=> k \in Pending(w, b))
           /\ l \in Pending(w, b)' <=> /\ login'[l].step \in {"allowed", "hashing", "verified"}
                                       /\ login'[l].at = w /\ login'[l].bucket = b
BY DEF Pending

(* Every step keeps the sum of wrong and pending below the counter.         *)
LEMMA GuessesInvStep ==
    AccountsTypes /\ FailedWasWrong /\ GuessesInv /\ [AccountsNext]_accountVars => GuessesInv'
<1> SUFFICES ASSUME AccountsTypes, FailedWasWrong, GuessesInv, [AccountsNext]_accountVars,
                    NEW w \in Counters, NEW b \in Buckets
             PROVE  wrong'[w][b] + Cardinality(Pending(w, b)')
                        <= Least(counts'[w][b], AttemptLimit) + strays'[w][b]
  BY DEF GuessesInv
<1> DEFINE P == Pending(w, b)
           n == Cardinality(P)
<1>a. /\ counts[w][b] \in Nat /\ strays[w][b] \in Nat /\ wrong[w][b] \in Nat
      /\ AttemptLimit \in Nat \ {0}
  BY AccountsAssumption DEF AccountsTypes, Tables
<1>b. wrong[w][b] + n <= Least(counts[w][b], AttemptLimit) + strays[w][b]
  BY DEF GuessesInv
<1>c. IsFiniteSet(P) /\ n \in Nat
  BY PendingFinite
<1>d. login \in [Logins -> Tokens]
  BY DEF AccountsTypes
<1>e. counts \in Tables /\ strays \in Tables /\ wrong \in Tables
  BY DEF AccountsTypes
<1>0. ASSUME P' = P, UNCHANGED <<counts, strays, wrong>>
      PROVE  wrong'[w][b] + Cardinality(P') <= Least(counts'[w][b], AttemptLimit) + strays'[w][b]
  BY <1>0, <1>b
<1>1. ASSUME NEW l \in Logins, Throttle(l)
      PROVE  wrong'[w][b] + Cardinality(P') <= Least(counts'[w][b], AttemptLimit) + strays'[w][b]
  <2>1. PICK v \in Counters, right \in BOOLEAN :
          /\ counts' = [counts EXCEPT ![v][Bucket] = Bumped(v)]
          /\ SetLogin(l, IF Bumped(v) > AttemptLimit THEN [Unasked EXCEPT !.step = "refused"]
                         ELSE [Unasked EXCEPT !.step = "allowed", !.right = right, !.at = v,
                                              !.bucket = Bucket])
    BY <1>1 DEF Throttle
  <2>2. Bucket \in Buckets /\ Bumped(v) \in Nat /\ Bumped(v) = counts[v][Bucket] + 1
    BY <1>e, BucketType DEF AccountsTypes, Tables, Bumped
  <2>3. counts'[w][b] = IF w = v /\ b = Bucket THEN counts[w][b] + 1 ELSE counts[w][b]
    BY <1>e, <2>1, <2>2 DEF Tables
  <2>4. UNCHANGED <<strays, wrong>>
    BY <1>1 DEF Throttle
  <2>5. l \notin P
    BY <1>1 DEF Throttle, Pending
  <2>6. CASE Bumped(v) > AttemptLimit
    <3> DEFINE new == [Unasked EXCEPT !.step = "refused"]
    <3>1. login' = [login EXCEPT ![l] = new]
      BY <2>1, <2>6 DEF SetLogin
    <3>2. new.step = "refused"
      BY DEF Unasked
    <3>3. login'[l].step = "refused" /\ \A k \in Logins \ {l} : login'[k] = login[k]
      BY <1>d, <3>1, <3>2
    <3>4. P' = P
      <4>1. l \notin P' /\ \A k : k # l => (k \in P' <=> k \in P)
        BY <3>3, OnlyItselfMoves
      <4> QED
        BY <2>5, <4>1
    <3> QED
      BY <1>a, <1>b, <1>c, <2>3, <2>4, <3>4 DEF Least
  <2>7. CASE ~ (Bumped(v) > AttemptLimit)
    <3> DEFINE new == [Unasked EXCEPT !.step = "allowed", !.right = right, !.at = v,
                                      !.bucket = Bucket]
    <3>1. login' = [login EXCEPT ![l] = new]
      BY <2>1, <2>7 DEF SetLogin
    <3>2. new.step = "allowed" /\ new.at = v /\ new.bucket = Bucket
      BY DEF Unasked
    <3>3. /\ \A k : k # l => (k \in P' <=> k \in P)
          /\ l \in P' <=> w = v /\ b = Bucket
      <4>1. /\ login'[l].step = "allowed" /\ login'[l].at = v /\ login'[l].bucket = Bucket
            /\ \A k \in Logins \ {l} : login'[k] = login[k]
        BY <1>d, <3>1, <3>2
      <4> QED
        BY <4>1, OnlyItselfMoves
    <3>4. CASE w = v /\ b = Bucket
      <4>1. P' = P \cup {l}
        BY <2>5, <3>3, <3>4
      <4>2. Cardinality(P') = n + 1
        BY <1>c, <2>5, <4>1, FS_AddElement
      <4> QED
        BY <1>a, <1>b, <1>c, <2>2, <2>3, <2>4, <2>7, <3>4, <4>2 DEF Least
    <3>5. CASE ~ (w = v /\ b = Bucket)
      <4>1. P' = P
        BY <2>5, <3>3, <3>5
      <4> QED
        BY <1>b, <2>3, <2>4, <3>5, <4>1
    <3> QED
      BY <3>4, <3>5
  <2> QED
    BY <2>6, <2>7
<1>2. ASSUME NEW l \in Logins, LoadUser(l)
      PROVE  wrong'[w][b] + Cardinality(P') <= Least(counts'[w][b], AttemptLimit) + strays'[w][b]
  <2> DEFINE new == [login[l] EXCEPT !.step = "hashing", !.mark = validFrom]
  <2>1. /\ login' = [login EXCEPT ![l] = new] /\ login[l].step = "allowed"
        /\ UNCHANGED <<counts, strays, wrong>>
    BY <1>2 DEF LoadUser, SetLogin
  <2>2. new.step = "hashing" /\ new.at = login[l].at /\ new.bucket = login[l].bucket
    BY <1>d DEF Tokens
  <2>3. l \in P <=> login[l].at = w /\ login[l].bucket = b
    BY <2>1 DEF Pending
  <2>4. P' = P
    <3>1. login'[l] = new /\ \A k \in Logins \ {l} : login'[k] = login[k]
      BY <1>d, <2>1
    <3> QED
      BY <3>1, <2>1, <2>2, <2>3, OnlyItselfMoves
  <2> QED
    BY <1>0, <2>1, <2>4
<1>3. ASSUME NEW l \in Logins, Verify(l)
      PROVE  wrong'[w][b] + Cardinality(P') <= Least(counts'[w][b], AttemptLimit) + strays'[w][b]
  <2> DEFINE new == [login[l] EXCEPT !.step = IF login[l].right THEN "verified" ELSE "failed"]
  <2>1. /\ login' = [login EXCEPT ![l] = new] /\ login[l].step = "hashing"
        /\ UNCHANGED <<counts, strays>>
        /\ wrong' = IF login[l].right THEN wrong
                    ELSE [wrong EXCEPT ![login[l].at][login[l].bucket] = @ + 1]
    BY <1>3 DEF Verify, SetLogin
  <2>2. /\ new.step = (IF login[l].right THEN "verified" ELSE "failed")
        /\ new.at = login[l].at /\ new.bucket = login[l].bucket
        /\ login[l].at \in Counters /\ login[l].bucket \in Buckets
    BY <1>d DEF Tokens
  <2>3. l \in P <=> login[l].at = w /\ login[l].bucket = b
    BY <2>1 DEF Pending
  <2>4. /\ \A k : k # l => (k \in P' <=> k \in P)
        /\ l \in P' <=> login[l].right /\ login[l].at = w /\ login[l].bucket = b
    <3>1. /\ login'[l].step = (IF login[l].right THEN "verified" ELSE "failed")
          /\ login'[l].at = login[l].at /\ login'[l].bucket = login[l].bucket
          /\ \A k \in Logins \ {l} : login'[k] = login[k]
      BY <1>d, <2>1, <2>2
    <3> QED
      BY <3>1, OnlyItselfMoves
  <2>5. CASE login[l].right \/ l \notin P
    <3>1. P' = P
      BY <2>3, <2>4, <2>5
    <3>2. wrong'[w][b] = wrong[w][b]
      BY <1>e, <2>1, <2>2, <2>3, <2>5 DEF Tables
    <3> QED
      BY <1>b, <2>1, <3>1, <3>2
  <2>6. CASE ~ login[l].right /\ l \in P
    <3>1. P' = P \ {l}
      BY <2>4, <2>6
    <3>2. Cardinality(P') = n - 1
      BY <1>c, <2>6, <3>1, FS_RemoveElement
    <3>3. wrong'[w][b] = wrong[w][b] + 1
      BY <1>e, <2>1, <2>2, <2>3, <2>6 DEF Tables
    <3> QED
      BY <1>a, <1>b, <1>c, <2>1, <3>2, <3>3
  <2> QED
    BY <2>5, <2>6
<1>4. ASSUME NEW l \in Logins, GiveBack(l)
      PROVE  wrong'[w][b] + Cardinality(P') <= Least(counts'[w][b], AttemptLimit) + strays'[w][b]
  <2> DEFINE new == [Unasked EXCEPT !.mark = login[l].mark,
                        !.step = IF login[l].right THEN "refunded" ELSE "refused"]
  <2>1. /\ login' = [login EXCEPT ![l] = new] /\ login[l].step = "verified"
        /\ UNCHANGED wrong
    <3>1. login[l].step = "verified"
      BY <1>4 DEF GiveBack, Refunds, FailedWasWrong
    <3> QED
      BY <1>4, <3>1 DEF GiveBack, SetLogin
  <2>2. new.step \in {"refunded", "refused"}
    BY DEF Unasked
  <2>3. PICK reached \in {Counters, {"local"}} :
            LET Hit(x, y) == x \in reached /\ y = Bucket /\ counts[x][y] > 0
                Stray(x, y) == Hit(x, y) /\ <<x, y>> # <<login[l].at, login[l].bucket>> IN
            /\ counts' = [x \in Counters |-> [y \in Buckets |->
                             IF Hit(x, y) THEN Down(counts[x][y]) ELSE counts[x][y]]]
            /\ strays' = [x \in Counters |-> [y \in Buckets |->
                             IF Stray(x, y) THEN strays[x][y] + 1 ELSE strays[x][y]]]
    BY <1>4 DEF GiveBack
  <2>4. l \in P <=> login[l].at = w /\ login[l].bucket = b
    BY <2>1 DEF Pending
  <2> DEFINE hit == w \in reached /\ b = Bucket /\ counts[w][b] > 0
  <2>5. /\ counts'[w][b] = IF hit THEN counts[w][b] - 1 ELSE counts[w][b]
        /\ strays'[w][b] = IF hit /\ l \notin P THEN strays[w][b] + 1 ELSE strays[w][b]
    BY <1>a, <2>3, <2>4 DEF Down
  <2>6. P' = P \ {l}
    <3>1. /\ login'[l].step \in {"refunded", "refused"}
          /\ \A k \in Logins \ {l} : login'[k] = login[k]
      BY <1>d, <2>1, <2>2
    <3> QED
      BY <3>1, OnlyItselfMoves
  <2>7. CASE l \in P
    <3>1. Cardinality(P') = n - 1
      BY <1>c, <2>6, <2>7, FS_RemoveElement
    <3> QED
      BY <1>a, <1>b, <1>c, <2>1, <2>5, <2>7, <3>1 DEF Least
  <2>8. CASE l \notin P
    <3>1. P' = P
      BY <2>6, <2>8
    <3> QED
      BY <1>a, <1>b, <1>c, <2>1, <2>5, <2>8, <3>1 DEF Least
  <2> QED
    BY <2>7, <2>8
<1>5. ASSUME NEW l \in Logins, Mint(l)
      PROVE  wrong'[w][b] + Cardinality(P') <= Least(counts'[w][b], AttemptLimit) + strays'[w][b]
  <2> DEFINE new == [Unasked EXCEPT !.step = "in", !.minted = tick,
                        !.issuedAt = session_issued_at(tick, login[l].mark)]
  <2>1. /\ login' = [login EXCEPT ![l] = new] /\ login[l].step = "refunded"
        /\ UNCHANGED <<counts, strays, wrong>>
    BY <1>5 DEF Mint, SetLogin
  <2>2. new.step = "in"
    BY DEF Unasked
  <2>3. l \notin P
    BY <2>1 DEF Pending
  <2>4. P' = P
    <3>1. login'[l].step = "in" /\ \A k \in Logins \ {l} : login'[k] = login[k]
      BY <1>d, <2>1, <2>2
    <3>2. l \notin P' /\ \A k : k # l => (k \in P' <=> k \in P)
      BY <3>1, OnlyItselfMoves
    <3> QED
      BY <2>3, <3>2
  <2> QED
    BY <1>0, <2>1, <2>4
<1>6. ASSUME NEW o \in Logouts, BeginLogout(o)
      PROVE  wrong'[w][b] + Cardinality(P') <= Least(counts'[w][b], AttemptLimit) + strays'[w][b]
  BY <1>0, <1>6 DEF BeginLogout, Pending
<1>7. ASSUME NEW o \in Logouts, RevokeSessions(o)
      PROVE  wrong'[w][b] + Cardinality(P') <= Least(counts'[w][b], AttemptLimit) + strays'[w][b]
  <2>1. \A l \in Logins : /\ login'[l].step = login[l].step /\ login'[l].at = login[l].at
                          /\ login'[l].bucket = login[l].bucket
    <3> SUFFICES ASSUME NEW l \in Logins
                 PROVE  /\ login'[l].step = login[l].step /\ login'[l].at = login[l].at
                        /\ login'[l].bucket = login[l].bucket
      OBVIOUS
    <3>1. login[l] \in Tokens
      BY <1>d
    <3>2. login'[l] = login[l] \/ login'[l] = [login[l] EXCEPT !.ended = TRUE]
      BY <1>7 DEF RevokeSessions
    <3> QED
      BY <3>1, <3>2 DEF Tokens
  <2>2. P' = P
    BY <2>1 DEF Pending
  <2> QED
    BY <1>0, <1>7, <2>2 DEF RevokeSessions
<1>8. CASE AccountsTick
  BY <1>0, <1>8 DEF AccountsTick, Pending
<1>9. CASE UNCHANGED accountVars
  BY <1>0, <1>9 DEF accountVars, Pending
<1> QED
  BY <1>1, <1>2, <1>3, <1>4, <1>5, <1>6, <1>7, <1>8, <1>9 DEF AccountsNext

(* Wrong passwords stay within the limit and the strays.                    *)
LEMMA GuessesBound == AccountsTypes /\ GuessesInv => GuessesAreRationed
<1> SUFFICES ASSUME AccountsTypes, GuessesInv, NEW w \in Counters, NEW b \in Buckets
             PROVE  wrong[w][b] <= AttemptLimit + strays[w][b]
  BY DEF GuessesAreRationed
<1>1. /\ counts[w][b] \in Nat /\ strays[w][b] \in Nat /\ wrong[w][b] \in Nat
      /\ AttemptLimit \in Nat \ {0} /\ Cardinality(Pending(w, b)) \in Nat
  BY AccountsAssumption, PendingFinite DEF AccountsTypes, Tables
<1>2. wrong[w][b] + Cardinality(Pending(w, b)) <= Least(counts[w][b], AttemptLimit) + strays[w][b]
  BY DEF GuessesInv
<1> QED
  BY <1>1, <1>2 DEF Least

-----------------------------------------------------------------------------

(* AccountsTypeOK holds in every reachable state.                           *)
THEOREM AccountsTypeCorrect == AccountsSpec => []AccountsTypeOK
<1>1. AccountsTypes => AccountsTypeOK
  BY DEF AccountsTypes, AccountsTypeOK, Tables, Tokens, Steps, Orders
<1> QED
  BY <1>1, AccountsTypesInit, AccountsTypesStep, PTL DEF AccountsSpec

(* LogoutEndsOlderSessions holds in every reachable state, for any number of *)
(* logins and logouts and any session age: what revoke_sessions commits     *)
(* ends every session that existed when the logout was asked for.           *)
THEOREM LogoutEndsSessions == AccountsSpec => []LogoutEndsOlderSessions
BY AccountsTypesInit, AccountsTypesStep, SessionsInvInit, SessionsInvStep, EndedIsRefused, PTL
   DEF AccountsSpec

(* GuessesAreRationed holds in every reachable state, for any limit, window  *)
(* and number of attempts: what lets a guess through is a place under the    *)
(* limit, and only a refund that strayed gives a place twice.                *)
THEOREM GuessesRationed == AccountsSpec => []GuessesAreRationed
BY AccountsTypesInit, AccountsTypesStep, FailedWasWrongInit, FailedWasWrongStep,
   GuessesInvInit, GuessesInvStep, GuessesBound, PTL DEF AccountsSpec

-----------------------------------------------------------------------------
(* The platform connection.                                                 *)

AccountFields == {"status", "expires", "access", "refresh"}
RequestFields == {"op", "step", "seen", "grant", "at", "stale", "wiped"}
IsAccountRow(x) == x = [f \in AccountFields |-> x[f]]
IsRequest(x) == x = [f \in RequestFields |-> x[f]]

\* A row against the grants issued: its expiry is that of the credential it holds, its
\* renewal credential is of its own account, and a revoked row holds neither.
RowHolds(a, x, G) ==
    /\ IsAccountRow(x)
    /\ x.access # None => x.access \in 1 .. Len(G) /\ x.expires = G[x.access].expires
    /\ x.refresh # None => x.refresh \in 1 .. Len(G) /\ G[x.refresh].account = a
    /\ x.status = "revoked" => x.access = None /\ x.refresh = None

\* A renewal's account was wiped since it took the credential, or is not revoked.
NotWipedUnseen(x, b, A, W) ==
    x.wiped \in Nat /\ x.wiped <= W[b] /\ (x.wiped = W[b] => A[b].status # "revoked")

\* A request against the grants, the rows and the wipes.
RequestHolds(x, G, A, W) ==
    /\ IsRequest(x)
    /\ x.step \in {"renew", "save"} => x.grant \in 1 .. Len(G)
    /\ x.op = "refresh" /\ x.step \in {"renew", "save"} =>
          NotWipedUnseen(x, G[x.grant].account, A, W)
    /\ x.op = "publish" => x.seen \in 1 .. Len(G) /\ G[x.seen].expires > x.at

GrantRecords == [account: Accounts, expires: 0 .. Unstated, renewable: BOOLEAN]

ConnectionInv ==
    /\ clock \in Nat
    /\ grants \in Seq(GrantRecords)
    /\ wipes \in [Accounts -> Nat]
    /\ accounts = [a \in Accounts |-> accounts[a]]
    /\ \A a \in Accounts : RowHolds(a, accounts[a], grants)
    /\ request = [r \in Requests |-> request[r]]
    /\ \A r \in Requests : RequestHolds(request[r], grants, accounts, wipes)

\* More grants were issued.
Extends(G, H) == Len(G) <= Len(H) /\ \A g \in 1 .. Len(G) : H[g] = G[g]

\* Rows and wipes as the store leaves them: an account is revoked only by a wipe.
Progresses(A, W, B, V) == \A b \in Accounts :
    W[b] <= V[b] /\ (B[b].status = "revoked" => A[b].status = "revoked" \/ W[b] < V[b])

(* The bounds are numbers.                                                  *)
LEMMA ConnectionBounds ==
    Horizon \in Nat /\ GrantLife \in Nat /\ MaxGrants \in Nat /\ Unstated \in Nat
BY ConnectionsAssumption DEF Unstated

(* A grant names an account and an instant.                                 *)
LEMMA GrantTypes ==
    ASSUME NEW G \in Seq(GrantRecords), NEW g \in 1 .. Len(G)
    PROVE  G[g].account \in Accounts /\ G[g].expires \in 0 .. Unstated
<1>1. G[g] \in GrantRecords
  OBVIOUS
<1> QED
  BY <1>1, Zenon DEF GrantRecords

(* A request that stands keeps its facts while the world goes on.           *)
LEMMA RequestStays ==
    ASSUME NEW G \in Seq(GrantRecords), NEW H \in Seq(GrantRecords), Extends(G, H),
           NEW W \in [Accounts -> Nat], NEW V \in [Accounts -> Nat], NEW A, NEW B,
           Progresses(A, W, B, V), NEW x, RequestHolds(x, G, A, W)
    PROVE  RequestHolds(x, H, B, V)
<1>1. Len(G) \in Nat /\ Len(H) \in Nat /\ Len(G) <= Len(H)
  BY DEF Extends
<1>2. \A g \in 1 .. Len(G) : g \in 1 .. Len(H) /\ H[g] = G[g]
  BY <1>1 DEF Extends
<1>3. ASSUME NEW b \in Accounts, NotWipedUnseen(x, b, A, W) PROVE NotWipedUnseen(x, b, B, V)
  <2>1. W[b] \in Nat /\ V[b] \in Nat /\ W[b] <= V[b]
    BY DEF Progresses
  <2>2. B[b].status = "revoked" => A[b].status = "revoked" \/ W[b] < V[b]
    BY DEF Progresses
  <2> QED
    BY <1>3, <2>1, <2>2 DEF NotWipedUnseen
<1>4. \A g \in 1 .. Len(G) : G[g].account \in Accounts
  BY GrantTypes
<1>5. ASSUME x.step \in {"renew", "save"} PROVE x.grant \in 1 .. Len(G)
  BY <1>5 DEF RequestHolds
<1>6. ASSUME x.op = "refresh", x.step \in {"renew", "save"}
      PROVE  NotWipedUnseen(x, H[x.grant].account, B, V)
  <2>1. H[x.grant] = G[x.grant] /\ G[x.grant].account \in Accounts
    BY <1>2, <1>4, <1>5, <1>6
  <2>2. NotWipedUnseen(x, G[x.grant].account, A, W)
    BY <1>6 DEF RequestHolds
  <2> QED
    BY <1>3, <2>1, <2>2
<1>7. ASSUME x.op = "publish" PROVE x.seen \in 1 .. Len(H) /\ H[x.seen].expires > x.at
  <2>1. x.seen \in 1 .. Len(G) /\ G[x.seen].expires > x.at
    BY <1>7 DEF RequestHolds
  <2> QED
    BY <1>2, <2>1
<1> QED
  BY <1>2, <1>5, <1>6, <1>7 DEF RequestHolds

(* One request takes a step.                                                *)
LEMMA OneRequestMoves ==
    ASSUME ConnectionInv, NEW r \in Requests, NEW new, Move(r, new),
           clock' \in Nat, grants' \in Seq(GrantRecords), Extends(grants, grants'),
           wipes' \in [Accounts -> Nat], accounts' = [a \in Accounts |-> accounts'[a]],
           \A a \in Accounts : RowHolds(a, accounts'[a], grants'),
           Progresses(accounts, wipes, accounts', wipes'),
           RequestHolds(new, grants', accounts', wipes')
    PROVE  ConnectionInv'
<1>1. request' = [s \in Requests |-> request'[s]] /\ request'[r] = new
  BY DEF ConnectionInv, Move
<1>2. \A s \in Requests \ {r} : request'[s] = request[s]
  BY DEF ConnectionInv, Move
<1>3. ASSUME NEW s \in Requests PROVE RequestHolds(request'[s], grants', accounts', wipes')
  <2>1. CASE s = r
    BY <1>1, <2>1
  <2>2. CASE s # r
    <3>1. RequestHolds(request[s], grants', accounts', wipes')
      BY RequestStays DEF ConnectionInv
    <3> QED
      BY <1>2, <2>2, <3>1
  <2> QED
    BY <2>1, <2>2
<1> QED
  BY <1>1, <1>3 DEF ConnectionInv

(* Only a request changes.                                                  *)
LEMMA OnlyARequestMoves ==
    ASSUME ConnectionInv, NEW r \in Requests, NEW new, Move(r, new),
           UNCHANGED <<clock, grants, accounts, wipes>>,
           RequestHolds(new, grants, accounts, wipes)
    PROVE  ConnectionInv'
<1>1. Extends(grants, grants') /\ Progresses(accounts, wipes, accounts', wipes')
  BY DEF ConnectionInv, Extends, Progresses
<1> QED
  BY <1>1, OneRequestMoves DEF ConnectionInv

(* A request at rest holds nothing, and one of an operation that neither    *)
(* stores nor publishes has nothing to keep.                                *)
LEMMA IdleRequests ==
    ASSUME NEW G, NEW A, NEW W
    PROVE  /\ RequestHolds(Resting, G, A, W)
           /\ \A x : IsRequest(x) /\ x.op # "publish" /\ x.step \notin {"renew", "save"} =>
                 RequestHolds(x, G, A, W)
BY DEF RequestHolds, IsRequest, RequestFields, Resting

(* A grant is issued.                                                       *)
LEMMA IssueExtends ==
    ASSUME ConnectionInv, NEW a \in Accounts, Issue(a)
    PROVE  /\ grants' \in Seq(GrantRecords) /\ Extends(grants, grants')
           /\ Len(grants') = Len(grants) + 1 /\ Len(grants) \in Nat
           /\ grants'[Len(grants) + 1].account = a
<1>1. PICK expires \in {Unstated, clock + GrantLife}, renewable \in BOOLEAN :
        /\ expires <= Unstated
        /\ grants' = Append(grants, [account |-> a, expires |-> expires, renewable |-> renewable])
  BY DEF Issue
<1> DEFINE grant == [account |-> a, expires |-> expires, renewable |-> renewable]
<1>2. expires \in 0 .. Unstated
  BY <1>1, ConnectionBounds DEF ConnectionInv
<1>3. grant \in GrantRecords /\ grant.account = a
  BY <1>2, Zenon DEF GrantRecords
<1> HIDE DEF grant
<1>4. grants \in Seq(GrantRecords) /\ grants' = Append(grants, grant)
  BY <1>1 DEF ConnectionInv, grant
<1> QED
  BY <1>3, <1>4 DEF Extends

(* Rows keep their facts when more grants are issued.                       *)
LEMMA RowsStay ==
    ASSUME NEW G \in Seq(GrantRecords), NEW H \in Seq(GrantRecords), Extends(G, H),
           NEW a, NEW x, RowHolds(a, x, G)
    PROVE  RowHolds(a, x, H)
<1>1. Len(G) \in Nat /\ Len(H) \in Nat
  OBVIOUS
<1> QED
  BY <1>1 DEF RowHolds, Extends

(* Steps that change one request and nothing it relies on.                  *)
LEMMA QuietRequests ==
    ASSUME ConnectionInv, NEW r \in Requests,
           Callback(r) \/ Disconnect(r) \/ TellPlatform(r) \/ Refresh(r) \/ Sweep(r)
              \/ Send(r)
    PROVE  ConnectionInv'
<1>1. UNCHANGED <<clock, grants, accounts, wipes>>
  BY DEF Callback, Disconnect, TellPlatform, Refresh, Sweep, Send
<1>2. IsRequest(request[r]) /\ request = [s \in Requests |-> request[s]]
  BY DEF ConnectionInv, RequestHolds
<1>3. IsRequest(Resting)
  BY DEF IsRequest, RequestFields, Resting
<1>4. \E new : Move(r, new) /\ RequestHolds(new, grants, accounts, wipes)
  <2>1. CASE Callback(r)
    <3>1. UNCHANGED request \/ Move(r, [Resting EXCEPT !.op = "callback", !.step = "exchange"])
      BY <2>1 DEF Callback
    <3>2. CASE UNCHANGED request
      BY <1>2, <3>2 DEF Move, ConnectionInv
    <3>3. CASE Move(r, [Resting EXCEPT !.op = "callback", !.step = "exchange"])
      <4> DEFINE new == [Resting EXCEPT !.op = "callback", !.step = "exchange"]
      <4>1. IsRequest(new) /\ new.op = "callback" /\ new.step = "exchange"
        BY DEF IsRequest, RequestFields, Resting
      <4> HIDE DEF new
      <4>2. RequestHolds(new, grants, accounts, wipes)
        BY <4>1, IdleRequests
      <4> QED
        BY <3>3, <4>2 DEF new
    <3> QED
      BY <3>1, <3>2, <3>3
  <2>2. CASE Disconnect(r)
    <3>1. PICK g, next : next \in {"forget", "tell"} /\
            Move(r, [Resting EXCEPT !.op = "disconnect", !.seen = g, !.grant = g, !.step = next])
      <4>1. PICK a \in Present : LET g == accounts[a].access IN
              Move(r, [Resting EXCEPT !.op = "disconnect", !.seen = g, !.grant = g,
                          !.step = IF g = None \/ Unreadable(g) THEN "forget" ELSE "tell"])
        BY <2>2 DEF Disconnect
      <4> DEFINE ending == IF accounts[a].access = None \/ Unreadable(accounts[a].access)
                           THEN "forget" ELSE "tell"
      <4>2. ending \in {"forget", "tell"}
        OBVIOUS
      <4>3. Move(r, [Resting EXCEPT !.op = "disconnect", !.seen = accounts[a].access,
                        !.grant = accounts[a].access, !.step = ending])
        BY <4>1
      <4> HIDE DEF ending
      <4> QED
        BY <4>2, <4>3
    <3> DEFINE new == [Resting EXCEPT !.op = "disconnect", !.seen = g, !.grant = g, !.step = next]
    <3>2. IsRequest(new) /\ new.op = "disconnect" /\ new.step = next
      BY DEF IsRequest, RequestFields, Resting
    <3> HIDE DEF new
    <3>3. RequestHolds(new, grants, accounts, wipes)
      BY <3>1, <3>2, IdleRequests
    <3> QED
      BY <3>1, <3>3 DEF new
  <2>3. CASE TellPlatform(r)
    <3> DEFINE new == [request[r] EXCEPT !.step = "forget"]
    <3>1. Move(r, new) /\ request[r].op = "disconnect"
      BY <2>3 DEF TellPlatform, At
    <3>2. IsRequest(new) /\ new.op = "disconnect" /\ new.step = "forget"
      BY <1>2, <3>1 DEF IsRequest, RequestFields
    <3> HIDE DEF new
    <3> QED
      BY <3>1, <3>2, IdleRequests
  <2>4. CASE Refresh(r)
    <3> DEFINE new == [Resting EXCEPT !.op = "refresh", !.step = "reveal"]
    <3>1. Move(r, new)
      BY <2>4 DEF Refresh
    <3>2. IsRequest(new) /\ new.op = "refresh" /\ new.step = "reveal"
      BY DEF IsRequest, RequestFields, Resting
    <3> HIDE DEF new
    <3> QED
      BY <3>1, <3>2, IdleRequests
  <2>5. CASE Sweep(r)
    <3> DEFINE stale == {a \in Present : status_is_stale(accounts[a])}
    <3> DEFINE new == [Resting EXCEPT !.op = "sweep", !.step = "mark", !.stale = stale]
    <3>1. Move(r, new)
      BY <2>5 DEF Sweep
    <3> HIDE DEF stale
    <3>2. IsRequest(new) /\ new.op = "sweep" /\ new.step = "mark"
      BY DEF IsRequest, RequestFields, Resting
    <3> HIDE DEF new
    <3> QED
      BY <3>1, <3>2, IdleRequests
  <2>6. CASE Send(r)
    BY <2>6, IdleRequests DEF Send, Done
  <2> QED
    BY <2>1, <2>2, <2>3, <2>4, <2>5, <2>6
<1> QED
  BY <1>1, <1>4, OnlyARequestMoves

(* A publish looks at a row the clock has not ended; what it then reads may *)
(* be another credential.                                                   *)
LEMMA PublishHolds ==
    ASSUME ConnectionInv, NEW r \in Requests, CheckConnection(r) \/ RevealAccess(r)
    PROVE  ConnectionInv'
<1>1. UNCHANGED <<clock, grants, accounts, wipes>>
  BY DEF CheckConnection, RevealAccess
<1>2. /\ RequestHolds(request[r], grants, accounts, wipes)
      /\ request = [s \in Requests |-> request[s]]
  BY DEF ConnectionInv
<1>3. CASE CheckConnection(r)
  <2>1. CASE UNCHANGED request
    <3>1. Move(r, request[r])
      BY <1>2, <2>1 DEF Move
    <3> QED
      BY <1>1, <1>2, <3>1, OnlyARequestMoves
  <2>2. CASE \E a \in Present : usable(accounts[a]) /\
               Move(r, [Resting EXCEPT !.op = "publish", !.step = "reveal", !.at = clock,
                                       !.seen = accounts[a].access])
    <3>1. PICK a \in Present : usable(accounts[a]) /\
               Move(r, [Resting EXCEPT !.op = "publish", !.step = "reveal", !.at = clock,
                                       !.seen = accounts[a].access])
      BY <2>2
    <3> DEFINE new == [Resting EXCEPT !.op = "publish", !.step = "reveal", !.at = clock,
                                      !.seen = accounts[a].access]
    <3>2. IsRequest(new) /\ new.op = "publish" /\ new.step = "reveal" /\ new.at = clock
          /\ new.seen = accounts[a].access
      BY DEF IsRequest, RequestFields, Resting
    <3>3. Move(r, new)
      BY <3>1
    <3> HIDE DEF new
    <3>4. a \in Accounts /\ RowHolds(a, accounts[a], grants)
      BY DEF Present, ConnectionInv
    <3>5. /\ accounts[a].access \in 1 .. Len(grants)
          /\ ~ (grants[accounts[a].access].expires <= clock)
      BY <3>1, <3>4 DEF usable, is_expired, RowHolds
    <3>6. grants[accounts[a].access].expires \in 0 .. Unstated /\ clock \in Nat
      BY <3>5, GrantTypes DEF ConnectionInv
    <3>7. grants[new.seen].expires > new.at /\ new.seen \in 1 .. Len(grants)
      BY <3>2, <3>5, <3>6, ConnectionBounds
    <3>8. RequestHolds(new, grants, accounts, wipes)
      BY <3>2, <3>7 DEF RequestHolds
    <3> QED
      BY <1>1, <3>3, <3>8, OnlyARequestMoves
  <2> QED
    BY <1>3, <2>1, <2>2 DEF CheckConnection
<1>4. CASE RevealAccess(r)
  <2>1. CASE Done(r)
    BY <1>1, <2>1, IdleRequests, OnlyARequestMoves DEF Done
  <2>2. ASSUME NEW g, Move(r, [request[r] EXCEPT !.step = "send", !.grant = g])
        PROVE  ConnectionInv'
    <3> DEFINE new == [request[r] EXCEPT !.step = "send", !.grant = g]
    <3>1. request[r].op = "publish" /\ IsRequest(request[r])
      BY <1>2, <1>4 DEF RevealAccess, At, RequestHolds
    <3>2. /\ IsRequest(new) /\ new.op = "publish" /\ new.step = "send"
          /\ new.seen = request[r].seen /\ new.at = request[r].at
      BY <3>1 DEF IsRequest, RequestFields
    <3> HIDE DEF new
    <3>3. RequestHolds(new, grants, accounts, wipes)
      BY <1>2, <3>1, <3>2 DEF RequestHolds
    <3> QED
      BY <1>1, <2>2, <3>3, OnlyARequestMoves DEF new
  <2> QED
    BY <1>4, <2>1, <2>2 DEF RevealAccess
<1> QED
  BY <1>3, <1>4

(* A renewal takes its credential from a row that is not revoked.           *)
LEMMA RevealRefreshHolds ==
    ASSUME ConnectionInv, NEW r \in Requests, RevealRefresh(r)
    PROVE  ConnectionInv'
<1>1. UNCHANGED <<clock, grants, accounts, wipes>> /\ request[r].op = "refresh"
      /\ IsRequest(request[r])
  BY DEF RevealRefresh, At, ConnectionInv, RequestHolds
<1>2. PICK a \in Present :
         \/ Done(r)
         \/ Move(r, [request[r] EXCEPT !.seen = accounts[a].access, !.grant = accounts[a].refresh,
                        !.wiped = wipes[a],
                        !.step = IF accounts[a].refresh = None THEN "expire" ELSE "renew"])
  BY DEF RevealRefresh
<1>3. CASE Done(r)
  BY <1>1, <1>3, IdleRequests, OnlyARequestMoves DEF Done
<1> DEFINE new == [request[r] EXCEPT !.seen = accounts[a].access, !.grant = accounts[a].refresh,
                      !.wiped = wipes[a],
                      !.step = IF accounts[a].refresh = None THEN "expire" ELSE "renew"]
<1>4. CASE Move(r, new)
  <2>1. /\ IsRequest(new) /\ new.op = "refresh" /\ new.grant = accounts[a].refresh
        /\ new.wiped = wipes[a]
        /\ new.step = IF accounts[a].refresh = None THEN "expire" ELSE "renew"
    BY <1>1 DEF IsRequest, RequestFields
  <2> HIDE DEF new
  <2>2. a \in Accounts /\ RowHolds(a, accounts[a], grants) /\ wipes[a] \in Nat
    BY DEF Present, ConnectionInv
  <2>3. CASE accounts[a].refresh = None
    <3>1. RequestHolds(new, grants, accounts, wipes)
      BY <2>1, <2>3, IdleRequests
    <3> QED
      BY <1>1, <1>4, <3>1, OnlyARequestMoves
  <2>4. CASE accounts[a].refresh # None
    <3>1. /\ new.grant \in 1 .. Len(grants) /\ grants[new.grant].account = a
          /\ accounts[a].status # "revoked"
      BY <2>1, <2>2, <2>4 DEF RowHolds
    <3>2. NotWipedUnseen(new, a, accounts, wipes)
      BY <2>1, <2>2, <3>1 DEF NotWipedUnseen
    <3>3. RequestHolds(new, grants, accounts, wipes)
      BY <2>1, <3>1, <3>2 DEF RequestHolds
    <3> QED
      BY <1>1, <1>4, <3>3, OnlyARequestMoves
  <2> QED
    BY <2>3, <2>4
<1> QED
  BY <1>2, <1>3, <1>4

(* The await of a callback or a renewal: a grant is issued, or none is.     *)
LEMMA GrantHolds ==
    ASSUME ConnectionInv, NEW r \in Requests, Exchange(r) \/ Renew(r)
    PROVE  ConnectionInv'
<1>1. UNCHANGED <<clock, accounts, wipes>>
  BY DEF Exchange, Renew
<1>2. /\ RequestHolds(request[r], grants, accounts, wipes) /\ IsRequest(request[r])
      /\ request[r].op = "callback" \/ (request[r].op = "refresh" /\ request[r].step = "renew")
  BY DEF ConnectionInv, Exchange, Renew, At, RequestHolds
<1> DEFINE new == [request[r] EXCEPT !.step = "save", !.grant = Len(grants) + 1]
<1>3. /\ IsRequest(new) /\ new.op = request[r].op /\ new.step = "save"
      /\ new.grant = Len(grants) + 1 /\ new.wiped = request[r].wiped
  BY <1>2 DEF IsRequest, RequestFields
<1>4. CASE UNCHANGED grants /\ Done(r)
  BY <1>1, <1>4, IdleRequests, OnlyARequestMoves DEF Done
<1>5. CASE UNCHANGED grants /\ Move(r, [request[r] EXCEPT !.step = "expire"])
           /\ request[r].op = "refresh"
  <2> DEFINE old == [request[r] EXCEPT !.step = "expire"]
  <2>1. IsRequest(old) /\ old.op = "refresh" /\ old.step = "expire"
    BY <1>2, <1>5 DEF IsRequest, RequestFields
  <2> HIDE DEF old
  <2>2. RequestHolds(old, grants, accounts, wipes)
    BY <2>1, IdleRequests
  <2> QED
    BY <1>1, <1>5, <2>2, OnlyARequestMoves DEF old
<1>6. ASSUME NEW a \in Accounts, Issue(a), Move(r, new),
             request[r].op = "refresh" => a = grants[request[r].grant].account
      PROVE  ConnectionInv'
  <2> HIDE DEF new
  <2>1. /\ grants' \in Seq(GrantRecords) /\ Extends(grants, grants')
        /\ Len(grants') = Len(grants) + 1 /\ Len(grants) \in Nat
        /\ grants'[Len(grants) + 1].account = a
    BY <1>6, IssueExtends
  <2>2. new.grant \in 1 .. Len(grants')
    BY <1>3, <2>1
  <2>3. ASSUME new.op = "refresh"
        PROVE  NotWipedUnseen(new, grants'[new.grant].account, accounts, wipes)
    <3>1. NotWipedUnseen(request[r], grants[request[r].grant].account, accounts, wipes)
      BY <1>2, <1>3, <2>3 DEF RequestHolds
    <3> QED
      BY <1>3, <1>6, <2>1, <2>3, <3>1 DEF NotWipedUnseen
  <2>4. RequestHolds(new, grants', accounts, wipes)
    BY <1>2, <1>3, <2>2, <2>3 DEF RequestHolds
  <2>5. \A b \in Accounts : RowHolds(b, accounts[b], grants')
    BY <2>1, RowsStay DEF ConnectionInv
  <2>6. Progresses(accounts, wipes, accounts', wipes')
    BY <1>1 DEF Progresses, ConnectionInv
  <2> QED
    BY <1>1, <1>6, <2>1, <2>4, <2>5, <2>6, OneRequestMoves DEF ConnectionInv
<1>7. CASE Exchange(r)
  <2>1. request[r].op = "callback"
    BY <1>7 DEF Exchange, At
  <2> QED
    BY <1>4, <1>6, <1>7, <2>1 DEF Exchange
<1>8. CASE Renew(r)
  <2>1. request[r].op = "refresh" /\ request[r].step = "renew"
    BY <1>8 DEF Renew, At
  <2>2. grants[request[r].grant].account \in Accounts
    BY <1>2, <2>1, GrantTypes DEF RequestHolds, ConnectionInv
  <2>3. \/ Issue(grants[request[r].grant].account) /\ Move(r, new)
        \/ UNCHANGED grants /\ (Done(r) \/ Move(r, [request[r] EXCEPT !.step = "expire"]))
    BY <1>8 DEF Renew
  <2> QED
    BY <1>4, <1>5, <1>6, <2>1, <2>2, <2>3
<1> QED
  BY <1>7, <1>8

(* A status is written over whatever the row has become: never "revoked".   *)
LEMMA StatusHolds ==
    ASSUME ConnectionInv, NEW r \in Requests, ExpireRow(r) \/ Mark(r)
    PROVE  ConnectionInv'
<1>1. UNCHANGED <<clock, grants, wipes>>
  BY DEF ExpireRow, Mark
<1>2. PICK a \in Present : accounts' = WithStatus(a, "expired")
  BY DEF ExpireRow, Mark
<1>3. a \in Accounts /\ \A b \in Accounts : RowHolds(b, accounts[b], grants)
  BY DEF Present, ConnectionInv
<1>4. accounts' = [b \in Accounts |-> accounts'[b]]
  BY <1>2 DEF WithStatus, ConnectionInv
<1>5. accounts'[a] = [accounts[a] EXCEPT !.status = "expired"]
      /\ \A b \in Accounts \ {a} : accounts'[b] = accounts[b]
  BY <1>2, <1>3 DEF WithStatus, ConnectionInv
<1>6. RowHolds(a, accounts'[a], grants) /\ accounts'[a].status = "expired"
  BY <1>3, <1>5 DEF RowHolds, IsAccountRow, AccountFields
<1>7. \A b \in Accounts : RowHolds(b, accounts'[b], grants')
  BY <1>1, <1>3, <1>5, <1>6
<1>8. Progresses(accounts, wipes, accounts', wipes')
  <2>1. wipes \in [Accounts -> Nat] /\ wipes' = wipes
    BY <1>1 DEF ConnectionInv
  <2>2. ASSUME NEW b \in Accounts
        PROVE  accounts'[b].status = "revoked" => accounts[b].status = "revoked"
    BY <1>5, <1>6
  <2> QED
    BY <2>1, <2>2 DEF Progresses
<1>9. PICK new : Move(r, new) /\ RequestHolds(new, grants', accounts', wipes')
  <2>1. RequestHolds(Resting, grants', accounts', wipes')
    BY IdleRequests
  <2>2. CASE Done(r)
    BY <2>1, <2>2 DEF Done
  <2>3. ASSUME NEW done, request[r].op = "sweep", request[r].step = "mark",
               Move(r, [request[r] EXCEPT !.stale = @ \ {done}])
        PROVE  \E new : Move(r, new) /\ RequestHolds(new, grants', accounts', wipes')
    <3> DEFINE stale == request[r].stale \ {done}
    <3> DEFINE new == [request[r] EXCEPT !.stale = stale]
    <3>1. Move(r, new) /\ IsRequest(request[r])
      BY <2>3 DEF ConnectionInv, RequestHolds
    <3> HIDE DEF stale
    <3>2. IsRequest(new) /\ new.op = "sweep" /\ new.step = "mark"
      BY <2>3, <3>1 DEF IsRequest, RequestFields
    <3> HIDE DEF new
    <3> QED
      BY <3>1, <3>2, IdleRequests
  <2> QED
    BY <2>2, <2>3 DEF ExpireRow, Mark, At
<1>10. Extends(grants, grants')
  BY <1>1 DEF Extends, ConnectionInv
<1> QED
  BY <1>1, <1>4, <1>7, <1>8, <1>9, <1>10, OneRequestMoves DEF ConnectionInv

(* A wipe is counted.                                                       *)
LEMMA ForgetHolds ==
    ASSUME ConnectionInv, NEW r \in Requests, Forget(r)
    PROVE  ConnectionInv'
<1>1. UNCHANGED <<clock, grants>> /\ Move(r, Resting)
  BY DEF Forget, Done
<1>2. PICK a \in Present : accounts' = Forgotten(a) /\ wipes' = [wipes EXCEPT ![a] = @ + 1]
  BY DEF Forget
<1>3. /\ a \in Accounts /\ wipes \in [Accounts -> Nat]
      /\ \A b \in Accounts : RowHolds(b, accounts[b], grants)
  BY DEF Present, ConnectionInv
<1>4. accounts' = [b \in Accounts |-> accounts'[b]]
  BY <1>2 DEF Forgotten, ConnectionInv
<1>5. accounts'[a] = [accounts[a] EXCEPT !.status = "revoked", !.access = None, !.refresh = None]
      /\ \A b \in Accounts \ {a} : accounts'[b] = accounts[b]
  BY <1>2, <1>3 DEF Forgotten, ConnectionInv
<1>6. RowHolds(a, accounts'[a], grants)
  BY <1>3, <1>5 DEF RowHolds, IsAccountRow, AccountFields
<1>7. \A b \in Accounts : RowHolds(b, accounts'[b], grants')
  BY <1>1, <1>3, <1>5, <1>6
<1>8. wipes' \in [Accounts -> Nat] /\ wipes'[a] = wipes[a] + 1
      /\ \A b \in Accounts \ {a} : wipes'[b] = wipes[b]
  BY <1>2, <1>3
<1>9. Progresses(accounts, wipes, accounts', wipes')
  BY <1>3, <1>5, <1>8 DEF Progresses
<1>10. Extends(grants, grants') /\ RequestHolds(Resting, grants', accounts', wipes')
  BY <1>1, IdleRequests DEF Extends, ConnectionInv
<1> QED
  BY <1>1, <1>4, <1>7, <1>8, <1>9, <1>10, OneRequestMoves DEF ConnectionInv

(* A grant is stored under its own account.                                 *)
LEMMA SaveHolds ==
    ASSUME ConnectionInv, NEW r \in Requests, SaveGrant(r)
    PROVE  /\ ConnectionInv'
           /\ UNCHANGED accounts \/
              \E a \in Accounts : /\ a = grants[request[r].grant].account
                                  /\ \A b \in Accounts \ {a} : accounts'[b] = accounts[b]
<1> DEFINE g == request[r].grant
<1> DEFINE a == grants[g].account
<1>1. UNCHANGED <<clock, grants, wipes>> /\ Move(r, Resting) /\ request[r].step = "save"
  BY DEF SaveGrant, Done
<1>2. /\ g \in 1 .. Len(grants) /\ grants \in Seq(GrantRecords)
      /\ \A b \in Accounts : RowHolds(b, accounts[b], grants)
  BY <1>1 DEF ConnectionInv, RequestHolds
<1>3. a \in Accounts
  BY <1>2, GrantTypes
<1>4. Extends(grants, grants') /\ RequestHolds(Resting, grants', accounts', wipes')
  BY <1>1, IdleRequests DEF Extends, ConnectionInv
<1>5. CASE UNCHANGED accounts
  <2>1. ConnectionInv'
    BY <1>1, <1>4, <1>5, OnlyARequestMoves
  <2> QED
    BY <1>5, <2>1
<1>6. CASE accounts' = Stored(g)
  <2> DEFINE row == [status |-> "connected", expires |-> grants[g].expires, access |-> g,
                     refresh |-> IF grants[g].renewable THEN g ELSE None]
  <2>1. accounts' = [accounts EXCEPT ![a] = row]
    BY <1>6 DEF Stored
  <2>2. RowHolds(a, row, grants)
    BY <1>2 DEF RowHolds, IsAccountRow, AccountFields
  <2>3. row.status = "connected"
    OBVIOUS
  <2> HIDE DEF row
  <2>4. accounts' = [b \in Accounts |-> accounts'[b]]
    BY <2>1 DEF ConnectionInv
  <2>5. accounts'[a] = row /\ \A b \in Accounts \ {a} : accounts'[b] = accounts[b]
    BY <1>3, <2>1 DEF ConnectionInv
  <2> HIDE DEF a
  <2>6. \A b \in Accounts : RowHolds(b, accounts'[b], grants')
    BY <1>1, <1>2, <2>2, <2>5
  <2>7. Progresses(accounts, wipes, accounts', wipes')
    BY <1>1, <2>3, <2>5 DEF Progresses, ConnectionInv
  <2>8. ConnectionInv'
    BY <1>1, <1>4, <2>4, <2>6, <2>7, OneRequestMoves DEF ConnectionInv
  <2> QED
    BY <1>3, <2>5, <2>8 DEF a
<1> QED
  BY <1>5, <1>6 DEF SaveGrant

(* Every step of a connection keeps the invariant.                          *)
LEMMA ConnectionStep == ConnectionInv /\ [ConnectionsNext]_connectionVars => ConnectionInv'
<1> SUFFICES ASSUME ConnectionInv, [ConnectionsNext]_connectionVars PROVE ConnectionInv'
  OBVIOUS
<1>1. ASSUME NEW r \in Requests, RequestStep(r) PROVE ConnectionInv'
  <2>1. CASE \/ Callback(r) \/ Disconnect(r) \/ TellPlatform(r) \/ Refresh(r) \/ Sweep(r)
             \/ Send(r)
    BY <2>1, QuietRequests
  <2>2. CASE CheckConnection(r) \/ RevealAccess(r)
    BY <2>2, PublishHolds
  <2>3. CASE RevealRefresh(r)
    BY <2>3, RevealRefreshHolds
  <2>4. CASE Exchange(r) \/ Renew(r)
    BY <2>4, GrantHolds
  <2>5. CASE ExpireRow(r) \/ Mark(r)
    BY <2>5, StatusHolds
  <2>6. CASE Forget(r)
    BY <2>6, ForgetHolds
  <2>7. CASE SaveGrant(r)
    BY <2>7, SaveHolds
  <2> QED
    BY <1>1, <2>1, <2>2, <2>3, <2>4, <2>5, <2>6, <2>7 DEF RequestStep
<1>2. CASE StartConnect \/ UNCHANGED connectionVars
  BY <1>2 DEF StartConnect, connectionVars, ConnectionInv
<1>3. CASE Elapse
  <2>1. clock' \in Nat
    BY <1>3 DEF Elapse, ConnectionInv
  <2> QED
    BY <1>3, <2>1 DEF Elapse, ConnectionInv
<1>4. CASE Redeploy
  <2>1. request' = [r \in Requests |-> Resting] /\ UNCHANGED <<clock, grants, accounts, wipes>>
    BY <1>4 DEF Redeploy
  <2>2. \A r \in Requests : RequestHolds(request'[r], grants, accounts, wipes)
    BY <2>1, IdleRequests
  <2> QED
    BY <2>1, <2>2 DEF ConnectionInv
<1> QED
  BY <1>1, <1>2, <1>3, <1>4 DEF ConnectionsNext

(* And so does its start.                                                   *)
LEMMA ConnectionStart == ConnectionsInit => ConnectionInv
<1> SUFFICES ASSUME ConnectionsInit PROVE ConnectionInv
  OBVIOUS
<1>1. clock = 0 /\ grants = << >> /\ accounts = [a \in Accounts |-> Absent]
      /\ request = [r \in Requests |-> Resting] /\ wipes = [a \in Accounts |-> 0]
  BY DEF ConnectionsInit
<1>2. grants \in Seq(GrantRecords)
  BY <1>1
<1>3. \A a \in Accounts : RowHolds(a, Absent, grants)
  BY DEF RowHolds, IsAccountRow, AccountFields, Absent
<1>4. RequestHolds(Resting, grants, accounts, wipes)
  BY IdleRequests
<1> QED
  BY <1>1, <1>2, <1>3, <1>4 DEF ConnectionInv

(* connection_service and the social actuator: what a publish sends with    *)
(* was alive when the publish looked, or was stored after it looked, for    *)
(* every number of requests and accounts, lifetimes of credentials, and     *)
(* whether or not the sweep ever runs.                                      *)
THEOREM PublishesWithALiveCredential == ConnectionsSpec => []SentWithALiveCredential
<1>1. ConnectionInv => SentWithALiveCredential
  BY DEF ConnectionInv, RequestHolds, SentWithALiveCredential, At
<1> QED
  BY <1>1, ConnectionStart, ConnectionStep, PTL DEF ConnectionsSpec

\* What the customer forgot comes back only by a new authorisation, or by a renewal that
\* had taken its credential before.
OnlyAskedBack == \A a \in Accounts :
    accounts[a].status = "revoked" /\ accounts[a].access = None /\ accounts'[a].access # None
    => \E r \in Requests :
          /\ request[r].step = "save"
          /\ request[r].op = "refresh" => request[r].wiped < wipes[a]

(* disconnecting (connection_service.revoke_connection): no renewal begun   *)
(* after a wipe brings the credential back, however requests interleave.    *)
THEOREM DisconnectedStaysForgotten == ConnectionsSpec => ForgottenStaysForgotten
<1>1. ConnectionInv /\ [ConnectionsNext]_connectionVars => [OnlyAskedBack]_connectionVars
  <2> SUFFICES ASSUME ConnectionInv, [ConnectionsNext]_connectionVars, NEW a \in Accounts,
                      accounts[a].status = "revoked", accounts[a].access = None,
                      accounts'[a].access # None
               PROVE  \E r \in Requests :
                         /\ request[r].step = "save"
                         /\ request[r].op = "refresh" => request[r].wiped < wipes[a]
    BY DEF OnlyAskedBack
  <2>1. ASSUME NEW r \in Requests, RequestStep(r)
        PROVE  SaveGrant(r)
    <3>1. CASE \/ Callback(r) \/ Exchange(r) \/ Disconnect(r) \/ TellPlatform(r) \/ Refresh(r)
               \/ RevealRefresh(r) \/ Renew(r) \/ Sweep(r) \/ CheckConnection(r)
               \/ RevealAccess(r) \/ Send(r)
      BY <3>1 DEF Callback, Exchange, Disconnect, TellPlatform, Refresh, RevealRefresh, Renew,
                  Sweep, CheckConnection, RevealAccess, Send
    <3>2. CASE ExpireRow(r) \/ Mark(r)
      <4>1. PICK b \in Present : accounts' = WithStatus(b, "expired")
        BY <3>2 DEF ExpireRow, Mark
      <4>2. IsAccountRow(accounts[a]) /\ accounts = [c \in Accounts |-> accounts[c]]
        BY DEF ConnectionInv, RowHolds
      <4>3. accounts'[a].access = accounts[a].access
        BY <4>1, <4>2 DEF WithStatus, IsAccountRow, AccountFields
      <4> QED
        BY <4>3
    <3>3. CASE Forget(r)
      <4>1. PICK b \in Present : accounts' = Forgotten(b)
        BY <3>3 DEF Forget
      <4>2. IsAccountRow(accounts[a]) /\ accounts = [c \in Accounts |-> accounts[c]]
        BY DEF ConnectionInv, RowHolds
      <4>3. accounts'[a].access = accounts[a].access \/ accounts'[a].access = None
        BY <4>1, <4>2 DEF Forgotten, IsAccountRow, AccountFields
      <4> QED
        BY <4>3
    <3> QED
      BY <2>1, <3>1, <3>2, <3>3 DEF RequestStep
  <2>2. \/ \E r \in Requests : RequestStep(r)
        \/ UNCHANGED accounts
    BY DEF ConnectionsNext, StartConnect, Elapse, Redeploy, connectionVars
  <2>3. PICK r \in Requests : SaveGrant(r)
    BY <2>1, <2>2
  <2>4. request[r].step = "save" /\ grants[request[r].grant].account = a
    BY <2>3, SaveHolds DEF SaveGrant
  <2>5. request[r].op = "refresh" => NotWipedUnseen(request[r], a, accounts, wipes)
    BY <2>4 DEF ConnectionInv, RequestHolds
  <2>6. wipes[a] \in Nat
    BY DEF ConnectionInv
  <2> QED
    BY <2>4, <2>5, <2>6 DEF NotWipedUnseen
<1> QED
  BY <1>1, ConnectionStart, ConnectionStep, PTL
  DEF ConnectionsSpec, ForgottenStaysForgotten, OnlyAskedBack

-----------------------------------------------------------------------------
(* The types of the connection, beside what ConnectionInv says of it.       *)

\* The requests that will wipe an account.
Wiping == {r \in Requests : request[r].op = "disconnect"}

\* What the types say beyond the invariant, and why a wipe count stays within bounds:
\* every wipe, made or to be made, is an operation that was begun.
ConnectionRest ==
    /\ clock <= Horizon
    /\ Len(grants) <= MaxGrants
    /\ accounts \in [Accounts -> ConnectionRows]
    /\ sealed \subseteq Grants
    /\ storable \in BOOLEAN
    /\ cookie \in 0 .. NoCookie
    /\ request \in [Requests -> ConnectionRequests]
    /\ begun \in 0 .. MaxOperations
    /\ IsFiniteSet(Wiping)
    /\ \A a \in Accounts : wipes[a] + Cardinality(Wiping) <= begun

(* The other bounds are numbers.                                            *)
LEMMA ConnectionNumbers ==
    /\ Horizon \in Nat /\ MaxGrants \in Nat /\ MaxOperations \in Nat /\ GrantLife \in Nat
    /\ Unstated = Horizon + 1 /\ NoCookie = Horizon + 1 /\ None = 0
BY ConnectionsAssumption DEF Unstated, NoCookie, None

(* The types follow.                                                        *)
LEMMA ConnectionTypesFollow == ConnectionInv /\ ConnectionRest => ConnectionsTypeOK
<1> SUFFICES ASSUME ConnectionInv, ConnectionRest PROVE ConnectionsTypeOK
  OBVIOUS
<1>1. clock \in 0 .. Horizon
  BY ConnectionNumbers DEF ConnectionInv, ConnectionRest
<1>2. grants \in Seq([account: Accounts, expires: 0 .. Unstated, renewable: BOOLEAN])
  BY Zenon DEF ConnectionInv, GrantRecords
<1>3. wipes \in [Accounts -> 0 .. MaxOperations]
  <2>1. Cardinality(Wiping) \in Nat
    BY FS_CardinalityType, Zenon DEF ConnectionRest
  <2>2. ASSUME NEW a \in Accounts PROVE wipes[a] \in 0 .. MaxOperations
    BY <2>1, ConnectionNumbers DEF ConnectionInv, ConnectionRest
  <2> QED
    BY <2>2 DEF ConnectionInv
<1> QED
  BY <1>1, <1>2, <1>3 DEF ConnectionsTypeOK, ConnectionRest

(* A request moved to a typed state leaves the requests typed, and says     *)
(* whether it still will wipe.                                              *)
LEMMA TypedMove ==
    ASSUME ConnectionRest, NEW r \in Requests, NEW new \in ConnectionRequests, Move(r, new)
    PROVE  /\ request' \in [Requests -> ConnectionRequests]
           /\ Wiping' = IF new.op = "disconnect" THEN Wiping \cup {r} ELSE Wiping \ {r}
BY DEF ConnectionRest, Move, Wiping

Operations == {"rest", "callback", "disconnect", "refresh", "sweep", "publish"}
RequestSteps == {"rest", "exchange", "save", "tell", "forget", "reveal", "renew", "expire",
                 "mark", "send"}

\* What a request holds is within its bounds.
IsBounded(x) ==
    /\ x.op \in Operations /\ x.step \in RequestSteps
    /\ x.seen \in 0 .. MaxGrants /\ x.grant \in 0 .. MaxGrants /\ x.at \in 0 .. Horizon
    /\ x.stale \in SUBSET Accounts /\ x.wiped \in 0 .. MaxOperations

(* A typed request is a record whose fields are within their bounds.        *)
LEMMA BoundedIsTyped ==
    /\ \A x : IsRequest(x) /\ IsBounded(x) => x \in ConnectionRequests
    /\ \A x \in ConnectionRequests : IsRequest(x) /\ IsBounded(x)
<1>1. ASSUME NEW x, IsRequest(x), IsBounded(x) PROVE x \in ConnectionRequests
  BY <1>1 DEF IsRequest, IsBounded, RequestFields, ConnectionRequests, Operations, RequestSteps
<1>2. ASSUME NEW x \in ConnectionRequests PROVE IsRequest(x) /\ IsBounded(x)
  BY DEF IsRequest, IsBounded, RequestFields, ConnectionRequests, Operations, RequestSteps
<1> QED
  BY <1>1, <1>2

(* Rest is a typed request.                                                 *)
LEMMA RestIsTyped == Resting \in ConnectionRequests /\ Resting.op = "rest"
BY ConnectionNumbers DEF Resting, ConnectionRequests

(* What the rows hold is within bounds.                                     *)
LEMMA RowsAreBounded ==
    ASSUME ConnectionRest, NEW a \in Accounts
    PROVE  /\ accounts[a] \in ConnectionRows
           /\ accounts[a].access \in 0 .. MaxGrants /\ accounts[a].refresh \in 0 .. MaxGrants
BY DEF ConnectionRest, ConnectionRows

(* A typed row stays typed under a new status, and when it is wiped.         *)
LEMMA TypedRows ==
    ASSUME NEW x \in ConnectionRows
    PROVE  /\ [x EXCEPT !.status = "expired"] \in ConnectionRows
           /\ [x EXCEPT !.status = "revoked", !.access = None, !.refresh = None]
                 \in ConnectionRows
<1>1. [x EXCEPT !.status = "expired"] \in ConnectionRows
  BY DEF ConnectionRows
<1> DEFINE new == [x EXCEPT !.status = "revoked", !.access = None, !.refresh = None]
<1>2. IsAccountRow(x) /\ x.expires \in 0 .. Unstated /\ 0 \in 0 .. MaxGrants
  BY ConnectionNumbers DEF ConnectionRows, IsAccountRow, AccountFields
<1>3. /\ IsAccountRow(new) /\ new.status = "revoked" /\ new.expires = x.expires
      /\ new.access = 0 /\ new.refresh = 0
  BY <1>2 DEF IsAccountRow, AccountFields, None
<1> HIDE DEF new
<1>4. new \in ConnectionRows
  BY <1>2, <1>3 DEF ConnectionRows, IsAccountRow, AccountFields
<1> QED
  BY <1>1, <1>4 DEF new

(* A step of a request leaves the rows and the envelopes typed.             *)
LEMMA RowsStayTyped ==
    ASSUME ConnectionInv, ConnectionRest, NEW r \in Requests, RequestStep(r)
    PROVE  accounts' \in [Accounts -> ConnectionRows] /\ sealed' \subseteq Grants
<1>1. accounts \in [Accounts -> ConnectionRows] /\ sealed \subseteq Grants
  BY DEF ConnectionRest
<1>2. CASE UNCHANGED <<accounts, sealed>>
  BY <1>1, <1>2
<1>3. CASE SaveGrant(r)
  <2> DEFINE g == request[r].grant
  <2>1. g \in 1 .. Len(grants) /\ grants \in Seq(GrantRecords) /\ Len(grants) <= MaxGrants
    BY <1>3 DEF SaveGrant, ConnectionInv, ConnectionRest, RequestHolds
  <2>2. g \in Grants
    BY <2>1, ConnectionNumbers DEF Grants
  <2>3. grants[g].expires \in 0 .. Unstated
    BY <2>1, GrantTypes
  <2> DEFINE row == [status |-> "connected", expires |-> grants[g].expires, access |-> g,
                     refresh |-> IF grants[g].renewable THEN g ELSE None]
  <2>4. row \in ConnectionRows
    BY <2>2, <2>3, ConnectionNumbers DEF ConnectionRows, Grants
  <2>5. \/ UNCHANGED <<accounts, sealed>>
        \/ /\ accounts' = [accounts EXCEPT ![grants[g].account] = row]
           /\ sealed' = sealed \cup {g}
    BY <1>3 DEF SaveGrant, Stored
  <2> HIDE DEF row, g
  <2> QED
    BY <1>1, <2>2, <2>4, <2>5
<1>4. ASSUME NEW a \in Present,
             \/ accounts' = Forgotten(a)
             \/ accounts' = WithStatus(a, "expired"),
             UNCHANGED sealed
      PROVE  accounts' \in [Accounts -> ConnectionRows] /\ sealed' \subseteq Grants
  <2>1. a \in Accounts /\ accounts[a] \in ConnectionRows
    BY RowsAreBounded DEF Present
  <2>2. [accounts[a] EXCEPT !.status = "expired"] \in ConnectionRows
    BY <2>1, TypedRows
  <2>3. [accounts[a] EXCEPT !.status = "revoked", !.access = None, !.refresh = None]
            \in ConnectionRows
    BY <2>1, ConnectionNumbers, TypedRows
  <2>4. \/ accounts' = [accounts EXCEPT ![a] =
                [accounts[a] EXCEPT !.status = "revoked", !.access = None, !.refresh = None]]
        \/ accounts' = [accounts EXCEPT ![a] = [accounts[a] EXCEPT !.status = "expired"]]
    BY <1>1, <1>4, <2>1 DEF Forgotten, WithStatus
  <2> QED
    BY <1>1, <1>4, <2>2, <2>3, <2>4
<1>5. CASE Forget(r)
  BY <1>4, <1>5 DEF Forget
<1>6. CASE ExpireRow(r) \/ Mark(r)
  BY <1>4, <1>6 DEF ExpireRow, Mark
<1>7. CASE \/ Callback(r) \/ Exchange(r) \/ Disconnect(r) \/ TellPlatform(r) \/ Refresh(r)
           \/ RevealRefresh(r) \/ Renew(r)
  <2>1. UNCHANGED <<accounts, sealed>>
    BY <1>7 DEF Callback, Exchange, Disconnect, TellPlatform, Refresh, RevealRefresh, Renew
  <2> QED
    BY <1>2, <2>1
<1>8. CASE Sweep(r) \/ CheckConnection(r) \/ RevealAccess(r) \/ Send(r)
  <2>1. UNCHANGED <<accounts, sealed>>
    BY <1>8 DEF Sweep, CheckConnection, RevealAccess, Send
  <2> QED
    BY <1>2, <2>1
<1> QED
  BY <1>3, <1>5, <1>6, <1>7, <1>8 DEF RequestStep

(* A request begins with what it read of a row, and no more.                *)
LEMMA BegunIsTyped ==
    ASSUME ConnectionInv, ConnectionRest, NEW r \in Requests,
           Callback(r) \/ Disconnect(r) \/ Refresh(r) \/ Sweep(r) \/ CheckConnection(r)
    PROVE  \/ UNCHANGED request
           \/ \E new \in ConnectionRequests :
                 Move(r, new) /\ (new.op = "disconnect" => Disconnect(r))
<1>1. Resting \in ConnectionRequests /\ Resting.op = "rest"
  BY RestIsTyped
<1>2. CASE Callback(r)
  <2> DEFINE new == [Resting EXCEPT !.op = "callback", !.step = "exchange"]
  <2>1. /\ IsRequest(new) /\ new.op = "callback" /\ new.step = "exchange"
        /\ new.seen = 0 /\ new.grant = 0 /\ new.at = 0 /\ new.stale = {} /\ new.wiped = 0
    BY DEF IsRequest, RequestFields, Resting, None
  <2>2. Move(r, new) \/ UNCHANGED request
    BY <1>2 DEF Callback
  <2> HIDE DEF new
  <2>3. IsBounded(new)
    BY <2>1, ConnectionNumbers DEF IsBounded, Operations, RequestSteps
  <2> QED
    BY <2>1, <2>2, <2>3, BoundedIsTyped
<1>3. CASE Disconnect(r)
  <2>1. PICK a \in Present : LET g == accounts[a].access IN
            Move(r, [Resting EXCEPT !.op = "disconnect", !.seen = g, !.grant = g,
                        !.step = IF g = None \/ Unreadable(g) THEN "forget" ELSE "tell"])
    BY <1>3 DEF Disconnect
  <2> DEFINE g == accounts[a].access
  <2>2. g \in 0 .. MaxGrants
    BY RowsAreBounded DEF Present
  <2> HIDE DEF g
  <2> DEFINE step == IF g = None \/ Unreadable(g) THEN "forget" ELSE "tell"
  <2>3. step \in {"forget", "tell"}
    OBVIOUS
  <2> HIDE DEF step
  <2> DEFINE new == [Resting EXCEPT !.op = "disconnect", !.seen = g, !.grant = g, !.step = step]
  <2>4. /\ IsRequest(new) /\ new.op = "disconnect" /\ new.step = step
        /\ new.seen = g /\ new.grant = g /\ new.at = 0 /\ new.stale = {} /\ new.wiped = 0
    BY DEF IsRequest, RequestFields, Resting
  <2>5. Move(r, new)
    BY <2>1 DEF g, step
  <2> HIDE DEF new
  <2>6. IsBounded(new)
    BY <2>2, <2>3, <2>4, ConnectionNumbers DEF IsBounded, Operations, RequestSteps
  <2> QED
    BY <1>3, <2>4, <2>5, <2>6, BoundedIsTyped
<1>4. CASE Refresh(r)
  <2> DEFINE new == [Resting EXCEPT !.op = "refresh", !.step = "reveal"]
  <2>1. /\ IsRequest(new) /\ new.op = "refresh" /\ new.step = "reveal"
        /\ new.seen = 0 /\ new.grant = 0 /\ new.at = 0 /\ new.stale = {} /\ new.wiped = 0
    BY DEF IsRequest, RequestFields, Resting, None
  <2>2. Move(r, new)
    BY <1>4 DEF Refresh
  <2> HIDE DEF new
  <2>3. IsBounded(new)
    BY <2>1, ConnectionNumbers DEF IsBounded, Operations, RequestSteps
  <2> QED
    BY <2>1, <2>2, <2>3, BoundedIsTyped
<1>5. CASE Sweep(r)
  <2> DEFINE stale == {a \in Present : status_is_stale(accounts[a])}
  <2>1. stale \in SUBSET Accounts
    BY DEF Present
  <2>2. Move(r, [Resting EXCEPT !.op = "sweep", !.step = "mark", !.stale = stale])
    BY <1>5 DEF Sweep
  <2> HIDE DEF stale
  <2> DEFINE new == [Resting EXCEPT !.op = "sweep", !.step = "mark", !.stale = stale]
  <2>3. /\ IsRequest(new) /\ new.op = "sweep" /\ new.step = "mark"
        /\ new.seen = 0 /\ new.grant = 0 /\ new.at = 0 /\ new.stale = stale /\ new.wiped = 0
    BY DEF IsRequest, RequestFields, Resting, None
  <2> HIDE DEF new
  <2>4. IsBounded(new)
    BY <2>1, <2>3, ConnectionNumbers DEF IsBounded, Operations, RequestSteps
  <2> QED
    BY <2>2, <2>3, <2>4, BoundedIsTyped DEF new
<1>6. CASE CheckConnection(r)
  <2>1. PICK a \in Present :
           \/ Move(r, [Resting EXCEPT !.op = "publish", !.step = "reveal", !.at = clock,
                                      !.seen = accounts[a].access])
           \/ UNCHANGED request
    BY <1>6 DEF CheckConnection
  <2> DEFINE g == accounts[a].access
  <2>2. g \in 0 .. MaxGrants /\ clock \in 0 .. Horizon
    BY RowsAreBounded, ConnectionNumbers DEF Present, ConnectionInv, ConnectionRest
  <2>3. \/ Move(r, [Resting EXCEPT !.op = "publish", !.step = "reveal", !.at = clock, !.seen = g])
        \/ UNCHANGED request
    BY <2>1
  <2> HIDE DEF g
  <2> DEFINE new == [Resting EXCEPT !.op = "publish", !.step = "reveal", !.at = clock, !.seen = g]
  <2>4. /\ IsRequest(new) /\ new.op = "publish" /\ new.step = "reveal"
        /\ new.seen = g /\ new.grant = 0 /\ new.at = clock /\ new.stale = {} /\ new.wiped = 0
    BY DEF IsRequest, RequestFields, Resting, None
  <2> HIDE DEF new
  <2>5. IsBounded(new)
    BY <2>2, <2>4, ConnectionNumbers DEF IsBounded, Operations, RequestSteps
  <2> QED
    BY <2>3, <2>4, <2>5, BoundedIsTyped DEF new
<1> QED
  BY <1>2, <1>3, <1>4, <1>5, <1>6

(* A change of a typed request within the bounds is one, of the same        *)
(* operation.                                                               *)
LEMMA ChangedIsTyped ==
    ASSUME NEW x \in ConnectionRequests
    PROVE  /\ \A step \in RequestSteps : /\ [x EXCEPT !.step = step] \in ConnectionRequests
                                         /\ [x EXCEPT !.step = step].op = x.op
           /\ \A stale \in SUBSET Accounts : /\ [x EXCEPT !.stale = stale] \in ConnectionRequests
                                             /\ [x EXCEPT !.stale = stale].op = x.op
           /\ \A step \in RequestSteps, grant \in 0 .. MaxGrants :
                 /\ [x EXCEPT !.step = step, !.grant = grant] \in ConnectionRequests
                 /\ [x EXCEPT !.step = step, !.grant = grant].op = x.op
<1>1. IsRequest(x) /\ IsBounded(x)
  BY BoundedIsTyped
<1>2. ASSUME NEW step \in RequestSteps PROVE LET new == [x EXCEPT !.step = step]
                                             IN  new \in ConnectionRequests /\ new.op = x.op
  <2> DEFINE new == [x EXCEPT !.step = step]
  <2>1. /\ IsRequest(new) /\ new.op = x.op /\ new.step = step /\ new.seen = x.seen
        /\ new.grant = x.grant /\ new.at = x.at /\ new.stale = x.stale /\ new.wiped = x.wiped
    BY <1>1 DEF IsRequest, RequestFields
  <2> HIDE DEF new
  <2>2. IsBounded(new)
    BY <1>1, <2>1 DEF IsBounded
  <2> QED
    BY <2>1, <2>2, BoundedIsTyped DEF new
<1>3. ASSUME NEW stale \in SUBSET Accounts PROVE LET new == [x EXCEPT !.stale = stale]
                                      IN  new \in ConnectionRequests /\ new.op = x.op
  <2> DEFINE new == [x EXCEPT !.stale = stale]
  <2>1. /\ IsRequest(new) /\ new.op = x.op /\ new.step = x.step /\ new.seen = x.seen
        /\ new.grant = x.grant /\ new.at = x.at /\ new.stale = stale /\ new.wiped = x.wiped
    BY <1>1 DEF IsRequest, RequestFields
  <2> HIDE DEF new
  <2>2. IsBounded(new)
    BY <1>1, <2>1 DEF IsBounded
  <2> QED
    BY <2>1, <2>2, BoundedIsTyped DEF new
<1>4. ASSUME NEW step \in RequestSteps, NEW grant \in 0 .. MaxGrants
      PROVE  LET new == [x EXCEPT !.step = step, !.grant = grant]
             IN  new \in ConnectionRequests /\ new.op = x.op
  <2> DEFINE new == [x EXCEPT !.step = step, !.grant = grant]
  <2>1. /\ IsRequest(new) /\ new.op = x.op /\ new.step = step /\ new.seen = x.seen
        /\ new.grant = grant /\ new.at = x.at /\ new.stale = x.stale /\ new.wiped = x.wiped
    BY <1>1 DEF IsRequest, RequestFields
  <2> HIDE DEF new
  <2>2. IsBounded(new)
    BY <1>1, <2>1 DEF IsBounded
  <2> QED
    BY <2>1, <2>2, BoundedIsTyped DEF new
<1> QED
  BY <1>2, <1>3, <1>4

(* A request under way keeps its operation or rests, and what it takes is   *)
(* within bounds.                                                           *)
LEMMA ContinuedIsTyped ==
    ASSUME ConnectionInv, ConnectionRest, NEW r \in Requests,
           \/ Exchange(r) \/ SaveGrant(r) \/ TellPlatform(r) \/ Forget(r)
           \/ RevealRefresh(r) \/ Renew(r) \/ ExpireRow(r) \/ Mark(r)
           \/ RevealAccess(r) \/ Send(r)
    PROVE  \E new \in ConnectionRequests :
              Move(r, new) /\ (new = Resting \/ (new.op = request[r].op /\ ~ Forget(r)))
<1> DEFINE x == request[r]
<1>1. Resting \in ConnectionRequests /\ x \in ConnectionRequests
  BY RestIsTyped DEF ConnectionRest
<1>2. CASE Done(r)
  BY <1>1, <1>2 DEF Done
<1>5. \A step \in RequestSteps : /\ [x EXCEPT !.step = step] \in ConnectionRequests
                                 /\ [x EXCEPT !.step = step].op = x.op
  BY <1>1, ChangedIsTyped, Zenon
<1>6. \A step \in RequestSteps, grant \in 0 .. MaxGrants :
         /\ [x EXCEPT !.step = step, !.grant = grant] \in ConnectionRequests
         /\ [x EXCEPT !.step = step, !.grant = grant].op = x.op
  BY <1>1, ChangedIsTyped, Zenon
<1>3. {"save", "forget", "renew", "expire", "mark", "send"} \subseteq RequestSteps
  BY DEF RequestSteps
<1>7. CASE Exchange(r) \/ Renew(r)
  <2>1. \/ /\ Len(grants) < MaxGrants
           /\ Move(r, [x EXCEPT !.step = "save", !.grant = Len(grants) + 1])
        \/ Done(r)
        \/ Move(r, [x EXCEPT !.step = "expire"])
    BY <1>7 DEF Exchange, Renew, Issue
  <2>2. Len(grants) \in Nat
    BY DEF ConnectionInv
  <2>3. Len(grants) < MaxGrants => Len(grants) + 1 \in 0 .. MaxGrants
    BY <2>2, ConnectionNumbers
  <2>4. ~ Forget(r)
    BY <1>7 DEF Exchange, Renew, Forget, At
  <2>5. CASE Len(grants) < MaxGrants
             /\ Move(r, [x EXCEPT !.step = "save", !.grant = Len(grants) + 1])
    <3> DEFINE granted == [x EXCEPT !.step = "save", !.grant = Len(grants) + 1]
    <3>1. granted \in ConnectionRequests /\ granted.op = x.op
      BY <1>3, <1>6, <2>3, <2>5
    <3>2. Move(r, granted)
      BY <2>5
    <3> HIDE DEF granted
    <3> QED
      BY <2>4, <3>1, <3>2
  <2>6. CASE Move(r, [x EXCEPT !.step = "expire"])
    <3> DEFINE expired == [x EXCEPT !.step = "expire"]
    <3>1. expired \in ConnectionRequests /\ expired.op = x.op
      BY <1>3, <1>5
    <3>2. Move(r, expired)
      BY <2>6
    <3> HIDE DEF expired
    <3> QED
      BY <2>4, <3>1, <3>2
  <2> QED
    BY <1>2, <2>1, <2>5, <2>6
<1>8. CASE SaveGrant(r) \/ Forget(r) \/ ExpireRow(r) \/ Send(r)
  BY <1>2, <1>8 DEF SaveGrant, Forget, ExpireRow, Send
<1>9. CASE TellPlatform(r)
  <2>1. Move(r, [x EXCEPT !.step = "forget"]) /\ ~ Forget(r)
    BY <1>9 DEF TellPlatform, Forget, At
  <2> QED
    BY <1>3, <1>5, <2>1
<1>10. CASE RevealRefresh(r)
  <2>1. PICK a \in Present : LET g == accounts[a].refresh IN
            \/ Done(r)
            \/ Move(r, [x EXCEPT !.seen = accounts[a].access, !.grant = g, !.wiped = wipes[a],
                            !.step = IF g = None THEN "expire" ELSE "renew"])
    BY <1>10 DEF RevealRefresh
  <2> DEFINE g == accounts[a].refresh
  <2> DEFINE s == accounts[a].access
  <2>2. a \in Accounts /\ g \in 0 .. MaxGrants /\ s \in 0 .. MaxGrants
    BY RowsAreBounded DEF Present
  <2>3. wipes[a] \in 0 .. MaxOperations
    BY <2>2, ConnectionTypesFollow DEF ConnectionsTypeOK
  <2> DEFINE step == IF g = None THEN "expire" ELSE "renew"
  <2>4. step \in RequestSteps
    BY DEF RequestSteps
  <2>5. ~ Forget(r)
    BY <1>10 DEF RevealRefresh, Forget, At
  <2> DEFINE new == [x EXCEPT !.seen = s, !.grant = g, !.wiped = wipes[a], !.step = step]
  <2>6. Done(r) \/ Move(r, new)
    BY <2>1
  <2>7. IsRequest(x) /\ IsBounded(x)
    BY <1>1, BoundedIsTyped
  <2>8. /\ IsRequest(new) /\ new.op = x.op /\ new.step = step /\ new.seen = s
        /\ new.grant = g /\ new.at = x.at /\ new.stale = x.stale /\ new.wiped = wipes[a]
    BY <2>7 DEF IsRequest, RequestFields
  <2> HIDE DEF g, s, step, x, new
  <2>9. IsBounded(new)
    BY <2>2, <2>3, <2>4, <2>7, <2>8 DEF IsBounded
  <2>10. new \in ConnectionRequests
    BY <2>8, <2>9, BoundedIsTyped
  <2> QED
    BY <1>2, <2>5, <2>6, <2>8, <2>10 DEF x
<1>11. CASE Mark(r)
  <2>1. PICK done \in x.stale : \/ Done(r)
                                \/ Move(r, [x EXCEPT !.stale = x.stale \ {done}])
    <3>1. PICK done \in x.stale : IF x.stale = {done} THEN Done(r)
                                  ELSE Move(r, [x EXCEPT !.stale = @ \ {done}])
      BY <1>11 DEF Mark
    <3> QED
      BY <1>1, <3>1 DEF ConnectionRequests
  <2>2. x.stale \ {done} \in SUBSET Accounts /\ ~ Forget(r)
    BY <1>1, <1>11 DEF ConnectionRequests, Mark, Forget, At
  <2>3. /\ [x EXCEPT !.stale = x.stale \ {done}] \in ConnectionRequests
        /\ [x EXCEPT !.stale = x.stale \ {done}].op = x.op
    BY <1>1, <2>2, ChangedIsTyped, Zenon
  <2> QED
    BY <1>2, <2>1, <2>2, <2>3
<1>12. CASE RevealAccess(r)
  <2>1. PICK a \in Present : \/ Done(r)
                             \/ Move(r, [x EXCEPT !.step = "send", !.grant = accounts[a].access])
    BY <1>12 DEF RevealAccess
  <2>2. accounts[a].access \in 0 .. MaxGrants /\ ~ Forget(r)
    BY <1>12, RowsAreBounded DEF Present, RevealAccess, Forget, At
  <2> QED
    BY <1>2, <1>3, <1>6, <2>1, <2>2
<1> QED
  BY <1>7, <1>8, <1>9, <1>10, <1>11, <1>12

(* A step of a request keeps what the types need of the requests, and the   *)
(* count of the wipes.                                                      *)
LEMMA WipesStayCounted ==
    ASSUME ConnectionInv, ConnectionRest, NEW r \in Requests, RequestStep(r)
    PROVE  /\ request' \in [Requests -> ConnectionRequests]
           /\ begun' \in 0 .. MaxOperations
           /\ IsFiniteSet(Wiping')
           /\ \A a \in Accounts : wipes'[a] + Cardinality(Wiping') <= begun'
<1>1. /\ request \in [Requests -> ConnectionRequests] /\ begun \in 0 .. MaxOperations
      /\ IsFiniteSet(Wiping) /\ Cardinality(Wiping) \in Nat
      /\ \A a \in Accounts : wipes[a] \in Nat /\ wipes[a] + Cardinality(Wiping) <= begun
  BY FS_CardinalityType, Zenon DEF ConnectionRest, ConnectionInv
<1>2. Resting.op = "rest"
  BY RestIsTyped
<1>3. /\ IsFiniteSet(Wiping \ {r}) /\ Cardinality(Wiping \ {r}) \in Nat
      /\ Cardinality(Wiping \ {r})
         = IF r \in Wiping THEN Cardinality(Wiping) - 1 ELSE Cardinality(Wiping)
  BY <1>1, FS_RemoveElement, FS_CardinalityType
<1>4. /\ IsFiniteSet(Wiping \cup {r})
      /\ r \notin Wiping => Cardinality(Wiping \cup {r}) = Cardinality(Wiping) + 1
  BY <1>1, FS_AddElement
<1>5. CASE Callback(r) \/ Disconnect(r) \/ Refresh(r) \/ Sweep(r) \/ CheckConnection(r)
  <2>1. /\ wipes' = wipes /\ request[r] = Resting
        /\ begun < MaxOperations /\ begun' = begun + 1
    BY <1>5 DEF Callback, Disconnect, Refresh, Sweep, CheckConnection, Begins
  <2>2. begun' \in 0 .. MaxOperations /\ r \notin Wiping
    BY <1>1, <1>2, <2>1, ConnectionNumbers DEF Wiping
  <2>3. CASE UNCHANGED request
    <3>1. Wiping' = Wiping
      BY <2>3 DEF Wiping
    <3> QED
      BY <1>1, <2>1, <2>2, <2>3, <3>1
  <2>4. ASSUME NEW new \in ConnectionRequests, Move(r, new)
        PROVE  /\ request' \in [Requests -> ConnectionRequests] /\ IsFiniteSet(Wiping')
               /\ \A a \in Accounts : wipes'[a] + Cardinality(Wiping') <= begun'
    <3>1. /\ request' \in [Requests -> ConnectionRequests]
          /\ Wiping' = IF new.op = "disconnect" THEN Wiping \cup {r} ELSE Wiping \ {r}
      BY <2>4, TypedMove
    <3> QED
      BY <1>1, <1>3, <1>4, <2>1, <2>2, <3>1
  <2> QED
    BY <1>5, <2>2, <2>3, <2>4, BegunIsTyped
<1>6. CASE \/ Exchange(r) \/ SaveGrant(r) \/ TellPlatform(r) \/ Forget(r)
           \/ RevealRefresh(r) \/ Renew(r) \/ ExpireRow(r) \/ Mark(r)
           \/ RevealAccess(r) \/ Send(r)
  <2>1. PICK new \in ConnectionRequests :
              Move(r, new) /\ (new = Resting \/ (new.op = request[r].op /\ ~ Forget(r)))
    BY <1>6, ContinuedIsTyped
  <2>2. /\ request' \in [Requests -> ConnectionRequests]
        /\ Wiping' = IF new.op = "disconnect" THEN Wiping \cup {r} ELSE Wiping \ {r}
    BY <2>1, TypedMove
  <2>3. new.op = "disconnect" => r \in Wiping
    BY <1>2, <2>1 DEF Wiping
  <2>4. Wiping' = Wiping \/ (Wiping' = Wiping \ {r})
    BY <2>2, <2>3
  <2>5. begun' = begun
    BY <1>6 DEF Exchange, SaveGrant, TellPlatform, Forget, RevealRefresh, Renew, ExpireRow,
                Mark, RevealAccess, Send
  <2>6. CASE Forget(r)
    <3>1. new = Resting /\ r \in Wiping
      BY <2>1, <2>6 DEF Forget, At, Wiping
    <3>2. Wiping' = Wiping \ {r} /\ Cardinality(Wiping \ {r}) = Cardinality(Wiping) - 1
      BY <1>2, <1>3, <2>2, <3>1
    <3>3. PICK a \in Present : wipes' = [wipes EXCEPT ![a] = @ + 1]
      BY <2>6 DEF Forget
    <3>4. \A b \in Accounts : wipes'[b] = wipes[b] \/ wipes'[b] = wipes[b] + 1
      BY <3>3 DEF ConnectionInv
    <3>5. \A b \in Accounts : wipes'[b] + Cardinality(Wiping \ {r}) <= begun
      BY <1>1, <1>3, <3>2, <3>4
    <3> QED
      BY <1>1, <1>3, <2>2, <2>5, <3>2, <3>5
  <2>7. CASE ~ Forget(r)
    <3>1. wipes' = wipes
      BY <1>6, <2>7 DEF Exchange, SaveGrant, TellPlatform, RevealRefresh, Renew, ExpireRow,
                        Mark, RevealAccess, Send
    <3>2. IsFiniteSet(Wiping')
      BY <1>1, <1>3, <2>4
    <3>3. Cardinality(Wiping') \in Nat /\ Cardinality(Wiping') <= Cardinality(Wiping)
      <4>1. CASE Wiping' = Wiping
        BY <1>1, <4>1
      <4>2. CASE Wiping' = Wiping \ {r}
        BY <1>1, <1>3, <4>2
      <4> QED
        BY <2>4, <4>1, <4>2
    <3>4. \A a \in Accounts : wipes[a] + Cardinality(Wiping') <= begun
      BY <1>1, <3>3, ConnectionNumbers
    <3> QED
      BY <1>1, <2>2, <2>5, <3>1, <3>2, <3>4
  <2> QED
    BY <2>6, <2>7
<1> QED
  BY <1>5, <1>6 DEF RequestStep

(* Every step keeps the rest of the types.                                  *)
LEMMA ConnectionRestKept ==
    ConnectionInv /\ ConnectionRest /\ [ConnectionsNext]_connectionVars => ConnectionRest'
<1> SUFFICES ASSUME ConnectionInv, ConnectionRest, [ConnectionsNext]_connectionVars
             PROVE  ConnectionRest'
  OBVIOUS
<1>1. clock \in 0 .. Horizon
  BY ConnectionNumbers DEF ConnectionInv, ConnectionRest
<1>2. ASSUME NEW r \in Requests, RequestStep(r) PROVE ConnectionRest'
  <2>1. accounts' \in [Accounts -> ConnectionRows] /\ sealed' \subseteq Grants
    BY <1>2, RowsStayTyped
  <2>2. /\ request' \in [Requests -> ConnectionRequests] /\ begun' \in 0 .. MaxOperations
        /\ IsFiniteSet(Wiping')
        /\ \A a \in Accounts : wipes'[a] + Cardinality(Wiping') <= begun'
    BY <1>2, WipesStayCounted
  <2>3. clock' = clock /\ storable' = storable
    BY <1>2 DEF RequestStep, Callback, Exchange, SaveGrant, Disconnect, TellPlatform, Forget,
                Refresh, RevealRefresh, Renew, ExpireRow, Sweep, Mark, CheckConnection,
                RevealAccess, Send
  <2>4. cookie' = cookie \/ cookie' = NoCookie
    BY <1>2 DEF RequestStep, Callback, Exchange, SaveGrant, Disconnect, TellPlatform, Forget,
                Refresh, RevealRefresh, Renew, ExpireRow, Sweep, Mark, CheckConnection,
                RevealAccess, Send
  <2>5. Len(grants') <= MaxGrants
    <3>1. CASE grants' = grants
      BY <3>1 DEF ConnectionRest
    <3>2. CASE \E a \in Accounts : Issue(a)
      <4>1. Len(grants) < MaxGrants
        BY <3>2 DEF Issue
      <4>2. Len(grants') = Len(grants) + 1 /\ Len(grants) \in Nat
        BY <3>2, IssueExtends
      <4> QED
        BY <4>1, <4>2, ConnectionNumbers
    <3>3. CASE Exchange(r)
      BY <3>1, <3>2, <3>3 DEF Exchange
    <3>4. CASE Renew(r)
      <4>1. request[r].op = "refresh" /\ request[r].step = "renew"
        BY <3>4 DEF Renew, At
      <4>2. grants[request[r].grant].account \in Accounts
        BY <4>1, GrantTypes DEF RequestHolds, ConnectionInv
      <4> QED
        BY <3>1, <3>2, <3>4, <4>2 DEF Renew
    <3>5. CASE ~ Exchange(r) /\ ~ Renew(r)
      BY <1>2, <3>1, <3>5
         DEF RequestStep, Callback, SaveGrant, Disconnect, TellPlatform, Forget,
             Refresh, RevealRefresh, ExpireRow, Sweep, Mark, CheckConnection,
             RevealAccess, Send
    <3> QED
      BY <3>3, <3>4, <3>5
  <2> QED
    BY <2>1, <2>2, <2>3, <2>4, <2>5, ConnectionNumbers DEF ConnectionRest
<1>3. CASE UNCHANGED connectionVars
  BY <1>3 DEF connectionVars, ConnectionRest, Wiping
<1>4. CASE StartConnect
  <2>1. Wiping' = Wiping /\ cookie' \in 0 .. NoCookie
    BY <1>1, <1>4, ConnectionNumbers DEF StartConnect, Wiping
  <2> QED
    BY <1>4, <2>1 DEF StartConnect, ConnectionRest
<1>5. CASE Elapse
  <2>1. Wiping' = Wiping /\ clock' <= Horizon
    BY <1>1, <1>5, ConnectionNumbers DEF Elapse, Wiping
  <2> QED
    BY <1>5, <2>1 DEF Elapse, ConnectionRest
<1>6. CASE Redeploy
  <2>1. Wiping' = {}
    BY <1>6, RestIsTyped DEF Redeploy, Wiping
  <2>2. IsFiniteSet({}) /\ Cardinality({}) = 0 /\ Cardinality(Wiping) \in Nat
    BY FS_EmptySet, FS_CardinalityType DEF ConnectionRest
  <2>3. begun \in Nat /\ \A a \in Accounts : wipes[a] \in Nat /\ wipes[a] <= begun
    BY <2>2, ConnectionNumbers DEF ConnectionInv, ConnectionRest
  <2>4. request' \in [Requests -> ConnectionRequests] /\ storable' \in BOOLEAN
        /\ sealed' \subseteq Grants
    BY <1>6, RestIsTyped DEF Redeploy, ConnectionRest
  <2> QED
    BY <1>6, <2>1, <2>2, <2>3, <2>4 DEF Redeploy, ConnectionRest
<1> QED
  BY <1>2, <1>3, <1>4, <1>5, <1>6 DEF ConnectionsNext

(* services/connection_service: rows, credentials and requests have their   *)
(* types, and an account is wiped at most as often as operations were       *)
(* begun, for every number of accounts and requests.                        *)
THEOREM ConnectionTypeCorrect == ConnectionsSpec => []ConnectionsTypeOK
<1>1. ConnectionsInit => ConnectionRest
  <2> SUFFICES ASSUME ConnectionsInit PROVE ConnectionRest
    OBVIOUS
  <2>1. /\ clock = 0 /\ grants = << >> /\ accounts = [a \in Accounts |-> Absent]
        /\ sealed = {} /\ storable \in BOOLEAN /\ cookie = NoCookie
        /\ request = [r \in Requests |-> Resting]
        /\ wipes = [a \in Accounts |-> 0] /\ begun = 0
    BY DEF ConnectionsInit
  <2>2. Absent \in ConnectionRows
    BY ConnectionNumbers DEF Absent, ConnectionRows
  <2>3. Wiping = {}
    BY <2>1, RestIsTyped DEF Wiping
  <2>4. IsFiniteSet({}) /\ Cardinality({}) = 0
    BY FS_EmptySet
  <2> QED
    BY <2>1, <2>2, <2>3, <2>4, RestIsTyped, ConnectionNumbers DEF ConnectionRest
<1> QED
  BY <1>1, ConnectionStart, ConnectionStep, ConnectionRestKept, ConnectionTypesFollow, PTL
  DEF ConnectionsSpec

=============================================================================
