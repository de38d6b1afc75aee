----------------------------- MODULE EdgeProofs -----------------------------
(* Proofs about the parts that stand between the callers and the store:     *)
(* SignIn, Access, RateLimiter, TenantStore and AuditChain, for any number  *)
(* of users, keys, tenants, rows and entries.                               *)
EXTENDS SignIn, TenantStore, Access, RateLimiter, AuditChain,
        FiniteSetTheorems, SequenceTheorems, NaturalsInduction, WellFoundedInduction,
        TLAPS

(* A wrong password is only looked at while the count is the number of      *)
(* guesses since the last good one, and from LockAfter on the lock reaches  *)
(* LockFor past the last of them.                                           *)
CountInv ==
  \A u \in Users :
    /\ failed[u] = Len(guesses[u])
    /\ Len(guesses[u]) >= LockAfter =>
         lockedUntil[u] >= guesses[u][Len(guesses[u])] + LockFor

(* The tokens of s that are no longer good.                                 *)
Revoked(s) == {i \in DOMAIN s : s[i].revoked}

(* A family is the position of the token its sign-in issued, and a token    *)
(* that others came from is no longer good.                                 *)
FamilyInv ==
  \A i \in DOMAIN refresh :
    /\ refresh[i].family \in 1..Len(refresh)
    /\ refresh[i].from # 0 =>
         refresh[i].from \in Revoked(refresh)

(* OneGoodTokenPerSignIn, said of the set Revoked.                          *)
LineInv ==
  \A i, j \in DOMAIN refresh :
    /\ refresh[i].family = refresh[j].family =>
         /\ refresh[i].user = refresh[j].user
         /\ i < j => i \in Revoked(refresh)
    /\ i # j /\ refresh[i].from = refresh[j].from => refresh[i].from = 0

SignInInv == SignInTypeOK /\ CountInv /\ FamilyInv /\ GuessesAreSpaced /\ LineInv

-----------------------------------------------------------------------------
LEMMA SignInInitInv == SignInInit => SignInInv
<1> SUFFICES ASSUME SignInInit PROVE SignInInv
  OBVIOUS
<1> USE SignInAssumption DEF SignInInit
<1>1. SignInTypeOK
  BY DEF SignInTypeOK
<1>2. CountInv
  BY DEF CountInv
<1>3. FamilyInv /\ LineInv
  BY DEF FamilyInv, LineInv
<1>4. GuessesAreSpaced
  BY DEF GuessesAreSpaced
<1> QED
  BY <1>1, <1>2, <1>3, <1>4 DEF SignInInv

(* The clock and the tokens leave the guesses alone.                        *)
LEMMA GuessesKept ==
  ASSUME SignInInv, UNCHANGED <<failed, lockedUntil, guesses>>
  PROVE  CountInv' /\ GuessesAreSpaced'
BY DEF SignInInv, CountInv, GuessesAreSpaced

(* The clock and the passwords leave the tokens alone.                      *)
LEMMA TokensKept ==
  ASSUME SignInInv, UNCHANGED refresh
  PROVE  FamilyInv' /\ LineInv'
BY DEF SignInInv, FamilyInv, LineInv

LEMMA WrongPasswordInv ==
  ASSUME SignInInv, NEW u \in Users, WrongPassword(u)
  PROVE  SignInInv'
<1> USE SignInAssumption
<1> DEFINE n == Len(guesses[u])
<1>1. /\ now \in 0..MaxTime /\ guesses[u] \in Seq(0..MaxTime) /\ n \in Nat
      /\ failed[u] = n /\ lockedUntil[u] \in Nat /\ lockedUntil[u] <= now
      /\ failed \in [Users -> Nat] /\ lockedUntil \in [Users -> Nat]
      /\ guesses \in [Users -> Seq(0..MaxTime)]
  BY DEF SignInInv, SignInTypeOK, CountInv, WrongPassword, Locked
<1>2. /\ guesses' = [guesses EXCEPT ![u] = Append(@, now)]
      /\ failed' = [failed EXCEPT ![u] = @ + 1]
      /\ lockedUntil' = [lockedUntil EXCEPT ![u] = IF failed[u] + 1 >= LockAfter THEN now + LockFor ELSE @]
      /\ now' = now /\ refresh' = refresh
  BY DEF WrongPassword
<1>3. /\ guesses'[u] = Append(guesses[u], now) /\ Len(guesses'[u]) = n + 1
      /\ guesses'[u][n + 1] = now
      /\ \A i \in 1..n : guesses'[u][i] = guesses[u][i]
      /\ \A v \in Users \ {u} : guesses'[v] = guesses[v]
  BY <1>1, <1>2
<1>4. SignInTypeOK'
  BY <1>1, <1>2 DEF SignInInv, SignInTypeOK
<1>5. CountInv'
  BY <1>1, <1>2, <1>3 DEF SignInInv, CountInv
<1>6. GuessesAreSpaced'
  <2> SUFFICES ASSUME NEW v \in Users, NEW i \in LockAfter..(Len(guesses'[v]) - 1)
               PROVE  guesses'[v][i + 1] >= guesses'[v][i] + LockFor
    BY DEF GuessesAreSpaced
  <2>1. CASE v # u
    BY <2>1, <1>3 DEF SignInInv, GuessesAreSpaced
  <2>2. CASE v = u /\ i < n
    <3>1. i \in LockAfter..(n - 1) /\ i \in 1..n /\ i + 1 \in 1..n
      BY <2>2, <1>1
    <3> QED
      BY <3>1, <2>2, <1>3 DEF SignInInv, GuessesAreSpaced
  <2>3. CASE v = u /\ i = n
    <3>1. n >= LockAfter /\ n \in 1..n
      BY <2>3, <1>1
    <3>2. now >= guesses[u][n] + LockFor
      <4>1. guesses[u][n] \in 0..MaxTime
        <5>1. n \in DOMAIN guesses[u]
          BY <3>1, <1>1
        <5> QED
          BY <5>1, <1>1
      <4>2. lockedUntil[u] >= guesses[u][n] + LockFor
        BY <3>1 DEF SignInInv, CountInv
      <4> QED
        BY <4>1, <4>2, <1>1
    <3> QED
      BY <3>1, <3>2, <2>3, <1>3
  <2> QED
    BY <2>1, <2>2, <2>3, <1>1, <1>3
<1> QED
  BY <1>2, <1>4, <1>5, <1>6, TokensKept DEF SignInInv

(* What store_refresh_token appends.                                        *)
LEMMA IssuedToken ==
  ASSUME NEW u \in Users, NEW f \in Nat, NEW x \in Nat, now \in Nat, Len(refresh) \in Nat
  PROVE  LET new == Issued(u, f, x)
         IN /\ new \in RefreshToken /\ new.user = u /\ new.from = x
            /\ new.family = IF f = 0 THEN Len(refresh) + 1 ELSE f
BY SignInAssumption DEF Issued, RefreshToken

(* It is a good one.                                                        *)
LEMMA IssuedIsGood ==
  ASSUME refresh \in Seq(RefreshToken), NEW s \in Seq(RefreshToken), NEW u, NEW f, NEW x,
         Issued(u, f, x) \in RefreshToken
  PROVE  Revoked(Append(s, Issued(u, f, x))) = Revoked(s)
<1> DEFINE new == Issued(u, f, x)
<1>1. ~new.revoked
  BY DEF Issued
<1> HIDE DEF new
<1>2. /\ DOMAIN Append(s, new) = DOMAIN s \union {Len(s) + 1}
      /\ Append(s, new)[Len(s) + 1] = new
      /\ Len(s) + 1 \notin DOMAIN s
      /\ \A i \in DOMAIN s : Append(s, new)[i] = s[i]
  OBVIOUS
<1>3. Revoked(Append(s, new)) = Revoked(s)
  BY <1>1, <1>2, Zenon DEF Revoked
<1> QED
  BY <1>3 DEF new

(* Revoking changes one field of one token.                                 *)
LEMMA RevokedToken ==
  ASSUME refresh \in Seq(RefreshToken), NEW t \in DOMAIN refresh
  PROVE  LET after == [refresh EXCEPT ![t].revoked = TRUE]
         IN /\ after \in Seq(RefreshToken) /\ Len(after) = Len(refresh)
            /\ \A i \in DOMAIN refresh : /\ after[i].family = refresh[i].family
                                        /\ after[i].from = refresh[i].from
                                        /\ after[i].user = refresh[i].user
            /\ Revoked(after) = Revoked(refresh) \union {t}
<1> DEFINE marked == [refresh[t] EXCEPT !.revoked = TRUE]
           after == [refresh EXCEPT ![t] = marked]
<1>1. refresh[t] \in RefreshToken
  OBVIOUS
<1>2. /\ marked \in RefreshToken /\ marked.revoked
      /\ marked.family = refresh[t].family /\ marked.from = refresh[t].from
      /\ marked.user = refresh[t].user
  BY <1>1 DEF RefreshToken
<1> HIDE DEF marked
<1>3. /\ after \in Seq(RefreshToken) /\ Len(after) = Len(refresh)
      /\ \A i \in DOMAIN refresh : after[i] = IF i = t THEN marked ELSE refresh[i]
  BY <1>2
<1>4. after = [refresh EXCEPT ![t].revoked = TRUE]
  BY DEF marked
<1>5. DOMAIN after = DOMAIN refresh
  OBVIOUS
<1>6. Revoked(after) = Revoked(refresh) \union {t}
  BY <1>2, <1>3, <1>5, Zenon DEF Revoked
<1> HIDE DEF after
<1> QED
  BY <1>2, <1>3, <1>4, <1>6

LEMMA RightPasswordInv ==
  ASSUME SignInInv, NEW u \in Users, RightPassword(u)
  PROVE  SignInInv'
<1> USE SignInAssumption
<1> DEFINE L == Len(refresh)
           new == Issued(u, 0, 0)
<1>1. /\ refresh \in Seq(RefreshToken) /\ L \in Nat /\ DOMAIN refresh = 1..L
      /\ now \in 0..MaxTime
  BY DEF SignInInv, SignInTypeOK
<1>2. /\ new \in RefreshToken /\ new.family = L + 1 /\ new.from = 0 /\ new.user = u
  BY <1>1, IssuedToken
<1>3. /\ refresh' = Append(refresh, new) /\ now' = now
      /\ failed' = [failed EXCEPT ![u] = 0] /\ lockedUntil' = [lockedUntil EXCEPT ![u] = 0]
      /\ guesses' = [guesses EXCEPT ![u] = <<>>]
  BY DEF RightPassword
<1>4. /\ refresh' \in Seq(RefreshToken) /\ Len(refresh') = L + 1 /\ DOMAIN refresh' = 1..(L + 1)
      /\ refresh'[L + 1] = new /\ \A i \in 1..L : refresh'[i] = refresh[i]
      /\ Revoked(refresh') = Revoked(refresh)
  BY <1>1, <1>2, <1>3, IssuedIsGood
<1>5. SignInTypeOK'
  BY <1>1, <1>3, <1>4 DEF SignInInv, SignInTypeOK
<1>6. CountInv' /\ GuessesAreSpaced'
  <2>1. CountInv'
    BY <1>3 DEF SignInInv, SignInTypeOK, CountInv
  <2>2. GuessesAreSpaced'
    BY <1>3 DEF SignInInv, SignInTypeOK, GuessesAreSpaced
  <2> QED
    BY <2>1, <2>2
<1>7. FamilyInv'
  BY <1>1, <1>2, <1>4 DEF SignInInv, FamilyInv
<1>8. LineInv'
  <2> SUFFICES ASSUME NEW i \in 1..(L + 1), NEW j \in 1..(L + 1)
               PROVE  /\ refresh'[i].family = refresh'[j].family =>
                           /\ refresh'[i].user = refresh'[j].user
                           /\ i < j => i \in Revoked(refresh')
                      /\ i # j /\ refresh'[i].from = refresh'[j].from => refresh'[i].from = 0
    BY <1>4 DEF LineInv
  <2>1. CASE i \in 1..L /\ j \in 1..L
    <3>1. refresh'[i] = refresh[i] /\ refresh'[j] = refresh[j] /\ Revoked(refresh') = Revoked(refresh)
      BY <2>1, <1>4
    <3>2. /\ refresh[i].family = refresh[j].family =>
               /\ refresh[i].user = refresh[j].user
               /\ i < j => i \in Revoked(refresh)
          /\ i # j /\ refresh[i].from = refresh[j].from => refresh[i].from = 0
      BY <2>1, <1>1 DEF SignInInv, LineInv
    <3> QED
      BY <3>1, <3>2
  <2>2. CASE i = L + 1 \/ j = L + 1
    <3>1. \A k \in 1..L : refresh'[k].family \in 1..L
      BY <1>1, <1>4 DEF SignInInv, FamilyInv
    <3> QED
      BY <3>1, <2>2, <1>1, <1>2, <1>4
  <2> QED
    BY <2>1, <2>2, <1>1
<1> QED
  BY <1>5, <1>6, <1>7, <1>8 DEF SignInInv

(* Appending an element. *)
LEMMA OneMoreToken ==
  ASSUME NEW S, NEW s \in Seq(S), NEW e \in S
  PROVE  /\ Append(s, e) \in Seq(S) /\ Len(Append(s, e)) = Len(s) + 1
         /\ DOMAIN Append(s, e) = 1..(Len(s) + 1)
         /\ Append(s, e)[Len(s) + 1] = e
         /\ \A i \in 1..Len(s) : Append(s, e)[i] = s[i]
OBVIOUS

LEMMA ExchangeInv ==
  ASSUME SignInInv, NEW t \in 1..MaxTokens, Exchange(t)
  PROVE  SignInInv'
<1> USE SignInAssumption
<1> DEFINE L == Len(refresh)
           new == Issued(refresh[t].user, refresh[t].family, t)
<1>1. /\ refresh \in Seq(RefreshToken) /\ L \in Nat /\ DOMAIN refresh = 1..L
      /\ now \in 0..MaxTime /\ t \in 1..L
      /\ refresh[t] \in RefreshToken /\ refresh[t].family \in 1..L
      /\ t \notin Revoked(refresh)
  BY DEF SignInInv, SignInTypeOK, FamilyInv, Exchange, Revoked
<1>2. /\ new \in RefreshToken /\ new.family = refresh[t].family /\ new.from = t
      /\ new.user = refresh[t].user
  <2>1. refresh[t].user \in Users /\ refresh[t].family \in Nat /\ refresh[t].family # 0
    BY <1>1 DEF RefreshToken
  <2> QED
    BY <2>1, <1>1, IssuedToken
<1>3. /\ Rotated(t) \in Seq(RefreshToken) /\ Len(Rotated(t)) = L
      /\ \A i \in 1..L : /\ Rotated(t)[i].family = refresh[i].family
                         /\ Rotated(t)[i].from = refresh[i].from
                         /\ Rotated(t)[i].user = refresh[i].user
      /\ Revoked(Rotated(t)) = Revoked(refresh) \union {t}
  BY <1>1, RevokedToken DEF Rotated
<1>4. /\ refresh' = Append(Rotated(t), new)
      /\ UNCHANGED <<now, failed, lockedUntil, guesses>>
  BY DEF Exchange
<1>5. /\ refresh' \in Seq(RefreshToken) /\ Len(refresh') = L + 1 /\ DOMAIN refresh' = 1..(L + 1)
      /\ refresh'[L + 1] = new
      /\ \A i \in 1..L : refresh'[i] = Rotated(t)[i]
      /\ Revoked(refresh') = Revoked(refresh) \union {t}
  <2>1. Revoked(refresh') = Revoked(Rotated(t))
    BY <1>1, <1>2, <1>3, <1>4, IssuedIsGood
  <2> DEFINE earlier == Rotated(t)
             next == Append(earlier, new)
  <2>2. earlier \in Seq(RefreshToken) /\ new \in RefreshToken /\ Len(earlier) = L /\ refresh' = next
    BY <1>2, <1>3, <1>4
  <2> HIDE DEF new, earlier, L
  <2>3. /\ next \in Seq(RefreshToken) /\ Len(next) = L + 1 /\ DOMAIN next = 1..(L + 1)
        /\ next[L + 1] = new
        /\ \A i \in 1..L : next[i] = earlier[i]
    BY <2>2, OneMoreToken
  <2> HIDE DEF next
  <2>4. /\ refresh' \in Seq(RefreshToken) /\ Len(refresh') = L + 1 /\ DOMAIN refresh' = 1..(L + 1)
        /\ refresh'[L + 1] = new
        /\ \A i \in 1..L : refresh'[i] = Rotated(t)[i]
    BY <2>2, <2>3, Zenon DEF earlier
  <2> QED
    BY <2>1, <2>4, <1>3, Zenon
<1>6. SignInTypeOK'
  BY <1>4, <1>5 DEF SignInInv, SignInTypeOK
<1> HIDE DEF new
<1>7. \A i \in 1..L : /\ refresh'[i].family = refresh[i].family
                     /\ refresh'[i].from = refresh[i].from
                     /\ refresh'[i].user = refresh[i].user
  BY <1>3, <1>5
<1>8. /\ refresh'[L + 1].family = refresh[t].family /\ refresh'[L + 1].from = t
       /\ refresh'[L + 1].user = refresh[t].user
  BY <1>2, <1>5
<1>9. Len(refresh') = L + 1 /\ Revoked(refresh') = Revoked(refresh) \union {t}
  BY <1>5
<1>10. FamilyInv'
  <2> SUFFICES ASSUME NEW i \in 1..(L + 1)
               PROVE  /\ refresh'[i].family \in 1..(L + 1)
                      /\ refresh'[i].from # 0 => refresh'[i].from \in Revoked(refresh')
    BY <1>5 DEF FamilyInv
  <2>1. CASE i \in 1..L
    <3>1. /\ refresh[i].family \in 1..L
          /\ refresh[i].from # 0 => refresh[i].from \in Revoked(refresh)
      BY <2>1, <1>1 DEF SignInInv, FamilyInv
    <3>2. refresh'[i].family = refresh[i].family /\ refresh'[i].from = refresh[i].from
      BY <2>1, <1>7
    <3> HIDE DEF L
    <3> QED
      BY <3>1, <3>2, <1>1, <1>9
  <2>2. CASE i = L + 1
    BY <2>2, <1>1, <1>8, <1>9
  <2> QED
    BY <2>1, <2>2, <1>1
<1>11. LineInv'
  <2> SUFFICES ASSUME NEW i \in 1..(L + 1), NEW j \in 1..(L + 1)
               PROVE  /\ refresh'[i].family = refresh'[j].family =>
                           /\ refresh'[i].user = refresh'[j].user
                           /\ i < j => i \in Revoked(refresh')
                      /\ i # j /\ refresh'[i].from = refresh'[j].from => refresh'[i].from = 0
    BY <1>5 DEF LineInv
  <2>1. CASE i \in 1..L /\ j \in 1..L
    <3>1. /\ refresh[i].family = refresh[j].family =>
               /\ refresh[i].user = refresh[j].user
               /\ i < j => i \in Revoked(refresh)
          /\ i # j /\ refresh[i].from = refresh[j].from => refresh[i].from = 0
      BY <2>1, <1>1, Zenon DEF SignInInv, LineInv
    <3>2. /\ refresh'[i].family = refresh[i].family /\ refresh'[j].family = refresh[j].family
          /\ refresh'[i].user = refresh[i].user /\ refresh'[j].user = refresh[j].user
          /\ refresh'[i].from = refresh[i].from /\ refresh'[j].from = refresh[j].from
      BY <2>1, <1>7, Zenon
    <3> QED
      BY <3>1, <3>2, <1>9, Zenon
  <2>2. \A k \in 1..L : refresh[k].family = refresh[t].family =>
          refresh[k].user = refresh[t].user /\ k \in Revoked(refresh')
    <3>1. LineInv
      BY <1>1 DEF SignInInv
    <3>2. ASSUME NEW k \in 1..L, refresh[k].family = refresh[t].family
          PROVE  refresh[k].user = refresh[t].user /\ (k < t => k \in Revoked(refresh))
                 /\ (t < k => t \in Revoked(refresh))
      BY <1>1, <3>1, <3>2, Zenon DEF LineInv
    <3>3. ASSUME NEW k \in 1..L PROVE k < t \/ t < k \/ k = t
      BY <1>1
    <3> QED
      BY <1>1, <1>9, <3>2, <3>3, Zenon
  <2>3. \A k \in 1..L : refresh[k].from # t
    BY <1>1 DEF SignInInv, FamilyInv
  <2>4. CASE i \in 1..L /\ j = L + 1
    <3>1. refresh'[i].family = refresh[i].family /\ refresh'[i].user = refresh[i].user
          /\ refresh'[i].from = refresh[i].from
      BY <2>4, <1>7
    <3> QED
      BY <3>1, <2>2, <2>3, <2>4, <1>8
  <2>5. CASE i = L + 1 /\ j \in 1..L
    <3>1. refresh'[j].family = refresh[j].family /\ refresh'[j].user = refresh[j].user
          /\ refresh'[j].from = refresh[j].from
      BY <2>5, <1>7
    <3>2. ~(i < j)
      BY <2>5, <1>1
    <3> QED
      BY <3>1, <3>2, <2>2, <2>3, <2>5, <1>8
  <2>6. CASE i = L + 1 /\ j = L + 1
    BY <2>6, <1>1
  <2> QED
    BY <2>1, <2>4, <2>5, <2>6, <1>1
<1> QED
  BY <1>4, <1>6, <1>10, <1>11, GuessesKept DEF SignInInv

LEMMA LogoutInv ==
  ASSUME SignInInv, NEW t \in 1..MaxTokens, Logout(t)
  PROVE  SignInInv'
<1>1. /\ refresh \in Seq(RefreshToken) /\ t \in DOMAIN refresh
      /\ refresh' = [refresh EXCEPT ![t].revoked = TRUE]
      /\ UNCHANGED <<now, failed, lockedUntil, guesses>>
  BY DEF SignInInv, SignInTypeOK, Logout
<1>2. /\ refresh' \in Seq(RefreshToken) /\ Len(refresh') = Len(refresh)
      /\ DOMAIN refresh' = DOMAIN refresh
      /\ \A i \in DOMAIN refresh : /\ refresh'[i].family = refresh[i].family
                                  /\ refresh'[i].from = refresh[i].from
                                  /\ refresh'[i].user = refresh[i].user
      /\ Revoked(refresh') = Revoked(refresh) \union {t}
  BY <1>1, RevokedToken
<1>3. SignInTypeOK'
  BY <1>1, <1>2 DEF SignInInv, SignInTypeOK
<1>4. FamilyInv' /\ LineInv'
  BY <1>2 DEF SignInInv, FamilyInv, LineInv
<1> QED
  BY <1>1, <1>3, <1>4, GuessesKept DEF SignInInv

LEMMA SignInTickInv ==
  ASSUME SignInInv, Tick
  PROVE  SignInInv'
<1>1. SignInTypeOK'
  BY SignInAssumption DEF SignInInv, SignInTypeOK, Tick
<1> QED
  BY <1>1, GuessesKept, TokensKept DEF SignInInv, Tick

LEMMA SignInInvariant == SignInSpec => []SignInInv
<1>1. SignInInv /\ [SignInNext]_signInVars => SignInInv'
  <2> SUFFICES ASSUME SignInInv, [SignInNext]_signInVars PROVE SignInInv'
    OBVIOUS
  <2>1. ASSUME NEW u \in Users, WrongPassword(u) \/ RightPassword(u) PROVE SignInInv'
    BY <2>1, WrongPasswordInv, RightPasswordInv
  <2>2. ASSUME NEW t \in 1..MaxTokens, Exchange(t) \/ Logout(t) PROVE SignInInv'
    BY <2>2, ExchangeInv, LogoutInv
  <2>3. CASE UNCHANGED signInVars
    <3>1. SignInTypeOK'
      BY <2>3 DEF SignInInv, SignInTypeOK, signInVars
    <3> QED
      BY <2>3, <3>1, GuessesKept, TokensKept DEF SignInInv, signInVars
  <2> QED
    BY <2>1, <2>2, <2>3, SignInTickInv DEF SignInNext
<1> QED
  BY <1>1, SignInInitInv, PTL DEF SignInSpec

-----------------------------------------------------------------------------
(* Every variable keeps its type: authenticate_password, refresh_tokens and *)
(* revoke_refresh_token over UserRepository.                                *)
THEOREM SignInTypeCorrect == SignInSpec => []SignInTypeOK
<1>1. SignInInv => SignInTypeOK
  BY DEF SignInInv
<1> QED
  BY <1>1, SignInInvariant, PTL

(* However locks begin and end, a guess past the limit that is looked at    *)
(* comes a whole lock after the one before (record_failed_login).           *)
THEOREM GuessesWait == SignInSpec => []GuessesAreSpaced
<1>1. SignInInv => GuessesAreSpaced
  BY DEF SignInInv
<1> QED
  BY <1>1, SignInInvariant, PTL

(* Of the tokens one sign-in led to, at most the last is good, and none is  *)
(* exchanged twice (refresh_tokens, revoke_refresh_token).                  *)
THEOREM TokensRotate == SignInSpec => []OneGoodTokenPerSignIn
<1>1. SignInInv => OneGoodTokenPerSignIn
  BY DEF SignInInv, LineInv, OneGoodTokenPerSignIn, Revoked
<1> QED
  BY <1>1, SignInInvariant, PTL

-----------------------------------------------------------------------------
(* Some number of a set of numbers is the least.                            *)
LEMMA LeastExists ==
  ASSUME NEW T, T \subseteq Nat, T # {}
  PROVE  \E m \in T : \A y \in T : m <= y
<1> DEFINE Below == {ss \in Nat \X Nat : ss[1] < ss[2]}
<1>1. IsWellFoundedOn(Below, Nat)
  BY NatLessThanWellFounded, Zenon DEF OpToRel
<1> HIDE DEF Below
<1>2. PICK x \in T : \A y \in T : ~(<<y, x>> \in Below)
  BY <1>1, WFMin, Zenon
<1>3. \A y \in T : x <= y
  <2> SUFFICES ASSUME NEW y \in T PROVE x <= y
    OBVIOUS
  <2>1. x \in Nat /\ y \in Nat /\ ~(<<y, x>> \in Below)
    BY <1>2
  <2>2. <<y, x>> \in Below <=> y < x
    <3>1. <<y, x>> \in Nat \X Nat /\ <<y, x>>[1] = y /\ <<y, x>>[2] = x
      BY <2>1
    <3> QED
      BY <3>1, Zenon DEF Below
  <2> QED
    BY <2>1, <2>2
<1> QED
  BY <1>3

(* es increases. *)
Increasing(es, n) == \A i, j \in 1..n : i < j => es[i] < es[j]

(* A finite set of numbers can be listed in increasing order.               *)
LEMMA CanBeListed ==
  ASSUME NEW S, S \subseteq Nat, IsFiniteSet(S)
  PROVE  \E f \in [1..Cardinality(S) -> S] : Increasing(f, Cardinality(S))
<1> DEFINE Bad(n) == \E T \in SUBSET Nat :
             /\ IsFiniteSet(T) /\ Cardinality(T) = n
             /\ ~ \E f \in [1..n -> T] : Increasing(f, n)
           bad == {n \in Nat : Bad(n)}
<1>1. bad = {}
  <2> SUFFICES ASSUME bad # {} PROVE FALSE
    OBVIOUS
  <2>1. bad \subseteq Nat
    OBVIOUS
  <2> HIDE DEF bad
  <2>2. PICK n \in bad : \A k \in bad : n <= k
    BY <2>1, LeastExists
  <2> USE DEF bad
  <2>3. n \in Nat
    OBVIOUS
  <2>4. PICK T \in SUBSET Nat : /\ IsFiniteSet(T) /\ Cardinality(T) = n
                               /\ ~ \E f \in [1..n -> T] : Increasing(f, n)
    OBVIOUS
  <2>5. T # {}
    <3> SUFFICES ASSUME T = {} PROVE FALSE
      OBVIOUS
    <3>1. n = 0
      BY <2>4, FS_EmptySet
    <3>2. 1..n = {}
      BY <3>1
    <3>3. [x \in 1..n |-> 0] \in [1..n -> T]
      BY <3>2
    <3>4. Increasing([x \in 1..n |-> 0], n)
      BY <3>2 DEF Increasing
    <3> QED
      BY <2>4, <3>3, <3>4, Zenon
  <2>6. PICK m \in T : \A y \in T : m <= y
    BY <2>4, <2>5, LeastExists, Zenon
  <2> DEFINE R == T \ {m}
  <2>7. R \in SUBSET Nat /\ IsFiniteSet(R) /\ Cardinality(R) = n - 1
    BY <2>4, <2>6, FS_RemoveElement
  <2>8. n - 1 \in Nat /\ n # 0
    BY <2>3, <2>7, FS_CardinalityType
  <2>9. n - 1 \notin bad
    BY <2>2, <2>3
  <2>10. PICK f \in [1..(n - 1) -> R] : Increasing(f, n - 1)
    BY <2>7, <2>8, <2>9, Zenon
  <2> HIDE DEF bad
  <2> DEFINE g == [i \in 1..n |-> IF i = 1 THEN m ELSE f[i - 1]]
  <2>11. \A i \in 1..n : i # 1 => i - 1 \in 1..(n - 1)
    BY <2>3
  <2>12. g \in [1..n -> T]
    <3> SUFFICES ASSUME NEW i \in 1..n PROVE (IF i = 1 THEN m ELSE f[i - 1]) \in T
      BY Zenon
    <3> QED
      BY <2>10, <2>11
  <2>13. Increasing(g, n)
    <3> SUFFICES ASSUME NEW i \in 1..n, NEW j \in 1..n, i < j PROVE g[i] < g[j]
      BY DEF Increasing
    <3>1. j # 1 /\ j - 1 \in 1..(n - 1) /\ g[j] = f[j - 1] /\ f[j - 1] \in R
      <4>1. j # 1
        BY <2>3
      <4> QED
        BY <4>1, <2>10, <2>11
    <3>2. CASE i = 1
      <4>1. g[i] = m
        BY <3>2
      <4> HIDE DEF g
      <4>2. m \in Nat /\ f[j - 1] \in Nat /\ m <= f[j - 1] /\ f[j - 1] # m
        BY <3>1, <2>4, <2>6
      <4> QED
        BY <4>1, <4>2, <3>1
    <3>3. CASE i # 1
      <4>1. g[i] = f[i - 1] /\ i - 1 \in 1..(n - 1) /\ i - 1 < j - 1
        BY <3>3, <2>3
      <4> HIDE DEF g
      <4> QED
        BY <4>1, <3>1, <2>10, Zenon DEF Increasing
    <3> QED
      BY <3>2, <3>3, Zenon
  <2> QED
    BY <2>4, <2>12, <2>13, Zenon
<1>2. Cardinality(S) \in Nat
  BY FS_CardinalityType
<1> QED
  BY <1>1, <1>2, Zenon

-----------------------------------------------------------------------------
(* A row of the chain, whoever wrote it.                                    *)
IsEntry(e) == e = [seq |-> e.seq, about |-> e.about, prev |-> e.prev, hash |-> e.hash]

IsChain(es) == \E S : es \in Seq(S) /\ \A e \in S : IsEntry(e)

(* What is kept was the head of a chain that verified.                      *)
KeptInv ==
  kept # Genesis =>
    \E es : /\ kept = [hash |-> HeadHash(es), rows |-> es]
            /\ IsChain(es) /\ VerifiedUnnumbered(es)

AuditInv ==
  /\ AuditTypeOK /\ changes \in Nat
  /\ IsChain(rows) /\ KeptInv
  /\ changes = 0 => Verified(rows)

(* Of a verified chain, what a row commits to.                              *)
LEMMA PreviousHash ==
  ASSUME NEW es, IsChain(es), NEW i \in DOMAIN es
  PROVE  HeadHash(SubSeq(es, 1, i - 1)) = IF i = 1 THEN Genesis ELSE es[i - 1].hash
<1>1. PICK S : es \in Seq(S) /\ \A e \in S : IsEntry(e)
  BY DEF IsChain
<1>2. i \in 1..Len(es) /\ Len(es) \in Nat
  BY <1>1
<1> DEFINE before == SubSeq(es, 1, i - 1)
<1>3. before \in Seq(S) /\ Len(before) = i - 1 /\ \A k \in 1..(i - 1) : before[k] = es[k]
  BY <1>1, <1>2
<1>4. CASE i = 1
  <2>1. before = <<>>
    BY <1>3, <1>4
  <2> QED
    BY <2>1, <1>4, Zenon DEF HeadHash
<1>5. CASE i # 1
  <2>1. before # <<>> /\ Last(before) = es[i - 1]
    BY <1>2, <1>3, <1>5 DEF Last
  <2> QED
    BY <2>1, <1>5, Zenon DEF HeadHash
<1> QED
  BY <1>4, <1>5

(* The hash of no row is GENESIS_HASH.                                      *)
LEMMA NotGenesis ==
  ASSUME NEW e
  PROVE  Hash(e) # Genesis
<1>1. DOMAIN Hash(e) = {"seq", "about", "prev"}
  BY DEF Hash
<1>2. DOMAIN Genesis = {}
  BY DEF Genesis
<1> QED
  BY <1>1, <1>2, Zenon

(* Rows of one hash are one row, hash and all.                              *)
LEMMA HashPinsRow ==
  ASSUME NEW d, NEW e, IsEntry(d), IsEntry(e), HashMatches(d), HashMatches(e), d.hash = e.hash
  PROVE  d = e
<1>1. Hash(d) = Hash(e)
  BY DEF HashMatches
<1>2. Hash(d).seq = d.seq /\ Hash(d).about = d.about /\ Hash(d).prev = d.prev
  BY DEF Hash
<1>3. Hash(e).seq = e.seq /\ Hash(e).about = e.about /\ Hash(e).prev = e.prev
  BY DEF Hash
<1>4. d.seq = e.seq /\ d.about = e.about /\ d.prev = e.prev
  BY <1>1, <1>2, <1>3, Zenon
<1> QED
  BY <1>4, Zenon DEF IsEntry

(* Where two verified chains have one hash they have one past.              *)
LEMMA OneHashOnePast ==
  ASSUME NEW a, NEW b, IsChain(a), IsChain(b), VerifiedUnnumbered(a), VerifiedUnnumbered(b)
  PROVE  \A i \in DOMAIN a, j \in DOMAIN b :
           a[i].hash = b[j].hash => i = j /\ \A k \in 1..i : a[k] = b[k]
<1> DEFINE Same(i, j) == a[i].hash = b[j].hash => i = j /\ \A k \in 1..i : a[k] = b[k]
           bad == {i \in DOMAIN a : \E j \in DOMAIN b : ~Same(i, j)}
<1>1. PICK S : a \in Seq(S) /\ \A e \in S : IsEntry(e)
  BY DEF IsChain
<1>2. PICK T : b \in Seq(T) /\ \A e \in T : IsEntry(e)
  BY DEF IsChain
<1>3. /\ Len(a) \in Nat /\ DOMAIN a = 1..Len(a) /\ \A i \in DOMAIN a : IsEntry(a[i])
      /\ Len(b) \in Nat /\ DOMAIN b = 1..Len(b) /\ \A j \in DOMAIN b : IsEntry(b[j])
  BY <1>1, <1>2
<1>4. bad = {}
  <2> SUFFICES ASSUME bad # {} PROVE FALSE
    OBVIOUS
  <2>1. bad \subseteq Nat
    BY <1>3
  <2> HIDE DEF bad
  <2>2. PICK i \in bad : \A k \in bad : i <= k
    BY <2>1, LeastExists
  <2>3. i \in DOMAIN a /\ \E j \in DOMAIN b : ~Same(i, j)
    BY <2>2 DEF bad
  <2>4. PICK j \in DOMAIN b : ~Same(i, j)
    BY <2>3
  <2>5. a[i].hash = b[j].hash
    BY <2>4
  <2>6. HashMatches(a[i]) /\ HashMatches(b[j])
    BY <2>3 DEF VerifiedUnnumbered
  <2>7. a[i] = b[j]
    BY <2>3, <2>5, <2>6, <1>3, HashPinsRow, Zenon
  <2>8. /\ a[i].prev = IF i = 1 THEN Genesis ELSE a[i - 1].hash
        /\ b[j].prev = IF j = 1 THEN Genesis ELSE b[j - 1].hash
    BY <2>3, PreviousHash, Zenon DEF VerifiedUnnumbered
  <2>9. /\ i \in 1..Len(a) /\ j \in 1..Len(b)
        /\ i # 1 => i - 1 \in DOMAIN a
        /\ j # 1 => j - 1 \in DOMAIN b
    BY <2>3, <1>3
  <2>10. i # 1 => a[i - 1].hash # Genesis
    BY <2>9, NotGenesis, Zenon DEF VerifiedUnnumbered, HashMatches
  <2>11. j # 1 => b[j - 1].hash # Genesis
    BY <2>9, NotGenesis, Zenon DEF VerifiedUnnumbered, HashMatches
  <2>12. CASE i = 1
    <3>1. j = 1
      BY <2>7, <2>8, <2>11, <2>12, Zenon
    <3>2. \A k \in 1..i : k = i
      BY <2>12
    <3> QED
      BY <3>1, <3>2, <2>12, <2>4, <2>7, Zenon
  <2>13. CASE i # 1
    <3>1. j # 1 /\ a[i - 1].hash = b[j - 1].hash
      BY <2>7, <2>8, <2>10, <2>13, Zenon
    <3>2. i - 1 \notin bad
      BY <2>2, <2>9, <1>3
    <3>3. Same(i - 1, j - 1)
      BY <3>1, <3>2, <2>9, <2>13, Zenon DEF bad
    <3>4. i - 1 = j - 1 /\ \A k \in 1..(i - 1) : a[k] = b[k]
      BY <3>1, <3>3, Zenon
    <3>5. i = j
      BY <3>4, <2>9
    <3>6. \A k \in 1..i : k \in 1..(i - 1) \/ k = i
      BY <2>9
    <3> QED
      BY <3>4, <3>5, <3>6, <2>4, <2>7, Zenon
  <2> QED
    BY <2>12, <2>13
<1> QED
  BY <1>4, Zenon

-----------------------------------------------------------------------------
LEMMA AuditInitInv == AuditInit => AuditInv
<1> SUFFICES ASSUME AuditInit PROVE AuditInv
  OBVIOUS
<1>1. rows = <<>> /\ changes = 0 /\ kept = Genesis
  BY DEF AuditInit
<1>2. AuditTypeOK
  BY <1>1, AuditAssumption DEF AuditTypeOK
<1>3. IsChain(rows)
  <2>1. rows \in Seq({})
    BY <1>1, EmptySeq
  <2> SUFFICES \E S : rows \in Seq(S) /\ \A e \in S : IsEntry(e)
    BY DEF IsChain
  <2> WITNESS {}
  <2> QED
    BY <2>1
<1>4. Verified(rows)
  BY <1>1 DEF Verified
<1> QED
  BY <1>1, <1>2, <1>3, <1>4 DEF AuditInv, KeptInv


LEMMA RecordInv ==
  ASSUME AuditInv, NEW about \in EntrySubjects, Record(about)
  PROVE  AuditInv'
<1> DEFINE e == [seq |-> Len(rows) + 1, about |-> about, prev |-> HeadHash(rows), hash |-> Genesis]
<1>1. PICK new : new = Rehashed(e)
  OBVIOUS
<1>2. new = [seq |-> Len(rows) + 1, about |-> about, prev |-> HeadHash(rows), hash |-> Hash(e)]
  BY <1>1 DEF Rehashed
<1>3. /\ new.seq = Len(rows) + 1 /\ new.about = about /\ new.prev = HeadHash(rows)
      /\ IsEntry(new) /\ HashMatches(new)
  BY <1>2 DEF IsEntry, HashMatches, Hash
<1>4. rows' = Append(rows, new) /\ changes' = changes /\ kept' = kept /\ Len(rows) < MaxEntries
  BY <1>1 DEF Record
<1> HIDE DEF e
<1>5. IsChain(rows) /\ KeptInv /\ changes \in Nat /\ AuditTypeOK
  BY DEF AuditInv
<1>6. PICK S : rows \in Seq(S) /\ \A d \in S : IsEntry(d)
  BY <1>5, Zenon DEF IsChain
<1>7. /\ rows' \in Seq(S \union {new}) /\ Len(rows') = Len(rows) + 1 /\ Len(rows) \in Nat
      /\ DOMAIN rows = 1..Len(rows) /\ DOMAIN rows' = 1..(Len(rows) + 1)
      /\ rows'[Len(rows) + 1] = new
      /\ \A i \in 1..Len(rows) : rows'[i] = rows[i]
  BY <1>4, <1>6
<1>8. IsChain(rows')
  BY <1>3, <1>6, <1>7, Zenon DEF IsChain
<1>9. AuditTypeOK'
  BY <1>3, <1>4, <1>5, <1>7, AuditAssumption DEF AuditTypeOK
<1>10. ASSUME Verified(rows) PROVE Verified(rows')
  <2> SUFFICES ASSUME NEW i \in 1..(Len(rows) + 1)
               PROVE  /\ rows'[i].seq = i /\ HashMatches(rows'[i])
                      /\ rows'[i].prev = HeadHash(SubSeq(rows', 1, i - 1))
    BY <1>7, Zenon DEF Verified
  <2>1. HeadHash(SubSeq(rows', 1, i - 1)) = IF i = 1 THEN Genesis ELSE rows'[i - 1].hash
    BY <1>7, <1>8, PreviousHash, Zenon
  <2>2. CASE i \in 1..Len(rows)
    <3>1. /\ rows[i].seq = i /\ HashMatches(rows[i])
          /\ rows[i].prev = IF i = 1 THEN Genesis ELSE rows[i - 1].hash
      BY <2>2, <1>5, <1>7, <1>10, PreviousHash, Zenon DEF Verified
    <3>2. rows'[i] = rows[i] /\ (i # 1 => i - 1 \in 1..Len(rows))
      BY <2>2, <1>7
    <3> QED
      BY <2>1, <3>1, <3>2, <1>7, Zenon
  <2>3. CASE i = Len(rows) + 1
    <3>1. rows'[i] = new /\ rows'[i].seq = i /\ HashMatches(rows'[i]) /\ rows'[i].prev = HeadHash(rows)
      BY <2>3, <1>3, <1>7, Zenon
    <3>2. CASE Len(rows) = 0
      <4>1. rows = <<>> /\ i = 1
        BY <3>2, <2>3, <1>6
      <4> QED
        BY <4>1, <3>1, <2>1, Zenon DEF HeadHash
    <3>3. CASE Len(rows) # 0
      <4>1. rows # <<>> /\ i # 1 /\ i - 1 = Len(rows) /\ Len(rows) \in 1..Len(rows)
        BY <3>3, <2>3, <1>7
      <4>2. HeadHash(rows) = rows[Len(rows)].hash
        BY <4>1, Zenon DEF HeadHash, Last
      <4> QED
        BY <4>1, <4>2, <3>1, <2>1, <1>7, Zenon
    <3> QED
      BY <3>2, <3>3, Zenon
  <2> QED
    BY <2>2, <2>3, <1>7
<1>11. KeptInv'
  BY <1>4, <1>5, Zenon DEF KeptInv
<1> QED
  BY <1>4, <1>5, <1>8, <1>9, <1>10, <1>11, Zenon DEF AuditInv

LEMMA KeepHeadInv ==
  ASSUME AuditInv, KeepHead
  PROVE  AuditInv'
<1>1. /\ Verified(rows) /\ kept' = [hash |-> HeadHash(rows), rows |-> rows]
      /\ rows' = rows /\ changes' = changes
  BY DEF KeepHead
<1>2. VerifiedUnnumbered(rows)
  BY <1>1, Zenon DEF Verified, VerifiedUnnumbered
<1>3. IsChain(rows) /\ changes \in Nat /\ AuditTypeOK
  BY DEF AuditInv
<1>4. KeptInv'
  BY <1>1, <1>2, <1>3, Zenon DEF KeptInv
<1>5. AuditTypeOK'
  BY <1>1, <1>3, Zenon DEF AuditTypeOK
<1> QED
  BY <1>1, <1>3, <1>4, <1>5, Zenon DEF AuditInv

LEMMA ChangeInv ==
  ASSUME AuditInv, Change
  PROVE  AuditInv'
<1>1. changes' = changes + 1 /\ kept' = kept /\ changes \in Nat
  BY DEF Change, AuditInv
<1>2. IsChain(rows) /\ KeptInv /\ AuditTypeOK
  BY DEF AuditInv
<1>3. PICK S : rows \in Seq(S) /\ \A d \in S : IsEntry(d)
  BY <1>2, Zenon DEF IsChain
<1>4. Len(rows) \in Nat /\ DOMAIN rows = 1..Len(rows) /\ \A k \in 1..Len(rows) : rows[k] \in S
  BY <1>3
<1>5. PICK i \in DOMAIN rows :
       \/ \E v \in EntrySubjects, prev \in {rows[i].prev, HeadHash(SubSeq(rows, 1, i - 1))},
             seq \in {rows[i].seq, i} :
            LET e == [rows[i] EXCEPT !.about = v, !.prev = prev, !.seq = seq]
            IN \E f \in {e, Rehashed(e)} : f # rows[i] /\ rows' = [rows EXCEPT ![i] = f]
       \/ rows' = RemoveAt(rows, i)
       \/ i > 1 /\ rows' = [rows EXCEPT ![i] = rows[i - 1], ![i - 1] = rows[i]]
  BY Zenon DEF Change
<1>6. IsChain(rows') /\ AuditTypeOK'
  <2>1. ASSUME NEW v \in EntrySubjects,
               NEW prev \in {rows[i].prev, HeadHash(SubSeq(rows, 1, i - 1))},
               NEW seq \in {rows[i].seq, i},
               NEW e, e = [rows[i] EXCEPT !.about = v, !.prev = prev, !.seq = seq],
               NEW f \in {e, Rehashed(e)}, rows' = [rows EXCEPT ![i] = f]
        PROVE  IsChain(rows') /\ AuditTypeOK'
    <3>1. rows[i] = [seq |-> rows[i].seq, about |-> rows[i].about, prev |-> rows[i].prev,
                     hash |-> rows[i].hash]
      BY <1>3, <1>4, Zenon DEF IsEntry
    <3>2. e = [seq |-> seq, about |-> v, prev |-> prev, hash |-> rows[i].hash]
      BY <3>1, <2>1
    <3>3. Rehashed(e) = [seq |-> seq, about |-> v, prev |-> prev, hash |-> Hash(e)]
      BY <3>2 DEF Rehashed
    <3>4. IsEntry(f) /\ f.about = v
      BY <3>2, <3>3 DEF IsEntry
    <3>5. /\ rows' \in Seq(S \union {f}) /\ Len(rows') = Len(rows) /\ DOMAIN rows' = DOMAIN rows
          /\ \A k \in DOMAIN rows : rows'[k] = IF k = i THEN f ELSE rows[k]
      BY <2>1, <1>3
    <3>6. IsChain(rows')
      BY <3>4, <3>5, <1>3, Zenon DEF IsChain
    <3>7. AuditTypeOK'
      BY <3>4, <3>5, <1>2, Zenon DEF AuditTypeOK
    <3> QED
      BY <3>6, <3>7
  <2>2. ASSUME rows' = RemoveAt(rows, i) PROVE IsChain(rows') /\ AuditTypeOK'
    <3>1. /\ rows' \in Seq(S) /\ Len(rows') = Len(rows) - 1
          /\ \A k \in DOMAIN rows' : \E l \in DOMAIN rows : rows'[k] = rows[l]
      <4> DEFINE s == SubSeq(rows, 1, i - 1)
                 t == SubSeq(rows, i + 1, Len(rows))
      <4>1. /\ s \in Seq(S) /\ Len(s) = i - 1
            /\ \A k \in 1..(i - 1) : s[k] = rows[k]
        BY <1>3, <1>4
      <4>2. /\ t \in Seq(S) /\ Len(t) = Len(rows) - i
            /\ \A k \in 1..(Len(rows) - i) : t[k] = rows[i + k]
        BY <1>3, <1>4
      <4>3. rows' = s \o t
        BY <2>2 DEF RemoveAt
      <4> HIDE DEF s, t
      <4>4. /\ s \o t \in Seq(S) /\ Len(s \o t) = Len(rows) - 1
            /\ DOMAIN (s \o t) = 1..(Len(rows) - 1)
            /\ Len(s) \in Nat /\ Len(t) \in Nat
            /\ \A k \in 1..(Len(rows) - 1) :
                 (s \o t)[k] = IF k <= Len(s) THEN s[k] ELSE t[k - Len(s)]
        <5>1. /\ s \o t \in Seq(S) /\ Len(s \o t) = Len(s) + Len(t)
              /\ \A k \in 1..(Len(s) + Len(t)) :
                   (s \o t)[k] = IF k <= Len(s) THEN s[k] ELSE t[k - Len(s)]
          BY <4>1, <4>2, ConcatProperties
        <5>2. Len(s) \in Nat /\ Len(t) \in Nat /\ Len(s) + Len(t) = Len(rows) - 1
          BY <4>1, <4>2, <1>4
        <5>3. DOMAIN (s \o t) = 1..Len(s \o t)
          BY <5>1
        <5> QED
          BY <5>1, <5>2, <5>3
      <4>5. ASSUME NEW k \in 1..(Len(rows) - 1)
            PROVE  \E l \in DOMAIN rows : (s \o t)[k] = rows[l]
        <5>1. CASE k <= i - 1
          <6>1. k \in 1..(i - 1) /\ (s \o t)[k] = s[k] /\ k \in DOMAIN rows
            BY <5>1, <4>1, <4>4, <1>4
          <6> QED
            BY <6>1, <4>1, Zenon
        <5>2. CASE k > i - 1
          <6>1. /\ k - (i - 1) \in 1..(Len(rows) - i) /\ (s \o t)[k] = t[k - (i - 1)]
                /\ i + (k - (i - 1)) \in DOMAIN rows
            BY <5>2, <4>1, <4>4, <1>4
          <6> QED
            BY <6>1, <4>2, Zenon
        <5>3. k <= i - 1 \/ k > i - 1
          BY <1>4
        <5> QED
          BY <5>1, <5>2, <5>3, Zenon
      <4> QED
        BY <4>3, <4>4, <4>5, Zenon
    <3>2. IsChain(rows')
      BY <3>1, <1>3, Zenon DEF IsChain
    <3>3. \A k \in DOMAIN rows' : rows'[k].about \in EntrySubjects
      BY <3>1, <1>2, Zenon DEF AuditTypeOK
    <3>4. Len(rows') <= MaxEntries
      BY <3>1, <1>2, <1>4, AuditAssumption DEF AuditTypeOK
    <3> QED
      BY <3>2, <3>3, <3>4 DEF AuditTypeOK
  <2>3. ASSUME i > 1, rows' = [rows EXCEPT ![i] = rows[i - 1], ![i - 1] = rows[i]]
        PROVE  IsChain(rows') /\ AuditTypeOK'
    <3>1. i - 1 \in DOMAIN rows
      BY <2>3, <1>4
    <3>2. /\ rows' \in Seq(S) /\ Len(rows') = Len(rows) /\ DOMAIN rows' = DOMAIN rows
          /\ \A k \in DOMAIN rows : rows'[k] \in {rows[k], rows[i], rows[i - 1]}
      BY <3>1, <2>3, <1>3, <1>4
    <3>3. IsChain(rows')
      BY <3>2, <1>3, Zenon DEF IsChain
    <3>4. \A k \in DOMAIN rows' : rows'[k].about \in EntrySubjects
      BY <3>1, <3>2, <1>2 DEF AuditTypeOK
    <3> QED
      BY <3>2, <3>3, <3>4, <1>2, Zenon DEF AuditTypeOK
  <2> QED
    BY <1>5, <2>1, <2>2, <2>3, Zenon
<1>7. KeptInv'
  BY <1>1, <1>2, Zenon DEF KeptInv
<1>8. changes' \in Nat /\ changes' # 0
  BY <1>1
<1> QED
  BY <1>6, <1>7, <1>8, Zenon DEF AuditInv

LEMMA AuditInvariant == AuditSpec => []AuditInv
<1>1. AuditInv /\ [AuditNext]_auditVars => AuditInv'
  <2> SUFFICES ASSUME AuditInv, [AuditNext]_auditVars PROVE AuditInv'
    OBVIOUS
  <2>1. ASSUME NEW about \in EntrySubjects, Record(about) PROVE AuditInv'
    BY <2>1, RecordInv
  <2>2. CASE UNCHANGED auditVars
    <3>1. rows' = rows /\ changes' = changes /\ kept' = kept
      BY <2>2 DEF auditVars
    <3> QED
      BY <3>1, Zenon DEF AuditInv, AuditTypeOK, KeptInv
  <2> QED
    BY <2>1, <2>2, KeepHeadInv, ChangeInv DEF AuditNext
<1> QED
  BY <1>1, AuditInitInv, PTL DEF AuditSpec

-----------------------------------------------------------------------------
(* Every variable keeps its type: AuditLedger over chains of any length.    *)
THEOREM AuditTypeCorrect == AuditSpec => []AuditTypeOK
<1>1. AuditInv => AuditTypeOK
  BY DEF AuditInv
<1> QED
  BY <1>1, AuditInvariant, PTL

(* Whoever kept a head hash of AuditLedger.head can tell, of any chain that *)
(* verify accepts, whether it has the history the hash stood for.           *)
THEOREM HeadPins == AuditSpec => []KeptHeadPinsHistory
<1>1. AuditInv => KeptHeadPinsHistory
  <2> SUFFICES ASSUME AuditInv, kept # Genesis, VerifiedUnnumbered(rows),
                      NEW i \in DOMAIN rows, rows[i].hash = kept.hash
               PROVE  SubSeq(rows, 1, i) = kept.rows
    BY DEF KeptHeadPinsHistory
  <2>1. PICK es : /\ kept = [hash |-> HeadHash(es), rows |-> es]
                  /\ IsChain(es) /\ VerifiedUnnumbered(es)
    BY Zenon DEF AuditInv, KeptInv
  <2>2. kept.hash = HeadHash(es) /\ kept.rows = es
    BY <2>1
  <2>3. IsChain(rows)
    BY DEF AuditInv
  <2>4. PICK S : rows \in Seq(S) /\ \A d \in S : IsEntry(d)
    BY <2>3, Zenon DEF IsChain
  <2>5. PICK T : es \in Seq(T) /\ \A d \in T : IsEntry(d)
    BY <2>1, Zenon DEF IsChain
  <2>6. rows[i].hash # Genesis
    BY NotGenesis, Zenon DEF VerifiedUnnumbered, HashMatches
  <2>7. es # <<>>
    BY <2>2, <2>6, Zenon DEF HeadHash
  <2>8. Len(es) \in DOMAIN es /\ DOMAIN es = 1..Len(es)
    BY <2>5, <2>7
  <2>9. HeadHash(es) = es[Len(es)].hash
    BY <2>7, Zenon DEF HeadHash, Last
  <2>10. i = Len(es) /\ \A k \in 1..i : rows[k] = es[k]
    <3>1. rows[i].hash = es[Len(es)].hash
      BY <2>2, <2>9, Zenon
    <3>2. \A l \in DOMAIN rows, j \in DOMAIN es :
            rows[l].hash = es[j].hash => l = j /\ \A k \in 1..l : rows[k] = es[k]
      <4>1. IsChain(es) /\ VerifiedUnnumbered(es)
        BY <2>1, Zenon
      <4> QED
        BY <4>1, <2>3, OneHashOnePast
    <3> QED
      BY <3>1, <3>2, <2>8, Zenon
  <2>11. SubSeq(rows, 1, i) \in Seq(S) /\ Len(SubSeq(rows, 1, i)) = i
         /\ \A k \in 1..i : SubSeq(rows, 1, i)[k] = rows[k]
    BY <2>4
  <2>12. SubSeq(rows, 1, i) = es
    BY <2>5, <2>10, <2>11
  <2> QED
    BY <2>2, <2>12
<1> QED
  BY <1>1, AuditInvariant, PTL

(* A chain nobody changed verifies, and so does the passport issue takes    *)
(* from it, however many other entries lie between.                         *)
THEOREM NoFalseAlarm == AuditSpec => []HonestHistoryVerifies
<1>1. AuditInv => HonestHistoryVerifies
  <2> SUFFICES ASSUME AuditInv, changes = 0
               PROVE  Verified(rows) /\ VerifiedUnnumbered(rows) /\ VerifiedPassport(Passport)
    BY DEF HonestHistoryVerifies
  <2>1. Verified(rows) /\ IsChain(rows)
    BY DEF AuditInv
  <2>2. VerifiedUnnumbered(rows)
    BY <2>1, Zenon DEF Verified, VerifiedUnnumbered
  <2> DEFINE pages == EntriesFor(Payment) \union EntriesFor(ItsOrder)
             n == Cardinality(pages)
             Sorted(f) == \A i, j \in 1..n : i < j => f[i] # f[j] /\ rows[f[i]].seq <= rows[f[j]].seq
             sorted == CHOOSE f \in [1..n -> pages] : Sorted(f)
             body == [i \in 1..n |-> rows[sorted[i]]]
  <2>3. PICK S : rows \in Seq(S)
    BY <2>1, Zenon DEF IsChain
  <2>4. Len(rows) \in Nat /\ DOMAIN rows = 1..Len(rows)
    BY <2>3
  <2>5. pages \subseteq 1..Len(rows)
    BY <2>4 DEF EntriesFor
  <2>6. pages \subseteq Nat /\ IsFiniteSet(pages) /\ n \in Nat
    <3>1. IsFiniteSet(1..Len(rows)) /\ pages \in SUBSET (1..Len(rows))
      BY <2>4, <2>5, FS_Interval
    <3>2. IsFiniteSet(pages)
      BY <3>1, FS_Subset, Zenon
    <3>3. Cardinality(pages) \in Nat
      BY <3>2, FS_CardinalityType, Zenon
    <3> QED
      BY <2>5, <3>2, <3>3
  <2> HIDE DEF pages
  <2>7. \A k \in pages : k \in DOMAIN rows /\ rows[k].seq = k /\ k \in Nat
    BY <2>1, <2>4, <2>5, <2>6, Zenon DEF Verified
  <2>8. \E f \in [1..n -> pages] : Sorted(f)
    <3>1. PICK f \in [1..n -> pages] : Increasing(f, n)
      BY <2>6, CanBeListed
    <3> HIDE DEF n
    <3>2. Sorted(f)
      <4> SUFFICES ASSUME NEW i \in 1..n, NEW j \in 1..n, i < j
                   PROVE  f[i] # f[j] /\ rows[f[i]].seq <= rows[f[j]].seq
        OBVIOUS
      <4>1. f[i] \in Nat /\ f[j] \in Nat /\ rows[f[i]].seq = f[i] /\ rows[f[j]].seq = f[j]
        BY <2>7
      <4>2. f[i] < f[j]
        BY <3>1 DEF Increasing
      <4> QED
        BY <4>1, <4>2
    <3> QED
      BY <3>2, Zenon
  <2> HIDE DEF n
  <2>9. sorted \in [1..n -> pages] /\ Sorted(sorted)
    BY <2>8, Zenon
  <2> HIDE DEF sorted
  <2>10. \A i, j \in 1..n : i < j => sorted[i] < sorted[j]
    <3> SUFFICES ASSUME NEW i \in 1..n, NEW j \in 1..n, i < j PROVE sorted[i] < sorted[j]
      OBVIOUS
    <3>1. /\ sorted[i] \in Nat /\ sorted[j] \in Nat
          /\ rows[sorted[i]].seq = sorted[i] /\ rows[sorted[j]].seq = sorted[j]
      BY <2>7, <2>9
    <3>2. sorted[i] # sorted[j] /\ rows[sorted[i]].seq <= rows[sorted[j]].seq
      BY <2>9
    <3> QED
      BY <3>1, <3>2
  <2>11. \A i \in 1..n : body[i] = rows[sorted[i]] /\ sorted[i] \in DOMAIN rows
                         /\ sorted[i] \in Nat /\ body[i].seq = sorted[i]
    BY <2>7, <2>9
  <2>12. DOMAIN body = 1..n /\ Len(body) = n
    <3>1. body \in Seq({rows[k] : k \in DOMAIN rows})
      BY <2>6, <2>11
    <3> QED
      BY <3>1, <2>6
  <2>13. VerifiedExtract(body)
    <3>1. \A i \in 1..n : HashMatches(body[i])
      BY <2>1, <2>11, Zenon DEF Verified
    <3>2. ASSUME NEW i \in 2..n
          PROVE  /\ body[i].seq > body[i - 1].seq
                 /\ body[i].seq = body[i - 1].seq + 1 => body[i].prev = body[i - 1].hash
      <4>1. i \in 1..n /\ i - 1 \in 1..n /\ i - 1 < i
        BY <2>6
      <4>2. PICK x, y \in DOMAIN rows :
              /\ x = sorted[i - 1] /\ y = sorted[i] /\ x \in Nat /\ y \in Nat
              /\ body[i - 1] = rows[x] /\ body[i] = rows[y]
              /\ body[i - 1].seq = x /\ body[i].seq = y /\ x < y
        BY <4>1, <2>10, <2>11, Zenon
      <4> HIDE DEF body
      <4>3. rows[y].prev = IF y = 1 THEN Genesis ELSE rows[y - 1].hash
        BY <2>1, PreviousHash, Zenon DEF Verified
      <4>4. ASSUME y = x + 1 PROVE rows[y].prev = rows[x].hash
        <5>1. y # 1 /\ y - 1 = x
          BY <4>4, <4>2, <2>4
        <5> QED
          BY <5>1, <4>3, Zenon
      <4> QED
        BY <4>2, <4>4
    <3> QED
      BY <2>12, <3>1, <3>2, Zenon DEF VerifiedExtract
  <2>14. Passport = [body |-> body, signature |-> body]
    BY Zenon DEF Passport, pages, n, sorted
  <2> HIDE DEF body
  <2>15. VerifiedPassport(Passport)
    BY <2>13, <2>14 DEF VerifiedPassport
  <2> QED
    BY <2>1, <2>2, <2>15
<1> QED
  BY <1>1, AuditInvariant, PTL

-----------------------------------------------------------------------------
(* What one credential is: a person's, or asked for with another of the     *)
(* same merchant; and an agent's has the scopes it was given, and ends.     *)
Rooted(i) ==
  /\ creds[i].by \in Nat /\ creds[i].by < i
  /\ creds[i].kind \in {"user", "agent", "key"}
  /\ creds[i].by = 0 => creds[i].kind = "user"
  /\ creds[i].by # 0 => creds[creds[i].by].merchant = creds[i].merchant
  /\ creds[i].kind = "agent" =>
       /\ creds[i].role = "agent" /\ creds[i].scopes = creds[i].asked
       /\ creds[i].asked # Never /\ creds[i].asked \subseteq GrantableScopes
       /\ creds[i].expires # Never

(* The last request was let through at this very hour.                      *)
ServedInv ==
  last.cred # Never =>
    /\ Permitted(last.cred, last.permission)
    /\ last.session # Never => Visible(last.cred, last.session)

AccessInv ==
  /\ hour \in 0..MaxHour
  /\ \E S : creds \in Seq(S)
  /\ \A i \in DOMAIN creds : Rooted(i)
  /\ ServedInv

(* An agent's role has the agent's permissions, and reads no session but    *)
(* its own.                                                                 *)
LEMMA AgentRole ==
  /\ PermissionsForRole("agent") = AgentPermissions
  /\ "session:read:any" \notin AgentPermissions
  /\ AgentPermissions \intersect {"authorization:approve", "refund:request", "admin:policy",
                                  "admin:api_keys", "growth:manage"} = {}
BY DEF PermissionsForRole, RolePermissions, AgentPermissions

(* A credential more leaves the others, and what was served, as they were.  *)
LEMMA HandOutInv ==
  ASSUME AccessInv, NEW c, HandOut(c),
         c.by \in Nat, c.by \in DOMAIN creds \union {0},
         c.kind \in {"user", "agent", "key"},
         c.by = 0 => c.kind = "user",
         c.by # 0 => creds[c.by].merchant = c.merchant,
         c.kind = "agent" =>
           /\ c.role = "agent" /\ c.scopes = c.asked
           /\ c.asked # Never /\ c.asked \subseteq GrantableScopes /\ c.expires # Never
  PROVE  AccessInv'
<1>1. PICK S : creds \in Seq(S)
  BY DEF AccessInv
<1>2. creds' = Append(creds, c) /\ hour' = hour /\ last' = last
  BY DEF HandOut
<1>3. /\ creds' \in Seq(S \union {c}) /\ Len(creds) \in Nat /\ DOMAIN creds = 1..Len(creds)
      /\ DOMAIN creds' = DOMAIN creds \union {Len(creds) + 1}
      /\ creds'[Len(creds) + 1] = c
      /\ \A i \in DOMAIN creds : creds'[i] = creds[i]
  BY <1>1, <1>2
<1>4. /\ \A i \in DOMAIN creds : Rooted(i)
      /\ ServedInv /\ hour \in 0..MaxHour
  BY DEF AccessInv
<1>5. ASSUME NEW i \in DOMAIN creds'
      PROVE  Rooted(i)'
  <2>1. CASE i \in DOMAIN creds
    <3>1. creds'[i] = creds[i] /\ Rooted(i)
      BY <2>1, <1>3, <1>4
    <3>2. creds[i].by # 0 => creds[i].by \in DOMAIN creds
      <4>1. creds[i].by \in Nat /\ creds[i].by < i
        BY <3>1 DEF Rooted
      <4> QED
        BY <4>1, <2>1, <1>3
    <3>3. creds[i].by # 0 => creds'[creds[i].by] = creds[creds[i].by]
      BY <3>2, <1>3
    <3> QED
      BY <3>1, <3>3, Zenon DEF Rooted
  <2>2. CASE i = Len(creds) + 1
    <3>1. creds'[i] = c /\ c.by < i
      BY <2>2, <1>3
    <3>2. c.by # 0 => creds'[c.by] = creds[c.by]
      BY <1>3
    <3> QED
      BY <3>1, <3>2, Zenon DEF Rooted
  <2> QED
    BY <2>1, <2>2, <1>3
<1>6. ServedInv'
  <2> SUFFICES ASSUME last.cred # Never
               PROVE  /\ Permitted(last.cred, last.permission)'
                      /\ last.session # Never => Visible(last.cred, last.session)'
    BY <1>2, Zenon DEF ServedInv
  <2>1. /\ Permitted(last.cred, last.permission)
        /\ last.session # Never => Visible(last.cred, last.session)
    BY <1>4, Zenon DEF ServedInv
  <2>2. last.cred \in DOMAIN creds
    BY <2>1, Zenon DEF Permitted, Authentic
  <2>3. creds'[last.cred] = creds[last.cred] /\ last.cred \in DOMAIN creds'
    BY <2>2, <1>3
  <2> QED
    BY <2>1, <2>3, <1>2, Zenon DEF Permitted, Authentic, Visible
<1> QED
  BY <1>2, <1>3, <1>4, <1>5, <1>6 DEF AccessInv

LEMMA WelcomeInv ==
  ASSUME AccessInv, NEW account \in Accounts, Welcome(account)
  PROVE  AccessInv'
<1> DEFINE c == [kind |-> "user", user |-> account.user, merchant |-> account.merchant,
                 role |-> account.role, scopes |-> Never, asked |-> Never,
                 expires |-> hour + TokenLife, by |-> 0]
<1>1. HandOut(c)
  BY DEF Welcome
<1>2. c.by = 0 /\ c.kind = "user"
  OBVIOUS
<1> HIDE DEF c
<1> QED
  BY <1>1, <1>2, HandOutInv

LEMMA IssueAgentTokenInv ==
  ASSUME AccessInv, NEW i, NEW agent, NEW scopes \in ScopeSets, NEW life \in AgentLives,
         IssueAgentToken(i, agent, scopes, life)
  PROVE  AccessInv'
<1> DEFINE c == AgentFor(i, agent, scopes, life)
<1>1. HandOut(c) /\ i \in DOMAIN creds /\ scopes \subseteq GrantableScopes
  BY DEF IssueAgentToken, Permitted, Authentic
<1>2. /\ c.by = i /\ c.kind = "agent" /\ c.role = "agent" /\ c.scopes = scopes
      /\ c.asked = scopes /\ c.merchant = creds[i].merchant /\ c.expires = hour + life
  BY DEF AgentFor
<1> HIDE DEF c
<1>3. i \in Nat \ {0}
  BY <1>1 DEF AccessInv
<1>4. c.expires # Never /\ c.asked # Never
  <2>1. hour + life \in Nat
    BY AccessAssumption DEF AccessInv
  <2> QED
    BY <2>1, <1>2, AccessAssumption
<1> QED
  BY <1>1, <1>2, <1>3, <1>4, HandOutInv

LEMMA CreateApiKeyInv ==
  ASSUME AccessInv, NEW i, NEW role, NEW scopes, NEW life, CreateApiKey(i, role, scopes, life)
  PROVE  AccessInv'
<1> DEFINE c == [kind |-> "key", user |-> "apikey", merchant |-> creds[i].merchant, role |-> role,
                 scopes |-> Never, asked |-> scopes,
                 expires |-> IF life = Never THEN Never ELSE hour + life, by |-> i]
<1>1. HandOut(c) /\ i \in DOMAIN creds
  BY DEF CreateApiKey, Permitted, Authentic
<1>2. c.by = i /\ c.kind = "key" /\ c.merchant = creds[i].merchant
  OBVIOUS
<1> HIDE DEF c
<1>3. i \in Nat \ {0}
  BY <1>1 DEF AccessInv
<1> QED
  BY <1>1, <1>2, <1>3, HandOutInv

LEMMA ServeInv ==
  ASSUME AccessInv, NEW i, NEW permission,
         Serve(i, permission) \/ \E session \in Sessions : ReadSession(i, session)
  PROVE  AccessInv'
<1>1. creds' = creds /\ hour' = hour
  BY DEF Serve, ReadSession
<1>2. ServedInv'
  <2>1. CASE Serve(i, permission)
    <3>1. /\ Permitted(i, permission)
          /\ last' = [cred |-> i, permission |-> permission, session |-> Never]
      BY <2>1 DEF Serve
    <3>2. last'.cred = i /\ last'.permission = permission /\ last'.session = Never
      BY <3>1
    <3> QED
      BY <3>1, <3>2, <1>1, Zenon DEF ServedInv, Permitted, Authentic
  <2>2. ASSUME NEW session \in Sessions, ReadSession(i, session) PROVE ServedInv'
    <3>1. /\ Permitted(i, "session:read:own") /\ Visible(i, session)
          /\ last' = [cred |-> i, permission |-> "session:read:own", session |-> session]
      BY <2>2 DEF ReadSession
    <3>2. last'.cred = i /\ last'.permission = "session:read:own" /\ last'.session = session
      BY <3>1
    <3> QED
      BY <3>1, <3>2, <1>1, Zenon DEF ServedInv, Permitted, Authentic, Visible
  <2> QED
    BY <2>1, <2>2
<1> QED
  BY <1>1, <1>2, Zenon DEF AccessInv, Rooted

LEMMA AccessTickInv ==
  ASSUME AccessInv, AccessTick
  PROVE  AccessInv'
<1>1. creds' = creds /\ last' = [cred |-> Never] /\ hour' \in 0..MaxHour
  BY AccessAssumption DEF AccessTick, AccessInv
<1>2. last'.cred = Never
  BY <1>1
<1>3. ServedInv'
  BY <1>2, Zenon DEF ServedInv
<1> QED
  BY <1>1, <1>3, Zenon DEF AccessInv, Rooted

LEMMA AccessInvariant == AccessSpec => []AccessInv
<1>1. AccessInit => AccessInv
  <2> SUFFICES ASSUME AccessInit PROVE AccessInv
    OBVIOUS
  <2>1. hour \in 0..MaxHour /\ creds = <<>> /\ last.cred = Never
    BY AccessAssumption DEF AccessInit
  <2>2. creds \in Seq({}) /\ DOMAIN creds = {}
    BY <2>1
  <2> QED
    <3>1. ServedInv /\ \A i \in DOMAIN creds : Rooted(i)
      BY <2>1, <2>2 DEF ServedInv
    <3> QED
      BY <2>1, <2>2, <3>1, Zenon DEF AccessInv
<1>2. AccessInv /\ [AccessNext]_accessVars => AccessInv'
  <2> SUFFICES ASSUME AccessInv, [AccessNext]_accessVars PROVE AccessInv'
    OBVIOUS
  <2>1. CASE UNCHANGED accessVars
    <3>1. hour' = hour /\ creds' = creds /\ last' = last
      BY <2>1 DEF accessVars
    <3> QED
      BY <3>1, Zenon DEF AccessInv, Rooted, ServedInv, Permitted, Authentic, Visible
  <2>2. ASSUME NEW i \in 1..MaxCreds,
               NEW agent \in AgentIds, NEW scopes \in ScopeSets, NEW life \in AgentLives,
               IssueAgentToken(i, agent, scopes, life)
        PROVE  AccessInv'
    BY <2>2, IssueAgentTokenInv
  <2>3. ASSUME NEW i \in 1..MaxCreds, NEW role \in {"service", "admin"},
               NEW scopes \in ScopeSets, NEW life \in KeyLives,
               CreateApiKey(i, role, scopes, life)
        PROVE  AccessInv'
    BY <2>3, CreateApiKeyInv
  <2>4. ASSUME NEW i \in 1..MaxCreds, NEW permission \in AskedFor, Serve(i, permission)
        PROVE  AccessInv'
    BY <2>4, ServeInv
  <2>5. ASSUME NEW i \in 1..MaxCreds, NEW session \in Sessions, ReadSession(i, session)
        PROVE  AccessInv'
    BY <2>5, ServeInv
  <2> QED
    BY <2>1, <2>2, <2>3, <2>4, <2>5, WelcomeInv, AccessTickInv, Zenon DEF AccessNext
<1> QED
  BY <1>1, <1>2, PTL DEF AccessSpec

-----------------------------------------------------------------------------
(* Every credential comes, over however many keys and tokens, from that of  *)
(* a person of its merchant.                                                *)
LEMMA LineageHasAHead ==
  ASSUME AccessInv, NEW i \in DOMAIN creds
  PROVE  /\ \E n \in Lineage(i) : creds[n].by = 0
         /\ \A n \in Lineage(i) :
              /\ creds[n].merchant = creds[i].merchant
              /\ creds[n].by = 0 => creds[n].kind = "user"
<1> DEFINE Closed(S) == i \in S /\ \A m \in S : creds[m].by # 0 => creds[m].by \in S
<1>1. Len(creds) \in Nat /\ DOMAIN creds = 1..Len(creds) /\ i \in Nat /\ 1..i \subseteq DOMAIN creds
      /\ i \in 1..i
  <2>1. PICK S : creds \in Seq(S)
    BY DEF AccessInv
  <2> QED
    BY <2>1
<1>2. \A n \in 1..i : Rooted(n)
  BY <1>1 DEF AccessInv
<1>3. Lineage(i) = {n \in 1..i : \A S \in SUBSET (1..i) : Closed(S) => n \in S}
  BY Zenon DEF Lineage
<1>4. \A m \in 1..i : creds[m].by # 0 => creds[m].by \in 1..i
  <2> SUFFICES ASSUME NEW m \in 1..i, creds[m].by # 0 PROVE creds[m].by \in 1..i
    OBVIOUS
  <2>1. creds[m].by \in Nat /\ creds[m].by < m
    BY <1>2 DEF Rooted
  <2> QED
    BY <2>1, <1>1
<1>5. Closed(Lineage(i))
  <2>1. i \in Lineage(i)
    BY <1>1, <1>3, Zenon
  <2>2. ASSUME NEW m \in Lineage(i), creds[m].by # 0 PROVE creds[m].by \in Lineage(i)
    <3>1. m \in 1..i /\ creds[m].by \in 1..i
      BY <2>2, <1>3, <1>4, Zenon
    <3>2. ASSUME NEW S \in SUBSET (1..i), Closed(S) PROVE creds[m].by \in S
      <4>1. m \in S
        BY <3>2, <1>3, Zenon
      <4> QED
        BY <4>1, <3>2, <2>2
    <3> QED
      BY <3>1, <3>2, <1>3, Zenon
  <2> QED
    BY <2>1, <2>2
<1>6. \E n \in Lineage(i) : creds[n].by = 0
  <2>1. Lineage(i) \subseteq Nat /\ Lineage(i) # {} /\ Lineage(i) \subseteq 1..i
    BY <1>1, <1>3, <1>5
  <2>2. PICK n \in Lineage(i) : \A m \in Lineage(i) : n <= m
    BY <2>1, LeastExists, Zenon
  <2>3. creds[n].by \in Nat /\ creds[n].by < n /\ n \in Nat
    BY <2>1, <1>2 DEF Rooted
  <2>4. creds[n].by # 0 => n <= creds[n].by
    BY <2>2, <1>5
  <2> QED
    BY <2>3, <2>4
<1>7. ASSUME NEW n \in Lineage(i)
      PROVE  /\ creds[n].merchant = creds[i].merchant
             /\ creds[n].by = 0 => creds[n].kind = "user"
  <2> DEFINE S == {m \in 1..i : creds[m].merchant = creds[i].merchant}
  <2>1. Closed(S)
    BY <1>1, <1>2, <1>4, Zenon DEF Rooted
  <2>2. S \in SUBSET (1..i)
    OBVIOUS
  <2>3. n \in S /\ n \in 1..i
    BY <2>1, <2>2, <1>3, Zenon
  <2> QED
    BY <2>3, <1>2, Zenon DEF Rooted
<1> QED
  BY <1>6, <1>7, Zenon

(* Every variable keeps its type.                                           *)
THEOREM AccessTypeCorrect == AccessSpec => []AccessTypeOK
<1>1. AccessInv => AccessTypeOK
  BY DEF AccessInv, AccessTypeOK, Rooted
<1> QED
  BY <1>1, AccessInvariant, PTL

(* Whatever chain of API keys and agent tokens a credential came from,      *)
(* issue_agent_token, create_api_key and the checks of every route keep it  *)
(* to the merchant of the person it began with, and an agent to its scopes. *)
THEOREM AccessBounded == AccessSpec => []AccessStaysInBounds
<1>1. AccessInv => AccessStaysInBounds
  <2> SUFFICES ASSUME AccessInv, last.cred # Never
               PROVE  AccessStaysInBounds
    BY DEF AccessStaysInBounds
  <2> DEFINE l == last.cred
             c == creds[l]
             first == CHOOSE n \in Lineage(l) : creds[n].by = 0
  <2>1. /\ Permitted(l, last.permission)
        /\ last.session # Never => Visible(l, last.session)
    BY Zenon DEF AccessInv, ServedInv
  <2>2. /\ l \in DOMAIN creds /\ (c.expires # Never => hour <= c.expires)
        /\ last.permission \in EffectivePermissions(c.role, c.scopes)
    BY <2>1, Zenon DEF Permitted, Authentic
  <2>3. first \in Lineage(l) /\ creds[first].by = 0
    BY <2>2, LineageHasAHead, Zenon
  <2>4. creds[first].merchant = c.merchant /\ creds[first].kind = "user"
    BY <2>2, <2>3, LineageHasAHead, Zenon
  <2>5. last.session # Never => last.session.merchant = creds[first].merchant
    BY <2>1, <2>4, Zenon DEF Visible
  <2>6. ASSUME c.kind = "agent"
        PROVE  /\ last.permission \in c.asked /\ hour <= c.expires
               /\ last.permission \notin {"authorization:approve", "refund:request",
                                          "admin:policy", "admin:api_keys", "growth:manage"}
               /\ last.session # Never => last.session.owner = c.user
    <3>1. /\ c.role = "agent" /\ c.scopes = c.asked
          /\ c.asked # Never /\ c.asked \subseteq GrantableScopes /\ c.expires # Never
      BY <2>2, <2>6, Zenon DEF AccessInv, Rooted
    <3>2. last.permission \in AgentPermissions /\ last.permission \in c.asked
      BY <2>2, <3>1, AgentRole, Zenon
        DEF EffectivePermissions, PermissionsForScopes
    <3>3. last.session # Never => last.session.owner = c.user
      BY <2>1, <3>1, AgentRole, Zenon DEF Visible
    <3> HIDE DEF c, l
    <3>4. last.permission \notin {"authorization:approve", "refund:request",
                                  "admin:policy", "admin:api_keys", "growth:manage"}
      BY <3>2, AgentRole
    <3> QED
      BY <2>2, <3>1, <3>2, <3>3, <3>4
  <2> QED
    BY <2>4, <2>5, <2>6, Zenon DEF AccessStaysInBounds
<1> QED
  BY <1>1, AccessInvariant, PTL

-----------------------------------------------------------------------------
(* The smaller and the larger of two numbers.                               *)
LEMMA OfTwo ==
  ASSUME NEW a \in Int, NEW b \in Int
  PROVE  /\ Min({a, b}) = IF a <= b THEN a ELSE b
         /\ Max({a, b}) = IF a >= b THEN a ELSE b
<1>1. Min({a, b}) = IF a <= b THEN a ELSE b
  <2> DEFINE m == IF a <= b THEN a ELSE b
  <2>1. m \in {a, b} /\ \A y \in {a, b} : m <= y
    OBVIOUS
  <2>2. ASSUME NEW x \in {a, b}, \A y \in {a, b} : x <= y PROVE x = m
    BY <2>2
  <2> HIDE DEF m
  <2>3. Min({a, b}) = m
    BY <2>1, <2>2, Zenon DEF Min
  <2> QED
    BY <2>3 DEF m
<1>2. Max({a, b}) = IF a >= b THEN a ELSE b
  <2> DEFINE m == IF a >= b THEN a ELSE b
  <2>1. m \in {a, b} /\ \A y \in {a, b} : m >= y
    OBVIOUS
  <2>2. ASSUME NEW x \in {a, b}, \A y \in {a, b} : x >= y PROVE x = m
    BY <2>2
  <2> HIDE DEF m
  <2>3. Max({a, b}) = m
    BY <2>1, <2>2, Zenon DEF Max
  <2> QED
    BY <2>3 DEF m
<1> QED
  BY <1>1, <1>2

(* What the arithmetic of a bucket needs of products.                       *)
LEMMA Scaled ==
  /\ \A r, p \in Nat : r * p \in Nat
  /\ \A r, p \in Nat : r # 0 => r * p >= p
  /\ \A r, x \in Int : r * x \in Int /\ r * (x + 1) = r * x + r
  /\ \A n, p \in Nat : (n + 1) * p = n * p + p
  /\ \A r \in Nat, x, y \in Int : x >= y => r * x >= r * y
<1>1. \A r, p \in Nat : r * p \in Nat
  OBVIOUS
<1>2. \A r, p \in Nat : r # 0 => r * p >= p
  OBVIOUS
<1>3. \A r, x \in Int : r * x \in Int /\ r * (x + 1) = r * x + r
  OBVIOUS
<1>4. \A n, p \in Nat : (n + 1) * p = n * p + p
  OBVIOUS
<1>5. \A r \in Nat, x, y \in Int : x >= y => r * x >= r * y
  OBVIOUS
<1> QED
  BY <1>1, <1>2, <1>3, <1>4, <1>5, Zenon

(* A check of a key, as it is kept.                                         *)
Checked == [at : Nat, ok : BOOLEAN]

(* Refilled, of the bucket b of key k at time t.                            *)
LevelOf(b, k, t) ==
  IF b = Absent THEN Capacity(k)
  ELSE Min({Capacity(k), b.tokens + Max({0, t - b.updated}) * Rate[k.limiter]})

(* Passed, of the first n of the checks s.                                  *)
CountOf(s, a, n) == Cardinality({i \in 1..n : s[i].ok /\ s[i].at >= a})

(* What the interval from a to t still allows.                              *)
Allowed(s, k, a, t) ==
  Capacity(k) + (Rate[k.limiter] * (t - a) - CountOf(s, a, Len(s)) * PerSeconds)

BucketTyped(b, k, t) ==
  b = Absent \/ /\ b \in [tokens : Nat, updated : Nat]
                /\ b.tokens <= Capacity(k) /\ b.updated <= t

(* The bucket holds what the tightest interval that ends now allows, or is  *)
(* full.                                                                    *)
HoldsTheTightest(b, s, k, t) ==
  /\ \A i \in DOMAIN s : LevelOf(b, k, t) <= Allowed(s, k, s[i].at, t)
  /\ \/ LevelOf(b, k, t) = Capacity(k)
     \/ \E i \in DOMAIN s : LevelOf(b, k, t) = Allowed(s, k, s[i].at, t)

(* RateHoldsOverEveryInterval, of the checks s of key k.                    *)
RateHolds(s, k) ==
  \A n \in DOMAIN s :
    s[n].ok <=>
      \A i \in 1..n :
        (CountOf(s, s[i].at, n - 1) + 1) * PerSeconds
          <= Capacity(k) + Rate[k.limiter] * (s[n].at - s[i].at)

KeyInv(b, s, k, t) ==
  /\ BucketTyped(b, k, t)
  /\ s \in Seq(Checked) /\ \A i \in DOMAIN s : s[i].at <= t
  /\ HoldsTheTightest(b, s, k, t)
  /\ RateHolds(s, k)

LimiterInv ==
  /\ clock \in 0..MaxClock
  /\ bucket = [k \in Keys |-> bucket[k]] /\ checks = [k \in Keys |-> checks[k]]
  /\ \A k \in Keys : KeyInv(bucket[k], checks[k], k, clock)

-----------------------------------------------------------------------------
(* The limiter of a key has a rate, and a full bucket a token.              *)
LEMMA KeyFacts ==
  ASSUME NEW k \in Keys
  PROVE  /\ Rate[k.limiter] \in Nat \ {0} /\ PerSeconds \in Nat /\ PruneAfter \in Nat
         /\ Capacity(k) \in Nat /\ Capacity(k) >= PerSeconds
         /\ Rate[k.limiter] * PruneAfter >= Capacity(k)
<1>1. PICK r \in Requests : k = Key(r)
  BY DEF Keys
<1>2. k.limiter = r.path /\ r.path \in DOMAIN Rate
  BY <1>1, LimiterAssumption DEF Key, Limiter
<1>3. Rate[k.limiter] \in Nat \ {0} /\ PerSeconds \in Nat /\ PruneAfter \in Nat
  BY <1>2, LimiterAssumption
<1>4. Rate[k.limiter] * PruneAfter >= Rate[k.limiter] * PerSeconds
  BY <1>2, LimiterAssumption
<1> QED
  BY <1>3, <1>4, Scaled DEF Capacity

LEMMA LevelFacts ==
  ASSUME NEW k \in Keys, NEW b, NEW t \in Nat, BucketTyped(b, k, t)
  PROVE  /\ LevelOf(b, k, t) \in Nat /\ LevelOf(b, k, t) <= Capacity(k)
         /\ b # Absent =>
              LevelOf(b, k, t) =
                IF Capacity(k) <= b.tokens + Rate[k.limiter] * (t - b.updated) THEN Capacity(k)
                ELSE b.tokens + Rate[k.limiter] * (t - b.updated)
<1>1. Capacity(k) \in Nat /\ Rate[k.limiter] \in Nat
  BY KeyFacts
<1>2. CASE b = Absent
  <2>1. LevelOf(b, k, t) = Capacity(k)
    BY <1>2, Zenon DEF LevelOf
  <2> QED
    BY <1>1, <1>2, <2>1
<1>3. CASE b # Absent
  <2>1. b.tokens \in Nat /\ b.updated \in Nat /\ b.updated <= t
    BY <1>3 DEF BucketTyped
  <2>2. t - b.updated \in Nat /\ 0 \in Int
    BY <2>1
  <2>3. Max({0, t - b.updated}) = t - b.updated
    BY <2>2, OfTwo
  <2>4. PICK x \in Nat : x = Rate[k.limiter] * (t - b.updated) /\ x = (t - b.updated) * Rate[k.limiter]
    <3>1. Rate[k.limiter] * (t - b.updated) = (t - b.updated) * Rate[k.limiter]
      BY <2>2, <1>1
    <3> QED
      BY <3>1, <2>2, <1>1, Scaled
  <2>5. LevelOf(b, k, t) = Min({Capacity(k), b.tokens + x})
    BY <2>3, <2>4, <1>3, Zenon DEF LevelOf
  <2>6. Capacity(k) \in Int /\ b.tokens + x \in Int
    BY <1>1, <2>1, <2>4
  <2>7. LevelOf(b, k, t) = IF Capacity(k) <= b.tokens + x THEN Capacity(k) ELSE b.tokens + x
    BY <2>5, <2>6, OfTwo, Zenon
  <2>8. LevelOf(b, k, t) \in Nat /\ LevelOf(b, k, t) <= Capacity(k)
    BY <1>1, <2>1, <2>4, <2>7
  <2> QED
    BY <2>4, <2>7, <2>8, Zenon
<1> QED
  BY <1>2, <1>3

(* One more check, and those before it.                                     *)
LEMMA Counted ==
  ASSUME NEW s \in Seq(Checked), NEW c \in Checked, NEW a \in Nat
  PROVE  /\ \A n \in 0..Len(s) : /\ CountOf(s, a, n) \in Nat
                                 /\ CountOf(Append(s, c), a, n) = CountOf(s, a, n)
         /\ CountOf(Append(s, c), a, Len(s) + 1) =
              IF c.ok /\ c.at >= a THEN CountOf(s, a, Len(s)) + 1 ELSE CountOf(s, a, Len(s))
         /\ (\A i \in DOMAIN s : s[i].at < a) => CountOf(s, a, Len(s)) = 0
<1> DEFINE t == Append(s, c)
           In(u, n) == {i \in 1..n : u[i].ok /\ u[i].at >= a}
<1>1. /\ Len(s) \in Nat /\ DOMAIN s = 1..Len(s) /\ t[Len(s) + 1] = c
      /\ \A i \in 1..Len(s) : t[i] = s[i] /\ s[i] \in Checked
  OBVIOUS
<1>2. ASSUME NEW n \in 0..Len(s)
      PROVE  /\ IsFiniteSet(In(s, n)) /\ CountOf(s, a, n) \in Nat /\ In(t, n) = In(s, n)
  <2>1. IsFiniteSet(1..n) /\ In(s, n) \in SUBSET (1..n)
    BY FS_Interval
  <2>2. IsFiniteSet(In(s, n))
    BY <2>1, FS_Subset, Zenon
  <2>3. \A i \in 1..n : t[i] = s[i]
    BY <1>1
  <2> HIDE DEF t
  <2>4. In(t, n) = In(s, n)
    BY <2>3, Zenon
  <2> QED
    BY <2>2, <2>4, FS_CardinalityType, Zenon DEF CountOf
<1> HIDE DEF t
<1>3. CountOf(t, a, Len(s) + 1) =
        IF c.ok /\ c.at >= a THEN CountOf(s, a, Len(s)) + 1 ELSE CountOf(s, a, Len(s))
  <2>1. Len(s) \in 0..Len(s) /\ 1..(Len(s) + 1) = 1..Len(s) \union {Len(s) + 1}
        /\ Len(s) + 1 \notin 1..Len(s)
    BY <1>1
  <2>2. In(t, Len(s) + 1) = In(t, Len(s)) \union (IF c.ok /\ c.at >= a THEN {Len(s) + 1} ELSE {})
    BY <2>1, <1>1, Zenon
  <2>3. IsFiniteSet(In(s, Len(s))) /\ In(t, Len(s)) = In(s, Len(s))
    BY <2>1, <1>2, Zenon
  <2>4. CASE c.ok /\ c.at >= a
    <3>1. In(t, Len(s) + 1) = In(s, Len(s)) \union {Len(s) + 1}
      BY <2>2, <2>3, <2>4, Zenon
    <3>2. Len(s) + 1 \notin In(s, Len(s))
      BY <2>1, Zenon
    <3>3. Cardinality(In(s, Len(s)) \union {Len(s) + 1}) = Cardinality(In(s, Len(s))) + 1
      BY <3>2, <2>3, FS_AddElement, Zenon
    <3> QED
      BY <3>1, <3>3, <2>4, Zenon DEF CountOf
  <2>5. CASE ~(c.ok /\ c.at >= a)
    <3>1. In(t, Len(s) + 1) = In(s, Len(s))
      BY <2>2, <2>3, <2>5, Zenon
    <3> QED
      BY <3>1, <2>5, Zenon DEF CountOf
  <2> QED
    BY <2>4, <2>5, Zenon
<1>4. ASSUME \A i \in DOMAIN s : s[i].at < a PROVE CountOf(s, a, Len(s)) = 0
  <2>1. \A i \in 1..Len(s) : ~(s[i].at >= a)
    <3> SUFFICES ASSUME NEW i \in 1..Len(s) PROVE ~(s[i].at >= a)
      OBVIOUS
    <3>1. s[i] \in Checked /\ s[i].at < a
      BY <1>1, <1>4
    <3>2. s[i].at \in Nat
      BY <3>1 DEF Checked
    <3> QED
      BY <3>1, <3>2
  <2>2. In(s, Len(s)) = {}
    BY <2>1, Zenon
  <2> QED
    BY <2>2, FS_EmptySet, Zenon DEF CountOf
<1> QED
  BY <1>2, <1>3, <1>4, Zenon DEF CountOf, t

(* What an interval allows is a number, less by a token for each check that *)
(* passed in it, and never more than a full bucket for the one instant.     *)
LEMMA AllowedFacts ==
  ASSUME NEW k \in Keys, NEW s \in Seq(Checked), NEW a \in Nat, NEW t \in Nat
  PROVE  /\ Allowed(s, k, a, t) \in Int
         /\ Allowed(s, k, a, t + 1) = Allowed(s, k, a, t) + Rate[k.limiter]
         /\ Allowed(s, k, t, t) <= Capacity(k)
         /\ (\A i \in DOMAIN s : s[i].at < t) => Allowed(s, k, t, t) = Capacity(k)
         /\ PerSeconds <= Allowed(s, k, a, t) <=>
              (CountOf(s, a, Len(s)) + 1) * PerSeconds <= Capacity(k) + Rate[k.limiter] * (t - a)
<1>1. Rate[k.limiter] \in Nat /\ PerSeconds \in Nat /\ Capacity(k) \in Nat
  BY KeyFacts
<1>2. CountOf(s, a, Len(s)) \in Nat /\ CountOf(s, t, Len(s)) \in Nat
      /\ ((\A i \in DOMAIN s : s[i].at < t) => CountOf(s, t, Len(s)) = 0)
  <2>1. [at |-> 0, ok |-> TRUE] \in Checked /\ Len(s) \in 0..Len(s)
    BY DEF Checked
  <2> QED
    BY <2>1, Counted
<1>3. PICK R \in Nat, P \in Nat, C \in Nat, m \in Nat, n \in Nat :
        /\ R = Rate[k.limiter] /\ P = PerSeconds /\ C = Capacity(k)
        /\ m = CountOf(s, a, Len(s)) /\ n = CountOf(s, t, Len(s))
  BY <1>1, <1>2
<1>4. /\ m * P \in Nat /\ n * P \in Nat /\ (m + 1) * P = m * P + P
      /\ R * (t - a) \in Int /\ R * (t - t) = 0
  <2>1. t - a \in Int /\ t - t = 0 /\ R * 0 = 0
    OBVIOUS
  <2> QED
    BY <2>1, Scaled
<1>5. (t + 1) - a = (t - a) + 1 /\ R * ((t - a) + 1) = R * (t - a) + R
  BY Scaled
<1>6. n = 0 => n * P = 0
  OBVIOUS
<1>7. /\ Allowed(s, k, a, t) = C + (R * (t - a) - m * P)
      /\ Allowed(s, k, a, t + 1) = C + (R * ((t + 1) - a) - m * P)
      /\ Allowed(s, k, t, t) = C + (R * (t - t) - n * P)
  BY <1>3, Zenon DEF Allowed
<1>8. PICK x \in Int, y \in Nat, z \in Nat : x = R * (t - a) /\ y = m * P /\ z = n * P
  BY <1>4
<1>9. /\ Allowed(s, k, a, t) \in Int
      /\ Allowed(s, k, a, t + 1) = Allowed(s, k, a, t) + R
      /\ Allowed(s, k, t, t) <= C
      /\ n = 0 => Allowed(s, k, t, t) = C
  <2>1. R * ((t + 1) - a) = x + R
    BY <1>5, <1>8, Zenon
  <2>2. R * (t - t) = 0 /\ (n = 0 => z = 0)
    BY <1>4, <1>6, <1>8, Zenon
  <2>3. /\ Allowed(s, k, a, t) = C + (x - y)
        /\ Allowed(s, k, a, t + 1) = C + ((x + R) - y)
        /\ Allowed(s, k, t, t) = C + (0 - z)
    BY <1>7, <1>8, <2>1, <2>2, Zenon
  <2> QED
    BY <2>2, <2>3
<1>10. P <= Allowed(s, k, a, t) <=> (m + 1) * P <= C + R * (t - a)
  <2>1. Allowed(s, k, a, t) = C + (x - y) /\ (m + 1) * P = y + P /\ R * (t - a) = x
    BY <1>4, <1>7, <1>8, Zenon
  <2>2. P <= C + (x - y) <=> y + P <= C + x
    OBVIOUS
  <2> QED
    BY <2>1, <2>2, Zenon
<1> QED
  BY <1>2, <1>3, <1>9, <1>10, Zenon

(* A check more takes a token from what every interval allows, if it passed.*)
LEMMA AllowedAfter ==
  ASSUME NEW k \in Keys, NEW s \in Seq(Checked), NEW t \in Nat, NEW a \in 0..t, NEW ok \in BOOLEAN
  PROVE  Allowed(Append(s, [at |-> t, ok |-> ok]), k, a, t) =
           IF ok THEN Allowed(s, k, a, t) - PerSeconds ELSE Allowed(s, k, a, t)
<1> DEFINE c == [at |-> t, ok |-> ok]
<1>1. c \in Checked /\ c.at = t /\ c.ok = ok /\ t >= a /\ a \in Nat
  BY DEF Checked
<1> HIDE DEF c
<1>2. CountOf(s, a, Len(s)) \in Nat /\ Len(Append(s, c)) = Len(s) + 1
  <2>1. Len(s) \in 0..Len(s)
    OBVIOUS
  <2>2. CountOf(s, a, Len(s)) \in Nat
    BY <1>1, <2>1, Counted
  <2> QED
    BY <1>1, <2>2
<1>3. CountOf(Append(s, c), a, Len(s) + 1) =
        IF ok THEN CountOf(s, a, Len(s)) + 1 ELSE CountOf(s, a, Len(s))
  BY <1>1, Counted
<1>4. PerSeconds \in Nat /\ Capacity(k) \in Nat /\ Rate[k.limiter] \in Nat
  BY KeyFacts
<1>5. PICK m \in Nat, x \in Int, y \in Nat :
        m = CountOf(s, a, Len(s)) /\ x = Rate[k.limiter] * (t - a) /\ y = m * PerSeconds
  <2>1. t - a \in Int
    BY <1>1
  <2>2. Rate[k.limiter] * (t - a) \in Int
    BY <2>1, <1>4, Scaled
  <2>3. CountOf(s, a, Len(s)) * PerSeconds \in Nat
    BY <1>2, <1>4, Scaled
  <2> QED
    BY <2>2, <2>3, <1>2, Zenon
<1>6. Allowed(s, k, a, t) = Capacity(k) + (x - y)
  BY <1>5, Zenon DEF Allowed
<1>7. CASE ok
  <2>1. Allowed(Append(s, c), k, a, t) = Capacity(k) + (x - (m + 1) * PerSeconds)
    BY <1>2, <1>3, <1>5, <1>7, Zenon DEF Allowed
  <2>2. (m + 1) * PerSeconds = y + PerSeconds
    BY <1>4, <1>5, Scaled
  <2>3. Capacity(k) + (x - (y + PerSeconds)) = (Capacity(k) + (x - y)) - PerSeconds
    BY <1>4
  <2> QED
    BY <2>1, <2>2, <2>3, <1>6, <1>7, Zenon DEF c
<1>8. CASE ~ok
  <2>1. Allowed(Append(s, c), k, a, t) = Capacity(k) + (x - y)
    BY <1>2, <1>3, <1>5, <1>8, Zenon DEF Allowed
  <2> QED
    BY <2>1, <1>6, <1>8, Zenon DEF c
<1> QED
  BY <1>7, <1>8

-----------------------------------------------------------------------------
(* A second more fills the bucket by what every interval allows more.       *)
LEMMA TickKeeps ==
  ASSUME NEW k \in Keys, NEW b, NEW s, NEW t \in Nat, KeyInv(b, s, k, t)
  PROVE  KeyInv(b, s, k, t + 1)
<1>1. /\ BucketTyped(b, k, t) /\ s \in Seq(Checked) /\ \A i \in DOMAIN s : s[i].at <= t
      /\ HoldsTheTightest(b, s, k, t) /\ RateHolds(s, k)
  BY DEF KeyInv
<1>2. \A i \in DOMAIN s : s[i].at \in Nat /\ s[i].at <= t + 1
  <2> SUFFICES ASSUME NEW i \in DOMAIN s PROVE s[i].at \in Nat /\ s[i].at <= t + 1
    OBVIOUS
  <2>1. s[i] \in Checked /\ s[i].at <= t
    BY <1>1
  <2>2. s[i].at \in Nat
    BY <2>1 DEF Checked
  <2> QED
    BY <2>1, <2>2
<1>3. PICK L \in Nat, M \in Nat, C \in Nat, R \in Nat :
        L = LevelOf(b, k, t) /\ M = LevelOf(b, k, t + 1) /\ C = Capacity(k) /\ R = Rate[k.limiter]
        /\ L <= C /\ BucketTyped(b, k, t + 1)
  <2>1. BucketTyped(b, k, t + 1)
    BY <1>1 DEF BucketTyped
  <2> QED
    BY <2>1, <1>1, LevelFacts, KeyFacts
<1>4. M = IF L + R >= C THEN C ELSE L + R
  <2>1. CASE b = Absent
    <3>1. L = C /\ M = C
      BY <2>1, <1>3, Zenon DEF LevelOf
    <3> QED
      BY <3>1
  <2>2. CASE b # Absent
    <3>1. b.tokens \in Nat /\ b.updated \in Nat
      BY <2>2, <1>1 DEF BucketTyped
    <3>2. PICK u \in Nat, x \in Int, T \in Nat :
            u = b.updated /\ x = R * (t - u) /\ T = b.tokens
      <4>1. t - b.updated \in Int
        BY <3>1
      <4> QED
        BY <3>1, <4>1, Scaled
    <3>3. R * ((t + 1) - u) = x + R
      <4>1. (t + 1) - u = (t - u) + 1
        OBVIOUS
      <4>2. R * ((t - u) + 1) = R * (t - u) + R
        BY Scaled
      <4> QED
        BY <4>1, <4>2, <3>2, Zenon
    <3>4. L = IF C <= T + x THEN C ELSE T + x
      BY <1>1, <1>3, <2>2, <3>2, LevelFacts, Zenon
    <3>5. M = IF C <= T + (x + R) THEN C ELSE T + (x + R)
      <4>1. t + 1 \in Nat
        OBVIOUS
      <4> QED
        <5>1. LevelOf(b, k, t + 1) =
                IF Capacity(k) <= b.tokens + Rate[k.limiter] * ((t + 1) - b.updated) THEN Capacity(k)
                ELSE b.tokens + Rate[k.limiter] * ((t + 1) - b.updated)
          BY <4>1, <1>3, <2>2, LevelFacts, Zenon
        <5> QED
          BY <5>1, <1>3, <3>2, <3>3, Zenon
    <3>6. CASE C <= T + x
      BY <3>4, <3>5, <3>6
    <3>7. CASE ~(C <= T + x)
      BY <3>4, <3>5, <3>7
    <3> QED
      BY <3>6, <3>7
  <2> QED
    BY <2>1, <2>2
<1>5. \A i \in DOMAIN s : /\ Allowed(s, k, s[i].at, t) \in Int
                          /\ Allowed(s, k, s[i].at, t + 1) = Allowed(s, k, s[i].at, t) + R
  <2> SUFFICES ASSUME NEW i \in DOMAIN s
               PROVE  /\ Allowed(s, k, s[i].at, t) \in Int
                      /\ Allowed(s, k, s[i].at, t + 1) = Allowed(s, k, s[i].at, t) + R
    OBVIOUS
  <2>1. s[i].at \in Nat /\ s \in Seq(Checked)
    BY <1>1, <1>2
  <2>2. /\ Allowed(s, k, s[i].at, t) \in Int
        /\ Allowed(s, k, s[i].at, t + 1) = Allowed(s, k, s[i].at, t) + Rate[k.limiter]
    BY <2>1, AllowedFacts
  <2> QED
    BY <2>2, <1>3
<1>6. HoldsTheTightest(b, s, k, t + 1)
  <2>1. ASSUME NEW i \in DOMAIN s PROVE M <= Allowed(s, k, s[i].at, t + 1)
    <3>1. L <= Allowed(s, k, s[i].at, t)
      BY <1>1, <1>3, Zenon DEF HoldsTheTightest
    <3> QED
      BY <3>1, <1>4, <1>5
  <2>2. M = C \/ \E i \in DOMAIN s : M = Allowed(s, k, s[i].at, t + 1)
    <3>1. CASE L = C
      BY <3>1, <1>4
    <3>2. ASSUME NEW i \in DOMAIN s, L = Allowed(s, k, s[i].at, t)
          PROVE  M = C \/ M = Allowed(s, k, s[i].at, t + 1)
      BY <3>2, <1>4, <1>5
    <3> QED
      BY <3>1, <3>2, <1>1, <1>3, Zenon DEF HoldsTheTightest
  <2> QED
    BY <2>1, <2>2, <1>3, Zenon DEF HoldsTheTightest
<1> QED
  BY <1>1, <1>2, <1>3, <1>6, Zenon DEF KeyInv

(* A bucket prune drops was full.                                           *)
LEMMA PruneKeeps ==
  ASSUME NEW k \in Keys, NEW b, NEW s, NEW t \in Nat, KeyInv(b, s, k, t),
         b # Absent, b.updated < t - PruneAfter
  PROVE  KeyInv(Absent, s, k, t)
<1>1. BucketTyped(b, k, t)
  BY DEF KeyInv
<1>2. b.tokens \in Nat /\ b.updated \in Nat
  BY <1>1 DEF BucketTyped
<1>3. PICK R \in Nat, C \in Nat, x \in Int, u \in Nat, T \in Nat :
        /\ R = Rate[k.limiter] /\ C = Capacity(k) /\ u = b.updated /\ T = b.tokens
        /\ x = R * (t - u) /\ R * PruneAfter >= C /\ PruneAfter \in Nat
  <2>1. t - b.updated \in Int
    BY <1>2
  <2>2. /\ Rate[k.limiter] \in Nat /\ Capacity(k) \in Nat /\ PruneAfter \in Nat
        /\ Rate[k.limiter] * PruneAfter >= Capacity(k)
    BY KeyFacts
  <2>3. Rate[k.limiter] * (t - b.updated) \in Int
    BY <2>1, <2>2, Scaled
  <2> QED
    BY <1>2, <2>2, <2>3, Zenon
<1>4. x >= C
  <2>1. t - u >= PruneAfter /\ t - u \in Int /\ PruneAfter \in Int
    BY <1>3
  <2>2. R * (t - u) >= R * PruneAfter
    BY <2>1, Scaled
  <2>3. R * PruneAfter \in Int
    BY <1>3, Scaled
  <2> QED
    BY <1>3, <2>2, <2>3
<1>5. C <= T + x
  BY <1>4
<1>6. LevelOf(b, k, t) = C
  BY <1>1, <1>3, <1>5, LevelFacts, Zenon
<1>7. LevelOf(Absent, k, t) = C
  BY <1>3, Zenon DEF LevelOf
<1>8. HoldsTheTightest(Absent, s, k, t)
  BY <1>6, <1>7, Zenon DEF KeyInv, HoldsTheTightest
<1> QED
  BY <1>8, Zenon DEF KeyInv, BucketTyped

(* Nothing was checked, nothing was spent.                                  *)
LEMMA ResetKeeps ==
  ASSUME NEW k \in Keys, NEW t \in Nat
  PROVE  KeyInv(Absent, <<>>, k, t)
<1>1. <<>> \in Seq(Checked) /\ DOMAIN <<>> = {}
  BY EmptySeq
<1>2. LevelOf(Absent, k, t) = Capacity(k)
  BY DEF LevelOf
<1>3. HoldsTheTightest(Absent, <<>>, k, t)
  BY <1>1, <1>2 DEF HoldsTheTightest
<1>4. RateHolds(<<>>, k)
  BY <1>1 DEF RateHolds
<1> QED
  BY <1>1, <1>3, <1>4 DEF KeyInv, BucketTyped

(* A check passes just when the tightest interval allows it, and takes its  *)
(* token from every interval.                                               *)
LEMMA CheckKeeps ==
  ASSUME NEW k \in Keys, NEW b, NEW s, NEW t \in Nat, KeyInv(b, s, k, t),
         NEW ok \in BOOLEAN, ok <=> LevelOf(b, k, t) >= PerSeconds,
         NEW left, left = IF ok THEN LevelOf(b, k, t) - PerSeconds ELSE LevelOf(b, k, t)
  PROVE  KeyInv([tokens |-> left, updated |-> t], Append(s, [at |-> t, ok |-> ok]), k, t)
<1> DEFINE d == [tokens |-> left, updated |-> t]
           c == [at |-> t, ok |-> ok]
           after == Append(s, c)
<1>1. /\ BucketTyped(b, k, t) /\ s \in Seq(Checked) /\ \A i \in DOMAIN s : s[i].at <= t
      /\ HoldsTheTightest(b, s, k, t) /\ RateHolds(s, k)
  BY DEF KeyInv
<1>2. PICK L \in Nat, C \in Nat, P \in Nat, n \in Nat :
        /\ L = LevelOf(b, k, t) /\ C = Capacity(k) /\ P = PerSeconds /\ n = Len(s)
        /\ L <= C /\ P <= C
  BY <1>1, LevelFacts, KeyFacts
<1>3. left \in Nat /\ left <= C
  BY <1>2
<1>4. /\ d \in [tokens : Nat, updated : Nat] /\ d.tokens = left /\ d.updated = t
      /\ c \in Checked /\ c.at = t /\ c.ok = ok
  BY <1>3 DEF Checked
<1>5. BucketTyped(d, k, t) /\ d # Absent
  <2>1. d.tokens <= Capacity(k) /\ d.updated <= t
    BY <1>2, <1>3, <1>4
  <2>2. Absent \notin [tokens : Nat, updated : Nat]
    BY LimiterAssumption
  <2> QED
    BY <2>1, <2>2, <1>4, Zenon DEF BucketTyped
<1> HIDE DEF c, d
<1>6. /\ after \in Seq(Checked) /\ Len(after) = n + 1 /\ DOMAIN after = 1..(n + 1)
      /\ DOMAIN s = 1..n /\ after[n + 1] = c /\ \A i \in 1..n : after[i] = s[i]
  BY <1>1, <1>2, <1>4
<1>7. \A i \in 1..n : s[i].at \in 0..t
  <2> SUFFICES ASSUME NEW i \in 1..n PROVE s[i].at \in 0..t
    OBVIOUS
  <2>1. s[i] \in Checked /\ s[i].at <= t
    BY <1>1, <1>6
  <2>2. s[i].at \in Nat
    BY <2>1 DEF Checked
  <2> QED
    BY <2>1, <2>2
<1>8. LevelOf(d, k, t) = left
  <2>1. LevelOf(d, k, t) = IF C <= left + Rate[k.limiter] * (t - t) THEN C
                           ELSE left + Rate[k.limiter] * (t - t)
    BY <1>2, <1>4, <1>5, LevelFacts, Zenon
  <2>2. Rate[k.limiter] * (t - t) = 0
    <3>1. t - t = 0 /\ Rate[k.limiter] \in Nat
      BY KeyFacts
    <3>2. Rate[k.limiter] * 0 = 0
      BY <3>1
    <3> QED
      BY <3>1, <3>2, Zenon
  <2>3. LevelOf(d, k, t) = IF C <= left + 0 THEN C ELSE left + 0
    BY <2>1, <2>2, Zenon
  <2> QED
    BY <2>3, <1>2, <1>3
<1> DEFINE Now(a) == Allowed(s, k, a, t)
           Then(a) == Allowed(after, k, a, t)
<1>9. \A a \in 0..t : Now(a) \in Int /\ Then(a) = IF ok THEN Now(a) - P ELSE Now(a)
  <2> SUFFICES ASSUME NEW a \in 0..t
               PROVE  Now(a) \in Int /\ Then(a) = IF ok THEN Now(a) - P ELSE Now(a)
    OBVIOUS
  <2>1. Now(a) \in Int
    <3>1. a \in Nat
      OBVIOUS
    <3> QED
      BY <3>1, <1>1, AllowedFacts
  <2>2. Then(a) = IF ok THEN Now(a) - P ELSE Now(a)
    <3>1. s \in Seq(Checked) /\ P = PerSeconds
      BY <1>1, <1>2, Zenon
    <3>2. Allowed(Append(s, [at |-> t, ok |-> ok]), k, a, t) =
            IF ok THEN Allowed(s, k, a, t) - PerSeconds ELSE Allowed(s, k, a, t)
      BY <3>1, AllowedAfter, Zenon
    <3> QED
      BY <3>1, <3>2, Zenon DEF c
  <2> QED
    BY <2>1, <2>2
<1>10. \A i \in 1..n : L <= Now(s[i].at)
  BY <1>1, <1>2, <1>6, Zenon DEF HoldsTheTightest
<1>11. L = C \/ \E i \in 1..n : L = Now(s[i].at)
  BY <1>1, <1>2, <1>6, Zenon DEF HoldsTheTightest
<1>12. L <= Now(t) /\ Now(t) <= C
  <2>1. Now(t) <= C /\ Now(t) \in Int
    BY <1>1, <1>2, AllowedFacts
  <2>2. CASE \E i \in 1..n : s[i].at = t
    BY <2>1, <2>2, <1>10
  <2>3. CASE \A i \in 1..n : s[i].at # t
    <3>1. \A i \in DOMAIN s : s[i].at < t
      BY <2>3, <1>6, <1>7
    <3>2. Now(t) = C
      BY <3>1, <1>1, <1>2, AllowedFacts
    <3> QED
      BY <3>2, <1>2
  <2> QED
    BY <2>1, <2>2, <2>3
<1>13. t \in 0..t /\ n + 1 \in 1..(n + 1)
  OBVIOUS
<1>14. PICK newer \in Int, older \in Int :
         newer = Now(t) /\ older = Then(t) /\ older = IF ok THEN newer - P ELSE newer
  BY <1>9, <1>13
<1>15. after[n + 1].at = t /\ after[n + 1].ok = ok
  BY <1>4, <1>6
<1>16. \A i \in 1..n : /\ after[i].at = s[i].at /\ after[i].ok = s[i].ok
                       /\ Now(s[i].at) \in Int
                       /\ Then(s[i].at) = IF ok THEN Now(s[i].at) - P ELSE Now(s[i].at)
  BY <1>6, <1>7, <1>9, Zenon
<1> HIDE DEF Now, Then, after
<1>17. left = IF ok THEN L - P ELSE L
  BY <1>2, Zenon
<1>18. \A i \in 1..(n + 1) : left <= Then(after[i].at)
  <2> SUFFICES ASSUME NEW i \in 1..(n + 1) PROVE left <= Then(after[i].at)
    OBVIOUS
  <2>1. CASE i \in 1..n
    <3>1. PICK x \in Int : x = Now(s[i].at) /\ Then(after[i].at) = IF ok THEN x - P ELSE x
      BY <2>1, <1>16, Zenon
    <3>2. L <= x
      BY <2>1, <3>1, <1>10
    <3> QED
      BY <3>1, <3>2, <1>17
  <2>2. CASE i = n + 1
    <3>1. Then(after[i].at) = older
      BY <2>2, <1>14, <1>15, Zenon
    <3>2. L <= newer
      BY <1>12, <1>14, Zenon
    <3> QED
      BY <3>1, <3>2, <1>14, <1>17
  <2> QED
    BY <2>1, <2>2
<1>19. left = C \/ \E i \in 1..(n + 1) : left = Then(after[i].at)
  <2>1. CASE L = C
    <3>1. newer = C
      BY <2>1, <1>12, <1>14
    <3>2. left = older
      BY <3>1, <2>1, <1>14, <1>17, Zenon
    <3>3. left = Then(after[n + 1].at)
      BY <3>2, <1>14, <1>15, Zenon
    <3> QED
      BY <3>3, <1>13, Zenon
  <2>2. ASSUME NEW i \in 1..n, L = Now(s[i].at)
        PROVE  i \in 1..(n + 1) /\ left = Then(after[i].at)
    <3>1. left = Then(after[i].at)
      BY <2>2, <1>16, <1>17, Zenon
    <3> QED
      BY <3>1
  <2> QED
    BY <2>1, <2>2, <1>11, Zenon
<1>20. HoldsTheTightest(d, after, k, t)
  BY <1>2, <1>6, <1>8, <1>18, <1>19, Zenon DEF HoldsTheTightest, Then
<1>21. \A m \in 0..n, a \in 0..t : CountOf(after, a, m) = CountOf(s, a, m)
  <2> SUFFICES ASSUME NEW m \in 0..n, NEW a \in 0..t PROVE CountOf(after, a, m) = CountOf(s, a, m)
    OBVIOUS
  <2>1. a \in Nat /\ m \in 0..Len(s)
    BY <1>2
  <2> QED
    BY <2>1, <1>1, <1>4, Counted DEF after
<1>22. ok <=> \A i \in 1..(n + 1) : P <= Now(after[i].at)
  <2>1. ASSUME ok, NEW i \in 1..(n + 1) PROVE P <= Now(after[i].at)
    <3>1. P <= L
      BY <2>1, <1>2
    <3>2. CASE i \in 1..n
      <4>1. PICK x \in Int : x = Now(s[i].at) /\ x = Now(after[i].at)
        BY <3>2, <1>16, Zenon
      <4>2. L <= x
        BY <3>2, <4>1, <1>10
      <4> QED
        BY <3>1, <4>1, <4>2
    <3>3. CASE i = n + 1
      <4>1. Now(after[i].at) = newer /\ L <= newer
        BY <3>3, <1>12, <1>14, <1>15, Zenon
      <4> QED
        BY <3>1, <4>1
    <3> QED
      BY <3>2, <3>3
  <2>2. ASSUME \A i \in 1..(n + 1) : P <= Now(after[i].at) PROVE ok
    <3>1. P <= L
      <4>1. ASSUME NEW i \in 1..n, L = Now(s[i].at) PROVE P <= L
        <5>1. i \in 1..(n + 1)
          OBVIOUS
        <5> QED
          BY <4>1, <5>1, <2>2, <1>16, Zenon
      <4> QED
        BY <4>1, <1>2, <1>11
    <3> QED
      BY <3>1, <1>2
  <2> QED
    BY <2>1, <2>2
<1>23. RateHolds(after, k)
  <2> SUFFICES ASSUME NEW m \in 1..(n + 1)
               PROVE  after[m].ok <=>
                        \A i \in 1..m :
                          (CountOf(after, after[i].at, m - 1) + 1) * PerSeconds
                            <= Capacity(k) + Rate[k.limiter] * (after[m].at - after[i].at)
    BY <1>6, Zenon DEF RateHolds
  <2>1. m - 1 \in 0..n
    OBVIOUS
  <2>2. CASE m \in 1..n
    <3>1. /\ after[m].ok = s[m].ok /\ after[m].at = s[m].at
          /\ \A i \in 1..m : /\ after[i].at = s[i].at
                             /\ CountOf(after, after[i].at, m - 1) = CountOf(s, s[i].at, m - 1)
      <4>1. \A i \in 1..m : i \in 1..n
        BY <2>2
      <4> QED
        BY <4>1, <2>1, <2>2, <1>7, <1>16, <1>21, Zenon
    <3>2. s[m].ok <=>
            \A i \in 1..m :
              (CountOf(s, s[i].at, m - 1) + 1) * PerSeconds
                <= Capacity(k) + Rate[k.limiter] * (s[m].at - s[i].at)
      BY <2>2, <1>1, <1>6, Zenon DEF RateHolds
    <3> QED
      BY <3>1, <3>2, Zenon
  <2>3. CASE m = n + 1
    <3>1. m - 1 = n /\ n \in 0..n
      BY <2>3
    <3>2. ASSUME NEW i \in 1..(n + 1)
          PROVE  P <= Now(after[i].at) <=>
                   (CountOf(after, after[i].at, n) + 1) * PerSeconds
                     <= Capacity(k) + Rate[k.limiter] * (t - after[i].at)
      <4>1. after[i].at \in 0..t /\ after[i].at \in Nat
        <5>1. after[i].at \in 0..t
          <6>1. i \in 1..n \/ i = n + 1
            OBVIOUS
          <6> QED
            BY <6>1, <1>7, <1>13, <1>15, <1>16, Zenon
        <5> QED
          BY <5>1
      <4>2. CountOf(after, after[i].at, n) = CountOf(s, after[i].at, Len(s))
        BY <4>1, <3>1, <1>2, <1>21, Zenon
      <4>3. PerSeconds <= Allowed(s, k, after[i].at, t) <=>
              (CountOf(s, after[i].at, Len(s)) + 1) * PerSeconds
                <= Capacity(k) + Rate[k.limiter] * (t - after[i].at)
        BY <4>1, <1>1, AllowedFacts, Zenon
      <4> QED
        BY <4>2, <4>3, <1>2, Zenon DEF Now
    <3> QED
      BY <3>1, <3>2, <2>3, <1>15, <1>22, Zenon
  <2> QED
    BY <2>2, <2>3
<1>24. \A i \in DOMAIN after : after[i].at <= t
  <2> SUFFICES ASSUME NEW i \in 1..(n + 1) PROVE after[i].at <= t
    BY <1>6, Zenon
  <2>1. i \in 1..n \/ i = n + 1
    OBVIOUS
  <2>2. i \in 1..n => after[i].at \in 0..t
    BY <1>7, <1>16, Zenon
  <2>3. i = n + 1 => after[i].at = t
    BY <1>15, Zenon
  <2> QED
    BY <2>1, <2>2, <2>3
<1> QED
  BY <1>5, <1>6, <1>20, <1>23, <1>24, Zenon DEF KeyInv, after, c, d

-----------------------------------------------------------------------------
(* The invariant of every key, through every action.                        *)
LEMMA LimiterInvariant == LimiterSpec => []LimiterInv
<1>1. LimiterInit => LimiterInv
  <2> SUFFICES ASSUME LimiterInit PROVE LimiterInv
    OBVIOUS
  <2>1. /\ clock = 0 /\ bucket = [k \in Keys |-> Absent] /\ checks = [k \in Keys |-> <<>>]
        /\ clock \in 0..MaxClock /\ clock \in Nat
    BY LimiterAssumption DEF LimiterInit
  <2>2. \A k \in Keys : bucket[k] = Absent /\ checks[k] = <<>>
    BY <2>1
  <2>3. bucket = [k \in Keys |-> bucket[k]] /\ checks = [k \in Keys |-> checks[k]]
    BY <2>1
  <2>4. \A k \in Keys : KeyInv(bucket[k], checks[k], k, clock)
    BY <2>1, <2>2, ResetKeeps
  <2> QED
    BY <2>1, <2>3, <2>4, Zenon DEF LimiterInv
<1>2. LimiterInv /\ [LimiterNext]_limiterVars => LimiterInv'
  <2> SUFFICES ASSUME LimiterInv, [LimiterNext]_limiterVars PROVE LimiterInv'
    OBVIOUS
  <2>1. /\ clock \in 0..MaxClock /\ clock \in Nat
        /\ bucket = [k \in Keys |-> bucket[k]] /\ checks = [k \in Keys |-> checks[k]]
        /\ \A k \in Keys : KeyInv(bucket[k], checks[k], k, clock)
    BY DEF LimiterInv
  <2>2. DOMAIN bucket = Keys /\ DOMAIN checks = Keys
    BY <2>1
  <2>3. ASSUME NEW r \in Requests, Check(r) PROVE LimiterInv'
    <3>1. PICK k, ok, left :
            /\ k \in Keys /\ ok \in BOOLEAN
            /\ ok <=> LevelOf(bucket[k], k, clock) >= PerSeconds
            /\ left = IF ok THEN LevelOf(bucket[k], k, clock) - PerSeconds
                      ELSE LevelOf(bucket[k], k, clock)
            /\ bucket' = [bucket EXCEPT ![k] = [tokens |-> left, updated |-> clock]]
            /\ checks' = [checks EXCEPT ![k] = Append(@, [at |-> clock, ok |-> ok])]
            /\ clock' = clock
      <4> DEFINE k == Key(r)
                 ok == LevelOf(bucket[k], k, clock) >= PerSeconds
                 left == IF ok THEN LevelOf(bucket[k], k, clock) - PerSeconds
                         ELSE LevelOf(bucket[k], k, clock)
      <4>1. k \in Keys /\ ok \in BOOLEAN
        BY DEF Keys
      <4>2. Refilled(k) = LevelOf(bucket[k], k, clock)
        BY Zenon DEF Refilled, LevelOf
      <4>3. /\ bucket' = [bucket EXCEPT ![k] = [tokens |-> left, updated |-> clock]]
            /\ checks' = [checks EXCEPT ![k] = Append(@, [at |-> clock, ok |-> ok])]
            /\ clock' = clock
        BY <2>3, <4>2, Zenon DEF Check
      <4> HIDE DEF k
      <4> QED
        BY <4>1, <4>3, Zenon
    <3> DEFINE d == [tokens |-> left, updated |-> clock]
               after == Append(checks[k], [at |-> clock, ok |-> ok])
    <3>2. KeyInv(d, after, k, clock)
      BY <2>1, <3>1, CheckKeeps
    <3>3. bucket' = [bucket EXCEPT ![k] = d] /\ checks' = [checks EXCEPT ![k] = after]
      BY <3>1
    <3> HIDE DEF d, after
    <3>4. /\ bucket' = [j \in Keys |-> bucket'[j]] /\ checks' = [j \in Keys |-> checks'[j]]
          /\ bucket'[k] = d /\ checks'[k] = after
          /\ \A j \in Keys : j # k => bucket'[j] = bucket[j] /\ checks'[j] = checks[j]
      BY <2>2, <3>1, <3>3
    <3>5. \A j \in Keys : KeyInv(bucket'[j], checks'[j], j, clock')
      BY <2>1, <3>1, <3>2, <3>4, Zenon
    <3> QED
      BY <2>1, <3>1, <3>4, <3>5, Zenon DEF LimiterInv
  <2>4. ASSUME NEW k \in Keys, Reset(k) PROVE LimiterInv'
    <3>1. /\ bucket' = [bucket EXCEPT ![k] = Absent] /\ checks' = [checks EXCEPT ![k] = <<>>]
          /\ clock' = clock
      BY <2>4 DEF Reset
    <3>2. /\ bucket' = [j \in Keys |-> bucket'[j]] /\ checks' = [j \in Keys |-> checks'[j]]
          /\ bucket'[k] = Absent /\ checks'[k] = <<>>
          /\ \A j \in Keys : j # k => bucket'[j] = bucket[j] /\ checks'[j] = checks[j]
      BY <2>2, <3>1
    <3>3. KeyInv(Absent, <<>>, k, clock)
      BY <2>1, ResetKeeps
    <3>4. \A j \in Keys : KeyInv(bucket'[j], checks'[j], j, clock')
      BY <2>1, <3>1, <3>2, <3>3, Zenon
    <3> QED
      BY <2>1, <3>1, <3>2, <3>4, Zenon DEF LimiterInv
  <2>5. CASE Prune
    <3> DEFINE stale == {k \in Keys : bucket[k] # Absent /\ bucket[k].updated < clock - PruneAfter}
    <3>1. /\ bucket' = [k \in Keys |-> IF k \in stale THEN Absent ELSE bucket[k]]
          /\ clock' = clock /\ checks' = checks
      BY <2>5 DEF Prune
    <3>2. \A k \in stale : KeyInv(Absent, checks[k], k, clock)
      BY <2>1, PruneKeeps
    <3>3. \A k \in Keys : bucket'[k] = IF k \in stale THEN Absent ELSE bucket[k]
      BY <3>1
    <3>4. bucket' = [k \in Keys |-> bucket'[k]]
      BY <3>1
    <3> HIDE DEF stale
    <3>5. \A k \in Keys : KeyInv(bucket'[k], checks'[k], k, clock')
      BY <2>1, <3>1, <3>2, <3>3, Zenon
    <3> QED
      BY <2>1, <3>1, <3>4, <3>5, Zenon DEF LimiterInv
  <2>6. CASE LimiterTick
    <3>1. clock' = clock + 1 /\ clock < MaxClock /\ bucket' = bucket /\ checks' = checks
      BY <2>6 DEF LimiterTick
    <3>2. clock' \in 0..MaxClock
      BY <3>1, <2>1, LimiterAssumption
    <3>3. \A k \in Keys : KeyInv(bucket[k], checks[k], k, clock + 1)
      BY <2>1, TickKeeps
    <3> QED
      BY <2>1, <3>1, <3>2, <3>3, Zenon DEF LimiterInv
  <2>7. CASE UNCHANGED limiterVars
    <3>1. clock' = clock /\ bucket' = bucket /\ checks' = checks
      BY <2>7 DEF limiterVars
    <3> QED
      BY <2>1, <3>1, Zenon DEF LimiterInv
  <2> QED
    BY <2>3, <2>4, <2>5, <2>6, <2>7, Zenon DEF LimiterNext
<1> QED
  BY <1>1, <1>2, PTL DEF LimiterSpec

(* Every variable keeps its type: TokenBucketLimiter never holds more than  *)
(* its capacity.                                                            *)
THEOREM LimiterTypeCorrect == LimiterSpec => []LimiterTypeOK
<1>1. LimiterInv => LimiterTypeOK
  <2> SUFFICES ASSUME LimiterInv, NEW k \in Keys, bucket[k] # Absent
               PROVE  bucket[k].tokens \in 0..Capacity(k) /\ bucket[k].updated <= clock
    BY DEF LimiterTypeOK, LimiterInv
  <2>1. BucketTyped(bucket[k], k, clock)
    BY DEF LimiterInv, KeyInv
  <2>2. bucket[k].tokens \in Nat /\ bucket[k].tokens <= Capacity(k) /\ bucket[k].updated <= clock
    BY <2>1 DEF BucketTyped
  <2> QED
    BY <2>2, KeyFacts
<1> QED
  BY <1>1, LimiterInvariant, PTL

(* TokenBucketLimiter.check lets a request through just when no interval    *)
(* that ends with it would hold more than the capacity and what it refilled,*)
(* whatever is pruned or reset, for any rates.                              *)
THEOREM LimiterHoldsTheRate == LimiterSpec => []RateHoldsOverEveryInterval
<1>1. LimiterInv => RateHoldsOverEveryInterval
  <2> SUFFICES ASSUME LimiterInv, NEW k \in Keys, NEW n \in DOMAIN checks[k]
               PROVE  checks[k][n].ok <=>
                        \A a \in {checks[k][i].at : i \in 1..n} :
                          (Passed(k, a, n - 1) + 1) * PerSeconds
                            <= Capacity(k) + Rate[k.limiter] * (checks[k][n].at - a)
    BY Zenon DEF RateHoldsOverEveryInterval
  <2>1. RateHolds(checks[k], k)
    BY DEF LimiterInv, KeyInv
  <2>2. \A a : Passed(k, a, n - 1) = CountOf(checks[k], a, n - 1)
    BY Zenon DEF Passed, CountOf
  <2>3. checks[k][n].ok <=>
          \A i \in 1..n :
            (CountOf(checks[k], checks[k][i].at, n - 1) + 1) * PerSeconds
              <= Capacity(k) + Rate[k.limiter] * (checks[k][n].at - checks[k][i].at)
    BY <2>1, Zenon DEF RateHolds
  <2> QED
    BY <2>2, <2>3, Zenon
<1> QED
  BY <1>1, LimiterInvariant, PTL

-----------------------------------------------------------------------------
(* A connection outside a request is pinned to nobody, and inside one to    *)
(* the tenant the request came for.                                         *)
PinInv ==
  \A k \in Conns : tenantPin[k] = IF tx[k] = NoRow THEN NoTenant ELSE tx[k].who

(* What an open transaction changed, it changed for its own tenant.         *)
OwnInv ==
  \A k \in Conns : tx[k] # NoRow =>
    \A i \in DOMAIN tx[k].changes :
      tx[k].changes[i].who = tx[k].who /\ tx[k].changes[i].to.owner = tx[k].who

(* No two open transactions have written one row.                           *)
LockInv ==
  \A j, k \in Conns, id \in RowIds :
    /\ j # k /\ tx[j] # NoRow /\ tx[k] # NoRow
    /\ tx[j].wrote[id] # NoRow
    => tx[k].wrote[id] = NoRow

Versions(k) == [id \in RowIds |-> Version(k, id)]

(* An open transaction holds what it changed, its changes lead from the     *)
(* committed versions to its own, and its ledger lines record them.         *)
ChainInv ==
  \A k \in Conns : tx[k] # NoRow =>
    /\ \A i \in DOMAIN tx[k].changes : tx[k].wrote[tx[k].changes[i].id] # NoRow
    /\ Linked(tx[k].changes, table)
    /\ LeadsTo(tx[k].changes, table, Versions(k))

LinesInv ==
  \A k \in Conns : tx[k] # NoRow => Recorded(tx[k].changes, tx[k].entries)

TenantInv ==
  /\ TenantTypeOK /\ PinInv /\ OwnInv /\ LockInv /\ ChainInv /\ LinesInv
  /\ ChangesFormOneChain /\ RequestsChangeTheirOwn

-----------------------------------------------------------------------------
(* Changes that follow others: the chain goes on.                           *)
LEMMA Concatenated ==
  ASSUME NEW s \in Seq(RowChange), NEW t \in Seq(RowChange),
         NEW start, NEW mid, NEW end,
         Linked(s, start), LeadsTo(s, start, mid), Linked(t, mid), LeadsTo(t, mid, end)
  PROVE  Linked(s \o t, start) /\ LeadsTo(s \o t, start, end)
<1> DEFINE m == Len(s)
           n == Len(t)
           st == s \o t
<1>1. /\ m \in Nat /\ n \in Nat /\ DOMAIN s = 1..m /\ DOMAIN t = 1..n
      /\ Len(st) = m + n /\ DOMAIN st = 1..(m + n)
      /\ \A i \in 1..m : st[i] = s[i]
      /\ \A i \in 1..n : st[m + i] = t[i]
  OBVIOUS
<1>2. \A i \in (m + 1)..(m + n) : i - m \in 1..n /\ st[i] = t[i - m]
  <2> SUFFICES ASSUME NEW i \in (m + 1)..(m + n) PROVE i - m \in 1..n /\ st[i] = t[i - m]
    OBVIOUS
  <2>1. i - m \in 1..n /\ m + (i - m) = i
    BY <1>1
  <2> QED
    BY <2>1, <1>1
<1>3. \A i \in 1..m : s[i].id \in RowIds
  <2> SUFFICES ASSUME NEW i \in 1..m PROVE s[i].id \in RowIds
    OBVIOUS
  <2>1. s[i] \in RowChange
    OBVIOUS
  <2> QED
    BY <2>1 DEF RowChange
<1>4. \A i \in 1..n : t[i].id \in RowIds
  <2> SUFFICES ASSUME NEW i \in 1..n PROVE t[i].id \in RowIds
    OBVIOUS
  <2>1. t[i] \in RowChange
    OBVIOUS
  <2> QED
    BY <2>1 DEF RowChange
<1> HIDE DEF m, n, st
(* Rows that t leaves alone.                                                *)
<1>5. ASSUME NEW id \in RowIds, \A i \in 1..n : t[i].id # id
      PROVE  end[id] = mid[id]
  BY <1>5, <1>1 DEF LeadsTo
<1>6. ASSUME NEW id \in RowIds, NEW i \in 1..m, s[i].id = id,
             \A k \in (i + 1)..m : s[k].id # id
      PROVE  mid[id] = s[i].to
  BY <1>6, <1>1 DEF LeadsTo, m
<1>7. ASSUME NEW id \in RowIds, \A i \in 1..m : s[i].id # id
      PROVE  mid[id] = start[id]
  BY <1>7, <1>1 DEF LeadsTo
<1>8. Linked(st, start)
  <2> SUFFICES ASSUME NEW j \in 1..(m + n)
               PROVE  /\ (\A i \in 1..(j - 1) : st[i].id # st[j].id) => st[j].from = start[st[j].id]
                      /\ \A i \in 1..(m + n) : Follows(st, i, j) => st[j].from = st[i].to
    BY <1>1 DEF Linked
  <2>1. CASE j \in 1..m
    <3>1. ASSUME \A i \in 1..(j - 1) : st[i].id # st[j].id
          PROVE  st[j].from = start[st[j].id]
      <4>1. \A i \in 1..(j - 1) : s[i].id # s[j].id
        BY <3>1, <2>1, <1>1
      <4> QED
        BY <4>1, <2>1, <1>1 DEF Linked
    <3>2. ASSUME NEW i \in 1..(m + n), Follows(st, i, j)
          PROVE  st[j].from = st[i].to
      <4>1. i \in 1..m /\ Follows(s, i, j)
        BY <3>2, <2>1, <1>1 DEF Follows
      <4>2. s[j].from = s[i].to
        BY <4>1, <2>1, <1>1 DEF Linked
      <4> QED
        BY <4>1, <4>2, <2>1, <1>1
    <3> QED
      BY <3>1, <3>2
  <2>2. CASE j \in (m + 1)..(m + n)
    <3> DEFINE q == j - m
    <3>1. q \in 1..n /\ st[j] = t[q] /\ st[j].id \in RowIds /\ j = m + q
      BY <2>2, <1>1, <1>2, <1>4
    <3> HIDE DEF q
    <3>2. ASSUME \A i \in 1..(j - 1) : st[i].id # st[j].id
          PROVE  st[j].from = start[st[j].id]
      <4>1. \A i \in 1..m : s[i].id # st[j].id
        <5> SUFFICES ASSUME NEW i \in 1..m PROVE s[i].id # st[j].id
          OBVIOUS
        <5>1. i \in 1..(j - 1) /\ st[i] = s[i]
          BY <2>2, <1>1
        <5> QED
          BY <5>1, <3>2
      <4>2. \A i \in 1..(q - 1) : t[i].id # t[q].id
        <5> SUFFICES ASSUME NEW i \in 1..(q - 1) PROVE t[i].id # t[q].id
          OBVIOUS
        <5>1. m + i \in 1..(j - 1) /\ i \in 1..n /\ st[m + i] = t[i]
          BY <3>1, <1>1
        <5> QED
          BY <5>1, <3>1, <3>2
      <4>3. t[q].from = mid[t[q].id]
        BY <4>2, <3>1, <1>1 DEF Linked
      <4> QED
        BY <4>1, <4>3, <3>1, <1>7
    <3>3. ASSUME NEW i \in 1..(m + n), Follows(st, i, j)
          PROVE  st[j].from = st[i].to
      <4>1. CASE i \in 1..m
        <5>1. st[i] = s[i] /\ s[i].id = t[q].id
          BY <4>1, <3>1, <3>3, <1>1 DEF Follows
        <5>2. \A k \in (i + 1)..m : s[k].id # t[q].id
          <6> SUFFICES ASSUME NEW k \in (i + 1)..m PROVE s[k].id # t[q].id
            OBVIOUS
          <6>1. k \in (i + 1)..(j - 1) /\ k \in 1..m /\ st[k] = s[k]
            BY <4>1, <2>2, <1>1
          <6> QED
            BY <6>1, <5>1, <3>3 DEF Follows
        <5>3. \A k \in 1..(q - 1) : t[k].id # t[q].id
          <6> SUFFICES ASSUME NEW k \in 1..(q - 1) PROVE t[k].id # t[q].id
            OBVIOUS
          <6>1. m + k \in (i + 1)..(j - 1) /\ k \in 1..n /\ st[m + k] = t[k]
            BY <4>1, <3>1, <1>1
          <6> QED
            BY <6>1, <5>1, <3>3 DEF Follows
        <5>4. t[q].from = mid[t[q].id]
          BY <5>3, <3>1, <1>1 DEF Linked
        <5> QED
          BY <5>1, <5>2, <5>4, <4>1, <3>1, <1>6
      <4>2. CASE i \in (m + 1)..(m + n)
        <5> DEFINE p == i - m
        <5>1. p \in 1..n /\ st[i] = t[p] /\ i = m + p
          BY <4>2, <1>1, <1>2
        <5> HIDE DEF p
        <5>2. \A k \in (p + 1)..(q - 1) : t[k].id # t[p].id
          <6> SUFFICES ASSUME NEW k \in (p + 1)..(q - 1) PROVE t[k].id # t[p].id
            OBVIOUS
          <6>1. m + k \in (i + 1)..(j - 1) /\ k \in 1..n /\ st[m + k] = t[k]
            BY <5>1, <3>1, <1>1
          <6> QED
            BY <6>1, <5>1, <3>3 DEF Follows
        <5>3. p < q /\ t[p].id = t[q].id
          BY <5>1, <3>1, <3>3, <1>1 DEF Follows
        <5>4. Follows(t, p, q)
          BY <5>2, <5>3 DEF Follows
        <5>5. t[q].from = t[p].to
          BY <5>1, <5>4, <3>1, <1>1 DEF Linked
        <5> QED
          BY <5>1, <5>5, <3>1
      <4> QED
        BY <4>1, <4>2, <1>1
    <3> QED
      BY <3>2, <3>3
  <2> QED
    BY <2>1, <2>2, <1>1
<1>9. LeadsTo(st, start, end)
  <2> SUFFICES ASSUME NEW id \in RowIds
               PROVE  /\ (\A i \in DOMAIN st : st[i].id # id) => end[id] = start[id]
                      /\ \A i \in DOMAIN st :
                           st[i].id = id /\ (\A k \in (i + 1)..Len(st) : st[k].id # id)
                             => end[id] = st[i].to
    BY Zenon DEF LeadsTo
  <2>1. ASSUME \A i \in DOMAIN st : st[i].id # id
        PROVE  end[id] = start[id]
    <3>1. \A i \in 1..m : s[i].id # id
      BY <2>1, <1>1
    <3>2. \A i \in 1..n : t[i].id # id
      BY <2>1, <1>1
    <3> QED
      BY <3>1, <3>2, <1>5, <1>7
  <2>2. ASSUME NEW i \in DOMAIN st, st[i].id = id, \A k \in (i + 1)..Len(st) : st[k].id # id
        PROVE  end[id] = st[i].to
    <3>1. CASE i \in 1..m
      <4>1. \A k \in (i + 1)..m : s[k].id # id
        BY <3>1, <2>2, <1>1
      <4>2. \A k \in 1..n : t[k].id # id
        <5> SUFFICES ASSUME NEW k \in 1..n PROVE t[k].id # id
          OBVIOUS
        <5>1. m + k \in (i + 1)..Len(st) /\ st[m + k] = t[k]
          BY <3>1, <1>1
        <5> QED
          BY <5>1, <2>2
      <4>3. end[id] = mid[id]
        BY <4>2, <1>5
      <4>4. st[i] = s[i]
        BY <3>1, <1>1
      <4> QED
        BY <4>1, <4>3, <4>4, <3>1, <2>2, <1>6
    <3>2. CASE i \in (m + 1)..(m + n)
      <4> DEFINE p == i - m
      <4>1. p \in 1..n /\ st[i] = t[p] /\ i = m + p
        BY <3>2, <1>1, <1>2
      <4> HIDE DEF p
      <4>2. \A k \in (p + 1)..n : t[k].id # id
        <5> SUFFICES ASSUME NEW k \in (p + 1)..n PROVE t[k].id # id
          OBVIOUS
        <5>1. m + k \in (i + 1)..Len(st) /\ k \in 1..n /\ st[m + k] = t[k]
          BY <4>1, <1>1
        <5> QED
          BY <5>1, <2>2
      <4> QED
        BY <4>1, <4>2, <2>2, <1>1 DEF LeadsTo, n
    <3> QED
      BY <3>1, <3>2, <1>1
  <2> QED
    BY <2>1, <2>2
<1> QED
  BY <1>8, <1>9 DEF st

(* The ledger lines of some changes, then those of others.                  *)
LEMMA RecordedTogether ==
  ASSUME NEW s \in Seq(RowChange), NEW t \in Seq(RowChange), NEW old, NEW new,
         Recorded(s, old), Recorded(t, new)
  PROVE  Recorded(s \o t, old \union new)
<1> DEFINE m == Len(s)
           n == Len(t)
           st == s \o t
           Explains(line, change) == line.campaign = change.id /\ line.balance = Remaining(change.to)
<1>1. /\ m \in Nat /\ n \in Nat /\ DOMAIN s = 1..m /\ DOMAIN t = 1..n /\ DOMAIN st = 1..(m + n)
      /\ \A i \in 1..m : st[i] = s[i]
      /\ \A i \in 1..n : st[m + i] = t[i]
  OBVIOUS
<1>2. /\ \A i \in DOMAIN s : s[i].id \in Campaigns => \E line \in old : Explains(line, s[i])
      /\ \A line \in old : \E i \in DOMAIN s : Explains(line, s[i])
      /\ \A i \in DOMAIN t : t[i].id \in Campaigns => \E line \in new : Explains(line, t[i])
      /\ \A line \in new : \E i \in DOMAIN t : Explains(line, t[i])
  BY DEF Recorded
<1> HIDE DEF m, n, st, Explains
<1>3. ASSUME NEW i \in DOMAIN st, st[i].id \in Campaigns
      PROVE  \E line \in old \union new : Explains(line, st[i])
  <2>1. CASE i \in 1..m
    BY <2>1, <1>1, <1>2, <1>3
  <2>2. CASE i \in (m + 1)..(m + n)
    <3>1. i - m \in 1..n /\ st[i] = t[i - m]
      BY <2>2, <1>1
    <3> QED
      BY <3>1, <1>1, <1>2, <1>3
  <2> QED
    BY <2>1, <2>2, <1>1
<1>4. ASSUME NEW line \in old \union new PROVE \E i \in DOMAIN st : Explains(line, st[i])
  <2>1. CASE line \in old
    <3>1. PICK i \in 1..m : Explains(line, s[i])
      BY <2>1, <1>1, <1>2
    <3>2. i \in DOMAIN st /\ Explains(line, st[i])
      BY <3>1, <1>1
    <3> QED
      BY <3>2
  <2>2. CASE line \in new
    <3>1. PICK i \in 1..n : Explains(line, t[i])
      BY <2>2, <1>1, <1>2
    <3>2. m + i \in DOMAIN st /\ Explains(line, st[m + i])
      BY <3>1, <1>1
    <3> QED
      BY <3>2
  <2> QED
    BY <2>1, <2>2
<1> QED
  BY <1>3, <1>4 DEF Recorded, Explains, st

-----------------------------------------------------------------------------
LEMMA TenantInitInv == TenantInit => TenantInv
<1> SUFFICES ASSUME TenantInit PROVE TenantInv
  OBVIOUS
<1> USE DEF TenantInit
<1>1. TenantTypeOK
  BY TenantAssumption DEF TenantTypeOK, FirstVersion
<1>2. PinInv /\ OwnInv /\ LockInv /\ ChainInv /\ LinesInv
  BY DEF PinInv, OwnInv, LockInv, ChainInv, LinesInv
<1>3. ChangesFormOneChain /\ RequestsChangeTheirOwn
  BY DEF ChangesFormOneChain, RequestsChangeTheirOwn, Linked, LeadsTo, Recorded
<1> QED
  BY <1>1, <1>2, <1>3 DEF TenantInv

(* What a connection sees when its transaction and the rows are the same.   *)
LEMMA SameVersions ==
  ASSUME NEW k \in Conns, tx'[k].wrote = tx[k].wrote, table' = table
  PROVE  Versions(k)' = Versions(k)
BY DEF Versions, Version

(* The fields of an open transaction.                                       *)
LEMMA OpenTransaction ==
  ASSUME TenantTypeOK, NEW k \in Conns, tx[k] # NoRow
  PROVE  /\ tx[k] \in Transaction
         /\ tx[k].who \in Tenants \union {NoTenant}
         /\ tx[k].wrote \in [RowIds -> TableRow \union {NoRow}]
         /\ tx[k].changes \in Seq(RowChange) /\ tx[k].entries \subseteq LedgerLine
         /\ \A id \in RowIds : Version(k, id) \in TableRow \union {NoRow}
<1>1. tx[k] \in Transaction /\ table \in [RowIds -> TableRow \union {NoRow}]
  BY DEF TenantTypeOK
<1>2. /\ tx[k].who \in Tenants \union {NoTenant}
      /\ tx[k].wrote \in [RowIds -> TableRow \union {NoRow}]
      /\ tx[k].changes \in Seq(RowChange) /\ tx[k].entries \subseteq LedgerLine
  BY <1>1 DEF Transaction
<1>3. \A id \in RowIds : Version(k, id) \in TableRow \union {NoRow}
  BY <1>1, <1>2 DEF Version
<1> QED
  BY <1>1, <1>2, <1>3

(* An error inside a transaction.                                           *)
LEMMA AbortInv ==
  ASSUME TenantInv, NEW k \in Conns, tx[k] # NoRow, tx' = [tx EXCEPT ![k].aborted = TRUE],
         UNCHANGED <<table, ledger, tenantPin, history>>
  PROVE  TenantInv'
<1> DEFINE after == [tx[k] EXCEPT !.aborted = TRUE]
<1>1. tx[k] \in Transaction
  BY OpenTransaction DEF TenantInv
<1>2. /\ after \in Transaction /\ after.who = tx[k].who /\ after.wrote = tx[k].wrote
      /\ after.changes = tx[k].changes /\ after.entries = tx[k].entries
  BY <1>1 DEF Transaction
<1>3. tx' = [tx EXCEPT ![k] = after]
  OBVIOUS
<1> HIDE DEF after
<1>4. TenantTypeOK'
  BY <1>2, <1>3 DEF TenantInv, TenantTypeOK
<1>5. after # NoRow
  BY <1>2, TenantAssumption
<1>6. \A j \in Conns : /\ tx'[j] # NoRow <=> tx[j] # NoRow
                       /\ tx'[j].who = tx[j].who /\ tx'[j].wrote = tx[j].wrote
                       /\ tx'[j].changes = tx[j].changes /\ tx'[j].entries = tx[j].entries
  BY <1>2, <1>3, <1>5 DEF TenantInv, TenantTypeOK
<1>7. \A j \in Conns : Versions(j)' = Versions(j)
  BY <1>6, SameVersions
<1>8. PinInv' /\ OwnInv' /\ LockInv'
  BY <1>6 DEF TenantInv, PinInv, OwnInv, LockInv
<1>9. ChainInv' /\ LinesInv'
  BY <1>6, <1>7 DEF TenantInv, ChainInv, LinesInv
<1>10. ChangesFormOneChain' /\ RequestsChangeTheirOwn'
  BY DEF TenantInv, ChangesFormOneChain, RequestsChangeTheirOwn
<1> QED
  BY <1>4, <1>8, <1>9, <1>10 DEF TenantInv

-----------------------------------------------------------------------------
LEMMA Appended ==
  ASSUME NEW S, NEW s \in Seq(S), NEW e \in S
  PROVE  /\ Append(s, e) \in Seq(S) /\ <<e>> \in Seq(S)
         /\ Append(s, e) = s \o <<e>>
         /\ DOMAIN Append(s, e) = 1..(Len(s) + 1) /\ DOMAIN s = 1..Len(s) /\ Len(s) \in Nat
         /\ Append(s, e)[Len(s) + 1] = e
         /\ \A i \in 1..Len(s) : Append(s, e)[i] = s[i]
OBVIOUS

(* A chain of one change. *)
LEMMA OneChange ==
  ASSUME NEW c \in RowChange, NEW mid \in [RowIds -> TableRow \union {NoRow}], c.from = mid[c.id]
  PROVE  /\ Linked(<<c>>, mid)
         /\ LeadsTo(<<c>>, mid, [mid EXCEPT ![c.id] = c.to])
<1> DEFINE one == <<c>>
           end == [mid EXCEPT ![c.id] = c.to]
<1>1. DOMAIN one = {1} /\ one[1] = c /\ Len(one) = 1 /\ c.id \in RowIds
  BY DEF RowChange
<1>2. \A id \in RowIds : end[id] = IF id = c.id THEN c.to ELSE mid[id]
  OBVIOUS
<1> HIDE DEF one, end
<1>3. Linked(one, mid)
  BY <1>1 DEF Linked, Follows
<1>4. LeadsTo(one, mid, end)
  <2> SUFFICES ASSUME NEW id \in RowIds
               PROVE  /\ (\A i \in DOMAIN one : one[i].id # id) => end[id] = mid[id]
                      /\ \A i \in DOMAIN one :
                           one[i].id = id /\ (\A n \in (i + 1)..Len(one) : one[n].id # id)
                             => end[id] = one[i].to
    BY Zenon DEF LeadsTo
  <2> QED
    BY <1>1, <1>2
<1> QED
  BY <1>3, <1>4 DEF one, end

(* One statement: the transaction works on the newest version there is, and *)
(* nobody else writes the row before it ends.                               *)
LEMMA ExecuteInv ==
  ASSUME TenantInv, NEW k \in Conns, NEW id \in RowIds, NEW new \in TableRow, NEW lines \in SUBSET LedgerLine,
         Running(k), Lockable(k, id), new.owner = tenantPin[k],
         id \in Campaigns =>
           /\ \E line \in lines : line.campaign = id /\ line.balance = Remaining(new)
           /\ \A line \in lines : line.campaign = id /\ line.balance = Remaining(new),
         id \notin Campaigns => lines = {},
         Execute(k, id, new, lines)
  PROVE  TenantInv'
<1> DEFINE old == Version(k, id)
           change == [id |-> id, who |-> tx[k].who, from |-> old, to |-> new]
           after == Written(tx[k], id, old, new, lines)
<1>1. /\ tx[k] # NoRow /\ tx[k] \in Transaction
      /\ tx[k].who \in Tenants \union {NoTenant}
      /\ tx[k].wrote \in [RowIds -> TableRow \union {NoRow}]
      /\ tx[k].changes \in Seq(RowChange) /\ tx[k].entries \subseteq LedgerLine
      /\ old \in TableRow \union {NoRow}
      /\ tenantPin[k] = tx[k].who
  BY OpenTransaction DEF TenantInv, Running, PinInv
<1>2. UNCHANGED <<table, ledger, tenantPin, history>>
  BY DEF Execute
<1>3. CASE ~KeepsChecks(new)
  <2>1. tx' = [tx EXCEPT ![k].aborted = TRUE]
    BY <1>3 DEF Execute
  <2> QED
    BY <2>1, <1>1, <1>2, AbortInv
<1>4. CASE KeepsChecks(new)
  <2>1. tx' = [tx EXCEPT ![k] = after]
    BY <1>4 DEF Execute
  <2>2. /\ change \in RowChange /\ change.id = id /\ change.who = tx[k].who
        /\ change.from = old /\ change.to = new
    BY <1>1 DEF RowChange
  <2> HIDE DEF change
  <2> DEFINE wrote == [tx[k].wrote EXCEPT ![id] = new]
             changed == Append(tx[k].changes, change)
             entries == tx[k].entries \union lines
  <2>3. /\ wrote \in [RowIds -> TableRow \union {NoRow}] /\ changed \in Seq(RowChange)
        /\ entries \subseteq LedgerLine
    BY <1>1, <2>2, Appended
  <2>4. /\ after = [tx[k] EXCEPT !.wrote = wrote, !.changes = changed, !.entries = entries]
    BY <1>1 DEF Transaction, Written, change
  <2> HIDE DEF after, wrote, changed, entries
  <2>5. /\ after \in Transaction /\ after.who = tx[k].who /\ after.wrote = wrote
        /\ after.changes = changed /\ after.entries = entries
    BY <1>1, <2>3, <2>4 DEF Transaction
  <2>6. /\ tx'[k] = after /\ tx'[k] # NoRow
        /\ \A j \in Conns \ {k} : tx'[j] = tx[j]
    BY <2>1, <2>5, TenantAssumption DEF TenantInv, TenantTypeOK
  <2>7. TenantTypeOK'
    BY <2>1, <2>5, <1>2 DEF TenantInv, TenantTypeOK
  <2>8. PinInv'
    BY <2>5, <2>6, <1>1, <1>2 DEF TenantInv, PinInv
  <2>17. \A i \in DOMAIN changed :
           changed[i] = change \/ (i \in DOMAIN tx[k].changes /\ changed[i] = tx[k].changes[i])
    <3> DEFINE was == tx[k].changes
    <3>1. /\ DOMAIN changed = 1..(Len(was) + 1) /\ DOMAIN was = 1..Len(was) /\ Len(was) \in Nat
          /\ changed[Len(was) + 1] = change /\ \A i \in 1..Len(was) : changed[i] = was[i]
      BY <1>1, <2>2, Appended DEF changed
    <3> HIDE DEF was
    <3> SUFFICES ASSUME NEW i \in DOMAIN changed
                 PROVE  changed[i] = change \/ (i \in DOMAIN was /\ changed[i] = was[i])
      BY DEF was
    <3>2. i = Len(was) + 1 \/ i \in 1..Len(was)
      BY <3>1
    <3> QED
      BY <3>1, <3>2
  <2>9. OwnInv'
    <3>2. \A i \in DOMAIN changed : changed[i].who = tx[k].who /\ changed[i].to.owner = tx[k].who
      BY <2>17, <2>2, <1>1 DEF TenantInv, OwnInv
    <3> QED
      BY <3>2, <2>5, <2>6 DEF TenantInv, OwnInv
  <2>10. /\ \A i \in RowIds : wrote[i] = IF i = id THEN new ELSE tx[k].wrote[i]
         /\ new # NoRow
    BY <1>1, TenantAssumption DEF wrote
  <2>11. LockInv'
    <3>1. \A j \in Conns \ {k} : tx[j] # NoRow => tx[j].wrote[id] = NoRow
      BY DEF Lockable
    <3> SUFFICES ASSUME NEW i \in Conns, NEW j \in Conns, NEW row \in RowIds,
                        i # j, tx'[i] # NoRow, tx'[j] # NoRow, tx'[i].wrote[row] # NoRow
                 PROVE  tx'[j].wrote[row] = NoRow
      BY DEF LockInv
    <3>2. CASE i # k /\ j # k
      BY <3>2, <2>6 DEF TenantInv, LockInv
    <3>3. CASE i = k
      BY <3>1, <3>3, <2>5, <2>6, <2>10, <1>1 DEF TenantInv, LockInv
    <3>4. CASE j = k
      BY <3>1, <3>4, <2>5, <2>6, <2>10, <1>1 DEF TenantInv, LockInv
    <3> QED
      BY <3>2, <3>3, <3>4
  <2>12. \A j \in Conns \ {k} : Versions(j)' = Versions(j)
    BY <2>6, <1>2, SameVersions
  <2>13. Versions(k)' = [Versions(k) EXCEPT ![id] = new]
    BY <2>5, <2>6, <2>10, <1>2 DEF Versions, Version
  <2>14. ChainInv'
    <3>1. \A i \in DOMAIN changed : wrote[changed[i].id] # NoRow
      <4> SUFFICES ASSUME NEW i \in DOMAIN changed PROVE wrote[changed[i].id] # NoRow
        OBVIOUS
      <4>1. CASE changed[i] = change
        BY <4>1, <2>2, <2>10
      <4>2. CASE i \in DOMAIN tx[k].changes /\ changed[i] = tx[k].changes[i]
        <5>1. tx[k].changes[i] \in RowChange
          BY <4>2, <1>1
        <5>2. tx[k].changes[i].id \in RowIds
          BY <5>1 DEF RowChange
        <5> QED
          BY <5>2, <4>2, <2>10, <1>1 DEF TenantInv, ChainInv
      <4> QED
        BY <4>1, <4>2, <2>17
    <3>2. /\ Linked(tx[k].changes, table) /\ LeadsTo(tx[k].changes, table, Versions(k))
      BY <1>1 DEF TenantInv, ChainInv
    <3>3. /\ <<change>> \in Seq(RowChange) /\ changed = tx[k].changes \o <<change>>
      <4> DEFINE made == tx[k].changes
      <4>1. made \in Seq(RowChange) /\ change \in RowChange /\ changed = Append(made, change)
        BY <1>1, <2>2 DEF changed
      <4> HIDE DEF made
      <4>2. <<change>> \in Seq(RowChange) /\ Append(made, change) = made \o <<change>>
        BY <4>1, Appended
      <4> QED
        BY <4>1, <4>2 DEF made
    <3>4. Versions(k) \in [RowIds -> TableRow \union {NoRow}] /\ Versions(k)[id] = old
      BY <1>1, OpenTransaction DEF TenantInv, Versions
    <3>5. Linked(<<change>>, Versions(k)) /\ LeadsTo(<<change>>, Versions(k), Versions(k)')
      <4> DEFINE mid == Versions(k)
      <4>1. mid \in [RowIds -> TableRow \union {NoRow}] /\ change.from = mid[change.id]
        BY <3>4, <2>2
      <4>2. Versions(k)' = [mid EXCEPT ![change.id] = change.to]
        BY <2>2, <2>13
      <4> HIDE DEF mid
      <4>3. Linked(<<change>>, mid) /\ LeadsTo(<<change>>, mid, [mid EXCEPT ![change.id] = change.to])
        BY <4>1, <2>2, OneChange
      <4> QED
        BY <4>2, <4>3 DEF mid
    <3>6. Linked(changed, table) /\ LeadsTo(changed, table, Versions(k)')
      BY <3>2, <3>3, <3>5, <1>1, Concatenated
    <3>7. tx'[k].changes = changed /\ tx'[k].wrote = wrote
          /\ \A j \in Conns \ {k} : tx'[j] = tx[j]
      BY <2>5, <2>6, <1>2
    <3> HIDE DEF changed, wrote
    <3> SUFFICES ASSUME NEW j \in Conns, tx'[j] # NoRow
                 PROVE  /\ \A i \in DOMAIN tx'[j].changes :
                              tx'[j].wrote[tx'[j].changes[i].id] # NoRow
                        /\ Linked(tx'[j].changes, table)
                        /\ LeadsTo(tx'[j].changes, table, Versions(j)')
      BY <1>2 DEF ChainInv
    <3>8. CASE j = k
      BY <3>1, <3>6, <3>7, <3>8
    <3>9. CASE j # k
      BY <3>7, <3>9, <2>12, <1>1 DEF TenantInv, ChainInv
    <3> QED
      BY <3>8, <3>9
  <2>15. LinesInv'
    <3>1. <<change>> \in Seq(RowChange) /\ changed = tx[k].changes \o <<change>>
      <4> DEFINE made == tx[k].changes
      <4>1. made \in Seq(RowChange) /\ change \in RowChange /\ changed = Append(made, change)
        BY <1>1, <2>2 DEF changed
      <4> HIDE DEF made
      <4>2. <<change>> \in Seq(RowChange) /\ Append(made, change) = made \o <<change>>
        BY <4>1, Appended
      <4> QED
        BY <4>1, <4>2 DEF made
    <3>2. Recorded(<<change>>, lines)
      <4> DEFINE one == <<change>>
      <4>1. DOMAIN one = {1} /\ one[1] = change
        OBVIOUS
      <4> HIDE DEF one
      <4>2. Recorded(one, lines)
        BY <4>1, <2>2 DEF Recorded
      <4> QED
        BY <4>2 DEF one
    <3>3. Recorded(tx[k].changes, tx[k].entries)
      BY <1>1 DEF TenantInv, LinesInv
    <3>4. Recorded(changed, entries)
      BY <3>1, <3>2, <3>3, <1>1, RecordedTogether DEF entries
    <3> QED
      BY <3>4, <2>5, <2>6 DEF TenantInv, LinesInv
  <2>16. ChangesFormOneChain' /\ RequestsChangeTheirOwn'
    BY <1>2 DEF TenantInv, ChangesFormOneChain, RequestsChangeTheirOwn
  <2> QED
    BY <2>7, <2>8, <2>9, <2>11, <2>14, <2>15, <2>16 DEF TenantInv
<1> QED
  BY <1>3, <1>4

-----------------------------------------------------------------------------
(* What a row becomes, and the line written after it.                       *)
LEMMA LineOf ==
  ASSUME NEW type \in {"reserve", "release", "spend"}, NEW c \in Campaigns, NEW n \in Int, NEW new \in TableRow
  PROVE  LET lines == Entry(type, c, n, new)
         IN /\ lines \subseteq LedgerLine
            /\ \E line \in lines : line.campaign = c /\ line.balance = Remaining(new)
            /\ \A line \in lines : line.campaign = c /\ line.balance = Remaining(new)
<1>1. Remaining(new) \in Int
  BY DEF Remaining, TableRow
<1> QED
  BY <1>1 DEF Entry, LedgerLine

LEMMA CampaignsApart ==
  /\ Campaigns \subseteq RowIds
  /\ Products \union Orders \union PaymentIds \subseteq RowIds \ Campaigns
BY TenantAssumption DEF RowIds

(* The row an UPDATE sees is of the tenant of its session.                  *)
LEMMA SeenRow ==
  ASSUME TenantInv, NEW k \in Conns, NEW id \in RowIds, Updates(k, id)
  PROVE  /\ Version(k, id) \in TableRow /\ Version(k, id).owner = tenantPin[k]
         /\ Running(k) /\ Lockable(k, id)
<1>1. tx[k] # NoRow
  BY DEF Updates, Running
<1>2. Version(k, id) \in TableRow \union {NoRow}
  BY <1>1, OpenTransaction DEF TenantInv
<1> QED
  BY <1>2 DEF Updates, Seen

LEMMA CampaignInv ==
  ASSUME TenantInv, NEW k \in Conns, NEW c \in Campaigns, NEW n \in Sums,
         ReserveBudget(k, c, n) \/ ReleaseBudget(k, c, n) \/ CommitSpend(k, c, n)
  PROVE  TenantInv'
<1> DEFINE row == Version(k, c)
<1>1. c \in RowIds /\ n \in Int /\ Updates(k, c)
  BY TenantAssumption, CampaignsApart DEF ReserveBudget, ReleaseBudget, CommitSpend
<1>2. row \in TableRow /\ row.owner = tenantPin[k] /\ Running(k) /\ Lockable(k, c)
  BY <1>1, SeenRow
<1>3. ASSUME NEW new \in TableRow, new.owner = tenantPin[k], NEW type \in {"reserve", "release", "spend"},
             Execute(k, c, new, Entry(type, c, n, new))
      PROVE  TenantInv'
  BY <1>1, <1>2, <1>3, LineOf, ExecuteInv
<1> HIDE DEF row
<1>4. CASE ReserveBudget(k, c, n)
  <2> DEFINE new == [row EXCEPT !.reserved = @ + n]
  <2>1. Execute(k, c, new, Entry("reserve", c, n, new))
    BY <1>4 DEF ReserveBudget, row
  <2>2. new \in TableRow /\ new.owner = tenantPin[k]
    BY <1>1, <1>2 DEF TableRow
  <2> HIDE DEF new
  <2> QED
    BY <2>1, <2>2, <1>3
<1>5. CASE ReleaseBudget(k, c, n)
  <2> DEFINE new == Given(row, n)
  <2>1. Execute(k, c, new, Entry("release", c, n, new))
    BY <1>5 DEF ReleaseBudget, row
  <2>2. new \in TableRow /\ new.owner = tenantPin[k]
    BY <1>1, <1>2 DEF TableRow, Given
  <2> HIDE DEF new
  <2> QED
    BY <2>1, <2>2, <1>3
<1>6. CASE CommitSpend(k, c, n)
  <2> DEFINE given == Given(row, n)
             new == [given EXCEPT !.spent = @ + n]
  <2>1. Execute(k, c, new, Entry("spend", c, n, new))
    BY <1>6 DEF CommitSpend, row
  <2>2. new \in TableRow /\ new.owner = tenantPin[k]
    <3>1. given \in TableRow /\ given.owner = tenantPin[k]
      BY <1>1, <1>2 DEF TableRow, Given
    <3> HIDE DEF given
    <3> QED
      BY <3>1, <1>1 DEF TableRow
  <2> HIDE DEF new
  <2> QED
    BY <2>1, <2>2, <1>3
<1> QED
  BY <1>4, <1>5, <1>6

LEMMA RowInv ==
  ASSUME TenantInv, NEW k \in Conns, NEW id \in Products \union Orders \union PaymentIds,
         \/ \E n \in Sums : ReserveStock(k, id, n) \/ ReleaseStock(k, id, n)
         \/ \E ref \in Refs : MarkPaid(k, id, ref) \/ MarkCaptured(k, id, ref)
  PROVE  TenantInv'
<1> DEFINE row == Version(k, id)
<1>1. id \in RowIds /\ id \notin Campaigns /\ Updates(k, id)
  BY CampaignsApart DEF ReserveStock, ReleaseStock, MarkPaid, MarkCaptured
<1>2. row \in TableRow /\ row.owner = tenantPin[k] /\ Running(k) /\ Lockable(k, id)
  BY <1>1, SeenRow
<1>3. ASSUME NEW new \in TableRow, new.owner = tenantPin[k], Execute(k, id, new, {})
      PROVE  TenantInv'
  <2>1. {} \subseteq LedgerLine
    OBVIOUS
  <2> QED
    BY <2>1, <1>1, <1>2, <1>3, ExecuteInv
<1> HIDE DEF row
<1>4. ASSUME NEW n \in Sums, ReserveStock(k, id, n) PROVE TenantInv'
  <2> DEFINE new == [row EXCEPT !.reserved = @ + n]
  <2>1. Execute(k, id, new, {})
    BY <1>4 DEF ReserveStock, row
  <2>2. new \in TableRow /\ new.owner = tenantPin[k]
    BY TenantAssumption, <1>2 DEF TableRow
  <2> HIDE DEF new
  <2> QED
    BY <2>1, <2>2, <1>3
<1>5. ASSUME NEW n \in Sums, ReleaseStock(k, id, n) PROVE TenantInv'
  <2> DEFINE new == Given(row, n)
  <2>1. Execute(k, id, new, {})
    BY <1>5 DEF ReleaseStock, row
  <2>2. new \in TableRow /\ new.owner = tenantPin[k]
    BY TenantAssumption, <1>2 DEF TableRow, Given
  <2> HIDE DEF new
  <2> QED
    BY <2>1, <2>2, <1>3
<1>6. ASSUME NEW ref \in Refs, MarkPaid(k, id, ref) \/ MarkCaptured(k, id, ref) PROVE TenantInv'
  <2> DEFINE new == [row EXCEPT !.settled = ref]
  <2>1. Execute(k, id, new, {})
    BY <1>6 DEF MarkPaid, MarkCaptured, row
  <2>2. new \in TableRow /\ new.owner = tenantPin[k]
    BY <1>2 DEF TableRow
  <2> HIDE DEF new
  <2> QED
    BY <2>1, <2>2, <1>3
<1> QED
  BY <1>4, <1>5, <1>6

LEMMA InsertInv ==
  ASSUME TenantInv, NEW k \in Conns, NEW id \in Orders \union PaymentIds, Inserts(k, id)
  PROVE  TenantInv'
<1>1. id \in RowIds /\ id \notin Campaigns /\ Running(k) /\ Lockable(k, id) /\ tx[k] # NoRow
  BY CampaignsApart DEF Inserts, Running
<1>2. CASE Version(k, id) = NoRow
  <2> DEFINE new == NewRow(tenantPin[k])
  <2>1. tenantPin[k] \in Tenants
    BY DEF TenantInv, TenantTypeOK, Inserts
  <2>2. new \in TableRow /\ new.owner = tenantPin[k]
    BY <2>1 DEF NewRow, TableRow
  <2>3. Execute(k, id, new, {})
    BY <1>2 DEF Inserts
  <2>4. {} \subseteq LedgerLine
    OBVIOUS
  <2> HIDE DEF new
  <2> QED
    BY <2>2, <2>3, <2>4, <1>1, ExecuteInv
<1>3. CASE Version(k, id) # NoRow
  <2>1. tx' = [tx EXCEPT ![k].aborted = TRUE] /\ UNCHANGED <<table, ledger, tenantPin, history>>
    BY <1>3 DEF Inserts
  <2> QED
    BY <2>1, <1>1, AbortInv
<1> QED
  BY <1>2, <1>3

-----------------------------------------------------------------------------
LEMMA BeginInv ==
  ASSUME TenantInv, NEW k \in Conns, NEW who \in Tenants \union {NoTenant}, Begin(k, who)
  PROVE  TenantInv'
<1> DEFINE new == [who |-> who, wrote |-> [id \in RowIds |-> NoRow], changes |-> <<>>,
                   entries |-> {}, aborted |-> FALSE]
<1>1. /\ tx[k] = NoRow /\ tx' = [tx EXCEPT ![k] = new]
      /\ tenantPin' = [tenantPin EXCEPT ![k] = IF who = NoTenant THEN @ ELSE who]
      /\ UNCHANGED <<table, ledger, history>>
  BY DEF Begin
<1>2. /\ new \in Transaction /\ new.who = who /\ new.wrote = [id \in RowIds |-> NoRow]
      /\ new.changes = <<>> /\ new.entries = {}
  BY DEF Transaction
<1> HIDE DEF new
<1>3. /\ tx'[k] = new /\ new # NoRow /\ \A j \in Conns \ {k} : tx'[j] = tx[j]
  BY <1>1, <1>2, TenantAssumption DEF TenantInv, TenantTypeOK
<1>4. TenantTypeOK'
  BY <1>1, <1>2 DEF TenantInv, TenantTypeOK
<1>5. PinInv'
  BY <1>1, <1>2, <1>3 DEF TenantInv, TenantTypeOK, PinInv
<1>6. OwnInv' /\ LockInv'
  BY <1>2, <1>3 DEF TenantInv, OwnInv, LockInv
<1>7. \A j \in Conns \ {k} : Versions(j)' = Versions(j)
  BY <1>1, <1>3, SameVersions
<1>8. \A id \in RowIds : Versions(k)'[id] = table[id]
  BY <1>1, <1>2, <1>3 DEF Versions, Version
<1>9. ChainInv'
  <2>1. Linked(<<>>, table) /\ LeadsTo(<<>>, table, Versions(k)')
    BY <1>8 DEF Linked, LeadsTo
  <2> QED
    BY <2>1, <1>1, <1>2, <1>3, <1>7 DEF TenantInv, ChainInv
<1>10. LinesInv'
  <2>1. Recorded(<<>>, {})
    BY DEF Recorded
  <2> QED
    BY <2>1, <1>2, <1>3 DEF TenantInv, LinesInv
<1>11. ChangesFormOneChain' /\ RequestsChangeTheirOwn'
  BY <1>1 DEF TenantInv, ChangesFormOneChain, RequestsChangeTheirOwn
<1> QED
  BY <1>4, <1>5, <1>6, <1>9, <1>10, <1>11 DEF TenantInv

(* The end of a transaction frees its connection.                           *)
LEMMA EndedInv ==
  ASSUME TenantInv, NEW k \in Conns, tx' = [tx EXCEPT ![k] = NoRow],
         tenantPin' = [tenantPin EXCEPT ![k] = PinAfterEnd(@)]
  PROVE  /\ tx' \in [Conns -> Transaction \union {NoRow}]
         /\ tenantPin' \in [Conns -> Tenants \union {NoTenant}]
         /\ PinInv' /\ OwnInv' /\ LockInv'
         /\ tx'[k] = NoRow /\ \A j \in Conns \ {k} : tx'[j] = tx[j]
<1>1. /\ tx' \in [Conns -> Transaction \union {NoRow}]
      /\ tenantPin' \in [Conns -> Tenants \union {NoTenant}]
      /\ tx'[k] = NoRow /\ \A j \in Conns \ {k} : tx'[j] = tx[j]
      /\ tenantPin'[k] = NoTenant /\ \A j \in Conns \ {k} : tenantPin'[j] = tenantPin[j]
  BY DEF TenantInv, TenantTypeOK, PinAfterEnd
<1> QED
  BY <1>1 DEF TenantInv, PinInv, OwnInv, LockInv

LEMMA RollbackInv ==
  ASSUME TenantInv, NEW k \in Conns, Rollback(k)
  PROVE  TenantInv'
<1>1. /\ tx' = [tx EXCEPT ![k] = NoRow]
      /\ tenantPin' = [tenantPin EXCEPT ![k] = PinAfterEnd(@)]
      /\ UNCHANGED <<table, ledger, history>>
  BY DEF Rollback
<1>2. /\ tx' \in [Conns -> Transaction \union {NoRow}]
      /\ tenantPin' \in [Conns -> Tenants \union {NoTenant}]
      /\ PinInv' /\ OwnInv' /\ LockInv'
      /\ tx'[k] = NoRow /\ \A j \in Conns \ {k} : tx'[j] = tx[j]
  BY <1>1, EndedInv
<1>3. TenantTypeOK'
  BY <1>1, <1>2 DEF TenantInv, TenantTypeOK
<1>4. \A j \in Conns \ {k} : Versions(j)' = Versions(j)
  BY <1>1, <1>2, SameVersions
<1>5. ChainInv' /\ LinesInv'
  BY <1>1, <1>2, <1>4 DEF TenantInv, ChainInv, LinesInv
<1>6. ChangesFormOneChain' /\ RequestsChangeTheirOwn'
  BY <1>1 DEF TenantInv, ChangesFormOneChain, RequestsChangeTheirOwn
<1> QED
  BY <1>2, <1>3, <1>5, <1>6 DEF TenantInv

(* A chain from one version reads the same from another that agrees on the  *)
(* rows it changes.                                                         *)
LEMMA SameStart ==
  ASSUME NEW s \in Seq(RowChange), NEW start, NEW other, NEW end, NEW otherEnd,
         Linked(s, start), LeadsTo(s, start, end),
         \A i \in DOMAIN s : other[s[i].id] = start[s[i].id] /\ otherEnd[s[i].id] = end[s[i].id],
         \A id \in RowIds : (\A i \in DOMAIN s : s[i].id # id) => otherEnd[id] = other[id]
  PROVE  Linked(s, other) /\ LeadsTo(s, other, otherEnd)
<1>1. Linked(s, other)
  BY DEF Linked
<1>2. LeadsTo(s, other, otherEnd)
  BY DEF LeadsTo
<1> QED
  BY <1>1, <1>2

LEMMA CommitInv ==
  ASSUME TenantInv, NEW k \in Conns, Commit(k)
  PROVE  TenantInv'
<1>1. /\ tx[k] # NoRow /\ Len(history) + Len(tx[k].changes) <= MaxWrites
      /\ table' = Versions(k)
      /\ ledger' = ledger \union tx[k].entries /\ history' = history \o tx[k].changes
      /\ tx' = [tx EXCEPT ![k] = NoRow]
      /\ tenantPin' = [tenantPin EXCEPT ![k] = PinAfterEnd(@)]
  BY DEF Commit, Versions
<1>2. /\ tx' \in [Conns -> Transaction \union {NoRow}]
      /\ tenantPin' \in [Conns -> Tenants \union {NoTenant}]
      /\ PinInv' /\ OwnInv' /\ LockInv'
      /\ tx'[k] = NoRow /\ \A j \in Conns \ {k} : tx'[j] = tx[j]
  BY <1>1, EndedInv
<1>3. /\ tx[k].changes \in Seq(RowChange) /\ tx[k].entries \subseteq LedgerLine
      /\ history \in Seq(RowChange) /\ ledger \subseteq LedgerLine
      /\ \A id \in RowIds : Version(k, id) \in TableRow \union {NoRow}
  BY <1>1, OpenTransaction DEF TenantInv, TenantTypeOK
<1>4. TenantTypeOK'
  <2>1. table' \in [RowIds -> TableRow \union {NoRow}]
    BY <1>1, <1>3 DEF Versions
  <2>2. /\ history' \in Seq(RowChange) /\ Len(history') = Len(history) + Len(tx[k].changes)
        /\ ledger' \subseteq LedgerLine
    BY <1>1, <1>3, ConcatProperties
  <2> QED
    BY <2>1, <2>2, <1>1, <1>2 DEF TenantTypeOK
<1>5. \A id \in RowIds : table'[id] = IF tx[k].wrote[id] # NoRow THEN tx[k].wrote[id] ELSE table[id]
  BY <1>1 DEF Versions, Version
(* The other transactions do not see rows of their own change.              *)
<1>6. ASSUME NEW j \in Conns \ {k}, tx[j] # NoRow
      PROVE  \A id \in RowIds : tx[j].wrote[id] # NoRow =>
                table'[id] = table[id] /\ Versions(j)'[id] = Versions(j)[id]
  BY <1>1, <1>2, <1>5, <1>6 DEF TenantInv, LockInv, Versions, Version
<1>7. ASSUME NEW j \in Conns \ {k}, tx[j] # NoRow
      PROVE  \A id \in RowIds : tx[j].wrote[id] = NoRow =>
                Versions(j)'[id] = table'[id] /\ Versions(j)[id] = table[id]
  BY <1>2, <1>7 DEF Versions, Version
<1>8. ChainInv'
  <2> SUFFICES ASSUME NEW j \in Conns \ {k}, tx[j] # NoRow
               PROVE  /\ \A i \in DOMAIN tx[j].changes : tx[j].wrote[tx[j].changes[i].id] # NoRow
                      /\ Linked(tx[j].changes, table')
                      /\ LeadsTo(tx[j].changes, table', Versions(j)')
    BY <1>2 DEF ChainInv
  <2>1. /\ \A i \in DOMAIN tx[j].changes : tx[j].wrote[tx[j].changes[i].id] # NoRow
        /\ Linked(tx[j].changes, table) /\ LeadsTo(tx[j].changes, table, Versions(j))
        /\ tx[j].changes \in Seq(RowChange)
    BY OpenTransaction DEF TenantInv, ChainInv
  <2>2. \A i \in DOMAIN tx[j].changes : tx[j].changes[i].id \in RowIds
    <3> SUFFICES ASSUME NEW i \in DOMAIN tx[j].changes PROVE tx[j].changes[i].id \in RowIds
      OBVIOUS
    <3>1. tx[j].changes[i] \in RowChange
      BY <2>1
    <3> QED
      BY <3>1 DEF RowChange
  <2>3. \A i \in DOMAIN tx[j].changes :
          LET id == tx[j].changes[i].id
          IN table'[id] = table[id] /\ Versions(j)'[id] = Versions(j)[id]
    BY <2>1, <2>2, <1>6
  <2>4. \A id \in RowIds : (\A i \in DOMAIN tx[j].changes : tx[j].changes[i].id # id) =>
          Versions(j)'[id] = table'[id]
    <3> SUFFICES ASSUME NEW id \in RowIds, \A i \in DOMAIN tx[j].changes : tx[j].changes[i].id # id
                 PROVE  Versions(j)'[id] = table'[id]
      OBVIOUS
    <3>1. Versions(j)[id] = table[id]
      BY <2>1 DEF LeadsTo
    <3> QED
      BY <3>1, <1>6, <1>7
  <2> HIDE DEF Versions
  <2>5. Linked(tx[j].changes, table') /\ LeadsTo(tx[j].changes, table', Versions(j)')
    <3> DEFINE made == tx[j].changes
               mine == Versions(j)
               then == Versions(j)'
    <3>1. /\ made \in Seq(RowChange) /\ Linked(made, table) /\ LeadsTo(made, table, mine)
          /\ \A i \in DOMAIN made : /\ table'[made[i].id] = table[made[i].id]
                                    /\ then[made[i].id] = mine[made[i].id]
          /\ \A id \in RowIds : (\A i \in DOMAIN made : made[i].id # id) => then[id] = table'[id]
      BY <2>1, <2>3, <2>4
    <3> HIDE DEF made, mine, then
    <3>2. Linked(made, table') /\ LeadsTo(made, table', then)
      BY <3>1, SameStart
    <3> QED
      BY <3>2 DEF made, then
  <2> QED
    BY <2>1, <2>5
<1>9. LinesInv'
  BY <1>2 DEF TenantInv, LinesInv
<1>10. ChangesFormOneChain'
  <2>1. /\ Linked(history, FirstVersion) /\ LeadsTo(history, FirstVersion, table)
        /\ Recorded(history, ledger)
        /\ Linked(tx[k].changes, table) /\ LeadsTo(tx[k].changes, table, Versions(k))
        /\ Recorded(tx[k].changes, tx[k].entries)
    BY <1>1 DEF TenantInv, ChangesFormOneChain, ChainInv, LinesInv
  <2>2. Linked(history', FirstVersion) /\ LeadsTo(history', FirstVersion, table')
    BY <2>1, <1>1, <1>3, Concatenated
  <2>3. Recorded(history', ledger')
    BY <2>1, <1>1, <1>3, RecordedTogether
  <2> QED
    BY <2>2, <2>3 DEF ChangesFormOneChain, FirstVersion
<1>11. RequestsChangeTheirOwn'
  <2> DEFINE h == history
             t == tx[k].changes
  <2>1. /\ Len(h) \in Nat /\ Len(t) \in Nat /\ Len(h \o t) = Len(h) + Len(t)
        /\ DOMAIN t = 1..Len(t)
        /\ \A i \in 1..(Len(h) + Len(t)) :
             (h \o t)[i] = IF i <= Len(h) THEN h[i] ELSE t[i - Len(h)]
    BY <1>3, ConcatProperties
  <2>2. \A i \in 1..Len(h) : h[i].to.owner = h[i].who
    BY DEF TenantInv, RequestsChangeTheirOwn
  <2>3. \A i \in 1..Len(t) : t[i].to.owner = t[i].who
    BY <2>1, <1>1 DEF TenantInv, OwnInv
  <2> HIDE DEF h, t
  <2>4. ASSUME NEW i \in 1..Len(h \o t) PROVE (h \o t)[i].to.owner = (h \o t)[i].who
    <3>1. CASE i <= Len(h)
      BY <3>1, <2>1, <2>2
    <3>2. CASE ~(i <= Len(h))
      <4>1. i - Len(h) \in 1..Len(t) /\ (h \o t)[i] = t[i - Len(h)]
        BY <3>2, <2>1
      <4> QED
        BY <4>1, <2>3
    <3> QED
      BY <3>1, <3>2
  <2> QED
    BY <2>4, <1>1 DEF RequestsChangeTheirOwn, h, t
<1> QED
  BY <1>2, <1>4, <1>8, <1>9, <1>10, <1>11 DEF TenantInv

LEMMA TenantInvariant == TenantSpec => []TenantInv
<1>1. TenantInv /\ [TenantNext]_tenantVars => TenantInv'
  <2> SUFFICES ASSUME TenantInv, [TenantNext]_tenantVars PROVE TenantInv'
    OBVIOUS
  <2>1. ASSUME NEW k \in Conns, Commit(k) \/ Rollback(k) \/ \E who \in Tenants \union {NoTenant} : Begin(k, who)
        PROVE  TenantInv'
    BY <2>1, CommitInv, RollbackInv, BeginInv
  <2>2. ASSUME NEW k \in Conns, NEW c \in Campaigns, NEW n \in Sums,
               ReserveBudget(k, c, n) \/ ReleaseBudget(k, c, n) \/ CommitSpend(k, c, n)
        PROVE  TenantInv'
    BY <2>2, CampaignInv
  <2>3. ASSUME NEW k \in Conns, NEW p \in Products, NEW n \in Sums,
               ReserveStock(k, p, n) \/ ReleaseStock(k, p, n)
        PROVE  TenantInv'
    BY <2>3, RowInv
  <2>4. ASSUME NEW k \in Conns, NEW o \in Orders, CreatePending(k, o) \/ \E ref \in Refs : MarkPaid(k, o, ref)
        PROVE  TenantInv'
    BY <2>4, RowInv, InsertInv DEF CreatePending
  <2>5. ASSUME NEW k \in Conns, NEW p \in PaymentIds,
               CreatePayment(k, p) \/ \E ref \in Refs : MarkCaptured(k, p, ref)
        PROVE  TenantInv'
    BY <2>5, RowInv, InsertInv DEF CreatePayment
  <2>6. CASE UNCHANGED tenantVars
    <3>1. \A j \in Conns : Versions(j)' = Versions(j)
      BY <2>6, SameVersions DEF tenantVars
    <3>2. TenantTypeOK' /\ PinInv' /\ OwnInv' /\ LockInv'
      BY <2>6 DEF TenantInv, tenantVars, TenantTypeOK, PinInv, OwnInv, LockInv
    <3>3. ChainInv' /\ LinesInv'
      BY <2>6, <3>1 DEF TenantInv, tenantVars, ChainInv, LinesInv
    <3>4. ChangesFormOneChain' /\ RequestsChangeTheirOwn'
      BY <2>6 DEF TenantInv, tenantVars, ChangesFormOneChain, RequestsChangeTheirOwn
    <3> QED
      BY <3>2, <3>3, <3>4 DEF TenantInv
  <2> QED
    BY <2>1, <2>2, <2>3, <2>4, <2>5, <2>6 DEF TenantNext
<1> QED
  BY <1>1, TenantInitInv, PTL DEF TenantSpec

-----------------------------------------------------------------------------
(* Every variable keeps its type: the repositories of api/db over pooled    *)
(* sessions.                                                                *)
THEOREM TenantTypeCorrect == TenantSpec => []TenantTypeOK
<1>1. TenantInv => TenantTypeOK
  BY DEF TenantInv
<1> QED
  BY <1>1, TenantInvariant, PTL

(* No update of atomic_reserve, release, commit_spend or mark_paid is lost: *)
(* the committed changes of a row form one chain, and budget_ledger has the *)
(* balance each movement of a campaign left, and no other line.             *)
THEOREM NoUpdateIsLost == TenantSpec => []ChangesFormOneChain
<1>1. TenantInv => ChangesFormOneChain
  BY DEF TenantInv
<1> QED
  BY <1>1, TenantInvariant, PTL

(* A pin of tenant_session or get_tenant_db ends with its transaction, so a *)
(* request changes only rows of the tenant it came for.                     *)
THEOREM PinsDoNotLeak == TenantSpec => []RequestsChangeTheirOwn
<1>1. TenantInv => RequestsChangeTheirOwn
  BY DEF TenantInv
<1> QED
  BY <1>1, TenantInvariant, PTL

-----------------------------------------------------------------------------
(* Some number of a set of numbers is the least.                            *)
LEMMA LeastNumber ==
  ASSUME NEW T, T \subseteq Nat, T # {}
  PROVE  Min(T) \in T /\ \A y \in T : Min(T) <= y
<1> DEFINE Below == {ss \in Nat \X Nat : ss[1] < ss[2]}
<1>1. IsWellFoundedOn(Below, Nat)
  BY NatLessThanWellFounded, Zenon DEF OpToRel
<1> HIDE DEF Below
<1>2. PICK x \in T : \A y \in T : ~(<<y, x>> \in Below)
  BY <1>1, WFMin, Zenon
<1>3. \A y \in T : x <= y
  <2> SUFFICES ASSUME NEW y \in T PROVE x <= y
    OBVIOUS
  <2>1. x \in Nat /\ y \in Nat /\ ~(<<y, x>> \in Below)
    BY <1>2
  <2>2. <<y, x>> \in Below <=> y < x
    <3>1. <<y, x>> \in Nat \X Nat /\ <<y, x>>[1] = y /\ <<y, x>>[2] = x
      BY <2>1
    <3> QED
      BY <3>1, Zenon DEF Below
  <2> QED
    BY <2>1, <2>2
<1> QED
  BY <1>3 DEF Min

(* Replaying the changes of a chain: each is made of the row as it then is, *)
(* and the last leaves the rows at the end of the chain.  A row stands as   *)
(* the next change of it finds it, or at its end when none is left.         *)
LEMMA Replayed ==
  ASSUME NEW s \in Seq(RowChange), NEW end \in [RowIds -> TableRow \union {NoRow}],
         table \in [RowIds -> TableRow \union {NoRow}],
         Linked(s, table), LeadsTo(s, table, end)
  PROVE  /\ Serial!Passing(s)[Len(s)] = end
         /\ \A i \in DOMAIN s : s[i].from = Serial!Passing(s)[i - 1][s[i].id]
<1> DEFINE n == Len(s)
           Later(i, id) == {j \in (i + 1)..n : s[j].id = id}
           stands(i, id) == IF Later(i, id) = {} THEN end[id] ELSE s[Min(Later(i, id))].from
           at == [i \in 0..n |-> [id \in RowIds |-> stands(i, id)]]
<1>1. n \in Nat /\ DOMAIN s = 1..n
  OBVIOUS
<1>2. \A i \in 1..n : s[i].id \in RowIds
  <2> SUFFICES ASSUME NEW i \in 1..n PROVE s[i].id \in RowIds
    OBVIOUS
  <2>1. s[i] \in RowChange
    OBVIOUS
  <2> QED
    BY <2>1 DEF RowChange
(* The next change of a row.                                                *)
<1>3. ASSUME NEW i \in 0..n, NEW id \in RowIds, Later(i, id) # {}
      PROVE  LET j == Min(Later(i, id))
             IN  /\ j \in (i + 1)..n /\ s[j].id = id
                 /\ \A q \in (i + 1)..(j - 1) : s[q].id # id
  <2> DEFINE L == Later(i, id)
  <2>1. L \subseteq Nat /\ L # {}
    BY <1>1, <1>3
  <2>2. Min(L) \in L /\ \A y \in L : Min(L) <= y
    <3> HIDE DEF L
    <3> QED
      BY <2>1, LeastNumber
  <2>3. PICK j : j = Min(L)
    OBVIOUS
  <2>4. j \in (i + 1)..n /\ s[j].id = id /\ \A q \in (i + 1)..n : s[q].id = id => j <= q
    BY <2>2, <2>3
  <2>5. \A q \in (i + 1)..(j - 1) : s[q].id # id
    BY <2>4, <1>1
  <2> QED
    BY <2>3, <2>4, <2>5
<1>4. ASSUME NEW i \in 0..n, NEW id \in RowIds, Later(i, id) = {}
      PROVE  \A q \in (i + 1)..n : s[q].id # id
  BY <1>4
<1>5. at[0] = table
  <2>1. ASSUME NEW id \in RowIds PROVE stands(0, id) = table[id]
    <3>1. CASE Later(0, id) = {}
      <4>1. \A q \in DOMAIN s : s[q].id # id
        BY <3>1, <1>1, <1>4
      <4> QED
        BY <3>1, <4>1 DEF LeadsTo
    <3>2. CASE Later(0, id) # {}
      <4> DEFINE j == Min(Later(0, id))
      <4>1. j \in 1..n /\ s[j].id = id /\ \A q \in 1..(j - 1) : s[q].id # id
        <5>1. 0 \in 0..n /\ 0 + 1 = 1
          BY <1>1
        <5>2. j \in (0 + 1)..n /\ s[j].id = id /\ \A q \in (0 + 1)..(j - 1) : s[q].id # id
          BY <3>2, <5>1, <1>3
        <5> QED
          BY <5>1, <5>2
      <4>2. stands(0, id) = s[j].from
        BY <3>2
      <4> HIDE DEF j
      <4>3. s[j].from = table[id]
        BY <4>1, <1>1 DEF Linked
      <4> QED
        BY <4>2, <4>3
    <3> QED
      BY <3>1, <3>2
  <2> HIDE DEF stands
  <2>2. at[0] = [id \in RowIds |-> stands(0, id)]
    BY <1>1
  <2> QED
    BY <2>1, <2>2
<1>6. at[n] = end
  <2>1. ASSUME NEW id \in RowIds PROVE stands(n, id) = end[id]
    BY <1>1
  <2> HIDE DEF stands
  <2>2. at[n] = [id \in RowIds |-> stands(n, id)]
    BY <1>1
  <2> QED
    BY <2>1, <2>2
<1>7. ASSUME NEW i \in 1..n
      PROVE  /\ stands(i - 1, s[i].id) = s[i].from
             /\ stands(i, s[i].id) = s[i].to
             /\ \A id \in RowIds \ {s[i].id} : stands(i, id) = stands(i - 1, id)
  <2> DEFINE me == s[i].id
  <2>1. me \in RowIds /\ i - 1 \in 0..n /\ i \in 0..n /\ (i - 1) + 1 = i
    BY <1>1, <1>2
  <2>2. stands(i - 1, me) = s[i].from
    <3>1. i \in Later(i - 1, me)
      BY <1>1, <2>1
    <3> DEFINE j == Min(Later(i - 1, me))
    <3>2. Later(i - 1, me) # {} /\ stands(i - 1, me) = s[j].from
      BY <3>1
    <3> HIDE DEF Later, stands
    <3>3. j \in ((i - 1) + 1)..n /\ \A q \in ((i - 1) + 1)..(j - 1) : s[q].id # me
      BY <3>2, <2>1, <1>3
    <3>4. j = i
      <4> HIDE DEF j
      <4>1. j \in i..n /\ \A q \in i..(j - 1) : s[q].id # me
        BY <3>3, <2>1
      <4>2. i \in i..(j - 1) => s[i].id # me
        BY <4>1
      <4> QED
        BY <4>1, <4>2, <1>1
    <3> QED
      BY <3>2, <3>4
  <2>3. stands(i, me) = s[i].to
    <3>1. CASE Later(i, me) = {}
      <4>1. \A q \in (i + 1)..n : s[q].id # me
        BY <3>1, <2>1, <1>4
      <4> QED
        BY <3>1, <4>1, <2>1, <1>1 DEF LeadsTo
    <3>2. CASE Later(i, me) # {}
      <4> DEFINE j == Min(Later(i, me))
      <4>1. j \in (i + 1)..n /\ s[j].id = me /\ \A q \in (i + 1)..(j - 1) : s[q].id # me
        BY <3>2, <2>1, <1>3
      <4>2. stands(i, me) = s[j].from
        BY <3>2
      <4> HIDE DEF j
      <4>3. Follows(s, i, j) /\ j \in DOMAIN s
        BY <4>1, <1>1 DEF Follows
      <4> QED
        BY <4>2, <4>3, <1>1 DEF Linked
    <3> QED
      BY <3>1, <3>2
  <2>4. ASSUME NEW id \in RowIds \ {me} PROVE stands(i, id) = stands(i - 1, id)
    <3>1. Later(i, id) = Later(i - 1, id)
      BY <2>1, <1>1
    <3> QED
      BY <3>1
  <2> QED
    BY <2>2, <2>3, <2>4
<1> HIDE DEF stands
<1>8. ASSUME NEW i \in 1..n PROVE at[i] = [at[i - 1] EXCEPT ![s[i].id] = s[i].to]
  <2>1. /\ at[i] = [id \in RowIds |-> stands(i, id)]
        /\ at[i - 1] = [id \in RowIds |-> stands(i - 1, id)]
    BY <1>1
  <2>2. [at[i - 1] EXCEPT ![s[i].id] = s[i].to]
          = [id \in RowIds |-> IF id = s[i].id THEN s[i].to ELSE stands(i - 1, id)]
    BY <2>1
  <2>3. \A id \in RowIds : stands(i, id) = IF id = s[i].id THEN s[i].to ELSE stands(i - 1, id)
    BY <1>7
  <2> QED
    BY <2>1, <2>2, <2>3
<1>9. ASSUME NEW i \in 1..n PROVE at[i - 1][s[i].id] = s[i].from
  BY <1>1, <1>2, <1>7
<1> DEFINE Path == CHOOSE g : g = [i \in 0..n |-> IF i = 0 THEN table
                                                 ELSE [g[i - 1] EXCEPT ![s[i].id] = s[i].to]]
<1>10. Serial!Passing(s) = Path
  BY DEF Serial!Passing
<1>11. Path = [i \in 0..n |-> IF i = 0 THEN table ELSE [Path[i - 1] EXCEPT ![s[i].id] = s[i].to]]
  <2>1. at = [i \in 0..n |-> IF i = 0 THEN table ELSE [at[i - 1] EXCEPT ![s[i].id] = s[i].to]]
    <3>1. \A i \in 0..n : at[i] = IF i = 0 THEN table ELSE [at[i - 1] EXCEPT ![s[i].id] = s[i].to]
      <4> SUFFICES ASSUME NEW i \in 0..n
                   PROVE  at[i] = IF i = 0 THEN table ELSE [at[i - 1] EXCEPT ![s[i].id] = s[i].to]
        OBVIOUS
      <4> HIDE DEF at
      <4>1. CASE i = 0
        BY <4>1, <1>5
      <4>2. CASE i # 0
        <5>1. i \in 1..n
          BY <4>2, <1>1
        <5> QED
          BY <5>1, <4>2, <1>8
      <4> QED
        BY <4>1, <4>2
    <3>2. at = [i \in 0..n |-> at[i]]
      OBVIOUS
    <3> HIDE DEF at
    <3> QED
      BY <3>1, <3>2
  <2> HIDE DEF at
  <2> QED
    BY <2>1
<1> HIDE DEF Path, at
(* It is the only way to replay them.                                       *)
<1>12. \A i \in 0..n : Path[i] = at[i]
  <2> DEFINE Wrong == {i \in 0..n : Path[i] # at[i]}
  <2> SUFFICES ASSUME Wrong # {} PROVE FALSE
    OBVIOUS
  <2>1. PICK i \in Wrong : \A y \in Wrong : i <= y
    <3>1. Wrong \subseteq Nat
      BY <1>1
    <3> HIDE DEF Wrong
    <3> QED
      BY <3>1, LeastNumber
  <2>2. i \in 0..n /\ Path[i] # at[i] /\ Path[i] = IF i = 0 THEN table ELSE [Path[i - 1] EXCEPT ![s[i].id] = s[i].to]
    BY <2>1, <1>11
  <2>3. CASE i = 0
    BY <2>2, <2>3, <1>5
  <2>4. CASE i # 0
    <3>1. i \in 1..n /\ i - 1 \in 0..n /\ i - 1 < i
      BY <2>2, <2>4, <1>1
    <3>2. Path[i - 1] = at[i - 1]
      BY <3>1, <2>1
    <3>3. at[i] = [at[i - 1] EXCEPT ![s[i].id] = s[i].to]
      BY <3>1, <1>8
    <3>4. Path[i] = [Path[i - 1] EXCEPT ![s[i].id] = s[i].to]
      BY <2>2, <2>4
    <3> QED
      BY <3>2, <3>3, <3>4, <2>2
  <2> QED
    BY <2>3, <2>4
<1>13. Path[n] = end
  BY <1>1, <1>6, <1>12
<1>14. \A i \in 1..n : s[i].from = Path[i - 1][s[i].id]
  <2> SUFFICES ASSUME NEW i \in 1..n PROVE s[i].from = Path[i - 1][s[i].id]
    OBVIOUS
  <2>1. i - 1 \in 0..n
    BY <1>1
  <2> QED
    BY <2>1, <1>9, <1>12
<1> QED
  BY <1>1, <1>10, <1>13, <1>14

-----------------------------------------------------------------------------
(* What an open transaction changed, its tenant may change.                 *)
LegalInv ==
  \A k \in Conns : tx[k] # NoRow =>
    \A i \in DOMAIN tx[k].changes :
      Serial!Permitted(tx[k].who, tx[k].changes[i].from, tx[k].changes[i].to)

LEMMA AbortLegal ==
  ASSUME TenantInv, LegalInv, NEW k \in Conns, tx[k] # NoRow, tx' = [tx EXCEPT ![k].aborted = TRUE]
  PROVE  LegalInv'
<1> DEFINE after == [tx[k] EXCEPT !.aborted = TRUE]
<1>1. tx[k] \in Transaction
  BY OpenTransaction DEF TenantInv
<1>2. after.who = tx[k].who /\ after.changes = tx[k].changes
  BY <1>1 DEF Transaction
<1>3. tx' = [tx EXCEPT ![k] = after]
  OBVIOUS
<1> HIDE DEF after
<1>4. tx'[k] = after /\ \A j \in Conns \ {k} : tx'[j] = tx[j]
  BY <1>3 DEF TenantInv, TenantTypeOK
<1> QED
  BY <1>2, <1>4 DEF LegalInv

(* One statement, of a row its session sees or of a new one.                *)
LEMMA ExecuteLegal ==
  ASSUME TenantInv, LegalInv, NEW k \in Conns, NEW id \in RowIds, NEW new \in TableRow,
         NEW lines, Running(k), Execute(k, id, new, lines),
         new.owner = tenantPin[k],
         Version(k, id) # NoRow =>
           LET old == Version(k, id)
           IN  /\ old.owner = new.owner /\ old.cap = new.cap /\ old.active = new.active
               /\ old.settled # NoRow => new.settled = old.settled
  PROVE  LegalInv' /\ UNCHANGED <<table, history>>
<1> DEFINE old == Version(k, id)
           change == [id |-> id, who |-> tx[k].who, from |-> old, to |-> new]
           after == Written(tx[k], id, old, new, lines)
<1>1. /\ tx[k] # NoRow /\ tx[k] \in Transaction
      /\ tx[k].who \in Tenants \union {NoTenant}
      /\ tx[k].changes \in Seq(RowChange)
      /\ old \in TableRow \union {NoRow}
      /\ tenantPin[k] = tx[k].who
  BY OpenTransaction DEF TenantInv, Running, PinInv
<1>2. UNCHANGED <<table, history>>
  BY DEF Execute
<1>3. CASE ~KeepsChecks(new)
  <2>1. tx' = [tx EXCEPT ![k].aborted = TRUE]
    BY <1>3 DEF Execute
  <2> QED
    BY <2>1, <1>1, <1>2, AbortLegal
<1>4. CASE KeepsChecks(new)
  <2>1. tx' = [tx EXCEPT ![k] = after]
    BY <1>4 DEF Execute
  <2>2. change \in RowChange /\ change.from = old /\ change.to = new
    BY <1>1 DEF RowChange
  <2>3. after.who = tx[k].who /\ after.changes = Append(tx[k].changes, change)
    BY <1>1 DEF Written, Transaction
  <2>4. Serial!Permitted(tx[k].who, old, new)
    BY <1>1, <1>4 DEF KeepsChecks, Serial!Permitted
  <2> HIDE DEF after, change, old
  <2>5. tx'[k] = after /\ \A j \in Conns \ {k} : tx'[j] = tx[j]
    BY <2>1 DEF TenantInv, TenantTypeOK
  <2>6. \A i \in DOMAIN tx[k].changes :
          Serial!Permitted(tx[k].who, tx[k].changes[i].from, tx[k].changes[i].to)
    BY <1>1 DEF LegalInv
  <2>7. ASSUME NEW i \in DOMAIN after.changes
        PROVE  Serial!Permitted(after.who, after.changes[i].from, after.changes[i].to)
    <3> DEFINE made == tx[k].changes
    <3>1. /\ DOMAIN Append(made, change) = 1..(Len(made) + 1) /\ DOMAIN made = 1..Len(made)
          /\ Len(made) \in Nat /\ Append(made, change)[Len(made) + 1] = change
          /\ \A q \in 1..Len(made) : Append(made, change)[q] = made[q]
      BY <1>1, <2>2, Appended
    <3> HIDE DEF made
    <3>2. i \in 1..(Len(made) + 1) /\ after.changes = Append(made, change)
      BY <2>3, <3>1 DEF made
    <3>3. CASE i = Len(made) + 1
      BY <3>1, <3>2, <3>3, <2>2, <2>3, <2>4
    <3>4. CASE i # Len(made) + 1
      <4>1. i \in 1..Len(made)
        BY <3>1, <3>2, <3>4
      <4>2. i \in DOMAIN tx[k].changes /\ after.changes[i] = tx[k].changes[i]
        BY <4>1, <3>1, <3>2 DEF made
      <4> QED
        BY <4>2, <2>3, <2>6
    <3> QED
      BY <3>3, <3>4
  <2>8. LegalInv'
    <3> SUFFICES ASSUME NEW j \in Conns, tx'[j] # NoRow, NEW i \in DOMAIN tx'[j].changes
                 PROVE  Serial!Permitted(tx'[j].who, tx'[j].changes[i].from, tx'[j].changes[i].to)
      BY DEF LegalInv, Serial!Permitted
    <3> QED
      BY <2>5, <2>7 DEF LegalInv
  <2> QED
    BY <2>8, <1>2
<1> QED
  BY <1>3, <1>4

LEMMA UpdateLegal ==
  ASSUME TenantInv, LegalInv, NEW k \in Conns,
         \/ \E c \in Campaigns, n \in Sums :
              ReserveBudget(k, c, n) \/ ReleaseBudget(k, c, n) \/ CommitSpend(k, c, n)
         \/ \E p \in Products, n \in Sums : ReserveStock(k, p, n) \/ ReleaseStock(k, p, n)
         \/ \E id \in Orders \union PaymentIds, ref \in Refs :
              MarkPaid(k, id, ref) \/ MarkCaptured(k, id, ref)
  PROVE  LegalInv' /\ UNCHANGED <<table, history>>
<1>1. PICK id \in RowIds :
        \/ \E n \in Sums : \/ ReserveBudget(k, id, n) \/ ReleaseBudget(k, id, n) \/ CommitSpend(k, id, n)
                           \/ ReserveStock(k, id, n) \/ ReleaseStock(k, id, n)
        \/ \E ref \in Refs : MarkPaid(k, id, ref) \/ MarkCaptured(k, id, ref)
  BY CampaignsApart
<1> DEFINE row == Version(k, id)
<1>2. Updates(k, id)
  BY <1>1 DEF ReserveBudget, ReleaseBudget, CommitSpend, ReserveStock, ReleaseStock, MarkPaid, MarkCaptured
<1>3. row \in TableRow /\ row.owner = tenantPin[k] /\ Running(k)
  BY <1>2, SeenRow
<1>4. \A n \in Sums : n \in Int
  BY TenantAssumption
(* Any new version of the row that keeps what an UPDATE does not set.       *)
<1>5. ASSUME NEW new \in TableRow, NEW lines, Execute(k, id, new, lines),
             new.owner = row.owner, new.cap = row.cap, new.active = row.active,
             row.settled # NoRow => new.settled = row.settled
      PROVE  LegalInv' /\ UNCHANGED <<table, history>>
  BY <1>3, <1>5, ExecuteLegal
<1> HIDE DEF row
<1>6. ASSUME NEW n \in Sums, ReserveBudget(k, id, n) \/ ReserveStock(k, id, n)
      PROVE  LegalInv' /\ UNCHANGED <<table, history>>
  <2> DEFINE new == [row EXCEPT !.reserved = @ + n]
  <2>1. \E lines : Execute(k, id, new, lines)
    BY <1>6 DEF ReserveBudget, ReserveStock, row
  <2>2. /\ new \in TableRow /\ new.owner = row.owner /\ new.cap = row.cap
        /\ new.active = row.active /\ new.settled = row.settled
    BY <1>3, <1>4 DEF TableRow
  <2> HIDE DEF new
  <2> QED
    BY <2>1, <2>2, <1>5
<1>7. \A n \in Sums : LET given == Given(row, n)
                      IN /\ given \in TableRow /\ given.owner = row.owner /\ given.cap = row.cap
                         /\ given.active = row.active /\ given.settled = row.settled
  BY <1>3, <1>4 DEF TableRow, Given
<1>8. ASSUME NEW n \in Sums, ReleaseBudget(k, id, n) \/ ReleaseStock(k, id, n)
      PROVE  LegalInv' /\ UNCHANGED <<table, history>>
  <2> DEFINE new == Given(row, n)
  <2>1. \E lines : Execute(k, id, new, lines)
    BY <1>8 DEF ReleaseBudget, ReleaseStock, row
  <2>2. /\ new \in TableRow /\ new.owner = row.owner /\ new.cap = row.cap
        /\ new.active = row.active /\ new.settled = row.settled
    BY <1>7
  <2> HIDE DEF new
  <2> QED
    BY <2>1, <2>2, <1>5
<1>9. ASSUME NEW n \in Sums, CommitSpend(k, id, n)
      PROVE  LegalInv' /\ UNCHANGED <<table, history>>
  <2> DEFINE given == Given(row, n)
             new == [given EXCEPT !.spent = @ + n]
  <2>1. \E lines : Execute(k, id, new, lines)
    BY <1>9 DEF CommitSpend, row
  <2>2. /\ given \in TableRow /\ given.owner = row.owner /\ given.cap = row.cap
        /\ given.active = row.active /\ given.settled = row.settled
    BY <1>7
  <2> HIDE DEF given
  <2>3. /\ new \in TableRow /\ new.owner = row.owner /\ new.cap = row.cap
        /\ new.active = row.active /\ new.settled = row.settled
    BY <2>2, <1>4 DEF TableRow
  <2> HIDE DEF new
  <2> QED
    BY <2>1, <2>3, <1>5
<1>10. ASSUME NEW ref \in Refs, MarkPaid(k, id, ref) \/ MarkCaptured(k, id, ref)
       PROVE  LegalInv' /\ UNCHANGED <<table, history>>
  <2> DEFINE new == [row EXCEPT !.settled = ref]
  <2>1. (\E lines : Execute(k, id, new, lines)) /\ row.settled = NoRow
    BY <1>10 DEF MarkPaid, MarkCaptured, row
  <2>2. /\ new \in TableRow /\ new.owner = row.owner /\ new.cap = row.cap
        /\ new.active = row.active
    BY <1>3 DEF TableRow
  <2> HIDE DEF new
  <2> QED
    BY <2>1, <2>2, <1>5
<1> QED
  BY <1>1, <1>6, <1>8, <1>9, <1>10

LEMMA InsertLegal ==
  ASSUME TenantInv, LegalInv, NEW k \in Conns, NEW id \in Orders \union PaymentIds, Inserts(k, id)
  PROVE  LegalInv' /\ UNCHANGED <<table, history>>
<1>1. id \in RowIds /\ Running(k) /\ tx[k] # NoRow
  BY CampaignsApart DEF Inserts, Running
<1>2. CASE Version(k, id) = NoRow
  <2> DEFINE new == NewRow(tenantPin[k])
  <2>1. tenantPin[k] \in Tenants
    BY DEF TenantInv, TenantTypeOK, Inserts
  <2>2. new \in TableRow /\ new.owner = tenantPin[k]
    BY <2>1 DEF NewRow, TableRow
  <2>3. Execute(k, id, new, {})
    BY <1>2 DEF Inserts
  <2> HIDE DEF new
  <2> QED
    BY <2>2, <2>3, <1>1, <1>2, ExecuteLegal
<1>3. CASE Version(k, id) # NoRow
  <2>1. tx' = [tx EXCEPT ![k].aborted = TRUE] /\ UNCHANGED <<table, history>>
    BY <1>3 DEF Inserts
  <2> QED
    BY <2>1, <1>1, AbortLegal
<1> QED
  BY <1>2, <1>3

(* A transaction that starts or ends.                                       *)
LEMMA SpanLegal ==
  ASSUME TenantInv, LegalInv, NEW k \in Conns,
         Commit(k) \/ Rollback(k) \/ \E who \in Tenants \union {NoTenant} : Begin(k, who)
  PROVE  LegalInv'
<1>1. \/ tx' = [tx EXCEPT ![k] = NoRow]
      \/ \E who : tx' = [tx EXCEPT ![k] = [who |-> who, wrote |-> [id \in RowIds |-> NoRow],
                                           changes |-> <<>>, entries |-> {}, aborted |-> FALSE]]
  BY DEF Commit, Rollback, Begin
<1>2. (tx'[k] = NoRow \/ tx'[k].changes = <<>>) /\ \A j \in Conns \ {k} : tx'[j] = tx[j]
  BY <1>1 DEF TenantInv, TenantTypeOK
<1> QED
  BY <1>2 DEF LegalInv

LEMMA LegalInvariant == TenantSpec => [](TenantInv /\ LegalInv)
<1>1. TenantInit => LegalInv
  BY DEF TenantInit, LegalInv
<1>2. TenantInv /\ LegalInv /\ [TenantNext]_tenantVars => LegalInv'
  <2> SUFFICES ASSUME TenantInv, LegalInv, [TenantNext]_tenantVars PROVE LegalInv'
    OBVIOUS
  <2>1. ASSUME NEW k \in Conns, Commit(k) \/ Rollback(k) \/ \E who \in Tenants \union {NoTenant} : Begin(k, who)
        PROVE  LegalInv'
    BY <2>1, SpanLegal
  <2>2. ASSUME NEW k \in Conns, NEW c \in Campaigns, NEW n \in Sums,
               ReserveBudget(k, c, n) \/ ReleaseBudget(k, c, n) \/ CommitSpend(k, c, n)
        PROVE  LegalInv'
    BY <2>2, UpdateLegal
  <2>3. ASSUME NEW k \in Conns, NEW p \in Products, NEW n \in Sums,
               ReserveStock(k, p, n) \/ ReleaseStock(k, p, n)
        PROVE  LegalInv'
    BY <2>3, UpdateLegal
  <2>4. ASSUME NEW k \in Conns, NEW o \in Orders, CreatePending(k, o) \/ \E ref \in Refs : MarkPaid(k, o, ref)
        PROVE  LegalInv'
    BY <2>4, UpdateLegal, InsertLegal DEF CreatePending
  <2>5. ASSUME NEW k \in Conns, NEW p \in PaymentIds,
               CreatePayment(k, p) \/ \E ref \in Refs : MarkCaptured(k, p, ref)
        PROVE  LegalInv'
    BY <2>5, UpdateLegal, InsertLegal DEF CreatePayment
  <2>6. CASE UNCHANGED tenantVars
    BY <2>6 DEF tenantVars, LegalInv
  <2> QED
    BY <2>1, <2>2, <2>3, <2>4, <2>5, <2>6 DEF TenantNext
<1> QED
  BY <1>1, <1>2, TenantInvariant, PTL DEF TenantSpec

(* What is left of a concatenation after its first part.                    *)
LEMMA AfterFirstPart ==
  ASSUME NEW S, NEW s \in Seq(S), NEW t \in Seq(S)
  PROVE  SubSeq(s \o t, Len(s) + 1, Len(s \o t)) = t
<1> DEFINE st == s \o t
           m == Len(s)
           n == Len(t)
           u == SubSeq(st, m + 1, m + n)
<1>1. /\ m \in Nat /\ n \in Nat /\ st \in Seq(S) /\ Len(st) = m + n
      /\ \A i \in 1..(m + n) : st[i] \in S /\ st[i] = IF i <= m THEN s[i] ELSE t[i - m]
  BY ConcatProperties
<1> HIDE DEF st, m, n
<1>2. m + 1 \in Int /\ m + n \in Int /\ \A i \in (m + 1)..(m + n) : st[i] \in S
  BY <1>1
<1>3. /\ u \in Seq(S) /\ Len(u) = IF m + 1 <= m + n THEN (m + n) - (m + 1) + 1 ELSE 0
      /\ \A i \in 1..((m + n) - (m + 1) + 1) : u[i] = st[(m + 1) + i - 1]
  BY <1>2, SubSeqProperties
<1> HIDE DEF u
<1>4. Len(u) = n
  BY <1>1, <1>3
<1>5. ASSUME NEW i \in 1..n PROVE u[i] = t[i]
  <2>1. u[i] = st[(m + 1) + i - 1] /\ (m + 1) + i - 1 = m + i
    BY <1>1, <1>3
  <2>2. m + i \in 1..(m + n) /\ ~(m + i <= m) /\ (m + i) - m = i
    BY <1>1
  <2> QED
    BY <2>1, <2>2, <1>1
<1>6. u = t
  BY <1>3, <1>4, <1>5, SeqEqual DEF n
<1> QED
  BY <1>1, <1>6 DEF u, st, m

(* A transaction takes effect as one request of its tenant when it commits, *)
(* or not at all when it has changed nothing.                               *)
LEMMA CommitSerial ==
  ASSUME TenantInv, LegalInv, NEW k \in Conns, Commit(k)
  PROVE  Serial!Next \/ UNCHANGED Serial!vars
<1> DEFINE made == tx[k].changes
           who == tx[k].who
<1>1. /\ tx[k] # NoRow /\ table' = Versions(k) /\ history' = history \o made
  BY DEF Commit, Versions
<1>2. /\ made \in Seq(RowChange) /\ history \in Seq(RowChange)
      /\ table \in [RowIds -> TableRow \union {NoRow}]
      /\ Versions(k) \in [RowIds -> TableRow \union {NoRow}]
      /\ Linked(made, table) /\ LeadsTo(made, table, Versions(k))
  BY <1>1, OpenTransaction DEF TenantInv, TenantTypeOK, ChainInv, Versions
<1>3. \A i \in DOMAIN made : made[i].who = who /\ made[i].to.owner = who
                             /\ Serial!Permitted(who, made[i].from, made[i].to)
  BY <1>1 DEF TenantInv, OwnInv, LegalInv
<1> HIDE DEF made, who
<1>4. CASE made = <<>>
  <2>1. history' = history
    BY <1>1, <1>2, <1>4
  <2>2. \A id \in RowIds : Versions(k)[id] = table[id]
    BY <1>2, <1>4 DEF LeadsTo
  <2>3. table' = table
    BY <2>2, <1>1, <1>2
  <2> QED
    BY <2>1, <2>3 DEF Serial!vars
<1>5. CASE made # <<>>
  <2>1. 1 \in DOMAIN made /\ made[1] \in RowChange
    BY <1>2, <1>5
  <2>2. who \in Tenants
    BY <2>1, <1>3 DEF RowChange, TableRow
  <2>3. SubSeq(history', Len(history) + 1, Len(history')) = made
    BY <1>1, <1>2, AfterFirstPart
  <2>4. /\ Serial!Passing(made)[Len(made)] = table'
        /\ \A i \in DOMAIN made : made[i].from = Serial!Passing(made)[i - 1][made[i].id]
    BY <1>1, <1>2, Replayed
  <2>5. Serial!Request(who)
    BY <2>3, <2>4, <1>1, <1>3 DEF Serial!Request
  <2> QED
    BY <2>2, <2>5 DEF Serial!Next
<1> QED
  BY <1>4, <1>5

LEMMA StepSerial ==
  ASSUME TenantInv, LegalInv, [TenantNext]_tenantVars
  PROVE  [Serial!Next]_(Serial!vars)
<1>1. ASSUME UNCHANGED <<table, history>> PROVE UNCHANGED Serial!vars
  BY <1>1 DEF Serial!vars
<1>2. ASSUME NEW k \in Conns, Commit(k) PROVE Serial!Next \/ UNCHANGED Serial!vars
  BY <1>2, CommitSerial
<1>3. ASSUME NEW k \in Conns, Rollback(k) \/ \E who \in Tenants \union {NoTenant} : Begin(k, who)
      PROVE  UNCHANGED <<table, history>>
  BY <1>3 DEF Rollback, Begin
<1>4. ASSUME NEW k \in Conns, NEW c \in Campaigns, NEW n \in Sums,
             ReserveBudget(k, c, n) \/ ReleaseBudget(k, c, n) \/ CommitSpend(k, c, n)
      PROVE  UNCHANGED <<table, history>>
  BY <1>4, UpdateLegal
<1>5. ASSUME NEW k \in Conns, NEW p \in Products, NEW n \in Sums,
             ReserveStock(k, p, n) \/ ReleaseStock(k, p, n)
      PROVE  UNCHANGED <<table, history>>
  BY <1>5, UpdateLegal
<1>6. ASSUME NEW k \in Conns, NEW o \in Orders, CreatePending(k, o) \/ \E ref \in Refs : MarkPaid(k, o, ref)
      PROVE  UNCHANGED <<table, history>>
  BY <1>6, UpdateLegal, InsertLegal DEF CreatePending
<1>7. ASSUME NEW k \in Conns, NEW p \in PaymentIds,
             CreatePayment(k, p) \/ \E ref \in Refs : MarkCaptured(k, p, ref)
      PROVE  UNCHANGED <<table, history>>
  BY <1>7, UpdateLegal, InsertLegal DEF CreatePayment
<1>8. CASE UNCHANGED tenantVars
  BY <1>8, <1>1 DEF tenantVars
<1>9. TenantNext => Serial!Next \/ UNCHANGED Serial!vars
  BY <1>1, <1>2, <1>3, <1>4, <1>5, <1>6, <1>7 DEF TenantNext
<1> QED
  BY <1>8, <1>9

(* Whatever order the statements of the repositories of api/db run in, over *)
(* however many connections, what they leave in the tables is what their    *)
(* transactions would leave that ran alone, one after another.              *)
THEOREM StoreIsSerial == TenantSpec => ImplementsSerialStore
<1>1. TenantInit => Serial!Init
  BY DEF TenantInit, Serial!Init
<1>2. TenantInv /\ LegalInv /\ [TenantNext]_tenantVars => [Serial!Next]_(Serial!vars)
  BY StepSerial
<1> QED
  BY <1>1, <1>2, LegalInvariant, PTL DEF TenantSpec, ImplementsSerialStore, Serial!Spec
-----------------------------------------------------------------------------
(* What a committed row keeps: it stays, its owner's, with its cap, and     *)
(* what settled it.                                                         *)
KeptBy(from, to) ==
  from # NoRow =>
    /\ to # NoRow /\ to.owner = from.owner /\ to.cap = from.cap
    /\ from.settled # NoRow => to.settled = from.settled

(* No transaction settles again what one settled before, or takes a row     *)
(* from its tenant (mark_paid, mark_captured, the policy tenant_isolation). *)
SettledRowsStay == [][\A id \in RowIds : KeptBy(table[id], table'[id])]_table

(* No committed row breaks the CHECK of its table.                          *)
RowsKeepChecks == \A id \in RowIds : table[id] # NoRow => KeepsChecks(table[id])

(* Of some numbers up to n one is the last.                                 *)
LEMMA LastNumber ==
  ASSUME NEW n \in Nat, NEW At \in SUBSET (1..n), At # {}
  PROVE  \E q \in At : \A r \in At : r <= q
<1> DEFINE T == {n - q : q \in At}
<1>1. T \subseteq Nat /\ T # {}
  <2>1. \A q \in At : n - q \in Nat
    OBVIOUS
  <2>2. PICK q \in At : TRUE
    OBVIOUS
  <2>3. n - q \in T
    OBVIOUS
  <2> QED
    BY <2>1, <2>3
<1>2. \E d \in T : \A y \in T : d <= y
  <2> HIDE DEF T
  <2>1. Min(T) \in T /\ \A y \in T : Min(T) <= y
    BY <1>1, LeastNumber
  <2> QED
    BY <2>1, Zenon
<1>3. PICK q \in At : \A y \in T : n - q <= y
  BY <1>2
<1>4. ASSUME NEW r \in At PROVE r <= q
  <2>1. n - r \in T
    OBVIOUS
  <2> HIDE DEF T
  <2>2. n - q <= n - r
    BY <2>1, <1>3
  <2> QED
    BY <2>2
<1> QED
  BY <1>3, <1>4

(* What a transaction leaves of a row when it commits.                      *)
LEMMA CommitKeeps ==
  ASSUME TenantInv, LegalInv, NEW k \in Conns, Commit(k), NEW id \in RowIds
  PROVE  /\ KeptBy(table[id], table'[id])
         /\ table'[id] = table[id] \/ KeepsChecks(table'[id])
<1> DEFINE made == tx[k].changes
           who == tx[k].who
           n == Len(made)
<1>1. tx[k] # NoRow /\ table' = Versions(k)
  BY DEF Commit, Versions
<1>2. /\ made \in Seq(RowChange) /\ n \in Nat /\ DOMAIN made = 1..n
      /\ Linked(made, table) /\ LeadsTo(made, table, Versions(k))
  BY <1>1, OpenTransaction DEF TenantInv, ChainInv
<1>3. ASSUME NEW i \in 1..n
      PROVE  /\ made[i].to # NoRow /\ KeepsChecks(made[i].to)
             /\ KeptBy(made[i].from, made[i].to)
  <2>1. made[i] \in RowChange
    BY <1>2
  <2>2. made[i].to # NoRow
    BY <2>1, TenantAssumption DEF RowChange
  <2>3. Serial!Permitted(who, made[i].from, made[i].to)
    BY <1>1, <1>2 DEF LegalInv
  <2> HIDE DEF made
  <2> QED
    BY <2>2, <2>3 DEF Serial!Permitted, KeepsChecks, KeptBy
<1> HIDE DEF made, who, n
(* Each change keeps the row as it was committed, or some first one does not. *)
<1>4. ASSUME NEW i \in 1..n PROVE KeptBy(table[made[i].id], made[i].to)
  <2> DEFINE Wrong == {j \in 1..n : ~KeptBy(table[made[j].id], made[j].to)}
  <2> SUFFICES ASSUME Wrong # {} PROVE FALSE
    BY <1>4
  <2>1. PICK j \in Wrong : \A y \in Wrong : j <= y
    <3>1. Wrong \subseteq Nat
      OBVIOUS
    <3> HIDE DEF Wrong
    <3> QED
      BY <3>1, LeastNumber
  <2>2. j \in 1..n /\ ~KeptBy(table[made[j].id], made[j].to)
    BY <2>1
  <2>3. KeptBy(made[j].from, made[j].to)
    BY <2>2, <1>3
  <2>4. CASE \A q \in 1..(j - 1) : made[q].id # made[j].id
    <3>1. made[j].from = table[made[j].id]
      BY <2>2, <2>4, <1>2 DEF Linked
    <3> QED
      BY <3>1, <2>2, <2>3
  <2>5. CASE \E q \in 1..(j - 1) : made[q].id = made[j].id
    <3> DEFINE Before == {q \in 1..(j - 1) : made[q].id = made[j].id}
    <3>0. PICK q \in Before : \A r \in Before : r <= q
      <4>1. Before \in SUBSET (1..(j - 1)) /\ Before # {} /\ j - 1 \in Nat
        BY <2>2, <2>5
      <4> HIDE DEF Before
      <4> QED
        BY <4>1, LastNumber
    <3>1. /\ q \in 1..(j - 1) /\ made[q].id = made[j].id
          /\ \A r \in (q + 1)..(j - 1) : made[r].id # made[j].id
      BY <3>0, <2>2
    <3> HIDE DEF Before
    <3>2. q \in 1..n /\ q < j /\ Follows(made, q, j)
      BY <3>1, <2>2, <1>2 DEF Follows
    <3>3. made[j].from = made[q].to
      BY <3>2, <2>2, <1>2 DEF Linked
    <3>4. KeptBy(table[made[q].id], made[q].to)
      BY <3>2, <2>1, <2>2, <1>2
    <3>5. KeptBy(table[made[j].id], made[j].from)
      BY <3>1, <3>3, <3>4
    <3> QED
      BY <3>5, <2>2, <2>3 DEF KeptBy
  <2> QED
    BY <2>4, <2>5
<1>5. CASE \A i \in 1..n : made[i].id # id
  <2>1. table'[id] = table[id]
    BY <1>1, <1>2, <1>5 DEF LeadsTo
  <2> QED
    BY <2>1 DEF KeptBy
<1>6. CASE \E i \in 1..n : made[i].id = id
  <2> DEFINE At == {i \in 1..n : made[i].id = id}
  <2>0. PICK i \in At : \A r \in At : r <= i
    <3>1. At \in SUBSET (1..n) /\ At # {} /\ n \in Nat
      BY <1>2, <1>6
    <3> HIDE DEF At
    <3> QED
      BY <3>1, LastNumber
  <2>1. i \in 1..n /\ made[i].id = id /\ \A r \in (i + 1)..n : made[r].id # id
    BY <2>0, <1>2
  <2> HIDE DEF At
  <2>2. table'[id] = made[i].to
    BY <2>1, <1>1, <1>2 DEF LeadsTo, n
  <2> QED
    BY <2>1, <2>2, <1>3, <1>4
<1> QED
  BY <1>5, <1>6

LEMMA StepKeeps ==
  ASSUME TenantInv, LegalInv, [TenantNext]_tenantVars, NEW id \in RowIds
  PROVE  /\ KeptBy(table[id], table'[id])
         /\ table'[id] = table[id] \/ KeepsChecks(table'[id])
<1>1. (\E k \in Conns : Commit(k)) \/ UNCHANGED table
  BY UpdateLegal, InsertLegal DEF TenantNext, tenantVars, Rollback, Begin, CreatePending, CreatePayment
<1>2. CASE UNCHANGED table
  BY <1>2 DEF KeptBy
<1>3. ASSUME NEW k \in Conns, Commit(k)
      PROVE  /\ KeptBy(table[id], table'[id])
             /\ table'[id] = table[id] \/ KeepsChecks(table'[id])
  BY <1>3, CommitKeeps
<1> QED
  BY <1>1, <1>2, <1>3

(* Whatever else commits in between, a row that mark_paid or mark_captured  *)
(* settled stays settled by what settled it, and every row its tenant's.    *)
THEOREM SettledOnce == TenantSpec => SettledRowsStay
<1>1. TenantInv /\ LegalInv /\ [TenantNext]_tenantVars
        => [\A id \in RowIds : KeptBy(table[id], table'[id])]_table
  BY StepKeeps
<1> QED
  BY <1>1, LegalInvariant, PTL DEF TenantSpec, SettledRowsStay

(* From tables that keep their CHECKs, no interleaving of atomic_reserve,   *)
(* release, commit_spend and their stock counterparts commits a row that    *)
(* has promised and spent more than its cap.                                *)
THEOREM NoOverspend ==
  ASSUME \A id \in DOMAIN SeedRows : KeepsChecks(SeedRows[id])
  PROVE  TenantSpec => []RowsKeepChecks
<1>1. TenantInit => RowsKeepChecks
  BY DEF TenantInit, FirstVersion, RowsKeepChecks
<1>2. TenantInv /\ LegalInv /\ RowsKeepChecks /\ [TenantNext]_tenantVars => RowsKeepChecks'
  <2> SUFFICES ASSUME TenantInv, LegalInv, RowsKeepChecks, [TenantNext]_tenantVars,
                      NEW id \in RowIds, table'[id] # NoRow
               PROVE  KeepsChecks(table'[id])
    BY DEF RowsKeepChecks, KeepsChecks
  <2> QED
    BY StepKeeps DEF RowsKeepChecks
<1> QED
  BY <1>1, <1>2, LegalInvariant, PTL DEF TenantSpec
=============================================================================
