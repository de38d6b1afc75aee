------------------------------- MODULE SignIn -------------------------------
(***************************************************************************)
(* Passwords and refresh tokens: AuthService.authenticate_password,         *)
(* refresh_tokens and revoke_refresh_token over UserRepository in memory.   *)
(* Wrong passwords are counted and lock the account for a while; a refresh  *)
(* token is exchanged for a new one of the same family.                     *)
(*                                                                         *)
(* No await of this repository suspends: one action per call.  The upgrade  *)
(* of an old hash keeps the password, and is left out.                      *)
(***************************************************************************)
EXTENDS Integers, SequencesExt

CONSTANTS
  Users,        \* active users of one merchant
  LockAfter,    \* wrong passwords that lock an account
  LockFor,      \* how long
  RefreshLife,  \* jwt_refresh_expire_days
  MaxTime,      \* bound: clock
  MaxTokens     \* bound: refresh tokens handed out

ASSUME SignInAssumption ==
  {LockAfter, LockFor, RefreshLife, MaxTime, MaxTokens} \subseteq Nat \ {0}

VARIABLES
  now,
  failed,       \* failed[u]: failed_login_count
  lockedUntil,  \* lockedUntil[u]: locked_until, 0 for none
  refresh,      \* _REFRESH_TOKENS, in the order they were issued
  guesses       \* history: when a wrong password of u was looked at since u last signed in

signInVars == <<now, failed, lockedUntil, refresh, guesses>>

RefreshToken == [user : Users, family : Nat, expires : Nat, revoked : BOOLEAN, from : Nat]

-----------------------------------------------------------------------------
SignInInit ==
  /\ now = 0
  /\ failed = [u \in Users |-> 0]
  /\ lockedUntil = [u \in Users |-> 0]
  /\ refresh = <<>>
  /\ guesses = [u \in Users |-> <<>>]

Locked(u) == lockedUntil[u] > now

(* Variant of WrongPassword: locking the account starts the count over.     *)
WrongPasswordReset(u) ==
  /\ ~Locked(u)
  /\ failed' = [failed EXCEPT ![u] = IF @ + 1 >= LockAfter THEN 0 ELSE @ + 1]
  /\ lockedUntil' = [lockedUntil EXCEPT ![u] = IF failed[u] + 1 >= LockAfter THEN now + LockFor ELSE @]
  /\ guesses' = [guesses EXCEPT ![u] = Append(@, now)]
  /\ UNCHANGED <<now, refresh>>

(* record_failed_login: the count is not reset when the account locks, so   *)
(* the first wrong password after a lock locks it again.                    *)
WrongPassword(u) ==
  /\ ~Locked(u)
  /\ failed' = [failed EXCEPT ![u] = @ + 1]
  /\ lockedUntil' = [lockedUntil EXCEPT ![u] = IF failed[u] + 1 >= LockAfter THEN now + LockFor ELSE @]
  /\ guesses' = [guesses EXCEPT ![u] = Append(@, now)]
  /\ UNCHANGED <<now, refresh>>

(* store_refresh_token; family 0 asks for a new one.                        *)
Issued(u, family, from) ==
  [user |-> u, family |-> IF family = 0 THEN Len(refresh) + 1 ELSE family,
   expires |-> now + RefreshLife, revoked |-> FALSE, from |-> from]

RightPassword(u) ==
  /\ ~Locked(u)
  /\ Len(refresh) < MaxTokens
  /\ failed' = [failed EXCEPT ![u] = 0]
  /\ lockedUntil' = [lockedUntil EXCEPT ![u] = 0]
  /\ refresh' = Append(refresh, Issued(u, 0, 0))
  /\ guesses' = [guesses EXCEPT ![u] = <<>>]
  /\ UNCHANGED now

(* Variant of Rotated: the token that was exchanged stays good.             *)
RotatedKept(i) == refresh

(* revoke_refresh_token, reason "rotated".                                  *)
Rotated(i) == [refresh EXCEPT ![i].revoked = TRUE]

(* refresh_tokens. *)
Exchange(i) ==
  /\ i \in DOMAIN refresh
  /\ ~refresh[i].revoked /\ now <= refresh[i].expires
  /\ Len(refresh) < MaxTokens
  /\ refresh' = Append(Rotated(i), Issued(refresh[i].user, refresh[i].family, i))
  /\ UNCHANGED <<now, failed, lockedUntil, guesses>>

(* revoke_refresh_token, reason "logout": that token alone, used or not.    *)
Logout(i) ==
  /\ i \in DOMAIN refresh
  /\ refresh' = [refresh EXCEPT ![i].revoked = TRUE]
  /\ UNCHANGED <<now, failed, lockedUntil, guesses>>

Tick ==
  /\ now < MaxTime
  /\ now' = now + 1
  /\ UNCHANGED <<failed, lockedUntil, refresh, guesses>>

SignInNext ==
  \/ Tick
  \/ \E u \in Users : WrongPassword(u) \/ RightPassword(u)
  \/ \E i \in 1..MaxTokens : Exchange(i) \/ Logout(i)

SignInSpec == SignInInit /\ [][SignInNext]_signInVars

-----------------------------------------------------------------------------
SignInTypeOK ==
  /\ now \in 0..MaxTime
  /\ failed \in [Users -> Nat] /\ lockedUntil \in [Users -> Nat]
  /\ refresh \in Seq(RefreshToken)
  /\ guesses \in [Users -> Seq(0..MaxTime)]

(* However sign-ins, locks and the end of a lock follow each other: once    *)
(* LockAfter wrong passwords came in a row, each further one that is looked *)
(* at comes LockFor after the one before.                                   *)
GuessesAreSpaced ==
  \A u \in Users :
    \A i \in LockAfter..(Len(guesses[u]) - 1) : guesses[u][i + 1] >= guesses[u][i] + LockFor

(* "Refresh token rotation": a token is exchanged once, so of the tokens    *)
(* that one sign-in led to at most one is good, the last, and they are all  *)
(* the same user's.                                                         *)
OneGoodTokenPerSignIn ==
  \A i, j \in DOMAIN refresh :
    /\ refresh[i].family = refresh[j].family =>
         /\ refresh[i].user = refresh[j].user
         /\ i < j => refresh[i].revoked
    /\ i # j /\ refresh[i].from = refresh[j].from => refresh[i].from = 0
=============================================================================
