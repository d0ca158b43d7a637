------------------------------- MODULE SignIn -------------------------------
(***************************************************************************)
(* Sign-in, lockout and credential changes of one account                  *)
(* (identity/signin_manager.go, identity/user_manager.go,                  *)
(* identity/token_provider.go) over the optimistic Update of its store     *)
(* (stores/memstore/memstore.go).                                          *)
(*                                                                         *)
(* Every call works on a copy of the user it loaded, changes fields of the *)
(* copy, and writes the whole copy back.  Update compares the copy's       *)
(* ConcurrencyStamp with the row's and replaces both, so a copy is fresh   *)
(* until somebody else's Update succeeds.  Sign-in only logs an Update     *)
(* that fails and goes on.  A call that is refused changes nothing and is  *)
(* no step.                                                                *)
(*                                                                         *)
(* Passwords are numbered in the order they are set, 0 being none, and a   *)
(* security stamp is the number of its rotations.  A lockout is the time   *)
(* it has left: LockoutEnd minus the clock.                                *)
(***************************************************************************)
EXTENDS Integers

CONSTANTS Calls,            \* concurrent calls (goroutines)
          MaxPasswords,     \* bound on the passwords set
          MaxStamp,         \* bound on stamp rotations
          MaxFailed,        \* Options.Lockout.MaxFailedAccessAttempts
          LockoutDuration,  \* Options.Lockout.DefaultLockoutDuration
          LockoutEnabled    \* User.LockoutEnabled

ASSUME SignInBounds ==
  /\ MaxPasswords \in Nat \ {0} /\ MaxStamp \in Nat
  /\ MaxFailed \in Nat \ {0} /\ LockoutDuration \in Nat
  /\ LockoutEnabled \in BOOLEAN

VARIABLES
  exists,   \* the users table holds the account
  row,      \* its row
  call,     \* call[c]: where call c is, and its copy of the user
  drawn,    \* passwords set so far
  resets,   \* history: <<link, password>> of every reset that was stored
  missed    \* history: wrong answers AccessFailed was to count, since the last
            \* lockout or right answer

vars == <<exists, row, call, drawn, resets, missed>>
historyVars == <<resets, missed>>

\* old: the hash was made with outdated parameters.
User == [pw: 0..MaxPasswords, old: BOOLEAN, failed: 0..(MaxFailed - 1),
         left: 0..LockoutDuration, ss: 0..MaxStamp, twofa: BOOLEAN]
NoUser == [pw |-> 0, old |-> FALSE, failed |-> 0, left |-> 0, ss |-> 0, twofa |-> FALSE]

PCs == {"idle", "loaded", "rehash", "rehashChange", "change", "reset", "second",
        "resetSecond", "fail", "signedIn"}

Call == [pc: PCs, u: User, fresh: BOOLEAN]
Idle == [pc |-> "idle", u |-> NoUser, fresh |-> FALSE]

\* An account as CreateWithPassword or Create left it, perhaps long ago.
Init ==
  /\ exists = TRUE
  /\ drawn \in {0, 1}
  /\ row \in [pw: {drawn}, old: {b \in BOOLEAN : b => drawn = 1}, failed: {0},
              left: {0}, ss: {0}, twofa: BOOLEAN]
  /\ call = [c \in Calls |-> Idle]
  /\ resets = {}
  /\ missed = 0

-----------------------------------------------------------------------------
(* The store, the clock and the account's copies *)

\* Mutant: the row is written back whatever its stamp.
UpdateWins_NoCompare(c) == exists

\* UPDATE ... WHERE id AND concurrency_stamp.
UpdateWins(c) == exists /\ call[c].fresh

\* Store.Update of the copy u by call c, which goes on at next either way.
Update(c, u, next) ==
  /\ row' = IF UpdateWins(c) THEN u ELSE row
  /\ call' = [d \in Calls |->
       IF d = c THEN IF next = "idle" THEN Idle ELSE [call[c] EXCEPT !.pc = next, !.u = u]
       ELSE [call[d] EXCEPT !.fresh = @ /\ ~UpdateWins(c)]]

\* Time passes for every lockout.
Tick ==
  /\ row.left > 0 \/ \E c \in Calls : call[c].u.left > 0
  /\ LET Older(u) == [u EXCEPT !.left = IF @ > 0 THEN @ - 1 ELSE 0]
     IN /\ row' = Older(row)
        /\ call' = [c \in Calls |-> [call[c] EXCEPT !.u = Older(@)]]
  /\ UNCHANGED <<exists, drawn, historyVars>>

\* FindByName or FindByID, at the start of a request; the second factor
\* usually arrives in a request of its own.
LoadUser(c) ==
  /\ call[c].pc \in {"idle", "second"}
  /\ exists
  /\ call' = [call EXCEPT ![c] =
       [pc |-> IF @.pc = "idle" THEN "loaded" ELSE "second", u |-> row, fresh |-> TRUE]]
  /\ UNCHANGED <<exists, row, drawn, historyVars>>

\* The request ends, is cancelled, or the process dies.
Abandon(c) ==
  /\ call[c].pc # "idle"
  /\ call' = [call EXCEPT ![c] = Idle]
  /\ UNCHANGED <<exists, row, drawn, historyVars>>

\* UserManager.Delete.
Delete ==
  /\ exists
  /\ exists' = FALSE
  /\ UNCHANGED <<row, call, drawn, historyVars>>

-----------------------------------------------------------------------------
(* Sign-in *)

\* Mutant: nobody asks.
IsLockedOut_Ignored(u) == FALSE

IsLockedOut(u) == LockoutEnabled /\ u.left > 0

\* Call c goes on at next with the copy it has.
Continue(c, next) == call' = [call EXCEPT ![c].pc = next]

\* passwordSignInUser up to its first store call: the lockout check and
\* CheckPassword's comparison, both against the copy.
PasswordSignIn(c, right) ==
  /\ call[c].pc = "loaded"
  /\ ~IsLockedOut(call[c].u)
  /\ \/ /\ right /\ call[c].u.pw # 0
        /\ Continue(c, IF call[c].u.old THEN "rehash" ELSE "reset")
        /\ missed' = 0
     \/ /\ ~right
        /\ Continue(c, "fail")
        /\ UNCHANGED missed
  /\ UNCHANGED <<exists, row, drawn, resets>>

\* ExternalLoginSignIn: the provider has vouched for the user.
ExternalLoginSignIn(c) ==
  /\ call[c].pc = "loaded"
  /\ ~IsLockedOut(call[c].u)
  /\ Continue(c, "reset")
  /\ missed' = 0
  /\ UNCHANGED <<exists, row, drawn, resets>>

\* TwoFactorAuthenticatorSignIn and TwoFactorPhoneSignIn: a wrong code counts
\* as a failed access.
TwoFactorSignIn(c, right) ==
  /\ call[c].pc = "second"
  /\ ~IsLockedOut(call[c].u)
  /\ Continue(c, IF right THEN "resetSecond" ELSE "fail")
  /\ missed' = IF right THEN 0 ELSE missed
  /\ UNCHANGED <<exists, row, drawn, resets>>

\* A wrong recovery code is not counted and changes nothing.
TwoFactorRecoveryCodeSignIn(c) ==
  /\ call[c].pc = "second"
  /\ ~IsLockedOut(call[c].u)
  /\ Continue(c, "resetSecond")
  /\ missed' = 0
  /\ UNCHANGED <<exists, row, drawn, resets>>

\* CheckPassword's transparent upgrade of an outdated hash.
Rehashed(u) == [u EXCEPT !.old = FALSE]
AfterRehash(c) == IF call[c].pc = "rehash" THEN "reset" ELSE "change"

Rehash(c) ==
  /\ call[c].pc \in {"rehash", "rehashChange"}
  /\ Update(c, Rehashed(call[c].u), AfterRehash(c))
  /\ UNCHANGED <<exists, drawn, historyVars>>

\* The right password is all it takes, unless the copy asks for two factors.
AfterReset(c) == IF call[c].pc = "reset" /\ call[c].u.twofa THEN "second" ELSE "signedIn"

\* No store call is made when there is nothing to reset.
ResetAccessFailedCount(c) ==
  /\ call[c].pc \in {"reset", "resetSecond"}
  /\ \/ /\ call[c].u.failed = 0
        /\ Continue(c, AfterReset(c))
        /\ UNCHANGED row
     \/ /\ call[c].u.failed > 0
        /\ Update(c, [call[c].u EXCEPT !.failed = 0], AfterReset(c))
  /\ UNCHANGED <<exists, drawn, historyVars>>

\* Mutant: the counter is never compared.
Failed_Unlimited(u) == [u EXCEPT !.failed = @ + 1]

\* AccessFailed's arithmetic: the attempt that reaches the limit locks.
Failed(u) ==
  IF u.failed + 1 >= MaxFailed
  THEN [u EXCEPT !.left = LockoutDuration, !.failed = 0]
  ELSE [u EXCEPT !.failed = @ + 1]

AccessFailed(c) ==
  /\ call[c].pc = "fail"
  /\ Update(c, Failed(call[c].u), "idle")
  /\ missed' = IF row'.left > 0 THEN 0
               ELSE IF missed < MaxFailed THEN missed + 1 ELSE missed
  /\ UNCHANGED <<exists, drawn, resets>>

\* A sign-in's Update fails for the store's own reasons: it is logged, the
\* copy keeps what was changed in it and stays fresh.
StoreError(c) ==
  /\ \/ /\ call[c].pc \in {"rehash", "rehashChange"}
        /\ call' = [call EXCEPT ![c] = [@ EXCEPT !.pc = AfterRehash(c), !.u = Rehashed(call[c].u)]]
     \/ /\ call[c].pc \in {"reset", "resetSecond"} /\ call[c].u.failed > 0
        /\ call' = [call EXCEPT ![c] = [@ EXCEPT !.pc = AfterReset(c), !.u.failed = 0]]
     \/ /\ call[c].pc = "fail"
        /\ call' = [call EXCEPT ![c] = Idle]
  /\ UNCHANGED <<exists, row, drawn, historyVars>>

-----------------------------------------------------------------------------
(* Credential and profile changes *)

\* newStamp: a value no copy of the user ever had.
NewStamp(u) == u.ss + 1
StampRoom(c) == call[c].u.ss < MaxStamp

\* Mutant: the security stamp is not rotated.
WithPassword_KeepStamp(u, p) == [u EXCEPT !.pw = p, !.old = FALSE]

\* What every path that sets or clears a password leaves in the copy.
WithPassword(u, p) == [u EXCEPT !.pw = p, !.old = FALSE, !.ss = NewStamp(u)]

\* The copy gets a password of its own, and is stored.
SetPassword(c) ==
  /\ StampRoom(c) /\ drawn < MaxPasswords
  /\ drawn' = drawn + 1
  /\ Update(c, WithPassword(call[c].u, drawn + 1), "idle")

\* ChangePassword checks the current password first, as sign-in does ...
ChangePassword(c) ==
  /\ call[c].pc = "loaded"
  /\ call[c].u.pw # 0
  /\ Continue(c, IF call[c].u.old THEN "rehashChange" ELSE "change")
  /\ UNCHANGED <<exists, row, drawn, historyVars>>

\* ... and then stores the new one.
StoreChangedPassword(c) ==
  /\ call[c].pc = "change"
  /\ SetPassword(c)
  /\ UNCHANGED <<exists, historyVars>>

AddPassword(c) ==
  /\ call[c].pc = "loaded"
  /\ call[c].u.pw = 0
  /\ SetPassword(c)
  /\ UNCHANGED <<exists, historyVars>>

RemovePassword(c) ==
  /\ call[c].pc = "loaded" /\ StampRoom(c)
  /\ Update(c, WithPassword(call[c].u, 0), "idle")
  /\ UNCHANGED <<exists, drawn, historyVars>>

\* The token is a MAC over the stamp of the copy it was made from, and is valid
\* for a copy with that stamp.  Nothing is stored when one is made, so for
\* every stamp there may be one.
ResetPassword(c) ==
  /\ call[c].pc = "loaded"
  /\ SetPassword(c)
  /\ resets' = IF UpdateWins(c) THEN resets \union {<<call[c].u.ss, drawn + 1>>} ELSE resets
  /\ UNCHANGED <<exists, missed>>

SetTwoFactorEnabled(c, enabled) ==
  /\ call[c].pc = "loaded" /\ StampRoom(c)
  /\ Update(c, [call[c].u EXCEPT !.twofa = enabled, !.ss = NewStamp(call[c].u)], "idle")
  /\ UNCHANGED <<exists, drawn, historyVars>>

\* UpdateSecurityStamp; SetUserName, SetEmail, ChangeEmail and SetPhoneNumber
\* are the same to this module.
UpdateSecurityStamp(c) ==
  /\ call[c].pc = "loaded" /\ StampRoom(c)
  /\ Update(c, [call[c].u EXCEPT !.ss = NewStamp(call[c].u)], "idle")
  /\ UNCHANGED <<exists, drawn, historyVars>>

\* ConfirmEmail and ConfirmPhoneNumber write the row and keep the stamp.
ConfirmEmail(c) ==
  /\ call[c].pc = "loaded"
  /\ Update(c, call[c].u, "idle")
  /\ UNCHANGED <<exists, drawn, historyVars>>

-----------------------------------------------------------------------------
SignInStep(c) ==
  \/ LoadUser(c)
  \/ \E right \in BOOLEAN : PasswordSignIn(c, right)
  \/ ExternalLoginSignIn(c)
  \/ \E right \in BOOLEAN : TwoFactorSignIn(c, right)
  \/ TwoFactorRecoveryCodeSignIn(c)
  \/ Rehash(c)
  \/ ResetAccessFailedCount(c)
  \/ AccessFailed(c)
  \/ StoreError(c)
  \/ Abandon(c)

AccountStep(c) ==
  \/ ChangePassword(c)
  \/ StoreChangedPassword(c)
  \/ AddPassword(c)
  \/ RemovePassword(c)
  \/ ResetPassword(c)
  \/ \E enabled \in BOOLEAN : SetTwoFactorEnabled(c, enabled)
  \/ UpdateSecurityStamp(c)
  \/ ConfirmEmail(c)

Next == Tick \/ Delete \/ \E c \in Calls : SignInStep(c) \/ AccountStep(c)

Spec == Init /\ [][Next]_vars

\* Time passes, whatever the callers do; no call is owed any progress.
FairSpec == Spec /\ WF_vars(Tick)

-----------------------------------------------------------------------------
(* Properties *)

\* Rows, copies and histories are what their declarations say; in particular
\* the failure counter stays below the limit at which AccessFailed locks.
TypeOK ==
  /\ exists \in BOOLEAN
  /\ row \in User
  /\ call \in [Calls -> Call]
  /\ drawn \in 0..MaxPasswords
  /\ resets \in SUBSET ((0..MaxStamp) \X (1..MaxPasswords))
  /\ missed \in 0..MaxFailed

\* A credential that was replaced never comes back: whole rows are written
\* from copies, but no sign-in's rehash or counter update, and no profile
\* change, restores a password, a second-factor setting or a stamp that a
\* concurrent change has replaced.
CredentialsNeverRevert ==
  [][/\ row'.ss >= row.ss
     /\ row'.pw # row.pw => row'.ss > row.ss /\ row'.pw \in {0} \union ((drawn + 1)..drawn')
     /\ row'.twofa # row.twofa => row'.ss > row.ss]_vars

\* A sign-in may succeed on a copy whose password or second factor has been
\* changed meanwhile, but then it carries a stamp that is no longer the row's,
\* so the tokens made from it are refused from the start.
SignedInWithCurrentCredentials ==
  \A c \in Calls :
    call[c].pc = "signedIn" /\ call[c].u.ss = row.ss
      => call[c].u.pw = row.pw /\ call[c].u.twofa = row.twofa

\* A password-reset link sets one password, however many requests race on it.
ResetLinkWorksOnce ==
  \A x, y \in resets : x[1] = y[1] => x = y

\* A lockout runs its time: nothing but the clock shortens it, and no attempt
\* made while it lasts, nor one that was under way when it began, extends it.
LockoutRunsItsTime ==
  [][row.left > 0 => row'.left = row.left
                     \/ /\ row'.left = row.left - 1
                        /\ \A c \in Calls : call'[c].pc = call[c].pc]_vars

\* A locked account opens again, although attempts go on.
LockoutEnds == (row.left > 0) ~> (row.left = 0)

\* MaxFailed wrong answers in a row lock the account (AccessFailed).  TLC refutes
\* it with two attempts judged at once, one of which loses its Update (README,
\* known divergences).
LocksAtThreshold ==
  exists /\ LockoutEnabled /\ LockoutDuration > 0 /\ row.left = 0
    => missed < MaxFailed
=============================================================================
