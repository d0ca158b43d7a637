---------------------------- MODULE SignInProofs ----------------------------
(***************************************************************************)
(* Proofs about SignIn for every number of calls, passwords and stamps.    *)
(* The argument is about copies: a fresh copy has the stamp, credentials   *)
(* and lockout of the row, and an old one has either an older stamp or the *)
(* same credentials, because every change of a credential rotates the      *)
(* stamp in the same Update.                                               *)
(***************************************************************************)
EXTENDS SignIn, TLAPS

SameCredentials(u, v) == u.pw = v.pw /\ u.twofa = v.twofa

\* What is true of call k while the row is r.
CallInv(k, r) ==
  /\ k.pc # "idle" => k.u.ss <= r.ss /\ (k.u.ss = r.ss => SameCredentials(k.u, r))
  /\ k.fresh => k.pc # "idle" /\ k.u.ss = r.ss /\ k.u.left = r.left
  /\ LockoutEnabled /\ k.pc = "fail" => k.u.left = 0

CopiesInv == \A c \in Calls : CallInv(call[c], row)

\* A link that was used carries a stamp the row has left behind.
LinksInv == ResetLinkWorksOnce /\ \A x \in resets : x[1] < row.ss

IInv == TypeOK /\ CopiesInv /\ LinksInv

-----------------------------------------------------------------------------
LEMMA Nulls ==
  /\ NoUser \in User /\ Idle \in Call /\ Idle.pc = "idle" /\ ~Idle.fresh
  /\ \A r : CallInv(Idle, r)
BY SignInBounds DEF NoUser, User, Idle, Call, PCs, CallInv

LEMMA InitIInv == Init => IInv
<1> SUFFICES ASSUME Init PROVE IInv
  OBVIOUS
<1>1. row \in User
  BY SignInBounds DEF Init, User
<1>2. TypeOK
  BY <1>1, Nulls, SignInBounds DEF Init, TypeOK
<1>3. CopiesInv /\ LinksInv
  BY Nulls DEF Init, CopiesInv, LinksInv, ResetLinkWorksOnce
<1> QED
  BY <1>2, <1>3 DEF IInv

-----------------------------------------------------------------------------
(* What one call does to its own state only *)

\* A call that goes on with a sound state of its own disturbs nothing.
LEMMA LocalStep ==
  ASSUME IInv, NEW c \in Calls, NEW k \in Call, CallInv(k, row),
         call' = [call EXCEPT ![c] = k], UNCHANGED <<row, drawn, resets>>,
         exists' \in BOOLEAN, missed' \in 0..MaxFailed
  PROVE  IInv'
<1>1. TypeOK'
  BY DEF IInv, TypeOK
<1>2. CopiesInv'
  <2>1. call'[c] = k /\ \A d \in Calls : d # c => call'[d] = call[d]
    BY DEF IInv, TypeOK
  <2> QED
    BY <2>1 DEF IInv, CopiesInv
<1>3. LinksInv'
  BY DEF IInv, LinksInv, ResetLinkWorksOnce
<1> QED
  BY <1>1, <1>2, <1>3 DEF IInv

LEMMA ContinueStep ==
  ASSUME IInv, NEW c \in Calls, NEW next \in PCs \ {"idle"}, Continue(c, next),
         call[c].pc # "idle", next = "fail" => ~IsLockedOut(call[c].u),
         UNCHANGED <<row, drawn, resets, exists>>, missed' \in 0..MaxFailed
  PROVE  IInv'
<1> DEFINE k == [call[c] EXCEPT !.pc = next]
<1>1. call[c] \in Call /\ call[c].u \in User /\ CallInv(call[c], row)
  BY DEF IInv, TypeOK, CopiesInv, Call
<1>2. k \in Call /\ k.pc = next /\ k.u = call[c].u /\ k.fresh = call[c].fresh
  BY <1>1 DEF Call
<1>3. call' = [call EXCEPT ![c] = k]
  BY DEF Continue
<1>4. CallInv(k, row)
  BY <1>1, <1>2, SignInBounds DEF CallInv, IsLockedOut, User
<1> QED
  BY <1>2, <1>3, <1>4, LocalStep DEF IInv, TypeOK

-----------------------------------------------------------------------------
(* Update *)

\* The copy u differs from v in nothing that a sign-in relies on, or its stamp
\* is new.
Keeps(u, v) == u.ss = v.ss /\ SameCredentials(u, v) /\ u.left = v.left
Rotates(u, v) == u.ss = v.ss + 1

LEMMA UpdateStep ==
  ASSUME IInv, NEW c \in Calls, NEW u \in User, NEW next \in PCs \ {"fail"}, Update(c, u, next),
         call[c].pc # "idle",
         \/ Keeps(u, call[c].u)
         \/ next = "idle" /\ Rotates(u, call[c].u)
         \/ next = "idle" /\ u.ss = call[c].u.ss /\ SameCredentials(u, call[c].u)
  PROVE  /\ row' \in User /\ call' \in [Calls -> Call] /\ CopiesInv' /\ row'.ss >= row.ss
         /\ UpdateWins(c) => row.ss = call[c].u.ss /\ SameCredentials(row, call[c].u)
                             /\ row.left = call[c].u.left /\ row' = u
         /\ ~UpdateWins(c) => row' = row
<1> DEFINE k == IF next = "idle" THEN Idle ELSE [call[c] EXCEPT !.pc = next, !.u = u]
           e(d) == [call[d] EXCEPT !.fresh = @ /\ ~UpdateWins(c)]
<1>1. /\ \A d \in Calls : call[d] \in Call /\ call[d].u \in User /\ CallInv(call[d], row)
      /\ row \in User
  BY DEF IInv, TypeOK, CopiesInv, Call
<1>2. /\ next # "idle" => k.pc = next /\ k.u = u /\ (k.fresh <=> call[c].fresh)
      /\ next = "idle" => k = Idle
  BY <1>1 DEF Call
<1>3. k \in Call
  BY <1>1, Nulls DEF Call
<1>4. ASSUME NEW d \in Calls
      PROVE  /\ e(d) \in Call /\ e(d).pc = call[d].pc /\ e(d).u = call[d].u
             /\ e(d).fresh = (call[d].fresh /\ ~UpdateWins(c))
  BY <1>1 DEF Call, UpdateWins
<1>5. /\ row' = IF UpdateWins(c) THEN u ELSE row
      /\ call' = [d \in Calls |-> IF d = c THEN k ELSE e(d)]
  BY DEF Update
<1> HIDE DEF k, e
<1>6. row' \in User /\ call' \in [Calls -> Call]
  BY <1>1, <1>3, <1>4, <1>5
<1>7. UpdateWins(c) => row.ss = call[c].u.ss /\ SameCredentials(row, call[c].u)
                       /\ row.left = call[c].u.left
  BY <1>1 DEF UpdateWins, CallInv, SameCredentials
<1>8. row'.ss >= row.ss
  BY <1>1, <1>5, <1>7 DEF User, Keeps, Rotates
<1>9. CallInv(k, row')
  <2>1. CASE next = "idle"
    BY <1>2, <2>1, Nulls
  <2>2. CASE next # "idle"
    <3>1. k.pc = next /\ k.u = u /\ (k.fresh <=> call[c].fresh) /\ Keeps(u, call[c].u)
      BY <1>2, <2>2
    <3>2. CASE UpdateWins(c)
      BY <1>1, <1>5, <2>2, <3>1, <3>2 DEF CallInv, SameCredentials, User
    <3>3. CASE ~UpdateWins(c)
      BY <1>1, <1>5, <2>2, <3>1, <3>3 DEF CallInv, Keeps, SameCredentials
    <3> QED
      BY <3>2, <3>3
  <2> QED
    BY <2>1, <2>2
<1>10. ASSUME NEW d \in Calls, d # c PROVE CallInv(e(d), row')
  <2>1. CASE UpdateWins(c)
    <3>1. ~e(d).fresh /\ row' = u
      BY <1>4, <1>5, <2>1
    <3>2. call[d].pc # "idle" => call[d].u.ss <= u.ss /\ (call[d].u.ss = u.ss => SameCredentials(call[d].u, u))
      <4>1. CASE Rotates(u, call[c].u)
        BY <1>1, <1>7, <2>1, <4>1 DEF CallInv, Rotates, User
      <4>2. CASE u.ss = call[c].u.ss /\ SameCredentials(u, call[c].u)
        BY <1>1, <1>7, <2>1, <4>2 DEF CallInv, SameCredentials
      <4> QED
        BY <4>1, <4>2 DEF Keeps
    <3>3. LockoutEnabled /\ call[d].pc = "fail" => call[d].u.left = 0
      BY <1>1 DEF CallInv
    <3> QED
      BY <1>4, <3>1, <3>2, <3>3 DEF CallInv
  <2>2. CASE ~UpdateWins(c)
    BY <1>1, <1>4, <1>5, <2>2 DEF CallInv
  <2> QED
    BY <2>1, <2>2
<1>11. CopiesInv'
  BY <1>5, <1>9, <1>10 DEF CopiesInv
<1> QED
  BY <1>5, <1>6, <1>7, <1>8, <1>11

\* An Update leaves the rest of the invariant alone unless a reset is stored.
LEMMA UpdatePreserves ==
  ASSUME IInv, NEW c \in Calls, NEW u \in User, NEW next \in PCs \ {"fail"}, Update(c, u, next),
         call[c].pc # "idle",
         \/ Keeps(u, call[c].u)
         \/ next = "idle" /\ Rotates(u, call[c].u)
         \/ next = "idle" /\ u.ss = call[c].u.ss /\ SameCredentials(u, call[c].u),
         exists' = exists, resets' = resets, drawn' \in 0..MaxPasswords, missed' \in 0..MaxFailed
  PROVE  IInv'
<1>1. /\ row' \in User /\ call' \in [Calls -> Call] /\ CopiesInv' /\ row'.ss >= row.ss
  BY UpdateStep
<1>2. TypeOK'
  BY <1>1 DEF IInv, TypeOK
<1>3. LinksInv'
  BY <1>1 DEF IInv, TypeOK, LinksInv, ResetLinkWorksOnce, User
<1> QED
  BY <1>1, <1>2, <1>3 DEF IInv

\* The fields of the copies the actions write back.
LEMMA CopyFields ==
  ASSUME NEW u \in User
  PROVE  /\ Rehashed(u) \in User /\ Keeps(Rehashed(u), u)
         /\ [u EXCEPT !.failed = 0] \in User /\ Keeps([u EXCEPT !.failed = 0], u)
         /\ Failed(u) \in User /\ Failed(u).ss = u.ss /\ SameCredentials(Failed(u), u)
         /\ \A p \in 0..MaxPasswords : u.ss < MaxStamp =>
              WithPassword(u, p) \in User /\ Rotates(WithPassword(u, p), u)
         /\ \A b \in BOOLEAN : u.ss < MaxStamp =>
              LET v == [u EXCEPT !.twofa = b, !.ss = NewStamp(u)]
              IN  v \in User /\ Rotates(v, u)
         /\ u.ss < MaxStamp =>
              LET v == [u EXCEPT !.ss = NewStamp(u)]
              IN  v \in User /\ Rotates(v, u)
         /\ Keeps(u, u)
<1>1. Rehashed(u) \in User /\ Keeps(Rehashed(u), u)
  BY DEF User, Rehashed, Keeps, SameCredentials
<1>2. [u EXCEPT !.failed = 0] \in User /\ Keeps([u EXCEPT !.failed = 0], u)
  BY SignInBounds DEF User, Keeps, SameCredentials
<1>3. Failed(u) \in User /\ Failed(u).ss = u.ss /\ SameCredentials(Failed(u), u)
  <2>1. u.failed \in 0..(MaxFailed - 1) /\ LockoutDuration \in 0..LockoutDuration /\ 0 \in 0..(MaxFailed - 1)
    BY SignInBounds DEF User
  <2>2. u.failed + 1 >= MaxFailed \/ u.failed + 1 \in 0..(MaxFailed - 1)
    BY <2>1, SignInBounds
  <2>3. CASE u.failed + 1 >= MaxFailed
    BY <2>1, <2>3 DEF User, Failed, SameCredentials
  <2>4. CASE ~(u.failed + 1 >= MaxFailed)
    BY <2>2, <2>4 DEF User, Failed, SameCredentials
  <2> QED
    BY <2>3, <2>4
<1>4. u.ss < MaxStamp => NewStamp(u) \in 0..MaxStamp /\ NewStamp(u) = u.ss + 1
  <2>1. u.ss \in 0..MaxStamp
    BY DEF User
  <2> QED
    BY <2>1, SignInBounds DEF NewStamp
<1>5. ASSUME NEW p \in 0..MaxPasswords, u.ss < MaxStamp
      PROVE  WithPassword(u, p) \in User /\ Rotates(WithPassword(u, p), u)
  BY <1>4, <1>5 DEF User, WithPassword, Rotates
<1>6. ASSUME NEW b \in BOOLEAN, u.ss < MaxStamp
      PROVE  LET v == [u EXCEPT !.twofa = b, !.ss = NewStamp(u)]
             IN  v \in User /\ Rotates(v, u)
  BY <1>4, <1>6 DEF User, Rotates
<1>7. u.ss < MaxStamp => LET v == [u EXCEPT !.ss = NewStamp(u)] IN v \in User /\ Rotates(v, u)
  BY <1>4 DEF User, Rotates
<1> QED
  BY <1>1, <1>2, <1>3, <1>5, <1>6, <1>7 DEF Keeps, SameCredentials

-----------------------------------------------------------------------------
(* The actions *)

LEMMA TickPreserves == ASSUME IInv, Tick PROVE IInv'
<1> DEFINE Older(u) == [u EXCEPT !.left = IF @ > 0 THEN @ - 1 ELSE 0]
           k(c) == [call[c] EXCEPT !.u = Older(@)]
<1>1. /\ row' = Older(row) /\ call' = [c \in Calls |-> k(c)]
      /\ UNCHANGED <<exists, drawn, resets, missed>>
  BY DEF Tick, historyVars
<1>2. ASSUME NEW u \in User
      PROVE  /\ Older(u) \in User /\ Older(u).ss = u.ss /\ SameCredentials(Older(u), u)
             /\ Older(u).left = IF u.left > 0 THEN u.left - 1 ELSE 0
  BY SignInBounds DEF User, SameCredentials
<1>3. row \in User /\ \A c \in Calls : call[c] \in Call /\ call[c].u \in User /\ CallInv(call[c], row)
  BY DEF IInv, TypeOK, CopiesInv, Call
<1> HIDE DEF Older
<1>4. ASSUME NEW c \in Calls
      PROVE  /\ k(c) \in Call /\ k(c).u = Older(call[c].u) /\ k(c).pc = call[c].pc
             /\ (k(c).fresh <=> call[c].fresh)
  BY <1>2, <1>3 DEF Call
<1> HIDE DEF k
<1>5. ASSUME NEW c \in Calls PROVE CallInv(k(c), row')
  <2>1. /\ Older(row).ss = row.ss /\ SameCredentials(Older(row), row)
        /\ Older(row).left = IF row.left > 0 THEN row.left - 1 ELSE 0
        /\ k(c).u.ss = call[c].u.ss /\ SameCredentials(k(c).u, call[c].u)
        /\ k(c).u.left = IF call[c].u.left > 0 THEN call[c].u.left - 1 ELSE 0
    BY <1>2, <1>3, <1>4
  <2> QED
    BY <1>1, <1>3, <1>4, <2>1 DEF CallInv, SameCredentials
<1>6. TypeOK'
  BY <1>1, <1>2, <1>3, <1>4 DEF IInv, TypeOK
<1>7. CopiesInv'
  BY <1>1, <1>5 DEF CopiesInv
<1>8. LinksInv'
  BY <1>1, <1>2, <1>3 DEF IInv, LinksInv, ResetLinkWorksOnce
<1> QED
  BY <1>6, <1>7, <1>8 DEF IInv

LEMMA DeletePreserves == ASSUME IInv, Delete PROVE IInv'
BY DEF Delete, historyVars, IInv, TypeOK, CopiesInv, LinksInv, ResetLinkWorksOnce

LEMMA LoadUserPreserves == ASSUME IInv, NEW c \in Calls, LoadUser(c) PROVE IInv'
<1> DEFINE k == [pc |-> IF call[c].pc = "idle" THEN "loaded" ELSE "second", u |-> row, fresh |-> TRUE]
<1>1. call' = [call EXCEPT ![c] = k] /\ UNCHANGED <<exists, row, drawn, resets, missed>>
  BY DEF LoadUser, historyVars
<1>2. k \in Call /\ CallInv(k, row)
  BY DEF IInv, TypeOK, Call, PCs, CallInv, SameCredentials, User
<1> QED
  BY <1>1, <1>2, LocalStep DEF IInv, TypeOK

LEMMA AbandonPreserves == ASSUME IInv, NEW c \in Calls, Abandon(c) PROVE IInv'
BY LocalStep, Nulls DEF Abandon, historyVars, IInv, TypeOK

LEMMA ChecksPreserve ==
  ASSUME IInv, NEW c \in Calls, NEW right \in BOOLEAN,
         \/ PasswordSignIn(c, right) \/ ExternalLoginSignIn(c)
         \/ TwoFactorSignIn(c, right) \/ TwoFactorRecoveryCodeSignIn(c)
         \/ ChangePassword(c)
  PROVE  IInv'
<1>1. missed \in 0..MaxFailed /\ 0 \in 0..MaxFailed
  BY SignInBounds DEF IInv, TypeOK
<1>2. /\ call[c].pc # "idle" /\ missed' \in 0..MaxFailed
      /\ UNCHANGED <<row, drawn, resets, exists>>
  BY <1>1 DEF PasswordSignIn, ExternalLoginSignIn, TwoFactorSignIn, TwoFactorRecoveryCodeSignIn,
              ChangePassword, historyVars
<1>3. \E next \in PCs \ {"idle"} : Continue(c, next) /\ (next = "fail" => ~IsLockedOut(call[c].u))
  BY DEF PasswordSignIn, ExternalLoginSignIn, TwoFactorSignIn, TwoFactorRecoveryCodeSignIn,
         ChangePassword, PCs
<1> QED
  BY <1>2, <1>3, ContinueStep

LEMMA RehashPreserves == ASSUME IInv, NEW c \in Calls, Rehash(c) PROVE IInv'
<1>1. call[c].u \in User /\ call[c].pc # "idle" /\ AfterRehash(c) \in PCs \ {"fail"}
  BY DEF IInv, TypeOK, Call, Rehash, AfterRehash, PCs
<1>2. Update(c, Rehashed(call[c].u), AfterRehash(c)) /\ UNCHANGED <<exists, drawn, resets, missed>>
  BY DEF Rehash, historyVars
<1> QED
  BY <1>1, <1>2, CopyFields, UpdatePreserves DEF IInv, TypeOK

LEMMA ResetAccessFailedCountPreserves ==
  ASSUME IInv, NEW c \in Calls, ResetAccessFailedCount(c) PROVE IInv'
<1>1. call[c].u \in User /\ call[c].pc # "idle" /\ AfterReset(c) \in PCs \ {"idle", "fail"}
  BY DEF IInv, TypeOK, Call, ResetAccessFailedCount, AfterReset, PCs
<1>2. UNCHANGED <<exists, drawn, resets, missed>>
  BY DEF ResetAccessFailedCount, historyVars
<1>3. CASE Continue(c, AfterReset(c)) /\ UNCHANGED row
  BY <1>1, <1>2, <1>3, ContinueStep DEF IInv, TypeOK
<1>4. CASE Update(c, [call[c].u EXCEPT !.failed = 0], AfterReset(c))
  BY <1>1, <1>2, <1>4, CopyFields, UpdatePreserves DEF IInv, TypeOK
<1> QED
  BY <1>3, <1>4 DEF ResetAccessFailedCount

LEMMA AccessFailedPreserves == ASSUME IInv, NEW c \in Calls, AccessFailed(c) PROVE IInv'
<1>1. call[c].u \in User /\ call[c].pc # "idle" /\ "idle" \in PCs \ {"fail"}
  BY DEF IInv, TypeOK, Call, AccessFailed, PCs
<1>2. missed' \in 0..MaxFailed
  BY SignInBounds DEF AccessFailed, IInv, TypeOK
<1>3. Update(c, Failed(call[c].u), "idle") /\ UNCHANGED <<exists, drawn, resets>>
  BY DEF AccessFailed
<1> QED
  BY <1>1, <1>2, <1>3, CopyFields, UpdatePreserves DEF IInv, TypeOK

LEMMA StoreErrorPreserves == ASSUME IInv, NEW c \in Calls, StoreError(c) PROVE IInv'
<1>1. /\ call[c] \in Call /\ call[c].u \in User /\ CallInv(call[c], row) /\ call \in [Calls -> Call]
      /\ UNCHANGED <<exists, row, drawn, resets, missed>>
  BY DEF IInv, TypeOK, Call, CopiesInv, StoreError, historyVars
<1>2. ASSUME NEW v \in User, NEW next \in PCs \ {"idle", "fail"}, Keeps(v, call[c].u),
             call[c].pc # "idle", call' = [call EXCEPT ![c] = [@ EXCEPT !.pc = next, !.u = v]]
      PROVE  IInv'
  <2> DEFINE k == [call[c] EXCEPT !.pc = next, !.u = v]
  <2>1. k \in Call /\ k.pc = next /\ k.u = v /\ (k.fresh <=> call[c].fresh)
    BY <1>1 DEF Call
  <2>2. CallInv(k, row)
    BY <1>1, <1>2, <2>1 DEF CallInv, Keeps, SameCredentials
  <2>3. call' = [call EXCEPT ![c] = k]
    BY <1>1, <1>2
  <2> QED
    BY <1>1, <2>1, <2>2, <2>3, LocalStep DEF IInv, TypeOK
<1>3. CASE call[c].pc \in {"rehash", "rehashChange"}
  <2>1. AfterRehash(c) \in PCs \ {"idle", "fail"} /\ call[c].pc # "idle"
    BY <1>3 DEF AfterRehash, PCs
  <2>2. call' = [call EXCEPT ![c] = [@ EXCEPT !.pc = AfterRehash(c), !.u = Rehashed(call[c].u)]]
    BY <1>3 DEF StoreError
  <2> QED
    BY <1>1, <1>2, <2>1, <2>2, CopyFields
<1>4. CASE call[c].pc \in {"reset", "resetSecond"}
  <2>1. AfterReset(c) \in PCs \ {"idle", "fail"} /\ call[c].pc # "idle"
    BY <1>4 DEF AfterReset, PCs
  <2>2. call' = [call EXCEPT ![c] = [@ EXCEPT !.pc = AfterReset(c), !.u.failed = 0]]
    BY <1>4 DEF StoreError
  <2>3. [call[c] EXCEPT !.pc = AfterReset(c), !.u.failed = 0]
          = [call[c] EXCEPT !.pc = AfterReset(c), !.u = [call[c].u EXCEPT !.failed = 0]]
    BY <1>1 DEF Call
  <2>4. call' = [call EXCEPT ![c] = [@ EXCEPT !.pc = AfterReset(c), !.u = [call[c].u EXCEPT !.failed = 0]]]
    BY <1>1, <2>2, <2>3
  <2> QED
    BY <1>1, <1>2, <2>1, <2>4, CopyFields
<1>5. CASE call[c].pc = "fail"
  BY <1>1, <1>5, LocalStep, Nulls DEF StoreError, IInv, TypeOK
<1> QED
  BY <1>3, <1>4, <1>5 DEF StoreError

LEMMA SetPasswordPreserves ==
  ASSUME IInv, NEW c \in Calls,
         StoreChangedPassword(c) \/ AddPassword(c) \/ RemovePassword(c)
  PROVE  IInv'
<1>1. call[c].u \in User /\ call[c].pc # "idle" /\ "idle" \in PCs \ {"fail"} /\ call[c].u.ss < MaxStamp
  BY DEF IInv, TypeOK, Call, StoreChangedPassword, AddPassword, RemovePassword, SetPassword, StampRoom, PCs
<1>2. UNCHANGED <<exists, resets, missed>>
  BY DEF StoreChangedPassword, AddPassword, RemovePassword, historyVars
<1>3. drawn' \in 0..MaxPasswords
  BY SignInBounds DEF IInv, TypeOK, StoreChangedPassword, AddPassword, RemovePassword, SetPassword
<1>4. \E p \in 0..MaxPasswords : Update(c, WithPassword(call[c].u, p), "idle")
  BY SignInBounds DEF IInv, TypeOK, StoreChangedPassword, AddPassword, RemovePassword, SetPassword
<1> QED
  BY <1>1, <1>2, <1>3, <1>4, CopyFields, UpdatePreserves DEF IInv, TypeOK

\* A reset that is stored was made from the row's present stamp, which no link
\* used before it carries, and leaves that stamp behind.
LEMMA ResetPasswordPreserves ==
  ASSUME IInv, NEW c \in Calls, ResetPassword(c) PROVE IInv'
<1> DEFINE p == drawn + 1
           u == WithPassword(call[c].u, p)
<1>1. /\ call[c].u \in User /\ call[c].pc # "idle" /\ "idle" \in PCs \ {"fail"}
      /\ call[c].u.ss < MaxStamp /\ row \in User
  BY DEF IInv, TypeOK, Call, ResetPassword, SetPassword, StampRoom, PCs
<1>2. p \in 1..MaxPasswords /\ p \in 0..MaxPasswords /\ drawn' \in 0..MaxPasswords /\ Update(c, u, "idle")
  BY SignInBounds DEF IInv, TypeOK, ResetPassword, SetPassword
<1>3. /\ resets' = IF UpdateWins(c) THEN resets \union {<<call[c].u.ss, p>>} ELSE resets
      /\ UNCHANGED <<exists, missed>>
  BY DEF ResetPassword
<1>4. u \in User /\ Rotates(u, call[c].u)
  BY <1>1, <1>2, CopyFields
<1> HIDE DEF u, p
<1>5. /\ row' \in User /\ call' \in [Calls -> Call] /\ CopiesInv' /\ row'.ss >= row.ss
      /\ UpdateWins(c) => row.ss = call[c].u.ss /\ row' = u
  BY <1>1, <1>2, <1>4, UpdateStep
<1>6. TypeOK'
  <2>1. <<call[c].u.ss, p>> \in (0..MaxStamp) \X (1..MaxPasswords)
    BY <1>1, <1>2 DEF User
  <2> QED
    BY <1>2, <1>3, <1>5, <2>1 DEF IInv, TypeOK
<1>7. LinksInv'
  <2>1. CASE UpdateWins(c)
    <3>1. row.ss = call[c].u.ss /\ row'.ss = row.ss + 1 /\ row.ss \in Nat
      BY <1>1, <1>4, <1>5, <2>1, SignInBounds DEF Rotates, User
    <3>2. \A x \in resets : x[1] < row.ss /\ x[1] \in Nat
      BY DEF IInv, LinksInv, TypeOK
    <3> QED
      BY <1>3, <2>1, <3>1, <3>2 DEF IInv, LinksInv, ResetLinkWorksOnce
  <2>2. CASE ~UpdateWins(c)
    BY <1>1, <1>3, <1>5, <2>2 DEF IInv, TypeOK, LinksInv, ResetLinkWorksOnce, User
  <2> QED
    BY <2>1, <2>2
<1> QED
  BY <1>5, <1>6, <1>7 DEF IInv

LEMMA ProfileChangePreserves ==
  ASSUME IInv, NEW c \in Calls, NEW enabled \in BOOLEAN,
         SetTwoFactorEnabled(c, enabled) \/ UpdateSecurityStamp(c) \/ ConfirmEmail(c)
  PROVE  IInv'
<1>1. call[c].u \in User /\ call[c].pc # "idle" /\ "idle" \in PCs \ {"fail"}
  BY DEF IInv, TypeOK, Call, SetTwoFactorEnabled, UpdateSecurityStamp, ConfirmEmail, PCs
<1>2. UNCHANGED <<exists, drawn, resets, missed>>
  BY DEF SetTwoFactorEnabled, UpdateSecurityStamp, ConfirmEmail, historyVars
<1>3. \E u \in User : Update(c, u, "idle") /\ (Keeps(u, call[c].u) \/ Rotates(u, call[c].u))
  BY <1>1, CopyFields DEF SetTwoFactorEnabled, UpdateSecurityStamp, ConfirmEmail, StampRoom
<1> QED
  BY <1>1, <1>2, <1>3, UpdatePreserves DEF IInv, TypeOK

-----------------------------------------------------------------------------
LEMMA NextPreservesIInv == IInv /\ [Next]_vars => IInv'
<1> SUFFICES ASSUME IInv, [Next]_vars PROVE IInv'
  OBVIOUS
<1>1. CASE Tick \/ Delete
  BY <1>1, TickPreserves, DeletePreserves
<1>2. ASSUME NEW c \in Calls, SignInStep(c) PROVE IInv'
  BY <1>2, LoadUserPreserves, ChecksPreserve, RehashPreserves, ResetAccessFailedCountPreserves,
     AccessFailedPreserves, StoreErrorPreserves, AbandonPreserves DEF SignInStep
<1>3. ASSUME NEW c \in Calls, AccountStep(c) PROVE IInv'
  BY <1>3, ChecksPreserve, SetPasswordPreserves, ResetPasswordPreserves, ProfileChangePreserves
     DEF AccountStep
<1>4. CASE UNCHANGED vars
  BY <1>4 DEF vars, IInv, TypeOK, CopiesInv, LinksInv, ResetLinkWorksOnce
<1> QED
  BY <1>1, <1>2, <1>3, <1>4 DEF Next

LEMMA Invariance == Spec => []IInv
BY InitIInv, NextPreservesIInv, PTL DEF Spec

-----------------------------------------------------------------------------
(* What a step may do to the row *)

\* What an Update leaves of the row's credentials: it keeps them, or it writes
\* those of u under a stamp the row never had.
LEMMA UpdateAndCredentials ==
  ASSUME IInv, NEW c \in Calls, NEW u \in User, NEW next \in PCs \ {"fail"}, Update(c, u, next),
         call[c].pc # "idle",
         \/ Keeps(u, call[c].u)
         \/ next = "idle" /\ Rotates(u, call[c].u)
         \/ next = "idle" /\ u.ss = call[c].u.ss /\ SameCredentials(u, call[c].u)
  PROVE  /\ row'.ss >= row.ss
         /\ ~SameCredentials(row', row) => row'.ss > row.ss /\ row' = u /\ Rotates(u, call[c].u)
         /\ u.left = call[c].u.left => row'.left = row.left
<1>1. /\ row'.ss >= row.ss
      /\ UpdateWins(c) => row.ss = call[c].u.ss /\ SameCredentials(row, call[c].u)
                             /\ row.left = call[c].u.left /\ row' = u
      /\ ~UpdateWins(c) => row' = row
  BY UpdateStep
<1>2. row \in User /\ call[c].u \in User
  BY DEF IInv, TypeOK, Call
<1>3. CASE UpdateWins(c)
  BY <1>1, <1>2, <1>3 DEF SameCredentials, Keeps, Rotates, User
<1>4. CASE ~UpdateWins(c)
  BY <1>1, <1>4 DEF SameCredentials
<1> QED
  BY <1>3, <1>4

\* What each step does to the row's credentials and lockout.
RowKept == row'.ss >= row.ss /\ SameCredentials(row', row)
PasswordStored ==
  /\ row'.ss >= row.ss /\ row'.left = row.left
  /\ ~SameCredentials(row', row) => row'.ss > row.ss
  /\ row'.pw # row.pw => row'.pw \in {0} \union ((drawn + 1)..drawn')

LEMMA SignInStepAndRow ==
  ASSUME IInv, NEW c \in Calls, SignInStep(c)
  PROVE  /\ RowKept
         /\ row'.left = row.left \/ AccessFailed(c)
<1> USE DEF RowKept, SameCredentials
<1>1. row \in User /\ call[c] \in Call /\ call[c].u \in User
  BY DEF IInv, TypeOK, Call
<1>2. CASE row' = row
  BY <1>1, <1>2 DEF User
<1>3. ASSUME NEW u \in User, NEW next \in PCs \ {"fail"}, Update(c, u, next), call[c].pc # "idle",
             Keeps(u, call[c].u)
      PROVE  RowKept /\ row'.left = row.left
  BY <1>3, <1>1, UpdateAndCredentials DEF Keeps, Rotates, User
<1>4. CASE Rehash(c)
  <2>1. AfterRehash(c) \in PCs \ {"fail"} /\ call[c].pc # "idle"
    BY <1>4 DEF Rehash, AfterRehash, PCs
  <2> QED
    BY <1>1, <1>3, <1>4, <2>1, CopyFields DEF Rehash
<1>5. CASE ResetAccessFailedCount(c)
  <2>1. AfterReset(c) \in PCs \ {"fail"} /\ call[c].pc # "idle"
    BY <1>5 DEF ResetAccessFailedCount, AfterReset, PCs
  <2> QED
    BY <1>1, <1>2, <1>3, <1>5, <2>1, CopyFields DEF ResetAccessFailedCount
<1>6. CASE AccessFailed(c)
  <2>1. "idle" \in PCs \ {"fail"} /\ call[c].pc # "idle" /\ Update(c, Failed(call[c].u), "idle")
    BY <1>6 DEF AccessFailed, PCs
  <2>2. /\ Failed(call[c].u) \in User /\ Failed(call[c].u).ss = call[c].u.ss
        /\ SameCredentials(Failed(call[c].u), call[c].u)
    BY <1>1, CopyFields
  <2>3. ~Rotates(Failed(call[c].u), call[c].u)
    BY <1>1, <2>2 DEF Rotates, User
  <2>4. /\ row'.ss >= row.ss
        /\ ~SameCredentials(row', row) => Rotates(Failed(call[c].u), call[c].u)
    BY <1>1, <2>1, <2>2, UpdateAndCredentials
  <2> QED
    BY <1>6, <2>3, <2>4
<1>7. Rehash(c) \/ ResetAccessFailedCount(c) \/ AccessFailed(c) \/ row' = row
  BY DEF SignInStep, LoadUser, PasswordSignIn, ExternalLoginSignIn, TwoFactorSignIn,
         TwoFactorRecoveryCodeSignIn, StoreError, Abandon
<1> QED
  BY <1>2, <1>4, <1>5, <1>6, <1>7

LEMMA AccountStepAndRow ==
  ASSUME IInv, NEW c \in Calls, AccountStep(c)
  PROVE  PasswordStored
<1>1. row \in User /\ call[c] \in Call /\ call[c].u \in User /\ "idle" \in PCs \ {"fail"}
  BY DEF IInv, TypeOK, Call, PCs
<1>2. CASE ChangePassword(c)
  BY <1>1, <1>2 DEF ChangePassword, PasswordStored, SameCredentials, User
<1>3. CASE StoreChangedPassword(c) \/ AddPassword(c) \/ ResetPassword(c)
  <2> DEFINE p == drawn + 1
  <2>1. /\ call[c].pc # "idle" /\ Update(c, WithPassword(call[c].u, p), "idle")
        /\ drawn' = p /\ p \in 0..MaxPasswords /\ p \in (drawn + 1)..drawn' /\ call[c].u.ss < MaxStamp
    BY <1>3, SignInBounds DEF StoreChangedPassword, AddPassword, ResetPassword, SetPassword, StampRoom,
                              IInv, TypeOK
  <2> HIDE DEF p
  <2>2. /\ WithPassword(call[c].u, p) \in User /\ Rotates(WithPassword(call[c].u, p), call[c].u)
        /\ WithPassword(call[c].u, p).pw = p /\ WithPassword(call[c].u, p).left = call[c].u.left
    BY <1>1, <2>1, CopyFields DEF WithPassword, User
  <2> QED
    BY <1>1, <2>1, <2>2, UpdateAndCredentials DEF PasswordStored, SameCredentials
<1>4. CASE RemovePassword(c)
  <2>1. /\ call[c].pc # "idle" /\ Update(c, WithPassword(call[c].u, 0), "idle")
        /\ 0 \in 0..MaxPasswords /\ call[c].u.ss < MaxStamp
    BY <1>4, SignInBounds DEF RemovePassword, StampRoom
  <2>2. /\ WithPassword(call[c].u, 0) \in User /\ Rotates(WithPassword(call[c].u, 0), call[c].u)
        /\ WithPassword(call[c].u, 0).pw = 0 /\ WithPassword(call[c].u, 0).left = call[c].u.left
    BY <1>1, <2>1, CopyFields DEF WithPassword, User
  <2> QED
    BY <1>1, <2>1, <2>2, UpdateAndCredentials DEF PasswordStored, SameCredentials
<1>5. ASSUME NEW enabled \in BOOLEAN, SetTwoFactorEnabled(c, enabled) \/ UpdateSecurityStamp(c)
      PROVE  PasswordStored
  <2>1. PICK u \in User :
          /\ Update(c, u, "idle") /\ Rotates(u, call[c].u) /\ call[c].pc # "idle"
          /\ u.pw = call[c].u.pw /\ u.left = call[c].u.left
    <3>1. CASE SetTwoFactorEnabled(c, enabled)
      <4> DEFINE v == [call[c].u EXCEPT !.twofa = enabled, !.ss = NewStamp(call[c].u)]
      <4>1. v.pw = call[c].u.pw /\ v.left = call[c].u.left
        BY <1>1 DEF User
      <4>2. v \in User /\ Rotates(v, call[c].u) /\ Update(c, v, "idle") /\ call[c].pc # "idle"
        BY <1>1, <3>1, CopyFields DEF SetTwoFactorEnabled, StampRoom
      <4> QED
        BY <4>1, <4>2
    <3>2. CASE UpdateSecurityStamp(c)
      <4> DEFINE v == [call[c].u EXCEPT !.ss = NewStamp(call[c].u)]
      <4>1. v.pw = call[c].u.pw /\ v.left = call[c].u.left
        BY <1>1 DEF User
      <4>2. v \in User /\ Rotates(v, call[c].u) /\ Update(c, v, "idle") /\ call[c].pc # "idle"
        BY <1>1, <3>2, CopyFields DEF UpdateSecurityStamp, StampRoom
      <4> QED
        BY <4>1, <4>2
    <3> QED
      BY <1>5, <3>1, <3>2
  <2>2. UpdateWins(c) => row.pw = call[c].u.pw /\ row' = u
    BY <1>1, <2>1, UpdateStep DEF SameCredentials
  <2>3. ~UpdateWins(c) => row' = row
    BY <2>1 DEF Update
  <2> QED
    BY <1>1, <2>1, <2>2, <2>3, UpdateAndCredentials DEF PasswordStored, SameCredentials
<1>6. CASE ConfirmEmail(c)
  <2>1. call[c].pc # "idle" /\ Update(c, call[c].u, "idle")
    BY <1>6 DEF ConfirmEmail
  <2>2. Keeps(call[c].u, call[c].u) /\ ~Rotates(call[c].u, call[c].u)
    BY <1>1, SignInBounds DEF Keeps, SameCredentials, Rotates, User
  <2>3. PICK u \in User : u = call[c].u
    BY <1>1
  <2>4. row'.ss >= row.ss /\ SameCredentials(row', row) /\ row'.left = row.left
    <3>1. Update(c, u, "idle") /\ Keeps(u, call[c].u) /\ ~Rotates(u, call[c].u) /\ u.left = call[c].u.left
      BY <2>1, <2>2, <2>3
    <3> QED
      BY <1>1, <2>1, <3>1, UpdateAndCredentials
  <2> QED
    BY <2>4 DEF PasswordStored, SameCredentials
<1> QED
  BY <1>2, <1>3, <1>4, <1>5, <1>6 DEF AccountStep

LEMMA TickAndRow ==
  ASSUME IInv, Tick
  PROVE  RowKept /\ (row.left > 0 => row'.left = row.left - 1) /\ \A c \in Calls : call'[c].pc = call[c].pc
BY DEF Tick, RowKept, SameCredentials, IInv, TypeOK, User, Call

-----------------------------------------------------------------------------
(* The theorems *)

\* The row, the copies and the histories keep their types; in particular the
\* failure counter of the row and of every copy stays below the limit at which
\* AccessFailed locks the account (user_manager.go).
THEOREM TypeCorrect == Spec => []TypeOK
BY Invariance, PTL DEF IInv

\* A sign-in that succeeds with the row's stamp was judged by the row's password
\* and second-factor setting, whatever was changed between its load of the user
\* and its end (passwordSignInUser, signin_manager.go).
THEOREM SignInsAreCurrent == Spec => []SignedInWithCurrentCredentials
<1>1. IInv => SignedInWithCurrentCredentials
  BY DEF IInv, CopiesInv, CallInv, SameCredentials, SignedInWithCurrentCredentials
<1> QED
  BY <1>1, Invariance, PTL

\* However many requests race on it, a password-reset link sets one password
\* (ResetPassword, user_manager.go).
THEOREM ResetLinksWorkOnce == Spec => []ResetLinkWorksOnce
BY Invariance, PTL DEF IInv, LinksInv

\* No step of any call puts back a password, a second-factor setting or a stamp
\* that another call has replaced, although every call writes the whole row from
\* its copy (Update of the stores).
THEOREM CredentialsOnlyAdvance == Spec => CredentialsNeverRevert
<1>1. ASSUME IInv, [Next]_vars
      PROVE  [/\ row'.ss >= row.ss
              /\ row'.pw # row.pw => row'.ss > row.ss /\ row'.pw \in {0} \union ((drawn + 1)..drawn')
              /\ row'.twofa # row.twofa => row'.ss > row.ss]_vars
  <2>0. row \in User
    BY <1>1 DEF IInv, TypeOK
  <2>1. CASE Tick
    BY <1>1, <2>1, TickAndRow DEF RowKept, SameCredentials
  <2>2. CASE Delete
    BY <2>0, <2>2 DEF Delete, User
  <2>3. ASSUME NEW c \in Calls, SignInStep(c) PROVE RowKept
    BY <1>1, <2>3, SignInStepAndRow
  <2>4. ASSUME NEW c \in Calls, AccountStep(c) PROVE PasswordStored
    BY <1>1, <2>4, AccountStepAndRow
  <2> QED
    BY <1>1, <2>1, <2>2, <2>3, <2>4 DEF Next, RowKept, PasswordStored, SameCredentials
<1> QED
  BY <1>1, Invariance, PTL DEF Spec, CredentialsNeverRevert

\* Where lockout is enabled, a lockout runs its time: only the clock shortens it,
\* and no attempt extends it, not even one that had passed the check when the
\* lockout began, because its copy is then no longer the row (AccessFailed).
THEOREM LockoutsRunTheirTime == ASSUME LockoutEnabled PROVE Spec => LockoutRunsItsTime
<1>1. ASSUME IInv, [Next]_vars
      PROVE  [row.left > 0 => row'.left = row.left
                     \/ /\ row'.left = row.left - 1
                        /\ \A c \in Calls : call'[c].pc = call[c].pc]_vars
  <2>1. CASE Tick
    BY <1>1, <2>1, TickAndRow
  <2>2. CASE Delete
    BY <2>2 DEF Delete
  <2>3. ASSUME NEW c \in Calls, SignInStep(c), row.left > 0 PROVE row'.left = row.left
    <3>1. CASE AccessFailed(c)
      <4>1. ~UpdateWins(c)
        BY <1>1, <2>3, <3>1 DEF IInv, CopiesInv, CallInv, AccessFailed, UpdateWins, TypeOK, User
      <4> QED
        BY <3>1, <4>1 DEF AccessFailed, Update
    <3> QED
      BY <1>1, <2>3, <3>1, SignInStepAndRow
  <2>4. ASSUME NEW c \in Calls, AccountStep(c) PROVE row'.left = row.left
    BY <1>1, <2>4, AccountStepAndRow DEF PasswordStored
  <2> QED
    BY <1>1, <2>1, <2>2, <2>3, <2>4 DEF Next, vars
<1> QED
  BY <1>1, Invariance, PTL DEF Spec, LockoutRunsItsTime
=============================================================================
