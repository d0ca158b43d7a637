------------------------ MODULE UserDirectoryProofs ------------------------
(***************************************************************************)
(* Proofs about UserDirectory for every store, and for any number of       *)
(* accounts and calls.                                                     *)
(*                                                                         *)
(* A call that has looked a name or an address up remembers that it was    *)
(* free.  Until the call writes, either nobody else has it, or another     *)
(* call wrote it meanwhile and it is in raced.  Ids are never used twice:  *)
(* every id that a call, a login or a row of a table holds is that of an   *)
(* account that lives or is gone, except the one a Create has drawn.       *)
(*                                                                         *)
(* An account once stored as a full one is never a guest again: a copy in  *)
(* which it still is one has an old stamp and is not written.  So a purge  *)
(* that lists guests now does not list it.                                 *)
(***************************************************************************)
EXTENDS UserDirectory, TLAPS

Known(i) == Live(i) \/ i \in gone

\* A row that can be told from NoRow.
GoodRow(u) == u.name \in Names \/ u.anon

NameOK(k) ==
  store = "mem" /\ "name" \notin k.todo =>
    \/ k.u.name = Guest \/ k.u.name \in raced
    \/ \A j \in Ids \ {k.id} : Live(j) => users[j].name # k.u.name

EmailOK(k) ==
  RequireUniqueEmail /\ "email" \notin k.todo =>
    \/ k.u.email = NoEmail \/ k.u.email \in raced
    \/ \A j \in Ids \ {k.id} : Live(j) => users[j].email # k.u.email

\* An address that is not looked up is the account's own.
OwnEmail(k) ==
  RequireUniqueEmail /\ k.todo = {"name"} =>
    k.u.email = NoEmail \/ (k.pc = "update" /\ k.u.email = users[k.id].email)

WriterInv(k) ==
  k.pc \in {"create", "update"} /\ k.fresh =>
    GoodRow(k.u) /\ NameOK(k) /\ EmailOK(k) /\ OwnEmail(k)

CallInv(k) ==
  /\ k.pc \in {"loaded", "update", "login"} => k.id \in Ids /\ Known(k.id)
  /\ k.pc \in {"loaded", "update"} /\ k.fresh => Live(k.id)
  /\ k.pc = "create" => k.fresh /\ k.id \in 1..drawn /\ ~Known(k.id)
  /\ k.pc = "purge" => store = "gorm"
  /\ k.fresh => k.pc \in {"loaded", "create", "update"}
  /\ \A i \in k.list : Known(i)
  /\ WriterInv(k)

CallsInv ==
  /\ \A c \in Calls : CallInv(call[c])
  /\ \A c, d \in Calls : c # d /\ call[c].pc = "create" /\ call[d].pc = "create"
                           => call[c].id # call[d].id

AccountsInv ==
  /\ \A i \in Ids : Live(i) => GoodRow(users[i])
  /\ \A i \in Ids : Known(i) => i <= drawn
  /\ \A r \in rows : Known(r[2])
  /\ \A l \in Logins : logins[l] # NoId => Known(logins[l])

\* No copy that can still be written makes a full account a guest, and a purge
\* that has a full account on its list listed it before it became one.
GuestCopy(k) ==
  /\ k.pc \in {"create", "update"} /\ k.fresh /\ k.id \in full => ~k.u.anon
  /\ \A i \in k.list : i \in full => i \in overlap

FullInv ==
  /\ \A i \in full : Known(i) /\ (Live(i) => ~users[i].anon)
  /\ \A c \in Calls : GuestCopy(call[c])

IInv ==
  /\ TypeOK /\ CallsInv /\ AccountsInv /\ FullInv
  /\ IdentifiersAreUnique /\ DeletedLeavesNothing /\ PurgeSparesSettledAccounts

-----------------------------------------------------------------------------
LEMMA Nulls ==
  /\ NoRow \in Row /\ ~GoodRow(NoRow)
  /\ Idle \in Call /\ Idle.pc = "idle" /\ ~Idle.fresh /\ Idle.list = {} /\ Idle.todo = {}
  /\ Idle.id = 0 /\ Idle.u = NoRow
<1>1. 0 \in 0..MaxTime /\ 0 \in 0..MaxUsers
  BY DirectoryBounds
<1>2. NoRow \in Row /\ ~GoodRow(NoRow)
  BY <1>1, DirectoryBounds DEF NoRow, Row, GoodRow
<1> QED
  BY <1>1, <1>2 DEF Idle, Call, NoId

LEMMA IdleInv == CallInv(Idle) /\ CallInv(Idle)'
BY Nulls DEF CallInv, WriterInv

LEMMA RowFields ==
  ASSUME NEW u \in Row
  PROVE  /\ u.name \in Names \union {Guest} /\ u.email \in Emails \union {NoEmail}
         /\ u.anon \in BOOLEAN /\ u.born \in 0..MaxTime
         /\ GoodRow(u) => u # NoRow
BY Nulls DEF Row

LEMMA Types ==
  ASSUME IInv
  PROVE  /\ store \in Stores /\ now \in 0..MaxTime /\ drawn \in 0..MaxUsers
         /\ users \in [Ids -> Row] /\ rows \subseteq Tables \X Ids
         /\ logins \in [Logins -> 0..MaxUsers] /\ call \in [Calls -> Call]
         /\ raced \subseteq Names \union Emails /\ gone \subseteq Ids
         /\ ghosts \subseteq gone /\ lost \subseteq gone
         /\ full \subseteq Ids /\ overlap \subseteq full
BY DEF IInv, TypeOK

LEMMA CallFacts ==
  ASSUME IInv, NEW c \in Calls
  PROVE  /\ call[c] \in Call /\ call[c].id \in 0..MaxUsers /\ call[c].u \in Row
         /\ call[c].fresh \in BOOLEAN /\ call[c].todo \in SUBSET {"name", "email"}
         /\ call[c].list \in SUBSET Ids
         /\ CallInv(call[c])
         /\ call[c].pc = "loaded" /\ call[c].fresh => call[c].u = users[call[c].id]
<1>1. call[c] \in Call
  BY Types
<1> QED
  BY <1>1 DEF IInv, TypeOK, CallsInv, Call

LEMMA InitIInv == Init => IInv
<1> SUFFICES ASSUME Init PROVE IInv
  OBVIOUS
<1>1. \A i : ~Live(i)
  BY Nulls DEF Init, Live
<1>2. TypeOK
  <2>1. 0 \in 0..MaxTime /\ 0 \in 0..MaxUsers
    BY DirectoryBounds
  <2>2. users \in [Ids -> Row] /\ call \in [Calls -> Call] /\ logins \in [Logins -> 0..MaxUsers]
    BY <2>1, Nulls DEF Init, NoId
  <2>3. \A c \in Calls : ~call[c].fresh
    BY Nulls DEF Init
  <2> QED
    BY <2>1, <2>2, <2>3 DEF Init, TypeOK
<1>3. CallsInv
  <2>1. \A c \in Calls : call[c] = Idle
    BY DEF Init
  <2> QED
    BY <2>1, IdleInv, Nulls DEF CallsInv
<1>4. AccountsInv
  BY <1>1 DEF Init, AccountsInv, Known
<1>5. IdentifiersAreUnique /\ DeletedLeavesNothing /\ PurgeSparesSettledAccounts
  BY <1>1 DEF Init, IdentifiersAreUnique, DeletedLeavesNothing, PurgeSparesSettledAccounts
<1>6. FullInv
  BY Nulls DEF Init, FullInv, GuestCopy
<1> QED
  BY <1>2, <1>3, <1>4, <1>5, <1>6 DEF IInv

-----------------------------------------------------------------------------
(* Steps that change no account *)

LEMMA SameAccounts ==
  ASSUME UNCHANGED <<store, users, drawn, gone, raced>>
  PROVE  /\ \A k : CallInv(k) => CallInv(k)'
         /\ \A i : (Live(i)' <=> Live(i)) /\ (Known(i)' <=> Known(i))
<1>1. \A i : (Live(i)' <=> Live(i)) /\ (Known(i)' <=> Known(i))
  BY DEF Live, Known
<1>2. ASSUME NEW k, CallInv(k) PROVE CallInv(k)'
  <2>1. WriterInv(k)'
    BY <1>1, <1>2 DEF CallInv, WriterInv, NameOK, EmailOK, OwnEmail
  <2> QED
    BY <1>1, <1>2, <2>1 DEF CallInv
<1> QED
  BY <1>1, <1>2

LEMMA DirectoryKept ==
  ASSUME IInv, UNCHANGED <<store, users, drawn, rows, logins, gone, raced, ghosts,
                         full, overlap, lost>>
  PROVE  AccountsInv' /\ IdentifiersAreUnique' /\ DeletedLeavesNothing' /\ PurgeSparesSettledAccounts'
<1>1. AccountsInv'
  BY SameAccounts DEF IInv, AccountsInv
<1>2. IdentifiersAreUnique'
  BY SameAccounts DEF IInv, IdentifiersAreUnique
<1>3. DeletedLeavesNothing'
  BY SameAccounts DEF IInv, DeletedLeavesNothing, ForeignKeys
<1>4. PurgeSparesSettledAccounts'
  BY DEF IInv, PurgeSparesSettledAccounts
<1> QED
  BY <1>1, <1>2, <1>3, <1>4

\* No account is written, and the copies of the calls are such that no account
\* will become a guest.
LEMMA FullKept ==
  ASSUME IInv, UNCHANGED <<users, gone, full, overlap>>, \A d \in Calls : GuestCopy(call'[d])
  PROVE  FullInv'
<1>1. \A i : (Live(i)' <=> Live(i)) /\ (Known(i)' <=> Known(i))
  BY DEF Live, Known
<1>2. \A i \in full : Known(i) /\ (Live(i) => ~users[i].anon)
  BY DEF IInv, FullInv
<1>3. \A d \in Calls : GuestCopy(call[d])'
  BY DEF GuestCopy
<1> QED
  BY <1>1, <1>2, <1>3 DEF FullInv

LEMMA FullKeptSameCalls ==
  ASSUME IInv, UNCHANGED <<users, gone, full, overlap, call>>
  PROVE  FullInv'
BY FullKept DEF IInv, FullInv

\* A step of call c on its own state.
LEMMA LocalStep ==
  ASSUME IInv, NEW c \in Calls, NEW k \in Call, call' = [call EXCEPT ![c] = k],
         UNCHANGED <<store, now, users, drawn, rows, logins, historyVars>>, CallInv(k), GuestCopy(k),
         k.pc = "loaded" /\ k.fresh => k.u = users[k.id],
         k.pc = "create" => call[c].pc = "create" /\ k.id = call[c].id
  PROVE  IInv'
<1>0. UNCHANGED <<raced, gone, ghosts, full, overlap, lost>>
  BY DEF historyVars
<1>1. call'[c] = k /\ \A d \in Calls : d # c => call'[d] = call[d]
  BY Types
<1>2. TypeOK'
  <2>1. call' \in [Calls -> Call]
    BY Types
  <2>2. \A d \in Calls : call'[d].pc = "loaded" /\ call'[d].fresh => call'[d].u = users'[call'[d].id]
    BY <1>1, CallFacts
  <2> QED
    BY <1>0, <2>1, <2>2 DEF IInv, TypeOK
<1>3. CallsInv'
  <2>1. \A d \in Calls : CallInv(call[d])'
    <3>1. CallInv(k)'
      BY <1>0, SameAccounts
    <3>2. ASSUME NEW d \in Calls, d # c PROVE CallInv(call[d])'
      <4>1. PICK j : j = call[d] /\ call'[d] = j /\ CallInv(j)
        BY <1>1, <3>2, CallFacts
      <4> QED
        BY <1>0, <4>1, SameAccounts
    <3> QED
      BY <1>1, <3>1, <3>2
  <2>2. ASSUME NEW d \in Calls, NEW e \in Calls, d # e, call'[d].pc = "create", call'[e].pc = "create"
        PROVE  call'[d].id # call'[e].id
    BY <1>1, <2>2 DEF IInv, CallsInv
  <2> QED
    BY <2>1, <2>2 DEF CallsInv
<1>4. FullInv'
  <2>1. \A d \in Calls : GuestCopy(call'[d])
    BY <1>1 DEF IInv, FullInv
  <2> QED
    BY <1>0, <2>1, FullKept
<1> QED
  BY <1>0, <1>2, <1>3, <1>4, DirectoryKept DEF IInv

LEMMA TickPreserves == ASSUME IInv, Tick PROVE IInv'
<1>1. now' \in 0..MaxTime
  BY DirectoryBounds DEF IInv, TypeOK, Tick
<1>2. UNCHANGED <<store, users, drawn, rows, logins, call, raced, gone, ghosts,
                full, overlap, lost>>
  BY DEF Tick, historyVars
<1>3. TypeOK'
  BY <1>1, <1>2 DEF IInv, TypeOK
<1>4. CallsInv'
  BY <1>2, SameAccounts DEF IInv, CallsInv
<1> QED
  BY <1>2, <1>3, <1>4, DirectoryKept, FullKeptSameCalls DEF IInv

\* A call has just read the row of a live account.
LEMMA LoadedStep ==
  ASSUME IInv, NEW c \in Calls, NEW i, Live(i),
         call' = [call EXCEPT ![c] = [Idle EXCEPT !.pc = "loaded", !.id = i, !.u = users[i], !.fresh = TRUE]],
         UNCHANGED <<store, now, users, drawn, rows, logins, historyVars>>
  PROVE  IInv'
<1> DEFINE k == [Idle EXCEPT !.pc = "loaded", !.id = i, !.u = users[i], !.fresh = TRUE]
<1>1. i \in Ids /\ i \in 0..MaxUsers /\ users[i] \in Row
  BY Types DEF Live, Ids
<1>2. k \in Call /\ k.pc = "loaded" /\ k.id = i /\ k.u = users[i] /\ k.list = {}
  BY <1>1, Nulls DEF Call
<1> HIDE DEF k
<1>3. CallInv(k)
  BY <1>1, <1>2 DEF CallInv, WriterInv, Known
<1>4. GuestCopy(k)
  BY <1>2 DEF GuestCopy
<1> QED
  BY <1>2, <1>3, <1>4, LocalStep DEF k

LEMMA FindByIDPreserves == ASSUME IInv, NEW c \in Calls, NEW i \in Ids, FindByID(c, i) PROVE IInv'
BY LoadedStep DEF FindByID

LEMMA IdleStep ==
  ASSUME IInv, NEW c \in Calls, call' = [call EXCEPT ![c] = Idle],
         UNCHANGED <<store, now, users, drawn, rows, logins, historyVars>>
  PROVE  IInv'
<1>1. GuestCopy(Idle)
  BY Nulls DEF GuestCopy
<1> QED
  BY <1>1, Nulls, IdleInv, LocalStep

LEMMA AbandonPreserves == ASSUME IInv, NEW c \in Calls, Abandon(c) PROVE IInv'
BY IdleStep DEF Abandon

LEMMA ExternalLoginSignInPreserves == ASSUME IInv, NEW c \in Calls, ExternalLoginSignIn(c) PROVE IInv'
<1>1. CASE Live(call[c].id)
  BY <1>1, LoadedStep DEF ExternalLoginSignIn
<1>2. CASE ~Live(call[c].id)
  BY <1>2, IdleStep DEF ExternalLoginSignIn
<1> QED
  BY <1>1, <1>2

LEMMA FindByLoginPreserves ==
  ASSUME IInv, NEW c \in Calls, NEW l \in Logins, FindByLogin(c, l) PROVE IInv'
<1> DEFINE k == [Idle EXCEPT !.pc = "login", !.id = logins[l]]
<1>1. logins[l] \in 0..MaxUsers /\ logins[l] \in Ids /\ Known(logins[l])
  BY Types DEF FindByLogin, NoId, IInv, AccountsInv, Ids
<1>2. k \in Call /\ k.pc = "login" /\ k.id = logins[l] /\ ~k.fresh /\ k.list = {}
  BY <1>1, Nulls DEF Call
<1>3. call' = [call EXCEPT ![c] = k]
      /\ UNCHANGED <<store, now, users, drawn, rows, logins, historyVars>>
  BY DEF FindByLogin
<1> HIDE DEF k
<1>4. CallInv(k)
  BY <1>1, <1>2 DEF CallInv, WriterInv
<1>5. GuestCopy(k)
  BY <1>2 DEF GuestCopy
<1> QED
  BY <1>2, <1>3, <1>4, <1>5, LocalStep

LEMMA PluckGuestsPreserves ==
  ASSUME IInv, NEW c \in Calls, NEW cutoff, PluckGuests(c, cutoff) PROVE IInv'
<1> DEFINE list == {i \in Ids : PurgeMatches(i, cutoff)}
           k == [Idle EXCEPT !.pc = "purge", !.list = list]
<1>1. list \in SUBSET Ids /\ \A i \in list : Known(i) /\ i \notin full
  BY DEF PurgeMatches, Known, IInv, FullInv
<1>2. call' = [call EXCEPT ![c] = k] /\ store = "gorm"
      /\ UNCHANGED <<store, now, users, drawn, rows, logins, historyVars>>
  BY DEF PluckGuests
<1> HIDE DEF list
<1>3. k \in Call /\ k.pc = "purge" /\ ~k.fresh /\ k.list = list
  BY <1>1, Nulls DEF Call
<1> HIDE DEF k
<1>4. CallInv(k)
  BY <1>1, <1>2, <1>3 DEF CallInv, WriterInv
<1>5. GuestCopy(k)
  BY <1>1, <1>3 DEF GuestCopy
<1> QED
  BY <1>2, <1>3, <1>4, <1>5, LocalStep

-----------------------------------------------------------------------------
(* Names and addresses are looked up *)

\* A manager call goes on with a changed copy; what it will not look up is the
\* account's own.
LEMMA PrepareStep ==
  ASSUME IInv, NEW c \in Calls, NEW u \in Row, NEW todo \in SUBSET {"name", "email"},
         Prepare(c, u, todo),
         call[c].fresh =>
           /\ GoodRow(u) /\ (u.anon => call[c].u.anon)
           /\ "name" \notin todo => u.name = call[c].u.name
           /\ RequireUniqueEmail /\ "email" \notin todo => u.email \in {NoEmail, call[c].u.email}
  PROVE  IInv'
<1>1. PICK k : k = [call[c] EXCEPT !.pc = "update", !.u = u, !.todo = todo]
  OBVIOUS
<1>2. call[c].pc = "loaded" /\ call' = [call EXCEPT ![c] = k]
      /\ UNCHANGED <<store, now, users, drawn, rows, logins, historyVars>>
  BY <1>1 DEF Prepare
<1>3. /\ k \in Call /\ k.pc = "update" /\ k.u = u /\ k.todo = todo /\ k.id = call[c].id
      /\ k.list = call[c].list /\ (k.fresh <=> call[c].fresh)
  BY <1>1, CallFacts DEF Call
<1>4. WriterInv(k)
  <2> SUFFICES ASSUME k.fresh PROVE GoodRow(u) /\ NameOK(k) /\ EmailOK(k) /\ OwnEmail(k)
    BY <1>3 DEF WriterInv
  <2> DEFINE i == call[c].id
  <2>1. i \in Ids /\ Live(i) /\ call[c].u = users[i]
    BY <1>2, <1>3, CallFacts DEF CallInv
  <2>2. NameOK(k)
    <3> SUFFICES ASSUME "name" \notin todo, NEW j \in Ids, j # i, Live(j), users[j].name = u.name,
                        u.name # Guest
                 PROVE  u.name \in raced
      BY <1>3 DEF NameOK
    <3> QED
      BY <1>3, <2>1 DEF IInv, IdentifiersAreUnique
  <2>3. EmailOK(k)
    <3> SUFFICES ASSUME RequireUniqueEmail, "email" \notin todo, NEW j \in Ids, j # i, Live(j),
                        users[j].email = u.email, u.email # NoEmail
                 PROVE  u.email \in raced
      BY <1>3 DEF EmailOK
    <3> QED
      BY <1>3, <2>1 DEF IInv, IdentifiersAreUnique
  <2>4. OwnEmail(k)
    BY <1>3, <2>1 DEF OwnEmail
  <2> QED
    BY <1>3, <2>2, <2>3, <2>4
<1>5. CallInv(k)
  BY <1>2, <1>3, <1>4, CallFacts DEF CallInv
<1>6. GuestCopy(k)
  <2>1. \A i \in call[c].list : i \in full => i \in overlap
    BY DEF IInv, FullInv, GuestCopy
  <2>2. ASSUME k.fresh, k.id \in full PROVE ~k.u.anon
    <3>1. Live(call[c].id) /\ call[c].u = users[call[c].id]
      BY <1>2, <1>3, <2>2, CallFacts DEF CallInv
    <3>2. ~call[c].u.anon
      BY <1>3, <2>2, <3>1 DEF IInv, FullInv
    <3> QED
      BY <1>3, <2>2, <3>2
  <2> QED
    BY <1>3, <2>1, <2>2 DEF GuestCopy
<1> QED
  BY <1>2, <1>3, <1>5, <1>6, LocalStep

LEMMA EmailCheckFacts ==
  ASSUME NEW e
  PROVE  /\ EmailCheck(e) \in SUBSET {"name", "email"} /\ "name" \notin EmailCheck(e)
         /\ RequireUniqueEmail /\ "email" \notin EmailCheck(e) => e = NoEmail
BY DEF EmailCheck

\* The copy of a live account is a row that can be told from NoRow.
LEMMA LoadedCopy ==
  ASSUME IInv, NEW c \in Calls, call[c].pc = "loaded"
  PROVE  call[c].u \in Row /\ (call[c].fresh => GoodRow(call[c].u))
BY CallFacts DEF CallInv, IInv, AccountsInv

LEMMA SetUserNamePreserves ==
  ASSUME IInv, NEW c \in Calls, NEW n \in Names, SetUserName(c, n) PROVE IInv'
<1>1. PICK u : u = [call[c].u EXCEPT !.name = n]
  OBVIOUS
<1>2. u \in Row /\ u.name = n /\ u.email = call[c].u.email /\ (u.anon <=> call[c].u.anon)
  BY <1>1, CallFacts DEF Row
<1>3. GoodRow(u)
  BY <1>2 DEF GoodRow
<1>4. Prepare(c, u, {"name"})
  BY <1>1 DEF SetUserName
<1> QED
  BY <1>2, <1>3, <1>4, PrepareStep

LEMMA SetEmailPreserves ==
  ASSUME IInv, NEW c \in Calls, NEW e \in Emails \union {NoEmail}, SetEmail(c, e) PROVE IInv'
<1>1. PICK u : u = [call[c].u EXCEPT !.email = e]
  OBVIOUS
<1>2. u \in Row /\ u.name = call[c].u.name /\ u.email = e /\ (u.anon <=> call[c].u.anon)
  BY <1>1, CallFacts DEF Row
<1>3. Prepare(c, u, EmailCheck(e)) /\ call[c].pc = "loaded"
  BY <1>1 DEF SetEmail, Prepare
<1>4. call[c].fresh => GoodRow(u)
  BY <1>2, <1>3, LoadedCopy DEF GoodRow
<1> QED
  BY <1>2, <1>3, <1>4, PrepareStep, EmailCheckFacts

LEMMA ConvertToRegisteredPreserves ==
  ASSUME IInv, NEW c \in Calls, NEW n \in Names, NEW e \in Emails \union {NoEmail},
         ConvertToRegistered(c, n, e)
  PROVE  IInv'
<1>1. PICK u : u = [call[c].u EXCEPT !.name = n, !.email = e, !.anon = FALSE, !.born = 0]
  OBVIOUS
<1>2. u \in Row /\ u.name = n /\ u.email = e /\ ~u.anon
  <2>1. 0 \in 0..MaxTime
    BY DirectoryBounds
  <2> QED
    BY <1>1, <2>1, CallFacts DEF Row
<1>3. GoodRow(u)
  BY <1>2 DEF GoodRow
<1>4. PICK todo : todo = {"name"} \union EmailCheck(e)
  OBVIOUS
<1>5. todo \in SUBSET {"name", "email"} /\ "name" \in todo
      /\ (RequireUniqueEmail /\ "email" \notin todo => e = NoEmail)
  BY <1>4, EmailCheckFacts
<1>6. Prepare(c, u, todo)
  BY <1>1, <1>4 DEF ConvertToRegistered
<1> QED
  BY <1>2, <1>3, <1>5, <1>6, PrepareStep

LEMMA WriteBackPreserves == ASSUME IInv, NEW c \in Calls, WriteBack(c) PROVE IInv'
<1>1. call[c].pc = "loaded" /\ Prepare(c, call[c].u, {})
  BY DEF WriteBack, Prepare
<1> QED
  BY <1>1, LoadedCopy, PrepareStep

LEMMA CheckNamePreserves == ASSUME IInv, NEW c \in Calls, CheckName(c) PROVE IInv'
<1>0. UNCHANGED <<store, now, users, drawn, rows, logins, historyVars>>
  BY DEF CheckName
<1>1. CASE ~NameFree(c)
  BY <1>0, <1>1, IdleStep DEF CheckName
<1>2. CASE NameFree(c)
  <2>1. PICK k : k = [call[c] EXCEPT !.todo = call[c].todo \ {"name"}]
    OBVIOUS
  <2>2. call' = [call EXCEPT ![c] = k] /\ "name" \in call[c].todo
    BY <1>2, <2>1 DEF CheckName
  <2>3. /\ k \in Call /\ k.pc = call[c].pc /\ k.u = call[c].u /\ k.todo = call[c].todo \ {"name"}
        /\ k.id = call[c].id /\ k.list = call[c].list /\ (k.fresh <=> call[c].fresh)
    BY <2>1, CallFacts DEF Call
  <2>4. \A j \in Ids \ {k.id} : Live(j) => users[j].name # k.u.name
    BY <1>2, <2>3 DEF NameFree, FindByName
  <2>5. WriterInv(k)
    <3> SUFFICES ASSUME k.pc \in {"create", "update"}, k.fresh
                 PROVE  GoodRow(k.u) /\ NameOK(k) /\ EmailOK(k) /\ OwnEmail(k)
      BY DEF WriterInv
    <3>1. GoodRow(call[c].u) /\ EmailOK(call[c]) /\ OwnEmail(call[c])
      BY <2>3, CallFacts DEF CallInv, WriterInv
    <3>2. NameOK(k)
      BY <2>4 DEF NameOK
    <3>3. EmailOK(k)
      BY <2>3, <3>1 DEF EmailOK
    <3>4. OwnEmail(k)
      BY <2>3 DEF OwnEmail
    <3> QED
      BY <2>3, <3>1, <3>2, <3>3, <3>4
  <2>6. CallInv(k)
    BY <2>3, <2>5, CallFacts DEF CallInv
  <2>7. GuestCopy(k)
    BY <2>3 DEF GuestCopy, IInv, FullInv
  <2> QED
    BY <1>0, <2>2, <2>3, <2>6, <2>7, CallFacts, LocalStep
<1> QED
  BY <1>1, <1>2

LEMMA CheckEmailPreserves == ASSUME IInv, NEW c \in Calls, CheckEmail(c) PROVE IInv'
<1>0. UNCHANGED <<store, now, users, drawn, rows, logins, historyVars>>
  BY DEF CheckEmail
<1>1. CASE ~EmailFree(c)
  BY <1>0, <1>1, IdleStep DEF CheckEmail
<1>2. CASE EmailFree(c)
  <2>1. PICK k : k = [call[c] EXCEPT !.todo = {}]
    OBVIOUS
  <2>2. call' = [call EXCEPT ![c] = k] /\ call[c].todo = {"email"}
    BY <1>2, <2>1 DEF CheckEmail
  <2>3. /\ k \in Call /\ k.pc = call[c].pc /\ k.u = call[c].u /\ k.todo = {}
        /\ k.id = call[c].id /\ k.list = call[c].list /\ (k.fresh <=> call[c].fresh)
    BY <2>1, CallFacts DEF Call
  <2>4. k.u.email = NoEmail \/ \A j \in Ids \ {k.id} : Live(j) => users[j].email # k.u.email
    BY <1>2, <2>3 DEF EmailFree, FindByEmail
  <2>5. WriterInv(k)
    <3> SUFFICES ASSUME k.pc \in {"create", "update"}, k.fresh
                 PROVE  GoodRow(k.u) /\ NameOK(k) /\ EmailOK(k) /\ OwnEmail(k)
      BY DEF WriterInv
    <3>1. GoodRow(call[c].u) /\ NameOK(call[c])
      BY <2>3, CallFacts DEF CallInv, WriterInv
    <3>2. NameOK(k)
      BY <2>2, <2>3, <3>1 DEF NameOK
    <3>3. EmailOK(k)
      BY <2>4 DEF EmailOK
    <3>4. OwnEmail(k)
      BY <2>3 DEF OwnEmail
    <3> QED
      BY <2>3, <3>1, <3>2, <3>3, <3>4
  <2>6. CallInv(k)
    BY <2>3, <2>5, CallFacts DEF CallInv
  <2>7. GuestCopy(k)
    BY <2>3 DEF GuestCopy, IInv, FullInv
  <2> QED
    BY <1>0, <2>2, <2>3, <2>6, <2>7, CallFacts, LocalStep
<1> QED
  BY <1>1, <1>2

LEMMA NextId ==
  ASSUME IInv, drawn < MaxUsers
  PROVE  /\ drawn + 1 \in Ids /\ drawn + 1 \in 0..MaxUsers /\ drawn \in Nat
         /\ 1..drawn \subseteq 1..(drawn + 1) /\ drawn + 1 \in 1..(drawn + 1)
         /\ drawn + 1 \notin 1..drawn /\ ~Known(drawn + 1)
<1>1. drawn \in Nat /\ MaxUsers \in Nat /\ drawn + 1 \in Ids
  BY Types, DirectoryBounds DEF Ids
<1>2. ~(drawn + 1 <= drawn)
  BY <1>1
<1>3. ~Known(drawn + 1)
  BY <1>1, <1>2 DEF IInv, AccountsInv
<1> QED
  BY <1>1, <1>3 DEF Ids

LEMMA CreatePreserves ==
  ASSUME IInv, NEW c \in Calls, NEW n \in Names, NEW e \in Emails \union {NoEmail}, Create(c, n, e)
  PROVE  IInv'
<1>1. PICK u : u = [name |-> n, email |-> e, anon |-> FALSE, born |-> 0]
  OBVIOUS
<1>2. PICK todo : todo = {"name"} \union EmailCheck(e)
  OBVIOUS
<1>3. PICK k : k = [pc |-> "create", id |-> drawn + 1, fresh |-> TRUE, todo |-> todo, u |-> u, list |-> {}]
  OBVIOUS
<1>4. /\ drawn < MaxUsers /\ drawn' = drawn + 1 /\ call' = [call EXCEPT ![c] = k]
      /\ UNCHANGED <<store, now, users, rows, logins, raced, gone, ghosts, full, overlap, lost>>
  BY <1>1, <1>2, <1>3 DEF Create, historyVars
<1>5. u \in Row /\ u.name = n /\ u.email = e /\ ~u.anon /\ GoodRow(u)
  <2>1. 0 \in 0..MaxTime
    BY DirectoryBounds
  <2> QED
    BY <1>1, <2>1 DEF Row, GoodRow
<1>6. todo \in SUBSET {"name", "email"} /\ "name" \in todo
      /\ (RequireUniqueEmail /\ "email" \notin todo => e = NoEmail)
  BY <1>2, EmailCheckFacts
<1>7. k \in Call /\ k.pc = "create" /\ k.id = drawn + 1 /\ k.fresh /\ k.todo = todo /\ k.u = u
      /\ k.list = {}
  BY <1>3, <1>4, <1>5, <1>6, NextId DEF Call
<1>8. call'[c] = k /\ \A d \in Calls : d # c => call'[d] = call[d]
  BY <1>4, Types
<1>9. \A i : (Live(i)' <=> Live(i)) /\ (Known(i)' <=> Known(i))
  BY <1>4 DEF Live, Known
<1>10. CallInv(k)'
  <2>1. WriterInv(k)'
    BY <1>5, <1>6, <1>7 DEF WriterInv, GoodRow, NameOK, EmailOK, OwnEmail
  <2> QED
    BY <1>4, <1>7, <1>9, <2>1, NextId DEF CallInv
<1>11. ASSUME NEW d \in Calls, d # c
       PROVE  CallInv(call[d])' /\ (call[d].pc = "create" => call[d].id # drawn + 1)
  <2>1. PICK j : j = call[d] /\ call'[d] = j /\ CallInv(j)
    BY <1>8, <1>11, CallFacts
  <2>2. WriterInv(j)'
    BY <1>4, <1>9, <2>1 DEF CallInv, WriterInv, NameOK, EmailOK, OwnEmail
  <2>3. CallInv(j)'
    BY <1>4, <1>9, <2>1, <2>2, NextId DEF CallInv
  <2> QED
    BY <1>4, <2>1, <2>3, NextId DEF CallInv
<1>12. CallsInv'
  <2>1. \A d \in Calls : CallInv(call[d])'
    BY <1>8, <1>10, <1>11
  <2>2. ASSUME NEW d \in Calls, NEW f \in Calls, d # f, call'[d].pc = "create", call'[f].pc = "create"
        PROVE  call'[d].id # call'[f].id
    <3>1. CASE d = c
      BY <1>7, <1>8, <1>11, <2>2, <3>1
    <3>2. CASE f = c
      BY <1>7, <1>8, <1>11, <2>2, <3>2
    <3>3. CASE d # c /\ f # c
      BY <1>8, <2>2, <3>3 DEF IInv, CallsInv
    <3> QED
      BY <3>1, <3>2, <3>3
  <2> QED
    BY <2>1, <2>2 DEF CallsInv
<1>13. TypeOK'
  <2>1. call' \in [Calls -> Call]
    BY <1>4, <1>7, Types
  <2>2. \A d \in Calls : call'[d].pc = "loaded" /\ call'[d].fresh => call'[d].u = users'[call'[d].id]
    BY <1>4, <1>7, <1>8, CallFacts
  <2>3. drawn' \in 0..MaxUsers
    BY <1>4, NextId
  <2> QED
    BY <1>4, <2>1, <2>2, <2>3 DEF IInv, TypeOK
<1>14. AccountsInv'
  <2>1. \A i \in Ids : Known(i)' => i <= drawn'
    <3>1. \A i \in Ids : i \in Nat /\ (Known(i) => i <= drawn)
      BY DirectoryBounds DEF IInv, AccountsInv, Ids
    <3> QED
      BY <1>4, <1>9, <3>1, NextId
  <2> QED
    BY <1>4, <1>9, <2>1 DEF IInv, AccountsInv
<1>15. IdentifiersAreUnique' /\ DeletedLeavesNothing' /\ PurgeSparesSettledAccounts'
  BY <1>4, <1>9 DEF IInv, IdentifiersAreUnique, DeletedLeavesNothing, ForeignKeys,
     PurgeSparesSettledAccounts
<1>16. FullInv'
  <2>1. GuestCopy(k)
    BY <1>5, <1>7 DEF GuestCopy
  <2>2. \A d \in Calls : GuestCopy(call'[d])
    BY <1>8, <2>1 DEF IInv, FullInv
  <2> QED
    BY <1>4, <2>2, FullKept
<1> QED
  BY <1>12, <1>13, <1>14, <1>15, <1>16 DEF IInv

-----------------------------------------------------------------------------
(* Rows are written *)

LEMMA StaleFacts ==
  ASSUME NEW k \in Call, NEW is
  PROVE  /\ Stale(k, is) \in Call /\ Stale(k, is).pc = k.pc /\ Stale(k, is).id = k.id
         /\ Stale(k, is).list = k.list
         /\ Stale(k, is).fresh => Stale(k, is) = k /\ k.id \notin is
         /\ k.fresh /\ k.id \notin is => Stale(k, is) = k
<1>1. CASE k.fresh /\ k.id \in is
  <2> DEFINE l == [k EXCEPT !.fresh = FALSE, !.u = NoRow]
  <2>1. l \in Call /\ l.pc = k.pc /\ l.id = k.id /\ l.list = k.list /\ ~l.fresh
    BY Nulls DEF Call
  <2>2. Stale(k, is) = l
    BY <1>1 DEF Stale
  <2> QED
    BY <1>1, <2>1, <2>2
<1>2. CASE ~(k.fresh /\ k.id \in is)
  BY <1>2 DEF Stale
<1> QED
  BY <1>1, <1>2

\* The row of account i becomes u, written by call c; every other copy of it is
\* out of date.
LEMMA WriteStep ==
  ASSUME IInv, NEW c \in Calls, call[c].pc \in {"create", "update"}, call[c].fresh,
         call[c].todo = {}, Accepts(call[c].id, call[c].u), Written(c),
         users' = [users EXCEPT ![call[c].id] = call[c].u],
         call' \in [Calls -> Call], call'[c] = Idle,
         \A d \in Calls : d # c => call'[d] = Stale(call[d], {call[c].id}),
         UNCHANGED <<store, now, drawn, rows, logins, gone, ghosts, lost>>
  PROVE  IInv'
<1>1. PICK i, u : i = call[c].id /\ u = call[c].u
  OBVIOUS
<1>2. /\ i \in Ids /\ i <= drawn /\ u \in Row /\ GoodRow(u) /\ NameOK(call[c]) /\ EmailOK(call[c])
      /\ i \notin gone /\ (call[c].pc = "update" => Live(i)) /\ (call[c].pc = "create" => ~Known(i))
  <2>1. CallInv(call[c]) /\ u \in Row /\ drawn \in 0..MaxUsers
    BY <1>1, CallFacts, Types
  <2>2. CASE call[c].pc = "create"
    <3>1. i \in 1..drawn /\ ~Known(i)
      BY <1>1, <2>1, <2>2 DEF CallInv
    <3>2. i \in Ids /\ i <= drawn
      BY <2>1, <3>1, DirectoryBounds DEF Ids
    <3> QED
      BY <1>1, <2>1, <2>2, <3>1, <3>2 DEF CallInv, WriterInv, Known
  <2>3. CASE call[c].pc = "update"
    <3>1. i \in Ids /\ Live(i)
      BY <1>1, <2>1, <2>3 DEF CallInv
    <3>2. i <= drawn /\ i \notin gone
      BY <3>1 DEF IInv, AccountsInv, Known, DeletedLeavesNothing
    <3> QED
      BY <1>1, <2>1, <2>3, <3>1, <3>2 DEF CallInv, WriterInv
  <2> QED
    BY <2>2, <2>3
<1>3. \A j \in Ids : users'[j] = (IF j = i THEN u ELSE users[j])
  BY <1>1, <1>2, Types
<1>4. \A j : Live(j)' <=> (Live(j) \/ j = i)
  BY <1>2, <1>3, RowFields DEF Live
<1>5. \A j : Known(j)' <=> (Known(j) \/ j = i)
  BY <1>4 DEF Known
<1>6. raced \subseteq raced' /\ raced' \subseteq Names \union Emails
  BY Types DEF Written
<1>7. ASSUME NEW d \in Calls, d # c
      PROVE  /\ call'[d].fresh /\ call'[d].pc \in {"create", "update"} => WriterInv(call[d])'
             /\ CallInv(call[d])'
  <2>1. PICK k \in Call : k = call[d] /\ CallInv(k)
    BY CallFacts
  <2>2. PICK l \in Call : l = call'[d] /\ l.pc = k.pc /\ l.id = k.id /\ l.list = k.list
                          /\ (l.fresh => l = k /\ k.id # i) /\ (k.fresh /\ k.id # i => l = k)
    BY <1>1, <1>7, <2>1, StaleFacts
  <2>3. k.pc = "create" => k.id # i
    BY <1>1, <1>2, <1>7, <2>1 DEF IInv, CallsInv, CallInv, Known
  <2>4. ASSUME l.fresh, l.pc \in {"create", "update"} PROVE WriterInv(l)'
    <3>1. l = k /\ k.id # i /\ GoodRow(k.u) /\ NameOK(k) /\ EmailOK(k) /\ OwnEmail(k)
      BY <2>1, <2>2, <2>4 DEF CallInv, WriterInv
    <3>2. NameOK(k)'
      <4> SUFFICES ASSUME store = "mem", "name" \notin k.todo, k.u.name # Guest,
                          k.u.name \notin raced', NEW j \in Ids, j # k.id, Live(j)',
                          users'[j].name = k.u.name
                   PROVE  FALSE
        BY DEF NameOK
      <4>1. j = i
        BY <1>3, <1>4, <1>6, <3>1 DEF NameOK
      <4>2. u.name = k.u.name /\ u.name \in Names
        BY <1>2, <1>3, <4>1, RowFields
      <4>3. u.name \in Claimed(c)
        BY <1>7, <2>1, <2>2, <2>4, <4>2 DEF Claimed
      <4>4. u.name \in raced'
        BY <1>1, <4>2, <4>3 DEF Written
      <4> QED
        BY <4>2, <4>4
    <3>3. EmailOK(k)'
      <4> SUFFICES ASSUME RequireUniqueEmail, "email" \notin k.todo, k.u.email # NoEmail,
                          k.u.email \notin raced', NEW j \in Ids, j # k.id, Live(j)',
                          users'[j].email = k.u.email
                   PROVE  FALSE
        BY DEF EmailOK
      <4>1. j = i
        BY <1>3, <1>4, <1>6, <3>1 DEF EmailOK
      <4>2. u.email = k.u.email /\ u.email \in Emails
        BY <1>2, <1>3, <4>1, RowFields
      <4>3. CASE k.todo = {}
        <5>1. u.email \in Claimed(c)
          BY <1>7, <2>1, <2>2, <2>4, <4>2, <4>3 DEF Claimed
        <5>2. u.email \in raced'
          BY <1>1, <4>2, <5>1 DEF Written
        <5> QED
          BY <4>2, <5>2
      <4>4. CASE k.todo = {"name"}
        <5>1. k.pc = "update" /\ k.u.email = users[k.id].email
          BY <3>1, <4>4 DEF OwnEmail
        <5>2. k.id \in Ids /\ Live(k.id)
          BY <2>1, <2>2, <2>4, <3>1, <5>1 DEF CallInv
        <5>3. u.email \in raced
          BY <1>1, <1>2, <3>1, <4>2, <5>1, <5>2 DEF EmailOK
        <5> QED
          BY <1>6, <4>2, <5>3
      <4>5. k.todo \in SUBSET {"name", "email"}
        BY <2>1, CallFacts
      <4>6. k.todo = {} \/ k.todo = {"name"}
        BY <4>5
      <4> QED
        BY <4>3, <4>4, <4>6
    <3>4. OwnEmail(k)'
      <4>1. k.pc = "update" => users'[k.id] = users[k.id]
        BY <1>3, <2>1, <3>1 DEF CallInv
      <4> QED
        BY <3>1, <4>1 DEF OwnEmail
    <3> QED
      BY <3>1, <3>2, <3>3, <3>4 DEF WriterInv, GoodRow
  <2>5. WriterInv(l)'
    BY <2>4 DEF WriterInv
  <2>6. CallInv(l)'
    BY <1>4, <1>5, <2>1, <2>2, <2>3, <2>5 DEF CallInv
  <2> QED
    BY <2>2, <2>5, <2>6
<1>8. CallsInv'
  <2>1. \A d \in Calls : CallInv(call[d])'
    BY <1>7, IdleInv
  <2>2. ASSUME NEW d \in Calls, NEW f \in Calls, d # f, call'[d].pc = "create", call'[f].pc = "create"
        PROVE  call'[d].id # call'[f].id
    <3>1. d # c /\ f # c
      BY <2>2, Nulls
    <3> QED
      BY <2>2, <3>1, CallFacts, StaleFacts DEF IInv, CallsInv
  <2> QED
    BY <2>1, <2>2 DEF CallsInv
<1>9. TypeOK'
  <2>1. users' \in [Ids -> Row]
    BY <1>1, <1>2, Types
  <2>2. ASSUME NEW d \in Calls, call'[d].pc = "loaded", call'[d].fresh
        PROVE  call'[d].u = users'[call'[d].id]
    <3>1. d # c
      BY <2>2, Nulls
    <3>2. call'[d] = call[d] /\ call[d].id # i
      BY <1>1, <2>2, <3>1, CallFacts, StaleFacts
    <3>3. call[d].u = users[call[d].id] /\ call[d].id \in Ids
      BY <2>2, <3>2, CallFacts DEF CallInv
    <3> QED
      BY <1>3, <3>2, <3>3
  <2>3. full' \subseteq Ids /\ overlap' \subseteq full'
    BY <1>1, <1>2, Types DEF Written, Promoted
  <2> QED
    BY <1>6, <2>1, <2>2, <2>3 DEF IInv, TypeOK
<1>10. AccountsInv'
  BY <1>2, <1>3, <1>4, <1>5 DEF IInv, AccountsInv
<1>11. IdentifiersAreUnique'
  <2>1. ASSUME NEW j \in Ids, j # i, Live(j)
        PROVE  /\ u.name = users[j].name /\ u.name # Guest => store = "mem" /\ u.name \in raced
               /\ RequireUniqueEmail /\ u.email = users[j].email /\ u.email # NoEmail => u.email \in raced
    <3>1. store # "mem" => u.name = Guest \/ users[j].name # u.name
      BY <1>1, <2>1 DEF Accepts, NameIndex
    <3> QED
      BY <1>1, <1>2, <2>1, <3>1 DEF NameOK, EmailOK
  <2> QED
    BY <1>3, <1>4, <1>6, <2>1 DEF IInv, IdentifiersAreUnique
<1>12. DeletedLeavesNothing'
  BY <1>2, <1>4 DEF IInv, DeletedLeavesNothing, ForeignKeys
<1>13. /\ full' = full \union (IF u.anon THEN {} ELSE {i})
       /\ overlap \subseteq overlap' /\ overlap' \subseteq full'
       /\ \A d \in Calls : i \in call[d].list /\ ~u.anon => i \in overlap'
  <2>1. Promoted(c) = IF u.anon THEN {} ELSE {i}
    BY <1>1 DEF Promoted
  <2> QED
    BY <2>1, Types DEF Written
<1>14. PurgeSparesSettledAccounts'
  BY <1>13 DEF IInv, PurgeSparesSettledAccounts
<1>15. ASSUME NEW j \in full' PROVE Known(j)' /\ (Live(j)' => ~users'[j].anon)
  <2>1. j \in full \/ (j = i /\ ~u.anon)
    BY <1>13, <1>15
  <2>2. CASE j = i
    <3>1. i \in full => ~u.anon
      BY <1>1 DEF IInv, FullInv, GuestCopy
    <3> QED
      BY <1>2, <1>3, <1>5, <2>1, <2>2, <3>1
  <2>3. CASE j # i
    BY <1>3, <1>4, <1>5, <2>1, <2>3, Types DEF IInv, FullInv
  <2> QED
    BY <2>2, <2>3
<1>16. ASSUME NEW d \in Calls PROVE GuestCopy(call[d])'
  <2>1. CASE d = c
    BY <2>1, Nulls DEF GuestCopy
  <2>2. CASE d # c
    <3>1. PICK k \in Call : k = call[d] /\ GuestCopy(k)
      BY CallFacts DEF IInv, FullInv
    <3>2. PICK l \in Call : l = call'[d] /\ l.list = k.list /\ (l.fresh => l = k /\ k.id # i)
      BY <1>1, <2>2, <3>1, StaleFacts
    <3>3. \A j \in l.list : j \in full' => j \in overlap'
      BY <1>13, <3>1, <3>2 DEF GuestCopy
    <3>4. l.pc \in {"create", "update"} /\ l.fresh /\ l.id \in full' => ~l.u.anon
      BY <1>13, <3>1, <3>2 DEF GuestCopy
    <3> QED
      BY <3>2, <3>3, <3>4 DEF GuestCopy
  <2> QED
    BY <2>1, <2>2
<1>17. FullInv'
  BY <1>15, <1>16 DEF FullInv
<1> QED
  BY <1>8, <1>9, <1>10, <1>11, <1>12, <1>14, <1>17 DEF IInv

LEMMA InsertPreserves == ASSUME IInv, NEW c \in Calls, Insert(c) PROVE IInv'
<1>1. /\ call[c].pc = "create" /\ call[c].todo = {} /\ call' = [call EXCEPT ![c] = Idle]
      /\ UNCHANGED <<store, now, drawn, rows, logins, gone, ghosts, lost>>
  BY DEF Insert
<1>2. call' \in [Calls -> Call] /\ call'[c] = Idle /\ \A d \in Calls : d # c => call'[d] = call[d]
  BY <1>1, Types, Nulls
<1>3. CASE Accepts(call[c].id, call[c].u)
  <2>1. users' = [users EXCEPT ![call[c].id] = call[c].u] /\ Written(c)
    BY <1>3 DEF Insert
  <2>2. call[c].fresh /\ ~Known(call[c].id)
    BY <1>1, CallFacts DEF CallInv
  <2>3. ASSUME NEW d \in Calls, d # c PROVE ~(call[d].fresh /\ call[d].id = call[c].id)
    <3>1. CallInv(call[d])
      BY CallFacts
    <3>2. call[d].pc = "create" => call[d].id # call[c].id
      BY <1>1, <2>3 DEF IInv, CallsInv
    <3> QED
      BY <2>2, <3>1, <3>2 DEF CallInv
  <2>4. \A d \in Calls : d # c => call'[d] = Stale(call[d], {call[c].id})
    BY <1>2, <2>3 DEF Stale
  <2> QED
    BY <1>1, <1>2, <1>3, <2>1, <2>2, <2>4, WriteStep
<1>4. CASE ~Accepts(call[c].id, call[c].u)
  <2>1. UNCHANGED <<users, raced, full, overlap>>
    BY <1>4 DEF Insert
  <2> QED
    BY <1>1, <2>1, IdleStep DEF historyVars
<1> QED
  BY <1>3, <1>4

LEMMA UpdatePreserves == ASSUME IInv, NEW c \in Calls, Update(c) PROVE IInv'
<1>1. /\ call[c].pc = "update" /\ call[c].todo = {}
      /\ UNCHANGED <<store, now, drawn, rows, logins, gone, ghosts, lost>>
  BY DEF Update
<1>2. CASE Changes(c) /\ Accepts(call[c].id, call[c].u)
  <2>1. /\ users' = [users EXCEPT ![call[c].id] = call[c].u] /\ Written(c) /\ call[c].fresh
        /\ call' = [Outdate({call[c].id}) EXCEPT ![c] = Idle]
    BY <1>2 DEF Update, Changes
  <2>2. Outdate({call[c].id}) \in [Calls -> Call]
    BY CallFacts, StaleFacts DEF Outdate
  <2>3. call' \in [Calls -> Call] /\ call'[c] = Idle
    BY <2>1, <2>2, Nulls
  <2>4. \A d \in Calls : d # c => call'[d] = Stale(call[d], {call[c].id})
    BY <2>1, <2>2 DEF Outdate
  <2> QED
    BY <1>1, <1>2, <2>1, <2>3, <2>4, WriteStep
<1>3. CASE ~(Changes(c) /\ Accepts(call[c].id, call[c].u))
  <2>1. UNCHANGED <<users, raced, full, overlap>> /\ call' = [call EXCEPT ![c] = Idle]
    BY <1>3 DEF Update
  <2> QED
    BY <1>1, <2>1, IdleStep DEF historyVars
<1> QED
  BY <1>2, <1>3

LEMMA CreateAnonymousPreserves == ASSUME IInv, NEW c \in Calls, CreateAnonymous(c) PROVE IInv'
<1>1. PICK u, i : u = [name |-> Guest, email |-> NoEmail, anon |-> TRUE, born |-> now] /\ i = drawn + 1
  OBVIOUS
<1>2. /\ drawn < MaxUsers /\ drawn' = i /\ users' = [users EXCEPT ![i] = u]
      /\ UNCHANGED <<store, now, rows, logins, call, raced, gone, ghosts, full, overlap, lost>>
  BY <1>1 DEF CreateAnonymous, historyVars
<1>3. u \in Row /\ u.name = Guest /\ u.email = NoEmail /\ GoodRow(u)
  BY <1>1, Types DEF Row, GoodRow
<1>4. i \in Ids /\ i \in 0..MaxUsers /\ 1..drawn \subseteq 1..i /\ i \notin 1..drawn /\ ~Known(i)
  BY <1>1, <1>2, NextId
<1>5. \A j \in Ids : users'[j] = (IF j = i THEN u ELSE users[j])
  BY <1>2, <1>4, Types
<1>6. \A j : Live(j)' <=> (Live(j) \/ j = i)
  BY <1>3, <1>4, <1>5, RowFields DEF Live
<1>7. \A j : Known(j)' <=> (Known(j) \/ j = i)
  BY <1>2, <1>6 DEF Known
<1>8. ASSUME NEW d \in Calls PROVE CallInv(call[d])'
  <2>1. PICK k \in Call : k = call[d] /\ CallInv(k) /\ call'[d] = k
    BY <1>2, CallFacts
  <2>2. WriterInv(k)'
    <3> SUFFICES ASSUME k.pc \in {"create", "update"}, k.fresh
                 PROVE  (GoodRow(k.u) /\ NameOK(k) /\ EmailOK(k) /\ OwnEmail(k))'
      BY DEF WriterInv
    <3>1. GoodRow(k.u) /\ NameOK(k) /\ EmailOK(k) /\ OwnEmail(k)
      BY <2>1 DEF CallInv, WriterInv
    <3>2. NameOK(k)' /\ EmailOK(k)'
      BY <1>2, <1>3, <1>5, <1>6, <3>1 DEF NameOK, EmailOK
    <3>3. OwnEmail(k)'
      <4>1. k.pc = "update" => k.id \in Ids /\ k.id # i
        BY <1>4, <2>1 DEF CallInv
      <4> QED
        BY <1>5, <3>1, <4>1 DEF OwnEmail
    <3> QED
      BY <3>1, <3>2, <3>3 DEF GoodRow
  <2>3. CallInv(k)'
    BY <1>2, <1>4, <1>6, <1>7, <2>1, <2>2 DEF CallInv
  <2> QED
    BY <2>1, <2>3
<1>9. CallsInv'
  BY <1>2, <1>8 DEF IInv, CallsInv
<1>10. TypeOK'
  <2>1. users' \in [Ids -> Row]
    BY <1>2, <1>3, <1>4, Types
  <2>2. ASSUME NEW d \in Calls, call[d].pc = "loaded", call[d].fresh
        PROVE  call[d].u = users'[call[d].id]
    <3>1. call[d].u = users[call[d].id] /\ call[d].id \in Ids /\ Known(call[d].id)
      BY <2>2, CallFacts DEF CallInv
    <3> QED
      BY <1>4, <1>5, <3>1
  <2> QED
    BY <1>2, <1>4, <2>1, <2>2 DEF IInv, TypeOK
<1>11. AccountsInv'
  <2>1. ASSUME NEW j \in Ids, Known(j)' PROVE j <= drawn'
    <3>1. j \in Nat /\ drawn \in Nat /\ (Known(j) => j <= drawn)
      BY <1>2, NextId, DirectoryBounds DEF IInv, AccountsInv, Ids
    <3> QED
      BY <1>1, <1>2, <1>7, <2>1, <3>1
  <2>2. \A j \in Ids : Live(j)' => GoodRow(users[j])'
    BY <1>3, <1>5, <1>6 DEF IInv, AccountsInv, GoodRow
  <2> QED
    BY <1>2, <1>7, <2>1, <2>2 DEF IInv, AccountsInv
<1>12. IdentifiersAreUnique'
  BY <1>2, <1>3, <1>5, <1>6 DEF IInv, IdentifiersAreUnique
<1>13. DeletedLeavesNothing' /\ PurgeSparesSettledAccounts'
  BY <1>2, <1>4, <1>6 DEF IInv, DeletedLeavesNothing, ForeignKeys, PurgeSparesSettledAccounts, Known
<1>14. FullInv'
  <2>1. \A j \in full : j \in Ids /\ j # i /\ Known(j) /\ (Live(j) => ~users[j].anon)
    BY <1>4, Types DEF IInv, FullInv
  <2>2. \A j \in full : Known(j)' /\ (Live(j)' => ~users'[j].anon)
    BY <1>5, <1>6, <1>7, <2>1
  <2>3. \A d \in Calls : GuestCopy(call[d])'
    BY <1>2 DEF IInv, FullInv, GuestCopy
  <2> QED
    BY <1>2, <2>2, <2>3 DEF FullInv
<1> QED
  BY <1>9, <1>10, <1>11, <1>12, <1>13, <1>14 DEF IInv

-----------------------------------------------------------------------------
(* Accounts are removed *)

\* Every table that has rows of accounts is in the cascade of every store.
LEMMA CascadeIsComplete == Tables \subseteq Cascade /\ "logins" \in Cascade
BY DirectoryBounds DEF Cascade, MemCascade, GormCascade, FKCascade, Satellites

\* What removing accounts may do to the state k of a call, that becomes l.
Survives(k, l, is) ==
  \/ l = Idle
  \/ /\ l.pc = k.pc /\ l.id = k.id /\ l.list \subseteq k.list
     /\ l.fresh => l = k /\ k.id \notin is
     /\ k.fresh /\ k.id \notin is => l.fresh

LEMMA StaleSurvives == ASSUME NEW k \in Call, NEW is PROVE Survives(k, Stale(k, is), is)
BY StaleFacts DEF Survives

\* The accounts is, all of them known, go with everything they own.
LEMMA RemoveStep ==
  ASSUME IInv, NEW is \in SUBSET Ids, \A i \in is : Known(i), RemoveUsers(is),
         call' \in [Calls -> Call], \A d \in Calls : Survives(call[d], call'[d], is),
         lost' \subseteq gone', lost' \subseteq overlap,
         UNCHANGED <<store, now, drawn, raced, ghosts, full, overlap>>
  PROVE  IInv'
<1>1. \A j \in Ids : users'[j] = (IF j \in is THEN NoRow ELSE users[j])
  BY DEF RemoveUsers
<1>2. \A j : Live(j)' <=> (Live(j) /\ j \notin is)
  BY <1>1 DEF Live
<1>3. gone' = gone \union {i \in is : Live(i)}
  BY DEF RemoveUsers
<1>4. \A j : Known(j)' <=> Known(j)
  BY <1>2, <1>3 DEF Known
<1>5. /\ rows' \subseteq rows /\ (\A r \in rows' : r[2] \notin is)
      /\ \A l \in Logins : logins'[l] = (IF logins[l] \in is THEN NoId ELSE logins[l])
  <2>1. \A r \in rows : r[1] \in Cascade
    BY Types, CascadeIsComplete
  <2> QED
    BY <2>1, CascadeIsComplete DEF RemoveUsers
<1>6. ASSUME NEW d \in Calls
      PROVE  /\ CallInv(call[d])'
             /\ call'[d].pc = "create" => call[d].pc = "create" /\ call'[d].id = call[d].id
             /\ call'[d].pc = "loaded" /\ call'[d].fresh => call'[d].u = users'[call'[d].id]
  <2>1. PICK k, l : k = call[d] /\ l = call'[d] /\ k \in Call /\ CallInv(k) /\ Survives(k, l, is)
                    /\ (k.pc = "loaded" /\ k.fresh => k.u = users[k.id])
    BY CallFacts
  <2>2. CASE l = Idle
    BY <2>1, <2>2, IdleInv, Nulls
  <2>3. CASE l # Idle
    <3>1. /\ l.pc = k.pc /\ l.id = k.id /\ l.list \subseteq k.list
          /\ (l.fresh => l = k /\ k.id \notin is) /\ (k.fresh /\ k.id \notin is => l.fresh)
      BY <2>1, <2>3 DEF Survives
    <3>2. WriterInv(l)'
      <4> SUFFICES ASSUME l.pc \in {"create", "update"}, l.fresh
                   PROVE  (GoodRow(l.u) /\ NameOK(l) /\ EmailOK(l) /\ OwnEmail(l))'
        BY DEF WriterInv
      <4>1. l = k /\ k.id \notin is /\ GoodRow(l.u) /\ NameOK(l) /\ EmailOK(l) /\ OwnEmail(l)
        BY <2>1, <3>1 DEF CallInv, WriterInv
      <4>2. NameOK(l)' /\ EmailOK(l)'
        BY <1>1, <1>2, <4>1 DEF NameOK, EmailOK
      <4>3. OwnEmail(l)'
        BY <1>1, <2>1, <4>1 DEF OwnEmail, CallInv
      <4> QED
        BY <4>1, <4>2, <4>3 DEF GoodRow
    <3>3. k.pc = "create" => k.fresh /\ k.id \notin is
      BY <2>1 DEF CallInv
    <3>4. CallInv(l)'
      BY <1>2, <1>4, <2>1, <3>1, <3>2, <3>3 DEF CallInv
    <3>5. l.pc = "loaded" /\ l.fresh => l.u = users'[l.id]
      BY <1>1, <2>1, <3>1 DEF CallInv
    <3> QED
      BY <2>1, <3>1, <3>4, <3>5
  <2> QED
    BY <2>2, <2>3
<1>7. CallsInv'
  <2>1. ASSUME NEW d \in Calls, NEW f \in Calls, d # f, call'[d].pc = "create", call'[f].pc = "create"
        PROVE  call'[d].id # call'[f].id
    BY <1>6, <2>1 DEF IInv, CallsInv
  <2> QED
    BY <1>6, <2>1 DEF CallsInv
<1>8. TypeOK'
  <2>1. users' \in [Ids -> Row] /\ logins' \in [Logins -> 0..MaxUsers]
    <3>1. users' \in [Ids -> Row]
      BY Nulls, Types DEF RemoveUsers
    <3>2. NoId \in 0..MaxUsers
      BY DirectoryBounds DEF NoId
    <3> QED
      BY <3>1, <3>2, Types DEF RemoveUsers
  <2>2. gone' \subseteq Ids /\ ghosts' \subseteq gone' /\ rows' \subseteq Tables \X Ids
    BY <1>3, <1>5, Types
  <2> QED
    BY <1>6, <2>1, <2>2 DEF IInv, TypeOK
<1>9. AccountsInv'
  BY <1>1, <1>2, <1>4, <1>5 DEF IInv, AccountsInv
<1>10. IdentifiersAreUnique'
  BY <1>1, <1>2 DEF IInv, IdentifiersAreUnique
<1>11. DeletedLeavesNothing'
  <2> SUFFICES ASSUME NEW i \in gone'
               PROVE  /\ ~Live(i)'
                      /\ (\E r \in rows' : r[2] = i) \/ (\E l \in Logins : logins'[l] = i)
                           => i \in ghosts /\ ~ForeignKeys
    BY DEF DeletedLeavesNothing, ForeignKeys
  <2>0. i \in Ids /\ 0 \notin Ids
    <3>1. i \in Ids
      BY <1>3, Types
    <3> QED
      BY <3>1, DirectoryBounds DEF Ids
  <2>1. CASE i \in is
    BY <1>2, <1>5, <2>0, <2>1 DEF NoId
  <2>2. CASE i \notin is
    <3>1. i \in gone
      BY <1>3, <2>2
    <3> QED
      BY <1>2, <1>5, <2>0, <2>2, <3>1 DEF IInv, DeletedLeavesNothing, NoId
  <2> QED
    BY <2>1, <2>2
<1>12. PurgeSparesSettledAccounts'
  BY DEF PurgeSparesSettledAccounts
<1>13. ASSUME NEW d \in Calls PROVE GuestCopy(call[d])'
  <2>1. PICK k, l : k = call[d] /\ l = call'[d] /\ GuestCopy(k) /\ Survives(k, l, is)
    BY DEF IInv, FullInv
  <2>2. CASE l = Idle
    BY <2>1, <2>2, Nulls DEF GuestCopy
  <2>3. CASE l # Idle
    BY <2>1, <2>3 DEF Survives, GuestCopy
  <2> QED
    BY <2>2, <2>3
<1>14. FullInv'
  <2>1. \A j \in full : Known(j)' /\ (Live(j)' => ~users'[j].anon)
    BY <1>1, <1>2, <1>4, Types DEF IInv, FullInv
  <2> QED
    BY <1>13, <2>1 DEF FullInv
<1> QED
  BY <1>7, <1>8, <1>9, <1>10, <1>11, <1>12, <1>14 DEF IInv

LEMMA OutdateTyped ==
  ASSUME IInv, NEW is
  PROVE  /\ Outdate(is) \in [Calls -> Call]
         /\ \A d \in Calls : Outdate(is)[d] = Stale(call[d], is) /\ Survives(call[d], Outdate(is)[d], is)
BY CallFacts, StaleFacts, StaleSurvives DEF Outdate

LEMMA DeletePreserves == ASSUME IInv, NEW c \in Calls, Delete(c) PROVE IInv'
<1>1. PICK is : is = {call[c].id}
  OBVIOUS
<1>2. /\ call[c].pc = "loaded" /\ RemoveUsers(is) /\ call' = [Outdate(is) EXCEPT ![c] = Idle]
      /\ UNCHANGED <<store, now, drawn, raced, ghosts, full, overlap, lost>>
  BY <1>1 DEF Delete
<1>3. is \in SUBSET Ids /\ \A i \in is : Known(i)
  BY <1>1, <1>2, CallFacts DEF CallInv
<1>4. call' \in [Calls -> Call] /\ call'[c] = Idle /\ \A d \in Calls : d # c => call'[d] = Outdate(is)[d]
  BY <1>2, OutdateTyped, Nulls
<1>5. \A d \in Calls : Survives(call[d], call'[d], is)
  <2>1. Survives(call[c], call'[c], is)
    BY <1>4 DEF Survives
  <2> QED
    BY <1>4, <2>1, OutdateTyped
<1>6. lost' \subseteq gone' /\ lost' \subseteq overlap
  BY <1>2, Types DEF RemoveUsers, IInv, PurgeSparesSettledAccounts
<1> QED
  BY <1>2, <1>3, <1>4, <1>5, <1>6, RemoveStep

LEMMA PurgeAnonymousUsersPreserves ==
  ASSUME IInv, NEW c \in Calls, NEW cutoff, PurgeAnonymousUsers(c, cutoff) PROVE IInv'
<1>1. PICK is : is = {i \in Ids : PurgeMatches(i, cutoff)}
  OBVIOUS
<1>2. /\ store # "gorm" /\ RemoveUsers(is) /\ Purged(is) /\ call' = Outdate(is)
      /\ UNCHANGED <<store, now, drawn, raced, ghosts, full, overlap>>
  BY <1>1 DEF PurgeAnonymousUsers
<1>3. is \in SUBSET Ids /\ \A i \in is : Known(i)
  BY <1>1 DEF PurgeMatches, Known
<1>4. lost' \subseteq gone' /\ lost' \subseteq overlap
  <2>1. is \intersect full = {}
    BY <1>1 DEF PurgeMatches, IInv, FullInv
  <2>2. lost' = lost
    BY <1>2, <2>1 DEF Purged
  <2> QED
    BY <1>2, <2>2, Types DEF RemoveUsers, IInv, PurgeSparesSettledAccounts
<1> QED
  BY <1>2, <1>3, <1>4, OutdateTyped, RemoveStep

LEMMA PurgeNextPreserves == ASSUME IInv, NEW c \in Calls, NEW i \in Ids, PurgeNext(c, i) PROVE IInv'
<1>1. PICK is, o : is = {i} /\ o = Outdate(is)
  OBVIOUS
<1>2. /\ call[c].pc = "purge" /\ i \in call[c].list /\ RemoveUsers(is) /\ Purged(is)
      /\ call' = [o EXCEPT ![c].list = @ \ {i}]
      /\ UNCHANGED <<store, now, drawn, raced, ghosts, full, overlap>>
  BY <1>1 DEF PurgeNext
<1>3. is \in SUBSET Ids /\ (\A j \in is : Known(j)) /\ store = "gorm" /\ ~call[c].fresh
  BY <1>1, <1>2, CallFacts DEF CallInv
<1>4. o \in [Calls -> Call] /\ o[c] = call[c] /\ \A d \in Calls : Survives(call[d], o[d], is)
  BY <1>1, <1>3, OutdateTyped DEF Stale
<1>5. PICK k : k = [call[c] EXCEPT !.list = call[c].list \ {i}]
  OBVIOUS
<1>6. call' = [o EXCEPT ![c] = k]
  BY <1>2, <1>4, <1>5
<1>7. /\ k \in Call /\ k.pc = call[c].pc /\ k.id = call[c].id /\ k.list \subseteq call[c].list /\ ~k.fresh
  BY <1>3, <1>5, CallFacts DEF Call
<1>8. call' \in [Calls -> Call] /\ call'[c] = k /\ \A d \in Calls : d # c => call'[d] = o[d]
  BY <1>4, <1>6, <1>7
<1>9. \A d \in Calls : Survives(call[d], call'[d], is)
  <2>1. Survives(call[c], k, is)
    BY <1>3, <1>7 DEF Survives
  <2> QED
    BY <1>4, <1>8, <2>1
<1>10. lost' \subseteq gone' /\ lost' \subseteq overlap
  <2>1. i \in full => i \in overlap
    BY <1>2 DEF IInv, FullInv, GuestCopy
  <2> QED
    BY <1>1, <1>2, <2>1, Types DEF RemoveUsers, Purged, IInv, PurgeSparesSettledAccounts
<1> QED
  BY <1>2, <1>3, <1>8, <1>9, <1>10, RemoveStep

-----------------------------------------------------------------------------
(* What an account owns *)

LEMMA AddRowPreserves == ASSUME IInv, NEW c \in Calls, NEW t \in Tables, AddRow(c, t) PROVE IInv'
<1>1. PICK i : i = call[c].id
  OBVIOUS
<1>2. /\ call[c].pc = "loaded" /\ Refers(i) /\ rows' = rows \union {<<t, i>>}
      /\ ghosts' = (IF Live(i) THEN ghosts ELSE ghosts \union {i})
      /\ UNCHANGED <<store, now, users, drawn, logins, call, raced, gone, full, overlap, lost>>
  BY <1>1 DEF AddRow
<1>3. i \in Ids /\ Known(i)
  BY <1>1, <1>2, CallFacts DEF CallInv
<1>4. \A r \in rows' : r \in rows \/ r[2] = i
  BY <1>2
<1>5. TypeOK'
  <2>1. rows' \subseteq Tables \X Ids /\ ghosts' \subseteq gone'
    BY <1>2, <1>3, Types DEF Known
  <2> QED
    BY <1>2, <2>1 DEF IInv, TypeOK
<1>6. CallsInv'
  BY <1>2, SameAccounts DEF IInv, CallsInv
<1>7. AccountsInv'
  BY <1>2, <1>3, <1>4, SameAccounts DEF IInv, AccountsInv
<1>8. IdentifiersAreUnique' /\ PurgeSparesSettledAccounts' /\ FullInv'
  BY <1>2, SameAccounts, FullKeptSameCalls DEF IInv, IdentifiersAreUnique, PurgeSparesSettledAccounts
<1>9. DeletedLeavesNothing'
  <2> SUFFICES ASSUME NEW j \in gone
               PROVE  /\ ~Live(j)
                      /\ (\E r \in rows' : r[2] = j) \/ (\E l \in Logins : logins[l] = j)
                           => j \in ghosts' /\ ~ForeignKeys
    BY <1>2 DEF DeletedLeavesNothing, ForeignKeys, Live
  <2>1. ~Live(j) /\ ((\E r \in rows : r[2] = j) \/ (\E l \in Logins : logins[l] = j)
                       => j \in ghosts /\ ~ForeignKeys)
    BY DEF IInv, DeletedLeavesNothing
  <2>2. j = i => j \in ghosts' /\ ~ForeignKeys
    BY <1>2, <2>1 DEF Refers
  <2> QED
    BY <1>2, <1>4, <2>1, <2>2
<1> QED
  BY <1>5, <1>6, <1>7, <1>8, <1>9 DEF IInv

LEMMA AddLoginPreserves == ASSUME IInv, NEW c \in Calls, NEW l \in Logins, AddLogin(c, l) PROVE IInv'
<1>1. PICK i : i = call[c].id
  OBVIOUS
<1>2. /\ call[c].pc = "loaded" /\ Refers(i) /\ logins' = [logins EXCEPT ![l] = i]
      /\ ghosts' = (IF Live(i) THEN ghosts ELSE ghosts \union {i})
      /\ UNCHANGED <<store, now, users, drawn, rows, call, raced, gone, full, overlap, lost>>
  BY <1>1 DEF AddLogin
<1>3. i \in Ids /\ Known(i) /\ i \in 0..MaxUsers
  BY <1>1, <1>2, CallFacts DEF CallInv
<1>4. logins' \in [Logins -> 0..MaxUsers] /\ \A m \in Logins : logins'[m] = logins[m] \/ logins'[m] = i
  BY <1>2, <1>3, Types
<1>5. TypeOK'
  <2>1. ghosts' \subseteq gone'
    BY <1>2, <1>3, Types DEF Known
  <2> QED
    BY <1>2, <1>4, <2>1 DEF IInv, TypeOK
<1>6. CallsInv'
  BY <1>2, SameAccounts DEF IInv, CallsInv
<1>7. AccountsInv'
  BY <1>2, <1>3, <1>4, SameAccounts DEF IInv, AccountsInv
<1>8. IdentifiersAreUnique' /\ PurgeSparesSettledAccounts' /\ FullInv'
  BY <1>2, SameAccounts, FullKeptSameCalls DEF IInv, IdentifiersAreUnique, PurgeSparesSettledAccounts
<1>9. DeletedLeavesNothing'
  <2> SUFFICES ASSUME NEW j \in gone
               PROVE  /\ ~Live(j)
                      /\ (\E r \in rows : r[2] = j) \/ (\E m \in Logins : logins'[m] = j)
                           => j \in ghosts' /\ ~ForeignKeys
    BY <1>2 DEF DeletedLeavesNothing, ForeignKeys, Live
  <2>1. ~Live(j) /\ ((\E r \in rows : r[2] = j) \/ (\E m \in Logins : logins[m] = j)
                       => j \in ghosts /\ ~ForeignKeys)
    BY DEF IInv, DeletedLeavesNothing
  <2>2. j = i => j \in ghosts' /\ ~ForeignKeys
    BY <1>2, <2>1 DEF Refers
  <2> QED
    BY <1>2, <1>4, <2>1, <2>2
<1> QED
  BY <1>5, <1>6, <1>7, <1>8, <1>9 DEF IInv

LEMMA RemoveLoginPreserves ==
  ASSUME IInv, NEW c \in Calls, NEW l \in Logins, RemoveLogin(c, l) PROVE IInv'
<1>1. /\ logins' = [logins EXCEPT ![l] = NoId]
      /\ UNCHANGED <<store, now, users, drawn, rows, call, raced, gone, ghosts,
                   full, overlap, lost>>
  BY DEF RemoveLogin, historyVars
<1>2. NoId \in 0..MaxUsers /\ NoId \notin Ids
  BY DirectoryBounds DEF NoId, Ids
<1>3. logins' \in [Logins -> 0..MaxUsers] /\ \A m \in Logins : logins'[m] = logins[m] \/ logins'[m] = NoId
  BY <1>1, <1>2, Types
<1>4. TypeOK'
  BY <1>1, <1>3 DEF IInv, TypeOK
<1>5. CallsInv'
  BY <1>1, SameAccounts DEF IInv, CallsInv
<1>6. AccountsInv'
  BY <1>1, <1>3, SameAccounts DEF IInv, AccountsInv
<1>7. IdentifiersAreUnique' /\ PurgeSparesSettledAccounts' /\ FullInv'
  BY <1>1, SameAccounts, FullKeptSameCalls DEF IInv, IdentifiersAreUnique, PurgeSparesSettledAccounts
<1>8. DeletedLeavesNothing'
  <2>1. \A j \in gone : j \in Ids
    BY Types
  <2> QED
    BY <1>1, <1>2, <1>3, <2>1, SameAccounts DEF IInv, DeletedLeavesNothing, ForeignKeys
<1> QED
  BY <1>4, <1>5, <1>6, <1>7, <1>8 DEF IInv

-----------------------------------------------------------------------------
LEMMA NextPreserves == ASSUME IInv, Next PROVE IInv'
<1>1. CASE Tick
  BY <1>1, TickPreserves
<1>2. ASSUME NEW c \in Calls,
             (\E i \in Ids : FindByID(c, i)) \/ Abandon(c) \/ ChangeAccount(c) \/ Purge(c) \/ OwnThings(c)
      PROVE  IInv'
  <2>1. CASE \E i \in Ids : FindByID(c, i)
    BY <2>1, FindByIDPreserves
  <2>2. CASE Abandon(c)
    BY <2>2, AbandonPreserves
  <2>3. CASE ChangeAccount(c)
    BY <2>3, CreatePreserves, ConvertToRegisteredPreserves, SetUserNamePreserves, SetEmailPreserves,
       WriteBackPreserves, CheckNamePreserves, CheckEmailPreserves, InsertPreserves, UpdatePreserves,
       CreateAnonymousPreserves, DeletePreserves DEF ChangeAccount
  <2>4. CASE Purge(c)
    BY <2>4, PurgeAnonymousUsersPreserves, PluckGuestsPreserves, PurgeNextPreserves DEF Purge
  <2>5. CASE OwnThings(c)
    BY <2>5, AddRowPreserves, AddLoginPreserves, RemoveLoginPreserves, FindByLoginPreserves,
       ExternalLoginSignInPreserves DEF OwnThings
  <2> QED
    BY <1>2, <2>1, <2>2, <2>3, <2>4, <2>5
<1> QED
  BY <1>1, <1>2 DEF Next

LEMMA StutterPreserves == ASSUME IInv, UNCHANGED vars PROVE IInv'
<1>1. UNCHANGED <<store, now, users, drawn, rows, logins, call, raced, gone, ghosts,
                full, overlap, lost>>
  BY DEF vars
<1>2. TypeOK'
  BY <1>1 DEF IInv, TypeOK
<1>3. CallsInv'
  BY <1>1, SameAccounts DEF IInv, CallsInv
<1> QED
  BY <1>1, <1>2, <1>3, DirectoryKept, FullKeptSameCalls DEF IInv

LEMMA Invariance == Spec => []IInv
<1>1. IInv /\ [Next]_vars => IInv'
  BY NextPreserves, StutterPreserves
<1> QED
  BY <1>1, InitIInv, PTL DEF Spec

\* In every reachable state the tables, copies and histories are what their
\* declarations say, and a copy whose stamp is current is the stored row
\* (the concurrency stamp of Store.Update).
THEOREM TypeCorrect == Spec => []TypeOK
<1>1. IInv => TypeOK
  BY DEF IInv
<1> QED
  BY <1>1, Invariance, PTL

\* However many Create, SetUserName, SetEmail and ConvertToRegistered calls
\* interleave between their look-ups and their writes, two accounts share a
\* name only in the in-memory store, and a name or an address only after one
\* call wrote it while another had found it free.
THEOREM IdentifiersStayUnique == Spec => []IdentifiersAreUnique
<1>1. IInv => IdentifiersAreUnique
  BY DEF IInv
<1> QED
  BY <1>1, Invariance, PTL

\* Delete and the purges remove an account for good with everything it owns, in
\* every store: no Update from an old copy brings it back, and only where there
\* are no foreign keys can a row written from such a copy remain.
THEOREM DeletionIsFinal == Spec => []DeletedLeavesNothing
<1>1. IInv => DeletedLeavesNothing
  BY DEF IInv
<1> QED
  BY <1>1, Invariance, PTL

\* PurgeAnonymousUsers, in every store, deletes an account that was stored as a
\* full one only when GORM's purge had it on its list before that: no Update from
\* a copy in which the account is still a guest makes it one again, so no later
\* purge selects it.
THEOREM SettledAccountsSurvivePurges == Spec => []PurgeSparesSettledAccounts
<1>1. IInv => PurgeSparesSettledAccounts
  BY DEF IInv
<1> QED
  BY <1>1, Invariance, PTL
=============================================================================
