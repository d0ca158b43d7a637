---------------------------- MODULE UserDirectory ----------------------------
(***************************************************************************)
(* The accounts of a deployment: creation, renaming, guests and their      *)
(* purge, deletion with everything an account owns, and external logins    *)
(* (identity/user_manager.go, guest.go, external_login.go) over the stores *)
(* a deployment may choose.                                                *)
(*                                                                         *)
(* A manager call is several store calls: it looks a name or an address up *)
(* and writes the row later.  What the write itself still refuses differs: *)
(* the in-memory store and GORM's tables have no foreign keys, and only    *)
(* the SQL stores have a unique index on the name; no store has one on the *)
(* e-mail address.                                                         *)
(***************************************************************************)
EXTENDS Integers, FiniteSets

CONSTANTS Stores,            \* the stores considered: "mem", "gorm", "pgx", "sqlc"
          MaxUsers,          \* bound on accounts ever created
          Names, Guest,      \* user names; the generated name of a guest
          Emails, NoEmail,   \* addresses; "" for none
          Logins,            \* external logins: (provider, key)
          Tables,            \* the other satellite tables considered
          MaxOwned,          \* bound on the rows in them, and logins, at one time
          Calls,             \* concurrent calls (goroutines)
          RequireUniqueEmail,
          MaxTime            \* bound on the clock

Satellites == {"userRoles", "userClaims", "userTokens", "apiKeys", "refreshTokens",
               "oauthCodes", "oauthConsents", "oauthGrants"}

ASSUME DirectoryBounds ==
  /\ Stores \subseteq {"mem", "gorm", "pgx", "sqlc"} /\ Tables \subseteq Satellites
  /\ Guest \notin Names /\ NoEmail \notin Emails
  /\ MaxUsers \in Nat /\ MaxOwned \in Nat /\ MaxTime \in Nat /\ RequireUniqueEmail \in BOOLEAN

Ids == 1..MaxUsers
NoId == 0

\* The columns of a user's row that matter here, and the absence of a row.  The
\* time of creation is kept for guests, where it is read.
Row == [name: Names \union {Guest}, email: Emails \union {NoEmail}, anon: BOOLEAN, born: 0..MaxTime]
NoRow == [name |-> Guest, email |-> NoEmail, anon |-> FALSE, born |-> 0]

VARIABLES
  store,    \* the store this deployment uses
  now,      \* the clock
  users,    \* users[i]: the row of account i, or NoRow
  drawn,    \* ids handed out so far
  rows,     \* <<t, i>>: table t has rows of account i
  logins,   \* logins[l]: the account that login l is bound to
  call,     \* call[c]: where call c is, and its copy of a row
  raced,    \* history: names (in the in-memory store) and addresses that one call
            \* wrote while another had already found them free
  gone,     \* history: the accounts deleted
  ghosts,   \* history: accounts to which rows were added after they were deleted
  full,     \* history: the accounts ever stored as full ones, not as guests
  overlap,  \* history: those stored so while a purge had them on its list
  lost      \* history: the accounts among full that a purge deleted

vars == <<store, now, users, drawn, rows, logins, call, raced, gone, ghosts, full, overlap, lost>>
historyVars == <<raced, gone, ghosts, full, overlap, lost>>

Call == [pc: {"idle", "loaded", "create", "update", "login", "purge"}, id: 0..MaxUsers,
         u: Row, fresh: BOOLEAN, todo: SUBSET {"name", "email"}, list: SUBSET Ids]
Idle == [pc |-> "idle", id |-> NoId, u |-> NoRow, fresh |-> FALSE, todo |-> {}, list |-> {}]

Init ==
  /\ store \in Stores
  /\ now = 0 /\ drawn = 0
  /\ users = [i \in Ids |-> NoRow]
  /\ rows = {} /\ logins = [l \in Logins |-> NoId]
  /\ call = [c \in Calls |-> Idle]
  /\ raced = {} /\ gone = {} /\ ghosts = {} /\ full = {} /\ overlap = {} /\ lost = {}

Live(i) == i \in Ids /\ users[i] # NoRow

-----------------------------------------------------------------------------
(* The stores *)

\* The unique index on normalized_user_name of the SQL stores.
NameIndex(i, u) == u.name = Guest \/ \A j \in Ids \ {i} : Live(j) => users[j].name # u.name

\* The in-memory store sets the map entry, whatever the other rows hold.
MemAccepts(i, u) == TRUE

Accepts(i, u) == IF store = "mem" THEN MemAccepts(i, u) ELSE NameIndex(i, u)

\* ON DELETE CASCADE: a row may refer to existing users only.
ForeignKeys == store \in {"pgx", "sqlc"}
Refers(i) == ForeignKeys => Live(i)

\* Mutant: the row is written whether or not it is still there.
Changes_Upsert(c) == call[c].fresh \/ ~Live(call[c].id)

\* UPDATE ... WHERE id AND concurrency_stamp: the row is there and is the copy.
Changes(c) == Live(call[c].id) /\ call[c].fresh

\* Mutant: the stamp is not rotated.
Stale_Keep(k, is) == k

\* What the calls hold once the accounts is were written or removed: a copy that
\* is out of date can still be passed on, but nothing in it will be stored.
Stale(k, is) == IF k.fresh /\ k.id \in is THEN [k EXCEPT !.fresh = FALSE, !.u = NoRow] ELSE k
Outdate(is) == [d \in Calls |-> Stale(call[d], is)]

\* The tables an account is removed from together with its row: the loops of
\* cascadeDeleteLocked, the transaction of deleteUserCascade, and the tables
\* that reference the users.
MemCascade == {"userRoles", "userClaims", "userTokens", "logins", "apiKeys", "refreshTokens",
               "oauthCodes", "oauthConsents", "oauthGrants"}
GormCascade == {"userRoles", "userClaims", "logins", "userTokens", "apiKeys", "refreshTokens",
                "oauthCodes", "oauthConsents", "oauthGrants"}
FKCascade == {"userRoles", "userClaims", "logins", "userTokens", "apiKeys", "refreshTokens",
              "oauthCodes", "oauthConsents", "oauthGrants"}
Cascade == IF store = "mem" THEN MemCascade ELSE IF store = "gorm" THEN GormCascade ELSE FKCascade

RemoveUsers(is) ==
  /\ users' = [i \in Ids |-> IF i \in is THEN NoRow ELSE users[i]]
  /\ rows' = {r \in rows : ~(r[1] \in Cascade /\ r[2] \in is)}
  /\ logins' = [l \in Logins |-> IF "logins" \in Cascade /\ logins[l] \in is THEN NoId ELSE logins[l]]
  /\ gone' = gone \union {i \in is : Live(i)}

\* FindByName and FindByEmail; a row without an address is never found by it.
FindByName(n) == {i \in Ids : Live(i) /\ users[i].name = n}
FindByEmail(e) == {i \in Ids : Live(i) /\ users[i].email = e /\ e # NoEmail}

-----------------------------------------------------------------------------
(* Manager calls *)

Tick ==
  /\ now < MaxTime
  /\ now' = now + 1
  /\ UNCHANGED <<store, users, drawn, rows, logins, call, historyVars>>

\* FindByID, and every call that hands a copy of a row to its caller.
FindByID(c, i) ==
  /\ call[c].pc = "idle" /\ Live(i)
  /\ call' = [call EXCEPT ![c] = [Idle EXCEPT !.pc = "loaded", !.id = i, !.u = users[i], !.fresh = TRUE]]
  /\ UNCHANGED <<store, now, users, drawn, rows, logins, historyVars>>

\* The request ends, is cancelled, or the process dies.
Abandon(c) ==
  /\ call[c].pc # "idle"
  /\ call' = [call EXCEPT ![c] = Idle]
  /\ UNCHANGED <<store, now, users, drawn, rows, logins, historyVars>>

EmailCheck(e) == IF RequireUniqueEmail /\ e # NoEmail THEN {"email"} ELSE {}

\* Create and CreateWithPassword, up to the look-ups of prepareForCreate.
Create(c, n, e) ==
  /\ call[c].pc = "idle" /\ drawn < MaxUsers
  /\ drawn' = drawn + 1
  /\ call' = [call EXCEPT ![c] =
       [pc |-> "create", id |-> drawn', fresh |-> TRUE, todo |-> {"name"} \union EmailCheck(e),
        u |-> [name |-> n, email |-> e, anon |-> FALSE, born |-> 0], list |-> {}]]
  /\ UNCHANGED <<store, now, users, rows, logins, historyVars>>

\* A manager call goes on with the copy u, once the look-ups in todo pass.
Prepare(c, u, todo) ==
  /\ call[c].pc = "loaded"
  /\ call' = [call EXCEPT ![c] = [@ EXCEPT !.pc = "update", !.u = u, !.todo = todo]]
  /\ UNCHANGED <<store, now, users, drawn, rows, logins, historyVars>>

SetUserName(c, n) == Prepare(c, [call[c].u EXCEPT !.name = n], {"name"})

\* SetEmail, and ChangeEmail once its token is accepted.
SetEmail(c, e) == Prepare(c, [call[c].u EXCEPT !.email = e], EmailCheck(e))

ConvertToRegistered(c, n, e) ==
  /\ call[c].u.anon
  /\ Prepare(c, [call[c].u EXCEPT !.name = n, !.email = e, !.anon = FALSE, !.born = 0],
             {"name"} \union EmailCheck(e))

\* Any other operation that writes the row back: lockout, password, phone, ...
WriteBack(c) == Prepare(c, call[c].u, {})

\* Mutant: a name is free when nobody with an address has it.
NameFree_Partial(c) == \A i \in FindByName(call[c].u.name) : users[i].email = NoEmail

\* The look-ups find nobody, or the account itself.
NameFree(c) == FindByName(call[c].u.name) \subseteq {call[c].id}
EmailFree(c) == FindByEmail(call[c].u.email) \subseteq {call[c].id}

CheckName(c) ==
  /\ "name" \in call[c].todo
  /\ call' = [call EXCEPT ![c] = IF NameFree(c) THEN [@ EXCEPT !.todo = call[c].todo \ {"name"}] ELSE Idle]
  /\ UNCHANGED <<store, now, users, drawn, rows, logins, historyVars>>

CheckEmail(c) ==
  /\ call[c].todo = {"email"}
  /\ call' = [call EXCEPT ![c] = IF EmailFree(c) THEN [@ EXCEPT !.todo = {}] ELSE Idle]
  /\ UNCHANGED <<store, now, users, drawn, rows, logins, historyVars>>

\* What another call has found free and is about to write.
Claimed(c) ==
  UNION {{x \in {call[d].u.name, call[d].u.email} :
            /\ call[d].pc \in {"create", "update"} /\ "name" \notin call[d].todo
            /\ call[d].todo = {"email"} => x = call[d].u.name} : d \in Calls \ {c}}

\* The account that the write stores as a full one.
Promoted(c) == {i \in {call[c].id} : ~call[c].u.anon}

\* What the write leaves in the histories; a name, where no index protects it.
Written(c) ==
  /\ raced' = raced \union
       (Claimed(c) \intersect {x \in {call[c].u.name, call[c].u.email} :
                              x \in Emails \/ (x \in Names /\ store = "mem")})
  /\ full' = full \union Promoted(c)
  /\ overlap' = overlap \union {i \in Promoted(c) : \E d \in Calls : i \in call[d].list}

\* Store.Create; a second row with the name is refused, or not.
Insert(c) ==
  /\ call[c].pc = "create" /\ call[c].todo = {}
  /\ IF Accepts(call[c].id, call[c].u)
       THEN users' = [users EXCEPT ![call[c].id] = call[c].u] /\ Written(c)
       ELSE UNCHANGED <<users, raced, full, overlap>>
  /\ call' = [call EXCEPT ![c] = Idle]
  /\ UNCHANGED <<store, now, drawn, rows, logins, gone, ghosts, lost>>

\* Store.Update.
Update(c) ==
  /\ call[c].pc = "update" /\ call[c].todo = {}
  /\ IF Changes(c) /\ Accepts(call[c].id, call[c].u)
       THEN /\ users' = [users EXCEPT ![call[c].id] = call[c].u]
            /\ Written(c)
            /\ call' = [Outdate({call[c].id}) EXCEPT ![c] = Idle]
       ELSE UNCHANGED <<users, raced, full, overlap>> /\ call' = [call EXCEPT ![c] = Idle]
  /\ UNCHANGED <<store, now, drawn, rows, logins, gone, ghosts, lost>>

\* CreateAnonymous: no look-up, a name made of random bytes.
CreateAnonymous(c) ==
  /\ call[c].pc = "idle" /\ drawn < MaxUsers
  /\ drawn' = drawn + 1
  /\ users' = [users EXCEPT ![drawn'] = [name |-> Guest, email |-> NoEmail, anon |-> TRUE, born |-> now]]
  /\ UNCHANGED <<store, now, rows, logins, call, historyVars>>

\* Delete, from whatever copy.
Delete(c) ==
  /\ call[c].pc = "loaded"
  /\ RemoveUsers({call[c].id})
  /\ call' = [Outdate({call[c].id}) EXCEPT ![c] = Idle]
  /\ UNCHANGED <<store, now, drawn, raced, ghosts, full, overlap, lost>>

-----------------------------------------------------------------------------
(* Purge of guests *)

PurgeMatches(i, cutoff) == Live(i) /\ users[i].anon /\ users[i].born < cutoff

Purged(is) == lost' = lost \union {i \in is \intersect full : Live(i)}

\* One locked pass over the map, or one DELETE statement.
PurgeAnonymousUsers(c, cutoff) ==
  /\ store # "gorm" /\ call[c].pc = "idle"
  /\ LET is == {i \in Ids : PurgeMatches(i, cutoff)} IN
       /\ RemoveUsers(is)
       /\ Purged(is)
       /\ call' = Outdate(is)
  /\ UNCHANGED <<store, now, drawn, raced, ghosts, full, overlap>>

\* GORM: the ids are read, ...
PluckGuests(c, cutoff) ==
  /\ store = "gorm" /\ call[c].pc = "idle"
  /\ call' = [call EXCEPT ![c] =
       [Idle EXCEPT !.pc = "purge", !.list = {i \in Ids : PurgeMatches(i, cutoff)}]]
  /\ UNCHANGED <<store, now, users, drawn, rows, logins, historyVars>>

\* ... and each of them is deleted in a transaction of its own.
PurgeNext(c, i) ==
  /\ call[c].pc = "purge" /\ i \in call[c].list
  /\ RemoveUsers({i})
  /\ Purged({i})
  /\ call' = [Outdate({i}) EXCEPT ![c].list = @ \ {i}]
  /\ UNCHANGED <<store, now, drawn, raced, ghosts, full, overlap>>

-----------------------------------------------------------------------------
(* What an account owns *)

Room == Cardinality(rows) + Cardinality({l \in Logins : logins[l] # NoId}) < MaxOwned

\* An INSERT into a satellite table for the account of the copy.
AddRow(c, t) ==
  /\ call[c].pc = "loaded" /\ Refers(call[c].id) /\ Room
  /\ rows' = rows \union {<<t, call[c].id>>}
  /\ ghosts' = IF Live(call[c].id) THEN ghosts ELSE ghosts \union {call[c].id}
  /\ UNCHANGED <<store, now, users, drawn, logins, call, raced, gone, full, overlap, lost>>

\* AddLogin: (provider, key) is unique in every store.
AddLogin(c, l) ==
  /\ call[c].pc = "loaded" /\ Refers(call[c].id) /\ Room
  /\ logins[l] = NoId
  /\ logins' = [logins EXCEPT ![l] = call[c].id]
  /\ ghosts' = IF Live(call[c].id) THEN ghosts ELSE ghosts \union {call[c].id}
  /\ UNCHANGED <<store, now, users, drawn, rows, call, raced, gone, full, overlap, lost>>

\* RemoveLogin; the in-memory store does not look whose login it is.
RemoveLogin(c, l) ==
  /\ call[c].pc = "loaded"
  /\ logins[l] # NoId
  /\ store # "mem" => logins[l] = call[c].id
  /\ logins' = [logins EXCEPT ![l] = NoId]
  /\ UNCHANGED <<store, now, users, drawn, rows, call, historyVars>>

\* ExternalLoginSignIn: FindByLogin reads the login, then the row; the caller
\* goes on with the copy and writes it back when it resets the failure count.
FindByLogin(c, l) ==
  /\ call[c].pc = "idle" /\ logins[l] # NoId
  /\ call' = [call EXCEPT ![c] = [Idle EXCEPT !.pc = "login", !.id = logins[l]]]
  /\ UNCHANGED <<store, now, users, drawn, rows, logins, historyVars>>

ExternalLoginSignIn(c) ==
  /\ call[c].pc = "login"
  /\ call' = [call EXCEPT ![c] =
       IF Live(call[c].id)
       THEN [Idle EXCEPT !.pc = "loaded", !.id = call[c].id, !.u = users[call[c].id], !.fresh = TRUE]
       ELSE Idle]
  /\ UNCHANGED <<store, now, users, drawn, rows, logins, historyVars>>

-----------------------------------------------------------------------------
ChangeAccount(c) ==
  \/ \E n \in Names, e \in Emails \union {NoEmail} : Create(c, n, e) \/ ConvertToRegistered(c, n, e)
  \/ \E n \in Names : SetUserName(c, n)
  \/ \E e \in Emails \union {NoEmail} : SetEmail(c, e)
  \/ WriteBack(c)
  \/ CheckName(c) \/ CheckEmail(c) \/ Insert(c) \/ Update(c)
  \/ CreateAnonymous(c) \/ Delete(c)

Purge(c) ==
  \/ \E t \in 0..now : PurgeAnonymousUsers(c, t) \/ PluckGuests(c, t)
  \/ \E i \in Ids : PurgeNext(c, i)

OwnThings(c) ==
  \/ \E t \in Tables : AddRow(c, t)
  \/ \E l \in Logins : AddLogin(c, l) \/ RemoveLogin(c, l) \/ FindByLogin(c, l)
  \/ ExternalLoginSignIn(c)

Next ==
  \/ Tick
  \/ \E c \in Calls :
       (\E i \in Ids : FindByID(c, i)) \/ Abandon(c) \/ ChangeAccount(c) \/ Purge(c) \/ OwnThings(c)

Spec == Init /\ [][Next]_vars

-----------------------------------------------------------------------------
(* Properties *)

\* The tables, copies and histories are what their declarations say, and a copy
\* whose stamp is current is the stored row.
TypeOK ==
  /\ store \in Stores /\ now \in 0..MaxTime /\ drawn \in 0..MaxUsers
  /\ users \in [Ids -> Row]
  /\ rows \subseteq Tables \X Ids /\ logins \in [Logins -> 0..MaxUsers]
  /\ call \in [Calls -> Call]
  /\ \A c \in Calls : call[c].pc = "loaded" /\ call[c].fresh => call[c].u = users[call[c].id]
  /\ raced \subseteq Names \union Emails
  /\ gone \subseteq Ids /\ ghosts \subseteq gone
  /\ full \subseteq Ids /\ overlap \subseteq full /\ lost \subseteq gone

\* Two accounts never share a user name under the SQL stores, however calls
\* interleave.  Under the in-memory store they may only when one call wrote
\* the name while another had found it free, and so may an e-mail address
\* under any store.
IdentifiersAreUnique ==
  \A i, j \in Ids : i # j /\ Live(i) /\ Live(j) =>
    /\ users[i].name = users[j].name /\ users[i].name # Guest
         => store = "mem" /\ users[i].name \in raced
    /\ RequireUniqueEmail /\ users[i].email = users[j].email /\ users[i].email # NoEmail
         => users[i].email \in raced

\* A deleted account stays deleted, whatever copies calls still hold, and no
\* row in any table refers to it; where there are no foreign keys, rows written
\* from a copy after the deletion remain.
DeletedLeavesNothing ==
  \A i \in gone :
    /\ ~Live(i)
    /\ (\E r \in rows : r[2] = i) \/ (\E l \in Logins : logins[l] = i)
         => i \in ghosts /\ ~ForeignKeys

\* PurgeAnonymousUsers never deletes an account that was ever stored as a full
\* one: a guest whose conversion was stored first survives.
PurgeSparesAccounts == lost = {}

\* What holds of every store: a purge deletes a full account only when the
\* account became one while the purge already had it on its list.  An account
\* converted or created before that is never purged, although other calls may
\* still hold, and write back, copies in which it is a guest.
PurgeSparesSettledAccounts == lost \subseteq overlap
=============================================================================
