---------------------------- MODULE OneTimeCodes ----------------------------
(***************************************************************************)
(* One-time codes and confirmation links of one account: SMS codes         *)
(* (identity/phone.go), recovery codes and the authenticator key           *)
(* (identity/twofactor.go), and e-mail links (identity/token_provider.go,  *)
(* identity/email.go).                                                     *)
(*                                                                         *)
(* Codes live in rows of the user-token table, one row per name, which     *)
(* are read, judged and written back by separate store calls, with no      *)
(* stamp to compare: the write of a slow request can undo anything that    *)
(* happened since its read.  Links are stored nowhere; they are MACs over  *)
(* the security stamp.  What a code or a link confirms is a column of the  *)
(* user's row, which is written back whole under its ConcurrencyStamp.     *)
(*                                                                         *)
(* Operations on one row of the table never touch another, so a behaviour  *)
(* is about one of them: kind is its name, or "Email" for the links.  The  *)
(* address is the phone number, or the e-mail address.                     *)
(***************************************************************************)
EXTENDS Integers, FiniteSets

CONSTANTS Calls,         \* concurrent calls (goroutines)
          Addrs, NoAddr, \* phone numbers or e-mail addresses; "" for none
          BatchSize,     \* recovery codes made at once
          MaxMade,       \* bound on how often codes are made
          MaxLinks,      \* bound on the links mailed
          MaxStamp,      \* bound on stamp rotations
          MaxTime,       \* bound on the clock
          PhoneTokenTTL, PhoneTokenMaxAttempts,
          Lifespan       \* DataTokenProvider.lifespan

ASSUME CodeBounds ==
  /\ NoAddr \notin Addrs /\ "confirm" \notin Addrs
  /\ BatchSize \in Nat \ {0} /\ MaxMade \in Nat /\ MaxLinks \in Nat /\ MaxStamp \in Nat /\ MaxTime \in Nat
  /\ PhoneTokenTTL \in Nat /\ PhoneTokenMaxAttempts \in Nat \ {0} /\ Lifespan \in Nat

SMSKinds == {"PhoneToken", "ChangePhoneToken"}
Kinds == SMSKinds \union {"RecoveryCodes", "AuthenticatorKey", "Email"}

VARIABLES
  kind,      \* the row of the token table this behaviour is about
  now,       \* the clock
  row,       \* the user's row
  slot,      \* the row of the token table
  call,      \* call[c]: where call c is, and its copies of the two rows
  drawn,     \* codes made so far; they are numbered from 1
  known,     \* the codes that somebody was told
  links,     \* the links that were mailed
  made,      \* history: the codes made last
  issued,    \* history: issued[k]: when code k was made
  sentTo,    \* history: sentTo[k]: whom code k is for
  disturbed, \* history: codes whose row was written between another call's read
             \* and write of it, or whose removal failed
  accepted,  \* history: the other codes that were accepted
  misused,   \* history: one was accepted again, or after newer ones were made
  misses,    \* history: misses[k]: wrong guesses judged against one of them
  late,      \* history: an SMS code was accepted after its time
  proven     \* history: addresses whose owner presented what was sent there

vars == <<kind, now, row, slot, call, drawn, known, links, made, issued, sentTo,
          disturbed, accepted, misused, misses, late, proven>>
tableVars == <<slot, drawn, known, made, issued, sentTo>>
countVars == <<disturbed, accepted, misused, misses, late>>
historyVars == <<countVars, proven>>

MaxCodes == MaxMade * BatchSize
Codes == 1..MaxCodes
User == [addr: Addrs \union {NoAddr}, confirmed: BOOLEAN, ss: 0..MaxStamp]

\* "<hash>:<expiry>:<attempts>", the list of recovery hashes, or the key.
Slot == [codes: SUBSET Codes, for: Addrs \union {NoAddr}, exp: 0..(MaxTime + PhoneTokenTTL),
         attempts: 0..(PhoneTokenMaxAttempts - 1)]
NoToken == [codes |-> {}, for |-> NoAddr, exp |-> 0, attempts |-> 0]

\* A link: its address, its purpose ("confirm", or the new address), the stamp
\* its MAC is made over, and its issue time.
Link == [to: Addrs, purpose: Addrs \union {"confirm"}, ss: 0..MaxStamp, issued: 0..MaxTime]

Call == [pc: {"idle", "loaded", "judge", "firstKey", "confirm"}, u: User, fresh: BOOLEAN,
         val: Slot, guess: 0..MaxCodes, addr: Addrs \union {NoAddr}]
Idle == [pc |-> "idle", u |-> [addr |-> NoAddr, confirmed |-> FALSE, ss |-> 0],
         fresh |-> FALSE, val |-> NoToken, guess |-> 0, addr |-> NoAddr]

Init ==
  /\ kind \in Kinds
  /\ now = 0
  /\ row \in [addr: Addrs \union {NoAddr}, confirmed: {FALSE}, ss: {0}]
  /\ slot = NoToken
  /\ call = [c \in Calls |-> Idle]
  /\ drawn = 0 /\ known = {} /\ links = {} /\ made = {}
  /\ issued = [k \in Codes |-> 0] /\ sentTo = [k \in Codes |-> NoAddr]
  /\ disturbed = {} /\ accepted = {} /\ misused = FALSE /\ late = FALSE /\ proven = {}
  /\ misses = [k \in Codes |-> 0]

-----------------------------------------------------------------------------
(* The two tables *)

\* UPDATE ... WHERE id AND concurrency_stamp; the request ends.
Update(c, u) ==
  /\ row' = IF call[c].fresh THEN u ELSE row
  /\ call' = [d \in Calls |-> IF d = c THEN Idle
                              ELSE [call[d] EXCEPT !.fresh = @ /\ ~call[c].fresh]]

\* The calls that have read the token row and may still write it.
Holding(d) == call[d].pc \in {"judge", "firstKey"}
Overtaken(c) == UNION {call[d].val.codes : d \in {d \in Calls \ {c} : Holding(d)}}

\* SetToken and RemoveToken: an unconditional write.  In consumePhoneCode its
\* error is dropped (ok is FALSE).
Write(value, ok) == slot' = IF ok THEN value ELSE slot
SetToken(value) == Write(value, TRUE)
RemoveToken(ok) == Write(NoToken, ok)

\* What the histories keep of a write by call c, which accepts the codes yes and
\* refuses a guess at the codes no.
Record(c, ok, yes, no) ==
  /\ disturbed' = disturbed \union Overtaken(c) \union (IF ok THEN {} ELSE call[c].val.codes)
  /\ accepted' = (accepted \union yes) \ disturbed'
  /\ misused' = (misused \/ \E k \in yes \ disturbed :
                   k \notin made \/ (k \in accepted /\ kind # "AuthenticatorKey"))
  /\ misses' = [k \in Codes |->
       IF k \in disturbed' THEN 0
       ELSE IF k \in no /\ misses[k] <= PhoneTokenMaxAttempts THEN misses[k] + 1 ELSE misses[k]]
  /\ late' = (late \/ (kind \in SMSKinds /\ \E k \in yes : now > issued[k] + PhoneTokenTTL))

Tick ==
  /\ now < MaxTime
  /\ now' = now + 1
  /\ UNCHANGED <<kind, row, call, links, tableVars, historyVars>>

\* FindByID, FindByName: the request begins.
LoadUser(c) ==
  /\ call[c].pc = "idle"
  /\ call' = [call EXCEPT ![c] = [Idle EXCEPT !.pc = "loaded", !.u = row, !.fresh = TRUE]]
  /\ UNCHANGED <<kind, now, row, links, tableVars, historyVars>>

\* The request ends, is cancelled, or the process dies.
Abandon(c) ==
  /\ call[c].pc # "idle"
  /\ call' = [call EXCEPT ![c] = Idle]
  /\ UNCHANGED <<kind, now, row, links, tableVars, historyVars>>

-----------------------------------------------------------------------------
(* Codes are made *)

\* randomDigits, randomRecoveryCode, GenerateSecret: codes never made before.
Fresh(n) == (drawn + 1)..(drawn + n)

\* The row becomes value, which holds the codes ks meant for addr.
Store(c, ks, value, addr) ==
  /\ drawn' = drawn + Cardinality(ks)
  /\ drawn' <= MaxMade * Cardinality(ks)
  /\ SetToken(value)
  /\ Record(c, TRUE, {}, {})
  /\ made' = ks
  /\ issued' = [k \in Codes |-> IF k \in ks THEN now ELSE issued[k]]
  /\ sentTo' = [k \in Codes |-> IF k \in ks THEN addr ELSE sentTo[k]]
  /\ UNCHANGED <<kind, now, row, links, proven>>

PhoneCode(ks, addr) ==
  [codes |-> ks, for |-> addr, exp |-> now + PhoneTokenTTL, attempts |-> 0]

\* GeneratePhoneToken; the code is told by SendPhoneToken, unless the copy has
\* no number or the gateway fails, or by the caller.
SendPhoneToken(c, delivered) ==
  /\ kind = "PhoneToken" /\ call[c].pc = "loaded"
  /\ delivered => call[c].u.addr # NoAddr
  /\ Store(c, Fresh(1), PhoneCode(Fresh(1), NoAddr), call[c].u.addr)
  /\ known' = IF delivered THEN known \union Fresh(1) ELSE known
  /\ UNCHANGED call

\* The stored hash is over the code and the new number.
SendChangePhoneNumberToken(c, newPhone, delivered) ==
  /\ kind = "ChangePhoneToken" /\ call[c].pc = "loaded"
  /\ Store(c, Fresh(1), PhoneCode(Fresh(1), newPhone), newPhone)
  /\ known' = IF delivered THEN known \union Fresh(1) ELSE known
  /\ UNCHANGED call

GenerateRecoveryCodes(c) ==
  /\ kind = "RecoveryCodes" /\ call[c].pc = "loaded"
  /\ Store(c, Fresh(BatchSize), [NoToken EXCEPT !.codes = Fresh(BatchSize)], NoAddr)
  /\ known' = known \union Fresh(BatchSize)
  /\ UNCHANGED call

\* GetAuthenticatorKey finds no key ...
FirstKey(c) ==
  /\ kind = "AuthenticatorKey" /\ call[c].pc = "loaded"
  /\ slot = NoToken
  /\ call' = [call EXCEPT ![c].pc = "firstKey"]
  /\ UNCHANGED <<kind, now, row, links, tableVars, historyVars>>

\* ... and stores one; ResetAuthenticatorKey stores one in any case.
NewKey(c) ==
  /\ kind = "AuthenticatorKey" /\ call[c].pc \in {"loaded", "firstKey"}
  /\ Store(c, Fresh(1), [NoToken EXCEPT !.codes = Fresh(1)], NoAddr)
  /\ known' = known \union Fresh(1)
  /\ call' = [call EXCEPT ![c].pc = "loaded"]

-----------------------------------------------------------------------------
(* Codes are presented *)

\* GetToken at the start of consumePhoneCode and RedeemRecoveryCode: the row as
\* it is now is what the guess will be judged against.  0 is a wrong guess,
\* for whatever number.
Present(c, guess, addr) ==
  /\ kind \in SMSKinds \union {"RecoveryCodes"} /\ call[c].pc = "loaded"
  /\ slot.codes # {}
  /\ guess \in (known \intersect slot.codes) \union {0}
  /\ (addr # NoAddr) = (kind = "ChangePhoneToken" /\ guess # 0)
  /\ call' = [call EXCEPT ![c] =
       [@ EXCEPT !.pc = "judge", !.val = slot, !.guess = guess, !.addr = addr]]
  /\ UNCHANGED <<kind, now, row, links, tableVars, historyVars>>

\* consumePhoneCode returns: the caller is done and may use the copy of the user
\* again, or, with the right code, goes on to store what it proves.
Done(c, next) ==
  call' = [call EXCEPT ![c] = [@ EXCEPT !.pc = next, !.val = NoToken, !.guess = 0,
                                        !.addr = IF next = "confirm" THEN call[c].addr ELSE NoAddr]]

Expired(val) == now > val.exp

\* The comparison of the hashes.
Matches(c) == call[c].guess \in call[c].val.codes /\ call[c].addr = call[c].val.for

\* consumePhoneCode, from the clock on.
RemoveExpired(c, ok) ==
  /\ kind \in SMSKinds /\ call[c].pc = "judge"
  /\ Expired(call[c].val)
  /\ RemoveToken(ok)
  /\ Record(c, ok, {}, {})
  /\ Done(c, "loaded")
  /\ UNCHANGED <<kind, now, row, links, drawn, known, made, issued, sentTo, proven>>

\* Mutant: a code that was accepted stays.
Consume_Keep(ok) == slot' = slot

Consume(ok) == RemoveToken(ok)

\* The code is right: VerifyPhoneToken returns to TwoFactorPhoneSignIn, or to
\* ConfirmPhoneNumber or ChangePhoneNumber, which store what it proves.
ConsumePhoneCode(c, ok, next) ==
  /\ kind \in SMSKinds /\ call[c].pc = "judge"
  /\ ~Expired(call[c].val) /\ Matches(c)
  /\ kind = "ChangePhoneToken" => next = "confirm"
  /\ Consume(ok)
  /\ Record(c, ok, {call[c].guess}, {})
  /\ Done(c, next)
  /\ proven' = proven \union {sentTo[call[c].guess]}
  /\ UNCHANGED <<kind, now, row, links, drawn, known, made, issued, sentTo>>

\* Mutant: the counter starts again with every guess.
Missed_Reset(val) == [val EXCEPT !.attempts = 0]

\* Mutant: nothing ends a code but the right guess.
Missed_Uncapped(val) == [val EXCEPT !.attempts = @ + 1]

\* The code is wrong: one attempt more, and too many remove the row.
Missed(val) ==
  IF val.attempts + 1 >= PhoneTokenMaxAttempts THEN NoToken
  ELSE [val EXCEPT !.attempts = @ + 1]

MissPhoneCode(c, ok) ==
  /\ kind \in SMSKinds /\ call[c].pc = "judge"
  /\ ~Expired(call[c].val) /\ ~Matches(c)
  /\ Write(Missed(call[c].val), ok)
  /\ Record(c, ok, {}, call[c].val.codes)
  /\ Done(c, "loaded")
  /\ UNCHANGED <<kind, now, row, links, drawn, known, made, issued, sentTo, proven>>

\* RedeemRecoveryCode writes the rest of the list it read; when that fails, or
\* the code is not in the list, it answers no and nothing has changed.
RedeemRecoveryCode(c) ==
  /\ kind = "RecoveryCodes" /\ call[c].pc = "judge"
  /\ call[c].guess \in call[c].val.codes
  /\ SetToken([NoToken EXCEPT !.codes = call[c].val.codes \ {call[c].guess}])
  /\ Record(c, TRUE, {call[c].guess}, {})
  /\ Done(c, "loaded")
  /\ UNCHANGED <<kind, now, row, links, drawn, known, made, issued, sentTo, proven>>

\* VerifyTwoFactorTOTP: the user's app holds key k, and so does the row.
VerifyTwoFactorTOTP(c, k) ==
  /\ kind = "AuthenticatorKey" /\ call[c].pc = "loaded"
  /\ k \in slot.codes
  /\ Record(c, TRUE, {k}, {})
  /\ UNCHANGED <<kind, now, row, call, links, tableVars, proven>>

-----------------------------------------------------------------------------
(* The address of the account *)

StampRoom(c) == call[c].u.ss < MaxStamp

\* Mutant: the security stamp is kept.
WithAddr_KeepStamp(u, addr, confirmed) == [u EXCEPT !.addr = addr, !.confirmed = confirmed]

\* A new address, and a new security stamp.
WithAddr(u, addr, confirmed) ==
  [addr |-> addr, confirmed |-> confirmed, ss |-> u.ss + 1]

\* SetPhoneNumber and SetEmail: the administrative path.
SetAddr(c, addr) ==
  /\ kind \in SMSKinds \union {"Email"} /\ call[c].pc = "loaded"
  /\ StampRoom(c)
  /\ Update(c, WithAddr(call[c].u, addr, FALSE))
  /\ UNCHANGED <<kind, now, links, tableVars, historyVars>>

\* ConfirmPhoneNumber marks whatever number the copy has.
ConfirmPhoneNumber(c) ==
  /\ kind = "PhoneToken" /\ call[c].pc = "confirm"
  /\ Update(c, [call[c].u EXCEPT !.confirmed = TRUE])
  /\ UNCHANGED <<kind, now, links, tableVars, historyVars>>

\* ChangePhoneNumber, the code having been accepted.
ChangePhoneNumber(c) ==
  /\ kind = "ChangePhoneToken" /\ call[c].pc = "confirm"
  /\ StampRoom(c)
  /\ Update(c, WithAddr(call[c].u, call[c].addr, TRUE))
  /\ UNCHANGED <<kind, now, links, tableVars, historyVars>>

\* sendTokenEmail, and GenerateChangeEmailToken mailed to the new address.
SendEmail(c, to, purpose) ==
  /\ kind = "Email" /\ call[c].pc = "loaded"
  /\ purpose = IF purpose = "confirm" THEN "confirm" ELSE to
  /\ purpose = "confirm" => to = call[c].u.addr
  /\ Cardinality(links) < MaxLinks
  /\ links' = links \union {[to |-> to, purpose |-> purpose, ss |-> call[c].u.ss, issued |-> now]}
  /\ UNCHANGED <<kind, now, row, call, tableVars, historyVars>>

\* DataTokenProvider.Validate: the MAC is recomputed from the copy.
Validate(link, purpose, u) ==
  /\ link.purpose = purpose /\ link.ss = u.ss
  /\ now - link.issued <= Lifespan

ConfirmEmail(c, link) ==
  /\ kind = "Email" /\ call[c].pc = "loaded"
  /\ Validate(link, "confirm", call[c].u)
  /\ Update(c, [call[c].u EXCEPT !.confirmed = TRUE])
  /\ proven' = proven \union {link.to}
  /\ UNCHANGED <<kind, now, links, tableVars, countVars>>

\* ChangeEmail; that the address is free is UserDirectory's matter.
ChangeEmail(c, newEmail, link) ==
  /\ kind = "Email" /\ call[c].pc = "loaded"
  /\ Validate(link, newEmail, call[c].u)
  /\ StampRoom(c)
  /\ Update(c, WithAddr(call[c].u, newEmail, TRUE))
  /\ proven' = proven \union {link.to}
  /\ UNCHANGED <<kind, now, links, tableVars, countVars>>

-----------------------------------------------------------------------------
MakeCodes(c) ==
  \/ \E d \in BOOLEAN : SendPhoneToken(c, d) \/ \E a \in Addrs : SendChangePhoneNumberToken(c, a, d)
  \/ GenerateRecoveryCodes(c)
  \/ FirstKey(c)
  \/ NewKey(c)

UseCodes(c) ==
  \/ \E g \in 0..MaxCodes, a \in Addrs \union {NoAddr} : Present(c, g, a)
  \/ \E ok \in BOOLEAN : RemoveExpired(c, ok) \/ MissPhoneCode(c, ok)
  \/ \E ok \in BOOLEAN, next \in {"loaded", "confirm"} : ConsumePhoneCode(c, ok, next)
  \/ RedeemRecoveryCode(c)
  \/ \E k \in known : VerifyTwoFactorTOTP(c, k)

ContactStep(c) ==
  \/ \E a \in Addrs : SetAddr(c, a)
  \/ ConfirmPhoneNumber(c)
  \/ ChangePhoneNumber(c)
  \/ \E to \in Addrs, p \in Addrs \union {"confirm"} : SendEmail(c, to, p)
  \/ \E l \in links : ConfirmEmail(c, l) \/ \E a \in Addrs : ChangeEmail(c, a, l)

Next ==
  \/ Tick
  \/ \E c \in Calls : LoadUser(c) \/ Abandon(c) \/ MakeCodes(c) \/ UseCodes(c) \/ ContactStep(c)

Spec == Init /\ [][Next]_vars

-----------------------------------------------------------------------------
(* Properties *)

\* The tables, copies and histories are what their declarations say; in
\* particular a stored attempt counter stays below the cap.
TypeOK ==
  /\ kind \in Kinds /\ now \in 0..MaxTime
  /\ row \in User /\ slot \in Slot
  /\ call \in [Calls -> Call]
  /\ drawn \in 0..MaxCodes /\ known \subseteq Codes /\ links \subseteq Link /\ made \subseteq Codes
  /\ issued \in [Codes -> 0..MaxTime] /\ sentTo \in [Codes -> Addrs \union {NoAddr}]
  /\ disturbed \subseteq Codes /\ accepted \subseteq Codes
  /\ misses \in [Codes -> 0..(PhoneTokenMaxAttempts + 1)]
  /\ misused \in BOOLEAN /\ late \in BOOLEAN
  /\ proven \subseteq Addrs

\* An SMS or recovery code is accepted once, and only while no newer code has
\* replaced it, unless its row was written between another call's read and
\* write of it: consumePhoneCode and RedeemRecoveryCode write back what they
\* read, so only such an overlap, or a removal that failed, brings a code back.
\* A reset key verifies nothing any more.  And a code that came back keeps the
\* expiry it was issued with: no SMS code is ever accepted after its time.
CodesWorkOnce == ~misused /\ ~late

\* PhoneTokenMaxAttempts wrong guesses end a code: no more than that are judged
\* against it, unless two guesses overlapped or the write of the counter failed
\* unnoticed.
GuessesAreBounded == \A k \in Codes : misses[k] <= PhoneTokenMaxAttempts

\* An address that is marked confirmed was proven: a link mailed to it was
\* opened, or the code sent to it was presented, although it may have been
\* changed by concurrent calls in between.  An SMS code for the current number
\* carries neither number nor stamp and proves only some number the account had.
ConfirmedAddressWasProven ==
  row.confirmed => \/ row.addr \in proven
                   \/ kind = "PhoneToken" /\ proven # {}
=============================================================================
