------------------------- MODULE OneTimeCodesProofs -------------------------
(***************************************************************************)
(* Proofs about OneTimeCodes for any number of calls and codes.            *)
(*                                                                         *)
(* A call that judges a guess holds a copy of the token row.  Either the   *)
(* copy is still the row, or every code in it is in disturbed: a write by  *)
(* another call puts the codes of all pending copies there.  So a code     *)
(* outside disturbed is judged against the row itself, and the row says    *)
(* whether it is spent and how often it was missed.                        *)
(***************************************************************************)
EXTENDS OneTimeCodes, FiniteSetTheorems, TLAPS

\* A value of the token row is made of codes that were drawn, with the expiry
\* and the number they were made with.
ValueInv(v) ==
  /\ v.codes \subseteq 1..drawn
  /\ kind \in SMSKinds => \A k \in v.codes : v.exp = issued[k] + PhoneTokenTTL
  /\ kind = "ChangePhoneToken" => \A k \in v.codes : sentTo[k] = v.for

JudgeInv(k) ==
  k.pc = "judge" =>
    /\ ValueInv(k.val)
    /\ k.val.codes \subseteq disturbed \/ k.val = slot
    /\ k.guess \in known \union {0}

SlotInv ==
  /\ ValueInv(slot)
  /\ \A k \in slot.codes \ disturbed :
       /\ k \in made
       /\ kind # "AuthenticatorKey" => k \notin accepted
       /\ kind \in SMSKinds => misses[k] = slot.attempts

HistoryInv ==
  /\ ~misused /\ ~late
  /\ accepted \subseteq 1..drawn /\ known \subseteq 1..drawn
  /\ kind \in SMSKinds => \A k \in known : sentTo[k] \in Addrs
  /\ \A k \in Codes : misses[k] <= PhoneTokenMaxAttempts
  /\ \A k \in Codes : k > drawn \/ k \in disturbed => misses[k] = 0

\* A stale copy of the user's row has an older stamp, or the address of now.
CopyInv(u) == u.ss <= row.ss /\ (u.ss = row.ss => u.addr = row.addr)

HolderInv(k) ==
  /\ k.fresh => k.u = row
  /\ k.pc # "idle" => CopyInv(k.u)
  /\ k.pc = "confirm" => /\ kind = "PhoneToken" => proven # {}
                         /\ kind = "ChangePhoneToken" => k.addr \in proven

\* A link was mailed to the address the account had under the link's stamp.
LinkInv(l) ==
  /\ l.ss <= row.ss
  /\ IF l.purpose = "confirm" THEN l.ss = row.ss => l.to = row.addr
                              ELSE l.to = l.purpose

TableInv == (\A c \in Calls : JudgeInv(call[c])) /\ SlotInv /\ HistoryInv
AccountInv ==
  /\ \A c \in Calls : HolderInv(call[c])
  /\ \A l \in links : LinkInv(l)
  /\ ConfirmedAddressWasProven

IInv == TypeOK /\ TableInv /\ AccountInv

-----------------------------------------------------------------------------
(* Types *)

LEMMA CodeCount ==
  /\ MaxCodes \in Nat /\ MaxMade \in Nat /\ BatchSize \in Nat
  /\ MaxMade * 1 <= MaxCodes /\ MaxMade * BatchSize = MaxCodes
BY CodeBounds, SMT DEF MaxCodes

LEMMA NoTokenFacts ==
  NoToken \in Slot /\ NoToken.codes = {} /\ NoToken.attempts = 0 /\ NoToken.for = NoAddr
<1>1. 0 \in 0..(MaxTime + PhoneTokenTTL) /\ 0 \in 0..(PhoneTokenMaxAttempts - 1)
  BY CodeBounds
<1> QED
  BY <1>1 DEF NoToken, Slot

LEMMA IdleFacts ==
  Idle \in Call /\ Idle.pc = "idle" /\ ~Idle.fresh /\ Idle.val = NoToken
<1>1. 0 \in 0..MaxStamp /\ 0 \in 0..MaxCodes
  BY CodeBounds, CodeCount
<1>2. [addr |-> NoAddr, confirmed |-> FALSE, ss |-> 0] \in User
  BY <1>1 DEF User
<1> QED
  BY <1>1, <1>2, NoTokenFacts DEF Idle, Call

LEMMA InitIInv == Init => IInv
<1> SUFFICES ASSUME Init PROVE IInv
  OBVIOUS
<1>1. TypeOK
  <2>1. 0 \in 0..MaxTime /\ 0 \in 0..MaxStamp /\ 0 \in 0..MaxCodes /\ 0 \in 0..(PhoneTokenMaxAttempts + 1)
    BY CodeBounds, CodeCount
  <2>2. row \in User
    BY <2>1 DEF Init, User
  <2>3. issued \in [Codes -> 0..MaxTime] /\ sentTo \in [Codes -> Addrs \union {NoAddr}]
        /\ misses \in [Codes -> 0..(PhoneTokenMaxAttempts + 1)] /\ call \in [Calls -> Call]
    BY <2>1, IdleFacts DEF Init
  <2> QED
    BY <2>1, <2>2, <2>3, NoTokenFacts DEF Init, TypeOK
<1>2. TableInv
  BY IdleFacts, NoTokenFacts, CodeBounds
     DEF Init, TableInv, JudgeInv, SlotInv, ValueInv, HistoryInv
<1>3. AccountInv
  <2>1. ~row.confirmed
    BY DEF Init
  <2> QED
    BY <2>1, IdleFacts DEF Init, AccountInv, HolderInv, ConfirmedAddressWasProven
<1> QED
  BY <1>1, <1>2, <1>3 DEF IInv

LEMMA Types ==
  ASSUME TypeOK
  PROVE  /\ kind \in Kinds /\ now \in 0..MaxTime /\ row \in User /\ slot \in Slot
         /\ call \in [Calls -> Call] /\ drawn \in 0..MaxCodes /\ known \subseteq Codes
         /\ links \subseteq Link /\ made \subseteq Codes
         /\ issued \in [Codes -> 0..MaxTime] /\ sentTo \in [Codes -> Addrs \union {NoAddr}]
         /\ disturbed \subseteq Codes /\ accepted \subseteq Codes
         /\ misses \in [Codes -> 0..(PhoneTokenMaxAttempts + 1)]
         /\ misused \in BOOLEAN /\ late \in BOOLEAN /\ proven \subseteq Addrs
         /\ Codes = 1..MaxCodes
BY DEF TypeOK, Codes

\* The parts of a call's state.
LEMMA CallFields ==
  ASSUME NEW k \in Call
  PROVE  /\ k.u \in User /\ k.fresh \in BOOLEAN /\ k.val \in Slot /\ k.guess \in 0..MaxCodes
         /\ k.addr \in Addrs \union {NoAddr}
BY DEF Call

LEMMA SlotFields ==
  ASSUME NEW v \in Slot
  PROVE  /\ v.codes \subseteq Codes /\ v.for \in Addrs \union {NoAddr}
         /\ v.exp \in 0..(MaxTime + PhoneTokenTTL) /\ v.attempts \in 0..(PhoneTokenMaxAttempts - 1)
BY DEF Slot

LEMMA UserFields ==
  ASSUME NEW u \in User
  PROVE  u.addr \in Addrs \union {NoAddr} /\ u.confirmed \in BOOLEAN /\ u.ss \in 0..MaxStamp
         /\ u.ss \in Nat
BY CodeBounds DEF User

-----------------------------------------------------------------------------
(* Steps that leave the token table and its histories alone *)

LEMMA TableKept ==
  ASSUME TableInv, UNCHANGED <<kind, tableVars, countVars>>,
         \A c \in Calls : call'[c].pc = "judge" =>
           /\ call[c].pc = "judge"
           /\ call'[c].val = call[c].val /\ call'[c].guess = call[c].guess
  PROVE  TableInv'
<1>1. UNCHANGED <<kind, slot, drawn, known, made, issued, sentTo, disturbed, accepted, misused, misses, late>>
  BY DEF tableVars, countVars
<1>2. SlotInv' /\ HistoryInv'
  BY <1>1 DEF TableInv, SlotInv, HistoryInv, ValueInv
<1>3. ASSUME NEW c \in Calls PROVE JudgeInv(call[c])'
  BY <1>1 DEF TableInv, JudgeInv, ValueInv
<1> QED
  BY <1>2, <1>3 DEF TableInv

\* Steps that keep the user's row and the links.
LEMMA AccountKept ==
  ASSUME AccountInv, UNCHANGED <<kind, row, links>>, proven \subseteq proven',
         \A c \in Calls : \/ call'[c] = call[c]
                          \/ HolderInv(call[c])'
  PROVE  AccountInv'
<1>1. ASSUME NEW c \in Calls PROVE HolderInv(call[c])'
  BY DEF AccountInv, HolderInv, CopyInv
<1>2. ASSUME NEW l \in links' PROVE LinkInv(l)'
  BY DEF AccountInv, LinkInv
<1>3. ConfirmedAddressWasProven'
  BY DEF AccountInv, ConfirmedAddressWasProven
<1> QED
  BY <1>1, <1>2, <1>3 DEF AccountInv

LEMMA TickPreserves == ASSUME IInv, Tick PROVE IInv'
<1>1. now' \in 0..MaxTime
  BY CodeBounds DEF IInv, TypeOK, Tick
<1>2. UNCHANGED <<kind, row, call, links, tableVars, historyVars>>
  BY DEF Tick
<1>3. TypeOK'
  BY <1>1, <1>2 DEF IInv, TypeOK, tableVars, historyVars, countVars
<1>4. TableInv' /\ AccountInv'
  BY <1>2, TableKept, AccountKept DEF IInv, historyVars
<1> QED
  BY <1>3, <1>4 DEF IInv

\* A step of call c on its copies only.
LEMMA LocalStep ==
  ASSUME IInv, NEW c \in Calls, NEW k \in Call, call' = [call EXCEPT ![c] = k],
         UNCHANGED <<kind, now, row, links, tableVars, historyVars>>,
         k.pc # "judge", HolderInv(k)
  PROVE  IInv'
<1>1. call'[c] = k /\ \A d \in Calls : d # c => call'[d] = call[d]
  BY DEF IInv, TypeOK
<1>2. TypeOK'
  BY DEF IInv, TypeOK, tableVars, historyVars, countVars
<1>3. TableInv'
  BY <1>1, TableKept DEF IInv, historyVars
<1>4. HolderInv(call[c])'
  BY <1>1 DEF HolderInv, CopyInv, historyVars
<1>5. AccountInv'
  BY <1>1, <1>4, AccountKept DEF IInv, historyVars
<1> QED
  BY <1>2, <1>3, <1>5 DEF IInv

LEMMA LoadUserPreserves == ASSUME IInv, NEW c \in Calls, LoadUser(c) PROVE IInv'
<1> DEFINE k == [Idle EXCEPT !.pc = "loaded", !.u = row, !.fresh = TRUE]
<1>1. row \in User
  BY DEF IInv, TypeOK
<1>2. k \in Call /\ k.pc = "loaded" /\ k.u = row
  BY <1>1, IdleFacts DEF Call
<1>3. HolderInv(k)
  BY <1>1, <1>2, UserFields DEF HolderInv, CopyInv
<1>4. call' = [call EXCEPT ![c] = k]
      /\ UNCHANGED <<kind, now, row, links, tableVars, historyVars>>
  BY DEF LoadUser
<1> HIDE DEF k
<1> QED
  BY <1>2, <1>3, <1>4, LocalStep

LEMMA AbandonPreserves == ASSUME IInv, NEW c \in Calls, Abandon(c) PROVE IInv'
<1>1. HolderInv(Idle)
  BY IdleFacts DEF HolderInv
<1> QED
  BY <1>1, IdleFacts, LocalStep DEF Abandon

LEMMA FirstKeyPreserves == ASSUME IInv, NEW c \in Calls, FirstKey(c) PROVE IInv'
<1> DEFINE k == [call[c] EXCEPT !.pc = "firstKey"]
<1>1. call[c] \in Call /\ HolderInv(call[c]) /\ call[c].pc = "loaded"
  BY DEF IInv, TypeOK, AccountInv, FirstKey
<1>2. k \in Call /\ k.pc = "firstKey" /\ k.u = call[c].u /\ k.fresh = call[c].fresh
  BY <1>1 DEF Call
<1>3. HolderInv(k)
  BY <1>1, <1>2 DEF HolderInv
<1>4. call' = [call EXCEPT ![c] = k]
      /\ UNCHANGED <<kind, now, row, links, tableVars, historyVars>>
  BY DEF FirstKey
<1> HIDE DEF k
<1> QED
  BY <1>2, <1>3, <1>4, LocalStep

LEMMA PresentPreserves ==
  ASSUME IInv, NEW c \in Calls, NEW guess \in 0..MaxCodes, NEW addr \in Addrs \union {NoAddr},
         Present(c, guess, addr)
  PROVE  IInv'
<1>0. PICK k : k = [call[c] EXCEPT !.pc = "judge", !.val = slot, !.guess = guess, !.addr = addr]
  OBVIOUS
<1>1. call[c] \in Call /\ HolderInv(call[c]) /\ call[c].pc = "loaded" /\ slot \in Slot
      /\ call \in [Calls -> Call]
  BY DEF IInv, TypeOK, AccountInv, Present
<1>2. k \in Call /\ k.pc = "judge" /\ k.u = call[c].u /\ k.fresh = call[c].fresh
      /\ k.val = slot /\ k.guess = guess
  BY <1>0, <1>1 DEF Call
<1>3. call' = [call EXCEPT ![c] = k]
      /\ UNCHANGED <<kind, now, row, links, tableVars, historyVars>>
  BY <1>0 DEF Present
<1>4. guess \in known \union {0}
  BY DEF Present
<1>5. UNCHANGED <<kind, slot, drawn, known, made, issued, sentTo, disturbed, accepted, misused,
                  misses, late, proven, row, links>>
  BY <1>3 DEF tableVars, historyVars, countVars
<1>6. call'[c] = k /\ \A d \in Calls : d # c => call'[d] = call[d]
  BY <1>1, <1>3
<1>7. TypeOK'
  BY <1>1, <1>2, <1>3, <1>5 DEF IInv, TypeOK
<1>8. TableInv'
  <2>1. SlotInv' /\ HistoryInv'
    BY <1>5 DEF IInv, TableInv, SlotInv, HistoryInv, ValueInv
  <2>2. JudgeInv(k)'
    BY <1>2, <1>4, <1>5 DEF IInv, TableInv, SlotInv, JudgeInv, ValueInv
  <2>3. ASSUME NEW d \in Calls, d # c PROVE JudgeInv(call[d])'
    BY <1>5, <1>6, <2>3 DEF IInv, TableInv, JudgeInv, ValueInv
  <2> QED
    BY <1>6, <2>1, <2>2, <2>3 DEF TableInv
<1>9. HolderInv(call[c])'
  BY <1>1, <1>2, <1>5, <1>6 DEF HolderInv, CopyInv
<1>10. AccountInv'
  BY <1>5, <1>6, <1>9, AccountKept DEF IInv
<1> QED
  BY <1>7, <1>8, <1>10 DEF IInv

-----------------------------------------------------------------------------
(* Steps that are recorded in the histories *)

\* Which codes count as disturbed after a write.
LEMMA RecordDisturbs ==
  ASSUME IInv, NEW c \in Calls, NEW ok \in BOOLEAN, NEW yes \in SUBSET Codes,
         NEW no \in SUBSET Codes, Record(c, ok, yes, no)
  PROVE  /\ disturbed \subseteq disturbed' /\ disturbed' \subseteq Codes
         /\ \A d \in Calls : d # c /\ call[d].pc = "judge" => call[d].val.codes \subseteq disturbed'
         /\ ok = FALSE => call[c].val.codes \subseteq disturbed'
<1>1. \A d \in Calls : call[d].val.codes \subseteq Codes
  BY CallFields, SlotFields DEF IInv, TypeOK
<1>2. disturbed' = disturbed \union Overtaken(c) \union (IF ok THEN {} ELSE call[c].val.codes)
  BY DEF Record
<1>3. disturbed \subseteq disturbed' /\ disturbed' \subseteq Codes
      /\ (ok = FALSE => call[c].val.codes \subseteq disturbed')
  BY <1>1, <1>2 DEF Overtaken, IInv, TypeOK
<1>4. ASSUME NEW d \in Calls, d # c, call[d].pc = "judge" PROVE call[d].val.codes \subseteq disturbed'
  BY <1>2, <1>4 DEF Overtaken, Holding
<1> QED
  BY <1>3, <1>4

\* How often a code was missed after a write.
LEMMA RecordMisses ==
  ASSUME IInv, NEW c \in Calls, NEW ok \in BOOLEAN, NEW yes \in SUBSET Codes,
         NEW no \in SUBSET Codes, Record(c, ok, yes, no), NEW k \in Codes
  PROVE  /\ k \in disturbed' => misses'[k] = 0
         /\ k \notin disturbed' /\ k \notin no => misses'[k] = misses[k]
         /\ k \notin disturbed' /\ k \in no => misses'[k] = misses[k] + 1
         /\ misses[k] \in 0..PhoneTokenMaxAttempts
         /\ misses'[k] \in 0..(PhoneTokenMaxAttempts + 1)
<1>1. misses[k] \in 0..PhoneTokenMaxAttempts
  BY CodeBounds DEF IInv, TypeOK, TableInv, HistoryInv
<1>2. misses'[k] =
       IF k \in disturbed' THEN 0
       ELSE IF k \in no /\ misses[k] <= PhoneTokenMaxAttempts THEN misses[k] + 1 ELSE misses[k]
  BY DEF Record
<1> QED
  BY <1>1, <1>2, CodeBounds

LEMMA RecordTypes ==
  ASSUME IInv, NEW c \in Calls, NEW ok \in BOOLEAN, NEW yes \in SUBSET Codes,
         NEW no \in SUBSET Codes, Record(c, ok, yes, no)
  PROVE  /\ accepted' \subseteq Codes /\ misused' \in BOOLEAN /\ late' \in BOOLEAN
         /\ misses' \in [Codes -> 0..(PhoneTokenMaxAttempts + 1)]
<1>1. accepted' \subseteq Codes
  BY DEF Record, IInv, TypeOK
<1>2. misused' \in BOOLEAN /\ late' \in BOOLEAN
  BY DEF Record
<1>3. misses' = [k \in Codes |-> misses'[k]]
  BY DEF Record
<1>4. \A k \in Codes : misses'[k] \in 0..(PhoneTokenMaxAttempts + 1)
  BY RecordMisses
<1>5. misses' \in [Codes -> 0..(PhoneTokenMaxAttempts + 1)]
  BY <1>3, <1>4
<1> QED
  BY <1>1, <1>2, <1>5

\* A write of the token row by call c: what is left to show is that the row
\* and the histories agree afterwards.
LEMMA RecordedStep ==
  ASSUME IInv, NEW c \in Calls, NEW k \in Call, k.pc # "judge", HolderInv(k)',
         call' = [call EXCEPT ![c] = k], UNCHANGED <<kind, now, row, links>>,
         proven \subseteq proven', proven' \subseteq Addrs, slot' \in Slot,
         NEW ok \in BOOLEAN, NEW yes \in SUBSET Codes, NEW no \in SUBSET Codes,
         Record(c, ok, yes, no),
         drawn' \in 0..MaxCodes, drawn <= drawn', known \subseteq known', known' \subseteq Codes,
         made' \subseteq Codes, issued' \in [Codes -> 0..MaxTime],
         sentTo' \in [Codes -> Addrs \union {NoAddr}],
         \A j \in 1..drawn : issued'[j] = issued[j] /\ sentTo'[j] = sentTo[j],
         SlotInv', HistoryInv'
  PROVE  IInv'
<1>1. call'[c] = k /\ \A d \in Calls : d # c => call'[d] = call[d]
  BY DEF IInv, TypeOK
<1>2. TypeOK'
  <2>1. call' \in [Calls -> Call]
    BY DEF IInv, TypeOK
  <2>2. /\ disturbed' \subseteq Codes /\ accepted' \subseteq Codes /\ misused' \in BOOLEAN
        /\ late' \in BOOLEAN /\ misses' \in [Codes -> 0..(PhoneTokenMaxAttempts + 1)]
    BY RecordDisturbs, RecordTypes
  <2> QED
    BY <2>1, <2>2 DEF IInv, TypeOK
<1>3. ASSUME NEW d \in Calls PROVE JudgeInv(call[d])'
  <2>1. CASE d = c
    BY <1>1, <2>1 DEF JudgeInv
  <2>2. CASE d # c /\ call[d].pc = "judge"
    <3> DEFINE v == call[d].val
    <3>1. call'[d] = call[d] /\ call'[d].val = v
      BY <1>1, <2>2
    <3>2. ValueInv(v) /\ call[d].guess \in known \union {0}
      BY <2>2 DEF IInv, TableInv, JudgeInv
    <3>3. v.codes \subseteq disturbed'
      BY <2>2, RecordDisturbs
    <3>4. v.codes \subseteq 1..drawn' /\ 1..drawn \subseteq 1..drawn'
      BY <3>2, CodeBounds, CodeCount DEF ValueInv, IInv, TypeOK
    <3>5. ValueInv(call[d].val)'
      BY <3>1, <3>2, <3>4 DEF ValueInv
    <3> QED
      BY <3>1, <3>2, <3>3, <3>5 DEF JudgeInv
  <2>3. CASE d # c /\ call[d].pc # "judge"
    BY <1>1, <2>3 DEF JudgeInv
  <2> QED
    BY <2>1, <2>2, <2>3
<1>4. TableInv'
  BY <1>3 DEF TableInv
<1>5. HolderInv(call[c])'
  BY <1>1
<1>6. AccountInv'
  BY <1>1, <1>5, AccountKept DEF IInv
<1> QED
  BY <1>2, <1>4, <1>6 DEF IInv

-----------------------------------------------------------------------------
(* Codes are made *)

\* Codes are drawn in order, so the next ones are above every one drawn.
LEMMA FreshCodes ==
  ASSUME IInv, NEW c \in Calls, NEW n \in {1, BatchSize}, NEW value, NEW addr,
         Store(c, Fresh(n), value, addr)
  PROVE  /\ drawn' = drawn + n /\ drawn' \in 0..MaxCodes /\ drawn' \in Nat
         /\ Fresh(n) \subseteq 1..drawn' /\ Fresh(n) \subseteq Codes /\ 1..drawn \subseteq 1..drawn'
         /\ \A k \in Fresh(n) : k > drawn
         /\ \A k \in 1..drawn : k \notin Fresh(n) /\ k \in Codes
<1> DEFINE ks == Fresh(n)
<1>1. n \in Nat /\ n > 0 /\ drawn \in Nat /\ drawn \in 0..MaxCodes /\ MaxCodes \in Nat
  BY CodeBounds, CodeCount DEF IInv, TypeOK
<1>2. Cardinality(ks) = n
  <2>1. \A a, b \in Int : a <= b => Cardinality(a..b) = b - a + 1
    BY FS_Interval
  <2>2. drawn + 1 \in Int /\ drawn + n \in Int /\ drawn + 1 <= drawn + n
        /\ (drawn + n) - (drawn + 1) + 1 = n
    BY <1>1
  <2> QED
    BY <2>1, <2>2 DEF Fresh
<1>3. drawn' = drawn + n /\ drawn' \in 0..MaxCodes /\ drawn' \in Nat
  <2>1. drawn' = drawn + n /\ drawn' <= MaxMade * n
    BY <1>2 DEF Store
  <2>2. MaxMade * n <= MaxCodes /\ MaxMade * n \in Nat
    BY CodeCount, CodeBounds
  <2> QED
    BY <1>1, <2>1, <2>2
<1> QED
  BY <1>1, <1>3 DEF Fresh, Codes

\* New codes: never drawn before, and nothing is recorded against them.
LEMMA StoreStep ==
  ASSUME IInv, NEW c \in Calls, call[c].pc \in {"loaded", "firstKey"},
         NEW n \in {1, BatchSize}, NEW value \in Slot, NEW addr \in Addrs \union {NoAddr},
         value.codes = Fresh(n), Store(c, Fresh(n), value, addr), value.attempts = 0,
         kind \in SMSKinds => value.exp = now + PhoneTokenTTL,
         kind = "ChangePhoneToken" => value.for = addr,
         known' \in {known, known \union Fresh(n)},
         known' # known /\ kind \in SMSKinds => addr \in Addrs,
         call' \in {call, [call EXCEPT ![c].pc = "loaded"]}
  PROVE  IInv'
<1> DEFINE ks == Fresh(n)
<1>1. n \in Nat /\ n > 0 /\ drawn \in Nat /\ drawn \in 0..MaxCodes /\ MaxCodes \in Nat
  BY CodeBounds, CodeCount DEF IInv, TypeOK
<1>3. drawn' = drawn + n /\ drawn' \in 0..MaxCodes /\ drawn' \in Nat
  BY FreshCodes
<1>4. ks \subseteq 1..drawn' /\ ks \subseteq Codes /\ 1..drawn \subseteq 1..drawn'
      /\ (\A k \in ks : k > drawn) /\ \A k \in 1..drawn : k \notin ks /\ k \in Codes
  BY FreshCodes
<1>5. /\ slot' = value /\ Record(c, TRUE, {}, {}) /\ made' = ks
      /\ issued' = [k \in Codes |-> IF k \in ks THEN now ELSE issued[k]]
      /\ sentTo' = [k \in Codes |-> IF k \in ks THEN addr ELSE sentTo[k]]
      /\ UNCHANGED <<kind, now, row, links, proven>>
  BY DEF Store, SetToken, Write
<1>r. PICK ok \in BOOLEAN, yes \in SUBSET Codes, no \in SUBSET Codes :
         Record(c, ok, yes, no) /\ \A j \in Codes : j \notin yes /\ j \notin no
  <2> WITNESS TRUE \in BOOLEAN, {} \in SUBSET Codes, {} \in SUBSET Codes
  <2> QED
    BY <1>5
<1> HIDE DEF ks
<1>6. issued' \in [Codes -> 0..MaxTime] /\ sentTo' \in [Codes -> Addrs \union {NoAddr}]
      /\ (\A j \in 1..drawn : issued'[j] = issued[j] /\ sentTo'[j] = sentTo[j])
      /\ (\A j \in ks : issued'[j] = now /\ sentTo'[j] = addr)
  BY <1>4, <1>5, Types DEF IInv
<1>7. PICK k : k = (IF call' = call THEN call[c] ELSE [call[c] EXCEPT !.pc = "loaded"])
  OBVIOUS
<1>8. /\ k \in Call /\ k.pc \in {"loaded", "firstKey"}
      /\ k.u = call[c].u /\ k.fresh = call[c].fresh
      /\ call' = [call EXCEPT ![c] = k]
  <2>1. call[c] \in Call /\ call \in [Calls -> Call]
    BY Types DEF IInv
  <2>2. CASE call' = call
    BY <1>7, <2>1, <2>2
  <2>3. CASE call' # call
    BY <1>7, <2>1, <2>3 DEF Call
  <2> QED
    BY <2>2, <2>3
<1>9. HolderInv(k)'
  BY <1>5, <1>8 DEF IInv, AccountInv, HolderInv, CopyInv
<1>10. known \subseteq known' /\ known' \subseteq 1..drawn' /\ known' \subseteq Codes
  BY <1>4, Types DEF IInv, TableInv, HistoryInv, ks
<1>11. \A j \in Codes : j > drawn => misses[j] = 0
  BY DEF IInv, TableInv, HistoryInv
<1>12. /\ disturbed \subseteq disturbed'
       /\ accepted' = accepted \ disturbed'
       /\ \A j \in Codes : misses'[j] = 0 \/ (j \notin disturbed' /\ misses'[j] = misses[j])
       /\ \A j \in Codes : j \in disturbed' => misses'[j] = 0
  <2>1. disturbed \subseteq disturbed'
    BY <1>r, RecordDisturbs
  <2>2. accepted' = accepted \ disturbed'
    BY <1>5 DEF Record
  <2>3. ASSUME NEW j \in Codes
        PROVE  /\ j \in disturbed' => misses'[j] = 0
               /\ j \notin disturbed' => misses'[j] = misses[j]
    BY <1>r, RecordMisses
  <2> QED
    BY <2>1, <2>2, <2>3
<1>13. SlotInv'
  <2>1. ValueInv(slot)'
    <3>1. slot'.codes = ks
      BY <1>5 DEF ks
    <3> QED
      BY <1>4, <1>5, <1>6, <3>1 DEF ValueInv
  <2>2. ASSUME NEW j \in ks
        PROVE  j \in made' /\ j \notin accepted' /\ misses'[j] = slot'.attempts
    <3>1. j > drawn /\ j \in Codes
      BY <1>4
    <3>2. j \notin accepted
      BY <1>4 DEF IInv, TableInv, HistoryInv
    <3> QED
      BY <1>5, <1>11, <1>12, <3>1, <3>2
  <2>3. slot'.codes = ks
    BY <1>5 DEF ks
  <2> QED
    BY <2>1, <2>2, <2>3 DEF SlotInv
<1>14. HistoryInv'
  <2>1. ~misused' /\ ~late'
    BY <1>5 DEF Record, IInv, TableInv, HistoryInv
  <2>2. accepted' \subseteq 1..drawn'
    BY <1>4, <1>12 DEF IInv, TableInv, HistoryInv
  <2>3. kind' \in SMSKinds => \A j \in known' : sentTo'[j] \in Addrs
    <3> SUFFICES ASSUME kind \in SMSKinds, NEW j \in known' PROVE sentTo'[j] \in Addrs
      BY <1>5
    <3>1. CASE j \in known
      BY <1>6, <3>1 DEF IInv, TableInv, HistoryInv
    <3>2. CASE j \notin known
      BY <1>6, <3>2 DEF ks
    <3> QED
      BY <3>1, <3>2
  <2>4. ASSUME NEW j \in Codes
        PROVE  misses'[j] <= PhoneTokenMaxAttempts /\ (j > drawn' \/ j \in disturbed' => misses'[j] = 0)
    <3>1. j > drawn' => j > drawn
      BY <1>1, <1>3 DEF Codes
    <3> QED
      BY <1>11, <1>12, <3>1, CodeBounds DEF IInv, TableInv, HistoryInv
  <2> QED
    BY <1>10, <2>1, <2>2, <2>3, <2>4 DEF HistoryInv
<1>15. drawn <= drawn' /\ made' \subseteq Codes /\ proven' \subseteq Addrs /\ slot' \in Slot
  BY <1>1, <1>3, <1>4, <1>5, Types DEF IInv
<1> QED
  BY <1>r, <1>3, <1>5, <1>6, <1>8, <1>9, <1>10, <1>13, <1>14, <1>15, RecordedStep

LEMMA PhoneCodeFacts ==
  ASSUME IInv, NEW ks \in SUBSET Codes, NEW addr \in Addrs \union {NoAddr}
  PROVE  /\ PhoneCode(ks, addr) \in Slot /\ PhoneCode(ks, addr).codes = ks
         /\ PhoneCode(ks, addr).attempts = 0 /\ PhoneCode(ks, addr).for = addr
         /\ PhoneCode(ks, addr).exp = now + PhoneTokenTTL
<1>1. now + PhoneTokenTTL \in 0..(MaxTime + PhoneTokenTTL) /\ 0 \in 0..(PhoneTokenMaxAttempts - 1)
  BY CodeBounds DEF IInv, TypeOK
<1> QED
  BY <1>1 DEF PhoneCode, Slot

LEMMA KeyFacts ==
  ASSUME NEW ks \in SUBSET Codes
  PROVE  /\ [NoToken EXCEPT !.codes = ks] \in Slot /\ [NoToken EXCEPT !.codes = ks].codes = ks
         /\ [NoToken EXCEPT !.codes = ks].attempts = 0
BY NoTokenFacts DEF Slot

LEMMA SendPhoneTokenPreserves ==
  ASSUME IInv, NEW c \in Calls, NEW delivered \in BOOLEAN, SendPhoneToken(c, delivered)
  PROVE  IInv'
<1>0. PICK n \in {1, BatchSize} : n = 1
  OBVIOUS
<1>1. PICK value : value = PhoneCode(Fresh(n), NoAddr)
  OBVIOUS
<1>2. PICK addr : addr = call[c].u.addr
  OBVIOUS
<1>3. kind = "PhoneToken" /\ call[c].pc = "loaded" /\ Store(c, Fresh(n), value, addr) /\ call' = call
      /\ known' = IF delivered THEN known \union Fresh(n) ELSE known
  BY <1>0, <1>1, <1>2 DEF SendPhoneToken
<1>4. addr \in Addrs \union {NoAddr} /\ (delivered => addr \in Addrs)
  BY <1>2, Types, CallFields, UserFields DEF IInv, SendPhoneToken
<1>5. value \in Slot /\ value.codes = Fresh(n) /\ value.attempts = 0 /\ value.exp = now + PhoneTokenTTL
  BY <1>1, <1>3, FreshCodes, PhoneCodeFacts
<1> QED
  BY <1>3, <1>4, <1>5, StoreStep

LEMMA SendChangePhoneNumberTokenPreserves ==
  ASSUME IInv, NEW c \in Calls, NEW newPhone \in Addrs, NEW delivered \in BOOLEAN,
         SendChangePhoneNumberToken(c, newPhone, delivered)
  PROVE  IInv'
<1>0. PICK n \in {1, BatchSize} : n = 1
  OBVIOUS
<1>1. PICK value : value = PhoneCode(Fresh(n), newPhone)
  OBVIOUS
<1>2. kind = "ChangePhoneToken" /\ call[c].pc = "loaded" /\ Store(c, Fresh(n), value, newPhone)
      /\ call' = call /\ known' = IF delivered THEN known \union Fresh(n) ELSE known
  BY <1>0, <1>1 DEF SendChangePhoneNumberToken
<1>3. value \in Slot /\ value.codes = Fresh(n) /\ value.attempts = 0 /\ value.for = newPhone
      /\ value.exp = now + PhoneTokenTTL
  BY <1>1, <1>2, FreshCodes, PhoneCodeFacts
<1> QED
  BY <1>2, <1>3, StoreStep

LEMMA GenerateRecoveryCodesPreserves ==
  ASSUME IInv, NEW c \in Calls, GenerateRecoveryCodes(c) PROVE IInv'
<1>0. PICK n \in {1, BatchSize} : n = BatchSize
  OBVIOUS
<1>1. PICK value : value = [NoToken EXCEPT !.codes = Fresh(n)]
  OBVIOUS
<1>2. kind = "RecoveryCodes" /\ call[c].pc = "loaded" /\ Store(c, Fresh(n), value, NoAddr)
      /\ call' = call /\ known' = known \union Fresh(n)
  BY <1>0, <1>1 DEF GenerateRecoveryCodes
<1>3. value \in Slot /\ value.codes = Fresh(n) /\ value.attempts = 0
  BY <1>1, <1>2, FreshCodes, KeyFacts
<1> QED
  BY <1>2, <1>3, StoreStep DEF SMSKinds

LEMMA NewKeyPreserves == ASSUME IInv, NEW c \in Calls, NewKey(c) PROVE IInv'
<1>0. PICK n \in {1, BatchSize} : n = 1
  OBVIOUS
<1>1. PICK value : value = [NoToken EXCEPT !.codes = Fresh(n)]
  OBVIOUS
<1>2. kind = "AuthenticatorKey" /\ call[c].pc \in {"loaded", "firstKey"}
      /\ Store(c, Fresh(n), value, NoAddr)
      /\ call' = [call EXCEPT ![c].pc = "loaded"] /\ known' = known \union Fresh(n)
  BY <1>0, <1>1 DEF NewKey
<1>3. value \in Slot /\ value.codes = Fresh(n) /\ value.attempts = 0
  BY <1>1, <1>2, FreshCodes, KeyFacts
<1> QED
  BY <1>2, <1>3, StoreStep DEF SMSKinds

-----------------------------------------------------------------------------
(* Codes are presented *)

LEMMA Judged ==
  ASSUME IInv, NEW c \in Calls, call[c].pc = "judge"
  PROVE  /\ call[c] \in Call /\ call[c].val \in Slot /\ call[c].val.codes \subseteq Codes
         /\ ValueInv(call[c].val) /\ call[c].val.codes \subseteq 1..drawn
         /\ call[c].val.codes \subseteq disturbed \/ call[c].val = slot
         /\ call[c].guess \in known \union {0}
         /\ 0 \notin Codes
<1>1. call[c] \in Call /\ call[c].val \in Slot /\ call[c].val.codes \subseteq Codes
  BY CallFields, SlotFields DEF IInv, TypeOK
<1>2. 0 \notin Codes
  BY CodeCount DEF Codes
<1> QED
  BY <1>1, <1>2 DEF IInv, TableInv, JudgeInv, ValueInv

\* A guess at a code outside disturbed was judged against the row itself.
LEMMA JudgeHistory ==
  ASSUME IInv, NEW c \in Calls, call[c].pc = "judge", NEW ok \in BOOLEAN,
         NEW yes \in SUBSET Codes, NEW no \in SUBSET Codes, Record(c, ok, yes, no),
         yes \subseteq call[c].val.codes, no \subseteq call[c].val.codes,
         \A k \in no : kind \in SMSKinds,
         \A k \in yes : kind \in SMSKinds => now <= call[c].val.exp,
         UNCHANGED <<kind, drawn, known, sentTo>>
  PROVE  HistoryInv'
<1> DEFINE v == call[c].val
<1>1. \A k \in v.codes : k \in disturbed \/ (k \in slot.codes \ disturbed /\ v = slot)
  BY Judged
<1>2. ~misused'
  <2>1. ASSUME NEW k \in yes, k \notin disturbed
        PROVE  k \in made /\ ~(k \in accepted /\ kind # "AuthenticatorKey")
    <3>1. k \in slot.codes \ disturbed
      BY <1>1, <2>1
    <3> QED
      BY <3>1 DEF IInv, TableInv, SlotInv
  <2>2. ~misused
    BY DEF IInv, TableInv, HistoryInv
  <2> QED
    BY <2>1, <2>2 DEF Record
<1>3. ~late'
  <2>1. ASSUME NEW k \in yes, kind \in SMSKinds PROVE ~(now > issued[k] + PhoneTokenTTL)
    <3>1. v.exp = issued[k] + PhoneTokenTTL /\ now <= v.exp
      BY <2>1, Judged DEF ValueInv
    <3>2. now \in Nat /\ issued[k] \in Nat
      BY CodeBounds, Types DEF IInv
    <3> QED
      BY <3>1, <3>2, CodeBounds
  <2>2. ~late
    BY DEF IInv, TableInv, HistoryInv
  <2> QED
    BY <2>1, <2>2 DEF Record
<1>4. accepted' \subseteq 1..drawn'
  <2>1. yes \subseteq 1..drawn /\ accepted \subseteq 1..drawn
    BY Judged DEF IInv, TableInv, HistoryInv
  <2> QED
    BY <2>1 DEF Record
<1>5. known' \subseteq 1..drawn' /\ (kind' \in SMSKinds => \A k \in known' : sentTo'[k] \in Addrs)
  BY DEF IInv, TableInv, HistoryInv
<1>6. ASSUME NEW k \in Codes
      PROVE  misses'[k] <= PhoneTokenMaxAttempts /\ (k > drawn' \/ k \in disturbed' => misses'[k] = 0)
  <2>1. CASE k \in disturbed'
    <3>1. misses'[k] = 0
      BY <2>1, RecordMisses
    <3> QED
      BY <3>1, CodeBounds
  <2>2. CASE k \notin disturbed' /\ k \notin no
    <3>1. misses'[k] = misses[k]
      BY <2>2, RecordMisses
    <3>2. disturbed \subseteq disturbed'
      BY RecordDisturbs
    <3> QED
      BY <2>2, <3>1, <3>2 DEF IInv, TableInv, HistoryInv
  <2>3. CASE k \notin disturbed' /\ k \in no
    <3>1. misses'[k] = misses[k] + 1 /\ misses[k] \in Nat
      BY <2>3, RecordMisses, CodeBounds
    <3>2. k \in slot.codes \ disturbed
      BY <1>1, <2>3, RecordDisturbs
    <3>3. misses[k] = slot.attempts
      BY <2>3, <3>2 DEF IInv, TableInv, SlotInv
    <3>4. slot.attempts \in 0..(PhoneTokenMaxAttempts - 1)
      BY Types, SlotFields DEF IInv
    <3>5. ~(k > drawn)
      <4>1. k \in 1..drawn /\ drawn \in Nat
        BY <2>3, Judged, CodeCount, Types DEF IInv
      <4> QED
        BY <4>1
    <3> QED
      BY <2>3, <3>1, <3>3, <3>4, <3>5, CodeBounds
  <2> QED
    BY <2>1, <2>2, <2>3
<1> QED
  BY <1>2, <1>3, <1>4, <1>5, <1>6 DEF HistoryInv

LEMMA SlotCleared == ASSUME slot' = NoToken PROVE SlotInv'
BY NoTokenFacts DEF SlotInv, ValueInv

\* The write failed: the codes of the copy are disturbed.
LEMMA SlotUnwritten ==
  ASSUME IInv, NEW c \in Calls, call[c].pc = "judge", NEW ok \in BOOLEAN, ok = FALSE,
         NEW yes \in SUBSET Codes, NEW no \in SUBSET Codes, Record(c, ok, yes, no),
         yes \subseteq call[c].val.codes, no \subseteq call[c].val.codes,
         UNCHANGED <<kind, slot, drawn, made, issued, sentTo>>
  PROVE  SlotInv'
<1>1. ValueInv(slot)'
  BY DEF IInv, TableInv, SlotInv, ValueInv
<1>2. disturbed \subseteq disturbed' /\ call[c].val.codes \subseteq disturbed'
  BY RecordDisturbs
<1>3. ASSUME NEW k \in slot.codes \ disturbed'
      PROVE  /\ k \in made' /\ (kind' # "AuthenticatorKey" => k \notin accepted')
             /\ (kind' \in SMSKinds => misses'[k] = slot'.attempts)
  <2>1. k \in slot.codes \ disturbed /\ k \notin yes /\ k \notin no /\ k \in Codes
    BY <1>2, <1>3, Types, SlotFields DEF IInv
  <2>2. misses'[k] = misses[k]
    BY <1>3, <2>1, RecordMisses
  <2>3. k \in accepted' => k \in accepted
    BY <2>1 DEF Record
  <2> QED
    BY <2>1, <2>2, <2>3 DEF IInv, TableInv, SlotInv
<1> QED
  BY <1>1, <1>3 DEF SlotInv

\* A call has judged its guess.
LEMMA JudgeStep ==
  ASSUME IInv, NEW c \in Calls, call[c].pc = "judge", NEW ok \in BOOLEAN,
         NEW yes \in SUBSET Codes, NEW no \in SUBSET Codes, Record(c, ok, yes, no),
         yes \subseteq call[c].val.codes, no \subseteq call[c].val.codes,
         \A k \in no : kind \in SMSKinds,
         \A k \in yes : kind \in SMSKinds => now <= call[c].val.exp,
         NEW next \in {"loaded", "confirm"}, Done(c, next),
         UNCHANGED <<kind, now, row, links, drawn, known, made, issued, sentTo>>,
         proven \subseteq proven', proven' \subseteq Addrs, slot' \in Slot, SlotInv',
         next = "confirm" => proven' # {} /\ (kind = "ChangePhoneToken" => call[c].addr \in proven')
  PROVE  IInv'
<1>1. PICK k : k = [call[c] EXCEPT !.pc = next, !.val = NoToken, !.guess = 0,
                      !.addr = IF next = "confirm" THEN call[c].addr ELSE NoAddr]
  OBVIOUS
<1>2. call' = [call EXCEPT ![c] = k]
  BY <1>1 DEF Done
<1>3. k \in Call /\ k.pc = next /\ k.u = call[c].u /\ k.fresh = call[c].fresh
      /\ (next = "confirm" => k.addr = call[c].addr)
  <2>1. 0 \in 0..MaxCodes
    BY CodeCount
  <2> QED
    BY <1>1, <2>1, Judged, NoTokenFacts DEF Call
<1>4. HolderInv(call[c])
  BY DEF IInv, AccountInv
<1>5. HolderInv(k)'
  BY <1>3, <1>4 DEF HolderInv, CopyInv
<1>6. HistoryInv'
  BY JudgeHistory
<1>7. /\ drawn' \in 0..MaxCodes /\ drawn <= drawn' /\ known' \subseteq Codes /\ made' \subseteq Codes
      /\ issued' \in [Codes -> 0..MaxTime] /\ sentTo' \in [Codes -> Addrs \union {NoAddr}]
  BY Types, CodeCount DEF IInv
<1> QED
  BY <1>2, <1>3, <1>5, <1>6, <1>7, RecordedStep

LEMMA WriteCases ==
  ASSUME NEW value, NEW ok \in BOOLEAN, Write(value, ok)
  PROVE  (ok = TRUE /\ slot' = value) \/ (ok = FALSE /\ slot' = slot)
BY DEF Write

LEMMA RemoveExpiredPreserves ==
  ASSUME IInv, NEW c \in Calls, NEW ok \in BOOLEAN, RemoveExpired(c, ok) PROVE IInv'
<1>1. PICK yes \in SUBSET Codes, no \in SUBSET Codes :
         Record(c, ok, yes, no) /\ yes = {} /\ no = {}
  <2> WITNESS {} \in SUBSET Codes, {} \in SUBSET Codes
  <2> QED
    BY DEF RemoveExpired
<1>2. call[c].pc = "judge" /\ Write(NoToken, ok) /\ Done(c, "loaded")
      /\ UNCHANGED <<kind, now, row, links, drawn, known, made, issued, sentTo, proven>>
  BY DEF RemoveExpired, RemoveToken
<1>3. slot' \in Slot /\ SlotInv'
  <2>1. CASE ok = TRUE
    BY <1>2, <2>1, WriteCases, SlotCleared, NoTokenFacts
  <2>2. CASE ok = FALSE
    BY <1>1, <1>2, <2>2, WriteCases, SlotUnwritten, Types DEF IInv
  <2> QED
    BY <2>1, <2>2
<1>4. proven' \subseteq Addrs
  BY <1>2, Types DEF IInv
<1> QED
  BY <1>1, <1>2, <1>3, <1>4, JudgeStep

LEMMA ConsumePhoneCodePreserves ==
  ASSUME IInv, NEW c \in Calls, NEW ok \in BOOLEAN, NEW next \in {"loaded", "confirm"},
         ConsumePhoneCode(c, ok, next)
  PROVE  IInv'
<1> DEFINE g == call[c].guess
           v == call[c].val
<1>1. /\ kind \in SMSKinds /\ call[c].pc = "judge" /\ ~Expired(v)
      /\ g \in v.codes /\ call[c].addr = v.for
      /\ Write(NoToken, ok) /\ Record(c, ok, {g}, {}) /\ Done(c, next)
      /\ proven' = proven \union {sentTo[g]}
      /\ UNCHANGED <<kind, now, row, links, drawn, known, made, issued, sentTo>>
  BY DEF ConsumePhoneCode, Matches, Consume, RemoveToken
<1>2. PICK yes \in SUBSET Codes, no \in SUBSET Codes :
         Record(c, ok, yes, no) /\ yes = {g} /\ no = {}
  <2>1. g \in Codes
    BY <1>1, Judged
  <2> USE <2>1
  <2> WITNESS {g} \in SUBSET Codes, {} \in SUBSET Codes
  <2> QED
    BY <1>1
<1>3. now <= v.exp
  <2>1. now \in Nat /\ v.exp \in Nat
    BY <1>1, Judged, Types, SlotFields, CodeBounds DEF IInv
  <2> QED
    BY <1>1, <2>1 DEF Expired
<1>4. sentTo[g] \in Addrs
  <2>1. g \in known
    BY <1>1, Judged
  <2> QED
    BY <1>1, <2>1 DEF IInv, TableInv, HistoryInv
<1>5. kind = "ChangePhoneToken" => sentTo[g] = call[c].addr
  BY <1>1, Judged DEF ValueInv
<1>6. slot' \in Slot /\ SlotInv'
  <2>1. CASE ok = TRUE
    BY <1>1, <2>1, WriteCases, SlotCleared, NoTokenFacts
  <2>2. CASE ok = FALSE
    <3>1. UNCHANGED slot
      BY <1>1, <2>2, WriteCases
    <3> QED
      BY <1>1, <1>2, <2>2, <3>1, SlotUnwritten, Types DEF IInv
  <2> QED
    BY <2>1, <2>2
<1>7. proven' \subseteq Addrs /\ proven \subseteq proven' /\ proven' # {}
      /\ (kind = "ChangePhoneToken" => call[c].addr \in proven')
  BY <1>1, <1>4, <1>5, Types DEF IInv
<1>8. yes \subseteq v.codes /\ no \subseteq v.codes /\ (\A k \in no : kind \in SMSKinds)
      /\ (\A k \in yes : kind \in SMSKinds => now <= v.exp)
  BY <1>1, <1>2, <1>3
<1> QED
  BY <1>1, <1>2, <1>6, <1>7, <1>8, JudgeStep

\* A wrong guess that leaves the code alive counts one attempt in the row.
LEMMA MissedFacts ==
  ASSUME NEW v \in Slot
  PROVE  /\ Missed(v) \in Slot
         /\ \/ Missed(v) = NoToken
            \/ /\ Missed(v).codes = v.codes /\ Missed(v).exp = v.exp /\ Missed(v).for = v.for
               /\ Missed(v).attempts = v.attempts + 1
<1>1. CASE v.attempts + 1 >= PhoneTokenMaxAttempts
  BY <1>1, NoTokenFacts DEF Missed
<1>2. CASE ~(v.attempts + 1 >= PhoneTokenMaxAttempts)
  <2> DEFINE w == [v EXCEPT !.attempts = v.attempts + 1]
  <2>1. v.attempts + 1 \in 0..(PhoneTokenMaxAttempts - 1)
    BY <1>2, SlotFields, CodeBounds
  <2>2. Missed(v) = w
    BY <1>2 DEF Missed
  <2>3. w \in Slot /\ w.codes = v.codes /\ w.exp = v.exp /\ w.for = v.for /\ w.attempts = v.attempts + 1
    BY <2>1 DEF Slot
  <2> QED
    BY <2>2, <2>3
<1> QED
  BY <1>1, <1>2

LEMMA MissPhoneCodePreserves ==
  ASSUME IInv, NEW c \in Calls, NEW ok \in BOOLEAN, MissPhoneCode(c, ok) PROVE IInv'
<1>v. PICK v : v = call[c].val
  OBVIOUS
<1>1. /\ kind \in SMSKinds /\ call[c].pc = "judge" /\ Write(Missed(v), ok)
      /\ Record(c, ok, {}, v.codes) /\ Done(c, "loaded")
      /\ UNCHANGED <<kind, now, row, links, drawn, known, made, issued, sentTo, proven>>
  BY <1>v DEF MissPhoneCode
<1>2. v \in Slot /\ v.codes \subseteq Codes /\ ValueInv(v) /\ (v.codes \subseteq disturbed \/ v = slot)
  BY <1>v, <1>1, Judged
<1>3. PICK yes \in SUBSET Codes, no \in SUBSET Codes :
         Record(c, ok, yes, no) /\ yes = {} /\ no = v.codes
  <2> USE <1>2
  <2> WITNESS {} \in SUBSET Codes, v.codes \in SUBSET Codes
  <2> QED
    BY <1>1
<1>4. slot' \in Slot /\ SlotInv'
  <2>1. CASE ok = TRUE
    <3>1. slot' = Missed(v)
      BY <1>1, <2>1, WriteCases
    <3>2. CASE slot' = NoToken
      BY <3>2, SlotCleared, NoTokenFacts
    <3>3. CASE slot'.codes = v.codes /\ slot'.exp = v.exp /\ slot'.for = v.for
               /\ slot'.attempts = v.attempts + 1
      <4>1. ValueInv(slot)'
        BY <1>1, <1>2, <3>3 DEF ValueInv
      <4>2. ASSUME NEW k \in v.codes \ disturbed'
            PROVE  k \in made' /\ k \notin accepted' /\ misses'[k] = slot'.attempts
        <5>1. k \in slot.codes \ disturbed /\ v = slot /\ k \in Codes
          BY <1>2, <1>3, RecordDisturbs
        <5>2. k \in made /\ k \notin accepted /\ misses[k] = slot.attempts
          BY <1>1, <5>1 DEF IInv, TableInv, SlotInv, SMSKinds
        <5>3. misses'[k] = misses[k] + 1
          BY <1>3, <4>2, <5>1, RecordMisses
        <5>4. k \notin accepted'
          BY <1>1, <5>2 DEF Record
        <5> QED
          BY <1>1, <3>3, <5>1, <5>2, <5>3, <5>4
      <4>3. slot' \in Slot
        BY <1>2, <3>1, MissedFacts
      <4> QED
        BY <3>3, <4>1, <4>2, <4>3 DEF SlotInv
    <3> QED
      BY <1>2, <3>1, <3>2, <3>3, MissedFacts
  <2>2. CASE ok = FALSE
    <3>1. UNCHANGED slot
      BY <1>1, <2>2, WriteCases
    <3> QED
      BY <1>v, <1>1, <1>3, <2>2, <3>1, SlotUnwritten, Types DEF IInv
  <2> QED
    BY <2>1, <2>2
<1>5. proven' \subseteq Addrs
  BY <1>1, Types DEF IInv
<1>6. yes \subseteq call[c].val.codes /\ no \subseteq call[c].val.codes
      /\ (\A k \in no : kind \in SMSKinds)
      /\ (\A k \in yes : kind \in SMSKinds => now <= call[c].val.exp)
  BY <1>v, <1>1, <1>3
<1> QED
  BY <1>1, <1>3, <1>4, <1>5, <1>6, JudgeStep

LEMMA RedeemRecoveryCodePreserves ==
  ASSUME IInv, NEW c \in Calls, RedeemRecoveryCode(c) PROVE IInv'
<1>v. PICK v, g : v = call[c].val /\ g = call[c].guess
  OBVIOUS
<1>1. /\ kind = "RecoveryCodes" /\ call[c].pc = "judge" /\ g \in v.codes
      /\ slot' = [NoToken EXCEPT !.codes = v.codes \ {g}]
      /\ Record(c, TRUE, {g}, {}) /\ Done(c, "loaded")
      /\ UNCHANGED <<kind, now, row, links, drawn, known, made, issued, sentTo, proven>>
  BY <1>v DEF RedeemRecoveryCode, SetToken, Write
<1>2. v \in Slot /\ v.codes \subseteq Codes /\ ValueInv(v) /\ (v.codes \subseteq disturbed \/ v = slot)
  BY <1>v, <1>1, Judged
<1>3. PICK ok \in BOOLEAN, yes \in SUBSET Codes, no \in SUBSET Codes :
         Record(c, ok, yes, no) /\ yes = {g} /\ no = {}
  <2>1. g \in Codes
    BY <1>1, <1>2
  <2> USE <2>1
  <2> WITNESS TRUE \in BOOLEAN, {g} \in SUBSET Codes, {} \in SUBSET Codes
  <2> QED
    BY <1>1
<1>4. slot' \in Slot /\ slot'.codes = v.codes \ {g}
  BY <1>1, <1>2, KeyFacts
<1>5. SlotInv'
  <2>1. ValueInv(slot)'
    BY <1>1, <1>2, <1>4 DEF ValueInv, SMSKinds
  <2>2. ASSUME NEW k \in (v.codes \ {g}) \ disturbed' PROVE k \in made' /\ k \notin accepted'
    <3>1. k \in slot.codes \ disturbed
      BY <1>2, <1>3, RecordDisturbs
    <3>2. k \in made /\ k \notin accepted
      BY <1>1, <3>1 DEF IInv, TableInv, SlotInv
    <3> QED
      BY <1>1, <3>2 DEF Record
  <2> QED
    BY <1>1, <1>4, <2>1, <2>2 DEF SlotInv, SMSKinds
<1>6. proven' \subseteq Addrs
  BY <1>1, Types DEF IInv
<1>7. yes \subseteq call[c].val.codes /\ no \subseteq call[c].val.codes
      /\ (\A k \in no : kind \in SMSKinds)
      /\ (\A k \in yes : kind \in SMSKinds => now <= call[c].val.exp)
  BY <1>v, <1>1, <1>3 DEF SMSKinds
<1> QED
  BY <1>1, <1>3, <1>4, <1>5, <1>6, <1>7, JudgeStep

LEMMA VerifyTwoFactorTOTPPreserves ==
  ASSUME IInv, NEW c \in Calls, NEW g \in known, VerifyTwoFactorTOTP(c, g) PROVE IInv'
<1>1. /\ kind = "AuthenticatorKey" /\ call[c].pc = "loaded" /\ g \in slot.codes
      /\ Record(c, TRUE, {g}, {})
      /\ UNCHANGED <<kind, now, row, call, links, slot, drawn, known, made, issued, sentTo, proven>>
  BY DEF VerifyTwoFactorTOTP, tableVars
<1>2. g \in Codes /\ g \in 1..drawn
  BY <1>1, Types DEF IInv, TableInv, HistoryInv
<1>3. PICK ok \in BOOLEAN, yes \in SUBSET Codes, no \in SUBSET Codes :
         Record(c, ok, yes, no) /\ yes = {g} /\ no = {}
  <2> USE <1>2
  <2> WITNESS TRUE \in BOOLEAN, {g} \in SUBSET Codes, {} \in SUBSET Codes
  <2> QED
    BY <1>1
<1>4. disturbed \subseteq disturbed'
  BY <1>3, RecordDisturbs
<1>5. SlotInv'
  <2>1. ValueInv(slot)'
    BY <1>1 DEF IInv, TableInv, SlotInv, ValueInv
  <2> QED
    BY <1>1, <1>4, <2>1 DEF IInv, TableInv, SlotInv, SMSKinds
<1>6. HistoryInv'
  <2>1. g \notin disturbed => g \in made
    BY <1>1 DEF IInv, TableInv, SlotInv
  <2>2. ~misused' /\ ~late'
    BY <1>1, <2>1 DEF Record, IInv, TableInv, HistoryInv, SMSKinds
  <2>3. accepted' \subseteq 1..drawn'
    BY <1>1, <1>2 DEF Record, IInv, TableInv, HistoryInv
  <2>4. known' \subseteq 1..drawn' /\ (kind' \in SMSKinds => \A k \in known' : sentTo'[k] \in Addrs)
    BY <1>1 DEF IInv, TableInv, HistoryInv
  <2>5. ASSUME NEW k \in Codes
        PROVE  /\ misses'[k] <= PhoneTokenMaxAttempts
               /\ k > drawn' \/ k \in disturbed' => misses'[k] = 0
    <3>1. /\ k \in disturbed' => misses'[k] = 0
          /\ k \notin disturbed' => misses'[k] = misses[k]
      BY <1>3, RecordMisses
    <3> QED
      BY <1>1, <1>4, <3>1, CodeBounds DEF IInv, TableInv, HistoryInv
  <2> QED
    BY <2>2, <2>3, <2>4, <2>5 DEF HistoryInv
<1>7. PICK k \in Call : k = call[c]
  BY Types DEF IInv
<1>8. call' = [call EXCEPT ![c] = k] /\ k.pc # "judge"
  BY <1>1, <1>7, Types DEF IInv
<1>9. HolderInv(k)'
  BY <1>1, <1>7 DEF IInv, AccountInv, HolderInv, CopyInv
<1>10. /\ drawn' \in 0..MaxCodes /\ drawn <= drawn' /\ known' \subseteq Codes /\ made' \subseteq Codes
       /\ issued' \in [Codes -> 0..MaxTime] /\ sentTo' \in [Codes -> Addrs \union {NoAddr}]
       /\ slot' \in Slot /\ proven' \subseteq Addrs
  BY <1>1, Types, CodeCount DEF IInv
<1> QED
  BY <1>1, <1>3, <1>5, <1>6, <1>8, <1>9, <1>10, RecordedStep

-----------------------------------------------------------------------------
(* The address of the account *)

\* A call writes the user's row: v is what the row becomes if the call's copy
\* is fresh.
LEMMA UpdateStep ==
  ASSUME IInv, NEW c \in Calls, call[c].pc # "idle", NEW v \in User, Update(c, v),
         UNCHANGED <<kind, now, links, tableVars, countVars>>,
         proven \subseteq proven', proven' \subseteq Addrs,
         \/ v.ss = call[c].u.ss + 1
         \/ v.ss = call[c].u.ss /\ v.addr = call[c].u.addr,
         call[c].fresh /\ v.confirmed =>
           v.addr \in proven' \/ (kind = "PhoneToken" /\ proven' # {})
  PROVE  IInv'
<1>1. call[c] \in Call /\ row \in User /\ call[c].u \in User
  BY Types, CallFields DEF IInv
<1>2. row' = (IF call[c].fresh THEN v ELSE row) /\ row' \in User
  BY <1>1 DEF Update
<1>3. \A d \in Calls : call'[d] = IF d = c THEN Idle
                                  ELSE [call[d] EXCEPT !.fresh = call[d].fresh /\ ~call[c].fresh]
  BY DEF Update
<1>4. ASSUME NEW d \in Calls, d # c
      PROVE  /\ call'[d] \in Call /\ call'[d].pc = call[d].pc /\ call'[d].val = call[d].val
             /\ call'[d].guess = call[d].guess /\ call'[d].u = call[d].u
             /\ call'[d].addr = call[d].addr
             /\ call'[d].fresh <=> (call[d].fresh /\ ~call[c].fresh)
  <2>1. call[d] \in Call
    BY Types DEF IInv
  <2> QED
    BY <1>3, <1>4, <2>1 DEF Call
<1>5. TypeOK'
  <2>1. call' = [d \in Calls |-> call'[d]]
    BY DEF Update
  <2>2. call' \in [Calls -> Call]
    BY <1>3, <1>4, <2>1, IdleFacts
  <2> QED
    BY <1>2, <2>2 DEF IInv, TypeOK, tableVars, countVars
<1>6. TableInv'
  BY <1>3, <1>4, IdleFacts, TableKept DEF IInv
<1>7. \* the row only moves on
      /\ row.ss <= row'.ss
      /\ row'.ss = row.ss => row'.addr = row.addr
  <2>1. call[c].fresh => call[c].u = row
    BY DEF IInv, AccountInv, HolderInv
  <2>2. row.ss \in Nat
    BY <1>1, UserFields
  <2> QED
    BY <1>2, <2>1, <2>2
<1>8. \A u \in User : CopyInv(u) => CopyInv(u)'
  <2>1. row.ss \in Nat /\ row'.ss \in Nat /\ \A u \in User : u.ss \in Nat
    BY <1>1, <1>2, UserFields
  <2> QED
    BY <1>7, <2>1 DEF CopyInv
<1>9. ASSUME NEW d \in Calls PROVE HolderInv(call[d])'
  <2>1. CASE d = c
    BY <1>3, <2>1, IdleFacts DEF HolderInv
  <2>2. CASE d # c
    <3>1. HolderInv(call[d]) /\ call[d].u \in User
      BY Types, CallFields DEF IInv, AccountInv
    <3>2. call[d].pc # "idle" => CopyInv(call[d].u)'
      <4>1. PICK u \in User : u = call[d].u /\ call'[d].u = u
        BY <1>4, <2>2, <3>1
      <4> QED
        BY <1>8, <3>1, <4>1 DEF HolderInv
    <3>3. call'[d].fresh => call'[d].u = row'
      BY <1>2, <1>4, <2>2, <3>1 DEF HolderInv
    <3> QED
      BY <1>4, <2>2, <3>1, <3>2, <3>3 DEF HolderInv, CopyInv
  <2> QED
    BY <2>1, <2>2
<1>10. ASSUME NEW l \in links' PROVE LinkInv(l)'
  <2>1. l \in Link /\ LinkInv(l) /\ l.ss \in Nat /\ row.ss \in Nat /\ row'.ss \in Nat
    BY <1>1, <1>2, UserFields, Types, CodeBounds DEF IInv, AccountInv, Link
  <2> QED
    BY <1>7, <2>1 DEF LinkInv
<1>11. ConfirmedAddressWasProven'
  BY <1>2 DEF IInv, AccountInv, ConfirmedAddressWasProven
<1>12. AccountInv'
  BY <1>9, <1>10, <1>11 DEF AccountInv
<1> QED
  BY <1>5, <1>6, <1>12 DEF IInv

LEMMA WithAddrFacts ==
  ASSUME NEW u \in User, u.ss < MaxStamp, NEW addr \in Addrs \union {NoAddr},
         NEW confirmed \in BOOLEAN
  PROVE  /\ WithAddr(u, addr, confirmed) \in User /\ WithAddr(u, addr, confirmed).ss = u.ss + 1
         /\ WithAddr(u, addr, confirmed).addr = addr
         /\ WithAddr(u, addr, confirmed).confirmed <=> confirmed
<1>1. u.ss + 1 \in 0..MaxStamp
  BY UserFields, CodeBounds
<1> QED
  BY <1>1 DEF WithAddr, User

LEMMA ConfirmedFacts ==
  ASSUME NEW u \in User
  PROVE  LET v == [u EXCEPT !.confirmed = TRUE] IN v \in User /\ v.ss = u.ss /\ v.addr = u.addr
BY DEF User

LEMMA CopyTypes ==
  ASSUME IInv, NEW c \in Calls
  PROVE  /\ call[c].u \in User /\ call[c].addr \in Addrs \union {NoAddr} /\ proven \subseteq Addrs
         /\ HolderInv(call[c])
BY Types, CallFields DEF IInv, AccountInv

LEMMA SetAddrPreserves ==
  ASSUME IInv, NEW c \in Calls, NEW addr \in Addrs, SetAddr(c, addr) PROVE IInv'
<1>1. PICK v : v = WithAddr(call[c].u, addr, FALSE)
  OBVIOUS
<1>2. call[c].pc = "loaded" /\ call[c].u.ss < MaxStamp /\ Update(c, v)
      /\ UNCHANGED <<kind, now, links, tableVars, countVars, proven>>
  BY <1>1 DEF SetAddr, StampRoom, historyVars
<1>3. v \in User /\ v.ss = call[c].u.ss + 1 /\ ~v.confirmed
  BY <1>1, <1>2, WithAddrFacts, CopyTypes
<1> QED
  BY <1>2, <1>3, UpdateStep, CopyTypes

LEMMA ConfirmPhoneNumberPreserves ==
  ASSUME IInv, NEW c \in Calls, ConfirmPhoneNumber(c) PROVE IInv'
<1>1. PICK v : v = [call[c].u EXCEPT !.confirmed = TRUE]
  OBVIOUS
<1>2. kind = "PhoneToken" /\ call[c].pc = "confirm" /\ Update(c, v)
      /\ UNCHANGED <<kind, now, links, tableVars, countVars, proven>>
  BY <1>1 DEF ConfirmPhoneNumber, historyVars
<1>3. v \in User /\ v.ss = call[c].u.ss /\ v.addr = call[c].u.addr
  BY <1>1, ConfirmedFacts, CopyTypes
<1>4. proven # {}
  BY <1>2, CopyTypes DEF HolderInv
<1> QED
  BY <1>2, <1>3, <1>4, UpdateStep, CopyTypes

LEMMA ChangePhoneNumberPreserves ==
  ASSUME IInv, NEW c \in Calls, ChangePhoneNumber(c) PROVE IInv'
<1>1. PICK v : v = WithAddr(call[c].u, call[c].addr, TRUE)
  OBVIOUS
<1>2. kind = "ChangePhoneToken" /\ call[c].pc = "confirm" /\ call[c].u.ss < MaxStamp /\ Update(c, v)
      /\ UNCHANGED <<kind, now, links, tableVars, countVars, proven>>
  BY <1>1 DEF ChangePhoneNumber, StampRoom, historyVars
<1>3. v \in User /\ v.ss = call[c].u.ss + 1 /\ v.addr = call[c].addr
  BY <1>1, <1>2, WithAddrFacts, CopyTypes
<1>4. call[c].addr \in proven
  BY <1>2, CopyTypes DEF HolderInv
<1> QED
  BY <1>2, <1>3, <1>4, UpdateStep, CopyTypes

LEMMA SendEmailPreserves ==
  ASSUME IInv, NEW c \in Calls, NEW to \in Addrs, NEW purpose \in Addrs \union {"confirm"},
         SendEmail(c, to, purpose)
  PROVE  IInv'
<1>1. PICK m : m = [to |-> to, purpose |-> purpose, ss |-> call[c].u.ss, issued |-> now]
  OBVIOUS
<1>2. call[c].pc = "loaded" /\ links' = links \union {m}
      /\ UNCHANGED <<kind, now, row, call, tableVars, countVars, proven>>
  BY <1>1 DEF SendEmail, historyVars
<1>3. call[c].u \in User /\ CopyInv(call[c].u) /\ now \in 0..MaxTime /\ row \in User
  BY <1>2, CopyTypes, Types DEF HolderInv, IInv
<1>4. m \in Link /\ m.ss = call[c].u.ss /\ m.purpose = purpose /\ m.to = to
  BY <1>1, <1>3, UserFields DEF Link
<1>5. LinkInv(m)
  <2>1. IF purpose = "confirm" THEN to = call[c].u.addr ELSE to = purpose
    BY DEF SendEmail
  <2> QED
    BY <1>3, <1>4, <2>1 DEF LinkInv, CopyInv
<1>6. TypeOK'
  BY <1>2, <1>4 DEF IInv, TypeOK, tableVars, countVars
<1>7. TableInv'
  BY <1>2, TableKept DEF IInv
<1>8. AccountInv'
  <2>1. \A l \in links' : LinkInv(l)'
    BY <1>2, <1>5 DEF IInv, AccountInv, LinkInv
  <2>2. \A d \in Calls : HolderInv(call[d])'
    BY <1>2 DEF IInv, AccountInv, HolderInv, CopyInv
  <2>3. ConfirmedAddressWasProven'
    BY <1>2 DEF IInv, AccountInv, ConfirmedAddressWasProven
  <2> QED
    BY <2>1, <2>2, <2>3 DEF AccountInv
<1> QED
  BY <1>6, <1>7, <1>8 DEF IInv

LEMMA LinkTypes ==
  ASSUME IInv, NEW l \in links
  PROVE  l.to \in Addrs /\ LinkInv(l)
BY Types DEF IInv, AccountInv, Link

LEMMA ConfirmEmailPreserves ==
  ASSUME IInv, NEW c \in Calls, NEW l \in links, ConfirmEmail(c, l) PROVE IInv'
<1>1. PICK v : v = [call[c].u EXCEPT !.confirmed = TRUE]
  OBVIOUS
<1>2. call[c].pc = "loaded" /\ Update(c, v) /\ l.purpose = "confirm" /\ l.ss = call[c].u.ss
      /\ proven' = proven \union {l.to} /\ UNCHANGED <<kind, now, links, tableVars, countVars>>
  BY <1>1 DEF ConfirmEmail, Validate
<1>3. v \in User /\ v.ss = call[c].u.ss /\ v.addr = call[c].u.addr
  BY <1>1, ConfirmedFacts, CopyTypes
<1>4. call[c].fresh => v.addr \in proven'
  BY <1>2, <1>3, CopyTypes, LinkTypes DEF HolderInv, LinkInv
<1>5. proven' \subseteq Addrs /\ proven \subseteq proven'
  BY <1>2, CopyTypes, LinkTypes
<1> QED
  BY <1>2, <1>3, <1>4, <1>5, UpdateStep

LEMMA ChangeEmailPreserves ==
  ASSUME IInv, NEW c \in Calls, NEW newEmail \in Addrs, NEW l \in links, ChangeEmail(c, newEmail, l)
  PROVE  IInv'
<1>1. PICK v : v = WithAddr(call[c].u, newEmail, TRUE)
  OBVIOUS
<1>2. call[c].pc = "loaded" /\ Update(c, v) /\ l.purpose = newEmail /\ call[c].u.ss < MaxStamp
      /\ proven' = proven \union {l.to} /\ UNCHANGED <<kind, now, links, tableVars, countVars>>
  BY <1>1 DEF ChangeEmail, Validate, StampRoom
<1>3. v \in User /\ v.ss = call[c].u.ss + 1 /\ v.addr = newEmail
  <2>1. call[c].u \in User /\ newEmail \in Addrs \union {NoAddr}
    BY CopyTypes
  <2> QED
    BY <1>1, <1>2, <2>1, WithAddrFacts
<1>4. l.to = newEmail
  BY <1>2, LinkTypes, CodeBounds DEF LinkInv
<1>5. proven' \subseteq Addrs /\ proven \subseteq proven' /\ v.addr \in proven'
  BY <1>2, <1>3, <1>4, CopyTypes
<1> QED
  BY <1>2, <1>3, <1>5, UpdateStep

-----------------------------------------------------------------------------
LEMMA NextPreservesIInv == IInv /\ [Next]_vars => IInv'
<1> SUFFICES ASSUME IInv, [Next]_vars PROVE IInv'
  OBVIOUS
<1>1. CASE UNCHANGED vars
  <2>1. UNCHANGED <<kind, row, call, links, tableVars, countVars, proven>>
    BY <1>1 DEF vars, tableVars, countVars
  <2>2. TypeOK'
    BY <1>1 DEF vars, IInv, TypeOK
  <2> QED
    BY <2>1, <2>2, TableKept, AccountKept DEF IInv
<1>2. ASSUME NEW c \in Calls, MakeCodes(c) PROVE IInv'
  BY <1>2, SendPhoneTokenPreserves, SendChangePhoneNumberTokenPreserves,
     GenerateRecoveryCodesPreserves, FirstKeyPreserves, NewKeyPreserves DEF MakeCodes
<1>3. ASSUME NEW c \in Calls, UseCodes(c) PROVE IInv'
  BY <1>3, PresentPreserves, RemoveExpiredPreserves, MissPhoneCodePreserves,
     ConsumePhoneCodePreserves, RedeemRecoveryCodePreserves, VerifyTwoFactorTOTPPreserves
     DEF UseCodes
<1>4. ASSUME NEW c \in Calls, ContactStep(c) PROVE IInv'
  BY <1>4, SetAddrPreserves, ConfirmPhoneNumberPreserves, ChangePhoneNumberPreserves,
     SendEmailPreserves, ConfirmEmailPreserves, ChangeEmailPreserves DEF ContactStep
<1> QED
  BY <1>1, <1>2, <1>3, <1>4, TickPreserves, LoadUserPreserves, AbandonPreserves DEF Next

LEMMA Invariance == Spec => []IInv
BY InitIInv, NextPreservesIInv, PTL DEF Spec

\* The tables, copies and histories of the code stores always have their types;
\* a stored attempt counter stays below PhoneTokenMaxAttempts.
THEOREM TypeCorrect == Spec => []TypeOK
<1>1. IInv => TypeOK
  BY DEF IInv
<1> QED
  BY <1>1, Invariance, PTL

\* consumePhoneCode, RedeemRecoveryCode and VerifyTwoFactorTOTP: for any number
\* of concurrent calls, a code is accepted twice or after it was replaced only if
\* another call's read and write overlapped its use or a removal failed, and no
\* SMS code at all is accepted after its time.
THEOREM CodesAreOneTime == Spec => []CodesWorkOnce
<1>1. IInv => CodesWorkOnce
  BY DEF IInv, TableInv, HistoryInv, CodesWorkOnce
<1> QED
  BY <1>1, Invariance, PTL

\* The attempt counter of consumePhoneCode: an undisturbed code is judged
\* against at most PhoneTokenMaxAttempts wrong guesses.
THEOREM GuessingIsBounded == Spec => []GuessesAreBounded
<1>1. IInv => GuessesAreBounded
  BY DEF IInv, TableInv, HistoryInv, GuessesAreBounded
<1> QED
  BY <1>1, Invariance, PTL

\* ConfirmPhoneNumber, ChangePhoneNumber, ConfirmEmail and ChangeEmail: whatever
\* calls changed the account meanwhile, an address marked confirmed was proven.
THEOREM ConfirmedMeansProven == Spec => []ConfirmedAddressWasProven
<1>1. IInv => ConfirmedAddressWasProven
  BY DEF IInv, AccountInv
<1> QED
  BY <1>1, Invariance, PTL
=============================================================================
