---------------------------- MODULE APIKeysProofs ----------------------------
(***************************************************************************)
(* The safety properties of APIKeys.tla hold for any keys, users, requests *)
(* and lengths of time.                                                    *)
(*                                                                         *)
(* No call holds a lock, so what a request has read may be stale.  KeysInv *)
(* says what is not: a row is never deleted, and no statement writes its   *)
(* owner, scopes, expiry and time of creation.                             *)
(***************************************************************************)
EXTENDS APIKeys, TLAPS

KInv == TypeOK /\ KeysInv

LEMMA NoOpType == NoOp \in Op
BY MaxTimeAssumption DEF NoOp, Op, Time

-----------------------------------------------------------------------------
(* Rows.                                                                   *)

\* The columns that no statement writes after the INSERT.
SameColumns(x, y) == /\ y # None
                     /\ x.owner = y.owner /\ x.scopes = y.scopes
                     /\ x.expires = y.expires /\ x.created = y.created

LEMMA RowFields ==
  ASSUME NEW x \in Row
  PROVE  /\ x = [owner |-> x.owner, scopes |-> x.scopes, expires |-> x.expires,
                 created |-> x.created, used |-> x.used, revoked |-> x.revoked]
         /\ x.owner \in Users /\ x.scopes \in Seq(AllowedScopes) /\ x.expires \in Time \cup {None}
         /\ x.created \in Time /\ x.used \in Time \cup {None} /\ x.revoked \in Time \cup {None}
         /\ x # None
BY NoneAssumption DEF Row

LEMMA RowCreated ==
  ASSUME NEW x \in Row, NEW t \in Time, NEW y, y = [x EXCEPT !.created = t]
  PROVE  /\ y \in Row /\ y.created = t
         /\ y.scopes = x.scopes /\ y.used = x.used /\ y.revoked = x.revoked
BY RowFields DEF Row

LEMMA RowUsed ==
  ASSUME NEW x \in Row, NEW t \in Time, NEW y, y = [x EXCEPT !.used = t]
  PROVE  y \in Row /\ y.used = t /\ y.revoked = x.revoked /\ SameColumns(x, y)
<1>1. y = [owner |-> x.owner, scopes |-> x.scopes, expires |-> x.expires,
           created |-> x.created, used |-> t, revoked |-> x.revoked]
  BY RowFields DEF Row
<1>2. y \in Row  BY <1>1, RowFields DEF Row
<1> QED  BY <1>1, <1>2, NoneAssumption DEF SameColumns

LEMMA RowRevoked ==
  ASSUME NEW x \in Row, NEW t \in Time, NEW y, y = [x EXCEPT !.revoked = t]
  PROVE  y \in Row /\ y.revoked = t /\ y.used = x.used /\ SameColumns(x, y)
<1>1. y = [owner |-> x.owner, scopes |-> x.scopes, expires |-> x.expires,
           created |-> x.created, used |-> x.used, revoked |-> t]
  BY RowFields DEF Row
<1>2. y \in Row  BY <1>1, RowFields DEF Row
<1> QED  BY <1>1, <1>2, NoneAssumption DEF SameColumns

-----------------------------------------------------------------------------
(* What a step does to the table.                                          *)

\* Rows stay, with their columns; a revoked row stays as it is; what is new or
\* newly used satisfies the properties.
GoodTable ==
  /\ keys' \in [Keys -> Row \cup {None}]
  /\ \A k \in Keys : keys[k] # None => SameColumns(keys[k], keys'[k])
  /\ \A k \in Keys : keys[k] # None /\ ~Active(k) => keys'[k] = keys[k]
  /\ CreatedInv' /\ ScopesAreSound' /\ UseIsInLife'

LEMMA TableStays ==
  ASSUME TypeOK, KeysInv, UNCHANGED keys, clock' \in Time, clock' >= clock
  PROVE  GoodTable
<1>1. \A k \in Keys : keys[k] # None => keys[k] \in Row  BY DEF TypeOK
<1>2. CreatedInv'
  <2>1. \A k \in Keys : keys[k] # None => keys[k].created \in Time  BY <1>1, RowFields
  <2> QED  BY <2>1, MaxTimeAssumption DEF KeysInv, CreatedInv, TypeOK, Time
<1>3. ScopesAreSound' /\ UseIsInLife'
  BY DEF KeysInv, ScopesAreSound, UseIsInLife
<1> QED  BY <1>2, <1>3 DEF GoodTable, SameColumns, TypeOK

LEMMA TimesAreIntegers == Time \subseteq Int /\ None \notin Time
BY MaxTimeAssumption, NoneAssumption DEF Time

\* Within NowOf(q) the clock is a time not before what q read, nor after clock.
LEMMA NowIsTime ==
  ASSUME TypeOK, NEW q \in Requests, NEW now \in NowOf(q)
  PROVE  now \in Time /\ now \in Int /\ op[q].at \in Int /\ op[q].at <= now /\ now <= clock
<1>1. op[q].at \in Time /\ clock \in Time  BY DEF TypeOK, Op
<1> QED  BY <1>1, MaxTimeAssumption DEF NowOf, Time

LEMMA InsertGood ==
  ASSUME TypeOK, KeysInv, NEW q \in Requests, InsertRow(q), clock' = clock
  PROVE  GoodTable
<1>1. PICK k \in Keys, now \in NowOf(q) :
        keys[k] = None /\ keys' = [keys EXCEPT ![k] = [op[q].row EXCEPT !.created = now]]
  BY DEF InsertRow
<1> DEFINE y == [op[q].row EXCEPT !.created = now]
<1>2. /\ op[q].row \in Row /\ Sound(op[q].row.scopes)
      /\ op[q].row.used = None /\ op[q].row.revoked = None
  BY DEF InsertRow, KeysInv, ReadInv, TypeOK, Op
<1>3. now \in Time /\ now <= clock  BY NowIsTime
<1>4. y \in Row /\ y.created = now /\ Sound(y.scopes) /\ y.used = None
  BY <1>2, <1>3, RowCreated
<1> HIDE DEF y
<1>5. \A j \in Keys : keys'[j] = IF j = k THEN y ELSE keys[j]  BY <1>1 DEF TypeOK, y
<1>6. keys' \in [Keys -> Row \cup {None}]  BY <1>1, <1>4 DEF TypeOK, y
<1>7. CreatedInv' /\ ScopesAreSound' /\ UseIsInLife'
  BY <1>3, <1>4, <1>5 DEF KeysInv, CreatedInv, ScopesAreSound, UseIsInLife
<1> QED  BY <1>1, <1>5, <1>6, <1>7 DEF GoodTable, SameColumns

LEMMA RevokeGood ==
  ASSUME TypeOK, KeysInv, NEW q \in Requests, pc[q] = "revoke", clock' = clock,
         NEW now \in NowOf(q), SetRevoked(q, op[q].key, now)
  PROVE  GoodTable /\ keys'[op[q].key] # None /\ keys'[op[q].key].revoked # None
<1> DEFINE k == op[q].key
           y == [keys[k] EXCEPT !.revoked = now]
<1>1. k \in Keys /\ keys[k] # None /\ keys[k] \in Row /\ Mine(q, k)
  BY DEF KeysInv, ReadInv, TypeOK, Mine
<1>2. now \in Time /\ now # None  BY NowIsTime, TimesAreIntegers
<1>3. CASE ~Active(k)
  <2>1. keys' = keys  BY <1>3 DEF SetRevoked
  <2>2. clock \in Time /\ clock \in Int  BY TimesAreIntegers DEF TypeOK
  <2> QED  BY <1>1, <1>3, <2>1, <2>2, TableStays DEF Active
<1>4. CASE Active(k)
  <2>1. keys' = [keys EXCEPT ![k].revoked = now]  BY <1>1, <1>4 DEF SetRevoked
  <2>2. y \in Row /\ y.revoked = now /\ y.used = keys[k].used /\ SameColumns(keys[k], y)
    BY <1>1, <1>2, RowRevoked
  <2>3. keys' = [keys EXCEPT ![k] = y]  BY <2>1
  <2> HIDE DEF y
  <2>4. \A j \in Keys : keys'[j] = IF j = k THEN y ELSE keys[j]  BY <1>1, <2>3 DEF TypeOK
  <2>5. keys' \in [Keys -> Row \cup {None}]  BY <2>2, <2>3 DEF TypeOK
  <2>6. CreatedInv' /\ ScopesAreSound' /\ UseIsInLife'
    BY <1>1, <2>2, <2>4 DEF KeysInv, CreatedInv, ScopesAreSound, UseIsInLife, SameColumns
  <2>7. \A j \in Keys : keys[j] # None => SameColumns(keys[j], keys'[j])
    BY <2>2, <2>4 DEF SameColumns
  <2> QED  BY <1>1, <1>2, <1>4, <2>2, <2>4, <2>5, <2>6, <2>7 DEF GoodTable, SameColumns
<1> QED  BY <1>3, <1>4

LEMMA UseGood ==
  ASSUME TypeOK, KeysInv, NEW q \in Requests, pc[q] = "use", clock' = clock,
         NEW now \in NowOf(q), InLife(op[q].row, now), Active(op[q].key),
         keys' = [keys EXCEPT ![op[q].key].used = now]
  PROVE  GoodTable
<1> DEFINE k == op[q].key
           y == [keys[k] EXCEPT !.used = now]
<1>1. /\ k \in Keys /\ keys[k] # None /\ keys[k] \in Row
      /\ op[q].row.expires = keys[k].expires /\ keys[k].created <= op[q].at
  BY DEF KeysInv, ReadInv, TypeOK
<1>2. now \in Time /\ now # None /\ keys[k].created <= now
  <2>1. keys[k].created \in Int  BY <1>1, RowFields, TimesAreIntegers
  <2> QED  BY <1>1, <2>1, NowIsTime, TimesAreIntegers
<1>3. keys[k].expires # None => now <= keys[k].expires  BY <1>1 DEF InLife
<1>4. y \in Row /\ y.used = now /\ SameColumns(keys[k], y)  BY <1>1, <1>2, RowUsed
<1>5. keys' = [keys EXCEPT ![k] = y]  OBVIOUS
<1> HIDE DEF y
<1>6. \A j \in Keys : keys'[j] = IF j = k THEN y ELSE keys[j]  BY <1>1, <1>5 DEF TypeOK
<1>7. keys' \in [Keys -> Row \cup {None}]  BY <1>4, <1>5 DEF TypeOK
<1>8. CreatedInv' /\ ScopesAreSound' /\ UseIsInLife'
  BY <1>1, <1>2, <1>3, <1>4, <1>6
     DEF KeysInv, CreatedInv, ScopesAreSound, UseIsInLife, SameColumns
<1>9. \A j \in Keys : keys[j] # None => SameColumns(keys[j], keys'[j])
  BY <1>4, <1>6 DEF SameColumns
<1> QED  BY <1>4, <1>6, <1>7, <1>8, <1>9 DEF GoodTable
-----------------------------------------------------------------------------
(* What a step does to the requests.                                       *)

\* What every step is shown to do.
Kept == KInv' /\ GoodTable

\* What a request has read outlives a step of another one.
LEMMA OtherReads ==
  ASSUME TypeOK, GoodTable, NEW r \in Requests, ReadInv(r), op'[r] = op[r], pc'[r] = pc[r],
         clock' \in Time, clock' >= clock
  PROVE  ReadInv(r)'
<1>1. op[r].at <= clock'
  BY TimesAreIntegers DEF TypeOK, Op, ReadInv
<1>2. pc[r] = "revoke" => Mine(r, op[r].key)'
  BY DEF ReadInv, Mine, GoodTable, SameColumns
<1>3. pc[r] = "use" => /\ keys'[op[r].key] # None /\ op[r].row # None
                       /\ op[r].row.scopes = keys'[op[r].key].scopes
                       /\ op[r].row.expires = keys'[op[r].key].expires
                       /\ keys'[op[r].key].created <= op[r].at
  BY DEF ReadInv, GoodTable, SameColumns
<1> QED  BY <1>1, <1>2, <1>3 DEF ReadInv

\* A call that ends holds nothing.
LEMMA ReturnKeeps ==
  ASSUME KInv, GoodTable, NEW q \in Requests,
         NEW res \in {"ok", "accepted", "invalid", "notFound", "unauthorized", "forbidden", "error"},
         Return(q, res), ended' \in SUBSET Keys, EndedInv'
  PROVE  Kept
<1>1. clock' = clock /\ clock' \in Time /\ clock \in Int
  BY TimesAreIntegers DEF Return, KInv, TypeOK
<1>2. TypeOK'
  BY <1>1, NoOpType DEF Return, KInv, TypeOK, GoodTable
<1>3. ASSUME NEW r \in Requests PROVE ReadInv(r)'
  <2>1. CASE r = q
    <3>1. pc'[q] = "idle" /\ op'[q] = NoOp  BY DEF Return, KInv, TypeOK
    <3> QED  BY <2>1, <3>1, <1>1, TimesAreIntegers DEF ReadInv, NoOp, Time
  <2>2. CASE r # q
    <3>1. pc'[r] = pc[r] /\ op'[r] = op[r]  BY <2>2 DEF Return, KInv, TypeOK
    <3> QED  BY <3>1, <1>1, OtherReads DEF KInv, KeysInv
  <2> QED  BY <2>1, <2>2
<1> QED  BY <1>2, <1>3 DEF Kept, KInv, KeysInv, GoodTable

\* The history of ended keys survives as long as rows do.
LEMMA EndedStays ==
  ASSUME KInv, GoodTable, UNCHANGED ended
  PROVE  ended' \in SUBSET Keys /\ EndedInv'
BY DEF KInv, TypeOK, KeysInv, EndedInv, GoodTable, Active, SameColumns

LEMMA RefuseKeeps ==
  ASSUME KInv, NEW q \in Requests,
         NEW res \in {"ok", "accepted", "invalid", "notFound", "unauthorized", "forbidden", "error"},
         Return(q, res), UNCHANGED <<keys, ended>>
  PROVE  Kept
<1>1. clock' = clock /\ clock' \in Time /\ clock' \in Int
  BY TimesAreIntegers DEF Return, KInv, TypeOK
<1>2. GoodTable  BY <1>1, TableStays DEF KInv
<1> QED  BY <1>2, EndedStays, ReturnKeeps

\* A call that goes on: o is what it has read by now.
LEMMA GotoKeeps ==
  ASSUME KInv, NEW q \in Requests, NEW o \in Op, NEW to, Goto(q, to, o), o.at <= clock,
         \/ to = "insert" /\ o.row # None /\ Sound(o.row.scopes)
                          /\ o.row.used = None /\ o.row.revoked = None
         \/ to \in {"findMine", "findActive"} /\ o.key \in Keys
         \/ to = "revoke" /\ o.key \in Keys /\ keys[o.key] # None /\ keys[o.key].owner = o.user
         \/ /\ to = "use" /\ o.key \in Keys /\ keys[o.key] # None /\ o.row = keys[o.key]
            /\ keys[o.key].created <= o.at
  PROVE  Kept
<1>1. UNCHANGED <<clock, keys, ended>>  BY DEF Goto
<1>2. GoodTable
  <2>1. clock \in Time /\ clock \in Int  BY TimesAreIntegers DEF KInv, TypeOK
  <2> QED  BY <1>1, <2>1, TableStays DEF KInv
<1>3. /\ pc'[q] = to /\ op'[q] = o
      /\ \A r \in Requests \ {q} : pc'[r] = pc[r] /\ op'[r] = op[r]
  BY DEF Goto, KInv, TypeOK
<1>4. TypeOK'
  BY <1>1 DEF Goto, KInv, TypeOK
<1>5. ASSUME NEW r \in Requests PROVE ReadInv(r)'
  <2>1. CASE r = q
    BY <2>1, <1>1, <1>3 DEF ReadInv, Mine
  <2>2. CASE r # q
    <3>1. clock' \in Time /\ clock' >= clock
      BY <1>1, TimesAreIntegers DEF KInv, TypeOK
    <3> QED  BY <2>2, <3>1, <1>2, <1>3, OtherReads DEF KInv, KeysInv
  <2> QED  BY <2>1, <2>2
<1> QED  BY <1>1, <1>2, <1>4, <1>5, EndedStays DEF Kept, KInv, KeysInv, GoodTable

-----------------------------------------------------------------------------
(* The operations.                                                         *)

\* A request that passes validateScopes is stored with sound scopes.
LEMMA AcceptedIsSound ==
  ASSUME NEW raw \in SeqOf(RawScopes, MaxScopes), ScopesAccepted(raw)
  PROVE  Normalized(raw) \in Seq(AllowedScopes) /\ Sound(Normalized(raw))
<1>1. PICK m \in 0 .. MaxScopes : raw \in [1 .. m -> RawScopes]
  BY DEF SeqOf
<1> DEFINE s == Normalized(raw)
<1>2. DOMAIN raw = 1 .. m /\ m \in Nat /\ m # 0
  <2>1. m \in Nat  BY DEF MaxScopes
  <2>2. m # 0
    <3> SUFFICES ASSUME m = 0 PROVE FALSE  OBVIOUS
    <3>1. raw = <<>>  BY <1>1
    <3> QED  BY <3>1 DEF ScopesAccepted
  <2> QED  BY <1>1, <2>1, <2>2
<1>3. s = [i \in 1 .. m |-> Trim(raw[i])]  BY <1>2 DEF Normalized
<1>4. s \in [1 .. m -> AllowedScopes]  BY <1>2, <1>3 DEF ScopesAccepted
<1>5. s \in Seq(AllowedScopes)  BY <1>2, <1>4
<1>6. s # <<>>  BY <1>2, <1>4
<1>7. ToSet(s) \subseteq AllowedScopes  BY <1>4 DEF ToSet
<1>8. \A i, j \in DOMAIN s : s[i] = s[j] => i = j  BY <1>2, <1>3 DEF ScopesAccepted
<1> QED  BY <1>5, <1>6, <1>7, <1>8 DEF Sound

LEMMA CreateKeeps ==
  ASSUME KInv, NEW q \in Requests, NEW u \in Users, NEW raw \in SeqOf(RawScopes, MaxScopes),
         NEW exp \in Time \cup {None}, CreateBegin(q, u, raw, exp)
  PROVE  Kept
<1>1. CASE Refuse(q, "invalid")  BY <1>1, RefuseKeeps DEF Refuse
<1> DEFINE row == [owner |-> u, scopes |-> Normalized(raw), expires |-> exp,
                   created |-> clock, used |-> None, revoked |-> None]
           o == [NoOp EXCEPT !.kind = "create", !.user = u, !.at = clock, !.row = row]
<1>2. CASE ScopesAccepted(raw) /\ Goto(q, "insert", o)
  <2>1. clock \in Time /\ clock \in Int  BY TimesAreIntegers DEF KInv, TypeOK
  <2>2. row \in Row /\ Sound(row.scopes) /\ row # None
    BY <1>2, <2>1, AcceptedIsSound, NoneAssumption DEF Row
  <2>3. row.used = None /\ row.revoked = None  OBVIOUS
  <2> HIDE DEF row
  <2>4. o \in Op /\ o.at = clock /\ o.row = row  BY <2>1, <2>2 DEF NoOp, Op
  <2> HIDE DEF o
  <2> QED  BY <1>2, <2>1, <2>2, <2>3, <2>4, GotoKeeps
<1> QED  BY <1>1, <1>2 DEF CreateBegin

LEMMA BeginKeeps ==
  ASSUME KInv, NEW q \in Requests, NEW k \in Keys,
         \/ \E u \in Users : RevokeBegin(q, u, k)
         \/ \E scope \in AllowedScopes : VerifyBegin(q, k, scope)
  PROVE  Kept
<1>0. clock \in Int /\ 0 <= clock  BY TimesAreIntegers DEF KInv, TypeOK, Time
<1>1. ASSUME NEW u \in Users, RevokeBegin(q, u, k) PROVE Kept
  <2> DEFINE o == [NoOp EXCEPT !.kind = "revoke", !.key = k, !.user = u]
  <2>1. o \in Op /\ o.at = 0 /\ o.key = k  BY NoOpType DEF NoOp, Op
  <2>2. Goto(q, "findMine", o)  BY <1>1 DEF RevokeBegin
  <2> HIDE DEF o
  <2> QED  BY <1>0, <2>1, <2>2, GotoKeeps
<1>2. ASSUME NEW scope \in AllowedScopes, VerifyBegin(q, k, scope) PROVE Kept
  <2> DEFINE o == [NoOp EXCEPT !.kind = "verify", !.key = k, !.scope = scope]
  <2>1. o \in Op /\ o.at = 0 /\ o.key = k  BY NoOpType DEF NoOp, Op
  <2>2. Goto(q, "findActive", o)  BY <1>2 DEF VerifyBegin
  <2> HIDE DEF o
  <2> QED  BY <1>0, <2>1, <2>2, GotoKeeps
<1> QED  BY <1>1, <1>2

\* What a request notes of the clock, and of the row it has read.
LEMMA ClockNoted ==
  ASSUME NEW x \in Op, NEW t \in Time, NEW o, o = [x EXCEPT !.at = t]
  PROVE  o \in Op /\ o.at = t /\ o.key = x.key /\ o.user = x.user /\ o.row = x.row
BY DEF Op

LEMMA RowNoted ==
  ASSUME NEW x \in Op, NEW row \in Row, NEW o, o = [x EXCEPT !.row = row]
  PROVE  o \in Op /\ o.key = x.key /\ o.row = row
BY DEF Op

LEMMA FindMineKeeps ==
  ASSUME KInv, NEW q \in Requests, FindMine(q)
  PROVE  Kept
<1> DEFINE k == op[q].key
<1>0. k \in Keys /\ op[q] \in Op /\ clock \in Time /\ clock \in Int
  BY TimesAreIntegers DEF FindMine, KInv, KeysInv, ReadInv, TypeOK
<1>1. CASE Refuse(q, "notFound")  BY <1>1, RefuseKeeps DEF Refuse
<1>2. CASE Mine(q, k) /\ ~Active(k) /\ Return(q, "ok") /\ ended' = ended \cup {k} /\ UNCHANGED keys
  <2>1. clock' = clock  BY <1>2 DEF Return
  <2>2. GoodTable  BY <1>0, <1>2, <2>1, TableStays DEF KInv
  <2>3. ended' \in SUBSET Keys /\ EndedInv'
    BY <1>0, <1>2 DEF KInv, TypeOK, KeysInv, EndedInv, Active, Mine
  <2> QED  BY <1>2, <2>2, <2>3, ReturnKeeps
<1>3. CASE Mine(q, k) /\ Active(k) /\ Goto(q, "revoke", [op[q] EXCEPT !.at = clock])
  <2> DEFINE o == [op[q] EXCEPT !.at = clock]
  <2>1. o \in Op /\ o.at = clock /\ o.key = k /\ o.user = op[q].user  BY <1>0, ClockNoted
  <2>2. Goto(q, "revoke", o)  BY <1>3
  <2>3. keys[k] # None /\ keys[k].owner = o.user  BY <1>3, <2>1 DEF Mine
  <2> HIDE DEF o
  <2> QED  BY <1>0, <2>1, <2>2, <2>3, GotoKeeps
<1> QED  BY <1>1, <1>2, <1>3 DEF FindMine

LEMMA FindActiveKeeps ==
  ASSUME KInv, NEW q \in Requests, FindActive(q)
  PROVE  Kept
<1> DEFINE k == op[q].key
<1>0. k \in Keys /\ op[q] \in Op /\ clock \in Time /\ clock \in Int
  BY TimesAreIntegers DEF FindActive, KInv, KeysInv, ReadInv, TypeOK
<1>1. CASE Refuse(q, "unauthorized")  BY <1>1, RefuseKeeps DEF Refuse
<1>2. CASE Active(k) /\ Goto(q, "use", [op[q] EXCEPT !.row = keys[k], !.at = clock])
  <2> DEFINE o == [op[q] EXCEPT !.row = keys[k], !.at = clock]
  <2>1. keys[k] \in Row /\ keys[k] # None /\ keys[k].created <= clock
    BY <1>0, <1>2 DEF Active, KInv, KeysInv, CreatedInv, TypeOK
  <2>2. o \in Op /\ o.at = clock /\ o.key = k /\ o.row = keys[k]
    <3> DEFINE z == [op[q] EXCEPT !.row = keys[k]]
    <3>1. z \in Op /\ z.key = k /\ z.row = keys[k]  BY <1>0, <2>1, RowNoted
    <3>2. o = [z EXCEPT !.at = clock]  OBVIOUS
    <3> HIDE DEF z, o
    <3> QED  BY <1>0, <3>1, <3>2, ClockNoted
  <2>3. Goto(q, "use", o)  BY <1>2
  <2> HIDE DEF o
  <2> QED  BY <1>0, <2>1, <2>2, <2>3, GotoKeeps
<1> QED  BY <1>1, <1>2 DEF FindActive

LEMMA UseKeeps ==
  ASSUME KInv, NEW q \in Requests, Use(q)
  PROVE  Kept
<1>1. PICK now \in NowOf(q) :
        \/ ~InLife(op[q].row, now) /\ UNCHANGED keys /\ Return(q, "unauthorized")
        \/ UNCHANGED keys /\ Return(q, "forbidden")
        \/ InLife(op[q].row, now) /\ MarkUsed(q, op[q].key, now)
  BY DEF Use
<1>2. UNCHANGED ended /\ pc[q] = "use"  BY DEF Use
<1>3. CASE UNCHANGED keys /\ (Return(q, "unauthorized") \/ Return(q, "forbidden"))
  BY <1>2, <1>3, RefuseKeeps
<1>4. CASE /\ InLife(op[q].row, now) /\ Active(op[q].key)
           /\ keys' = [keys EXCEPT ![op[q].key].used = now]
           /\ Return(q, "accepted")
  <2>1. GoodTable  BY <1>2, <1>4, UseGood DEF KInv, Return
  <2> QED  BY <1>2, <1>4, <2>1, EndedStays, ReturnKeeps
<1> QED  BY <1>1, <1>3, <1>4 DEF MarkUsed

LEMMA WriteKeeps ==
  ASSUME KInv, NEW q \in Requests, Insert(q) \/ Revoke(q) \/ AnswerLost(q)
  PROVE  Kept
<1>1. ASSUME NEW res \in {"ok", "error"}, InsertRow(q), Return(q, res) PROVE Kept
  <2>1. GoodTable  BY <1>1, InsertGood DEF KInv, Return
  <2>2. UNCHANGED ended  BY <1>1 DEF InsertRow
  <2> QED  BY <1>1, <2>1, <2>2, EndedStays, ReturnKeeps
<1>2. ASSUME NEW res \in {"ok", "error"}, NEW now \in NowOf(q), pc[q] = "revoke",
             SetRevoked(q, op[q].key, now), Return(q, res),
             ended' \in {ended, ended \cup {op[q].key}}
      PROVE  Kept
  <2>1. op[q].key \in Keys  BY <1>2 DEF KInv, KeysInv, ReadInv
  <2>2. GoodTable /\ keys'[op[q].key] # None /\ keys'[op[q].key].revoked # None
    BY <1>2, RevokeGood DEF KInv, Return
  <2>3. ended' \in SUBSET Keys /\ EndedInv'
    BY <1>2, <2>1, <2>2 DEF KInv, TypeOK, KeysInv, EndedInv, GoodTable, Active, SameColumns
  <2> QED  BY <1>2, <2>2, <2>3, ReturnKeeps
<1> QED  BY <1>1, <1>2 DEF Insert, Revoke, AnswerLost

-----------------------------------------------------------------------------
(* The invariant.                                                          *)

LEMMA KeysInit == Init => KInv
<1> SUFFICES ASSUME Init PROVE KInv  OBVIOUS
<1>1. TypeOK
  BY NoOpType, MaxTimeAssumption DEF Init, TypeOK, Time
<1>2. KeysInv
  BY DEF Init, KeysInv, ReadInv, EndedInv, CreatedInv, ScopesAreSound, UseIsInLife, NoOp
<1> QED  BY <1>1, <1>2 DEF KInv

LEMMA StutterKeeps ==
  ASSUME KInv, UNCHANGED <<keys, ended, pc, op, result>>, clock' \in Time, clock' >= clock
  PROVE  Kept
<1>1. GoodTable  BY TableStays DEF KInv
<1>2. TypeOK'  BY DEF KInv, TypeOK
<1>3. \A q \in Requests : ReadInv(q)'  BY <1>1, OtherReads DEF KInv, KeysInv
<1> QED  BY <1>1, <1>2, <1>3, EndedStays DEF Kept, KInv, KeysInv, GoodTable

LEMMA KeysNext ==
  ASSUME KInv, [Next]_vars
  PROVE  Kept
<1>0. clock \in Time /\ clock \in Int  BY TimesAreIntegers DEF KInv, TypeOK
<1>1. CASE UNCHANGED vars  BY <1>0, <1>1, StutterKeeps DEF vars
<1>2. CASE Tick
  <2>1. clock' \in Time /\ clock' >= clock
    BY <1>0, <1>2, MaxTimeAssumption DEF Tick, Time
  <2> QED  BY <1>2, <2>1, StutterKeeps DEF Tick
<1>3. ASSUME NEW q \in Requests, NEW u \in Users, NEW raw \in SeqOf(RawScopes, MaxScopes),
             NEW exp \in Time \cup {None}, CreateBegin(q, u, raw, exp)
      PROVE  Kept
  BY <1>3, CreateKeeps
<1>4. ASSUME NEW q \in Requests, NEW k \in Keys,
             \/ \E u \in Users : RevokeBegin(q, u, k)
             \/ \E scope \in AllowedScopes : VerifyBegin(q, k, scope)
      PROVE  Kept
  BY <1>4, BeginKeeps
<1>5. ASSUME NEW q \in Requests, FindMine(q) \/ FindActive(q) \/ Use(q) PROVE Kept
  BY <1>5, FindMineKeeps, FindActiveKeeps, UseKeeps
<1>6. ASSUME NEW q \in Requests, Insert(q) \/ Revoke(q) \/ AnswerLost(q) PROVE Kept
  BY <1>6, WriteKeeps
<1>7. ASSUME NEW q \in Requests, StatementFails(q) PROVE Kept
  BY <1>7, RefuseKeeps DEF StatementFails, Refuse
<1> QED  BY <1>1, <1>2, <1>3, <1>4, <1>5, <1>6, <1>7 DEF Next

LEMMA KeysInvariant == Spec => []KInv
<1>1. KInv /\ [Next]_vars => KInv'  BY KeysNext DEF Kept
<1> QED  BY <1>1, KeysInit, PTL DEF Spec

-----------------------------------------------------------------------------
(* Theorems.                                                               *)

\* Every variable keeps its type: in particular a request goes on only with a
\* row that it has read.
THEOREM KeysTypeCorrect == Spec => []TypeOK
<1>1. KInv => TypeOK  BY DEF KInv
<1> QED  BY <1>1, KeysInvariant, PTL

\* Stored scopes are allowed ones, at least one and none twice.
THEOREM GrantsAreSound == Spec => []ScopesAreSound
<1>1. KInv => ScopesAreSound  BY DEF KInv, KeysInv
<1> QED  BY <1>1, KeysInvariant, PTL

\* No key is ever marked used outside its life, however long a verification
\* waits between its statements.
THEOREM KeysAreUsedInLife == Spec => []UseIsInLife
<1>1. KInv => UseIsInLife  BY DEF KInv, KeysInv
<1> QED  BY <1>1, KeysInvariant, PTL

\* No statement ever writes a revoked row: neither a verification that found it
\* active before nor a second revocation.
THEOREM RevokedKeysAreFrozen == Spec => RevokedIsFrozen
<1>1. KInv /\ [Next]_vars =>
        [\A k \in Keys : keys[k] # None /\ ~Active(k) => keys'[k] = keys[k]]_vars
  BY KeysNext DEF Kept, GoodTable
<1> QED  BY <1>1, KeysInvariant, PTL DEF Spec, RevokedIsFrozen

\* A key whose revocation was reported is accepted nowhere any more, and an
\* accepted request has the scope of its route: the UPDATE looks at revoked_at
\* again, and the scopes of a row never change.
THEOREM EndedKeysAreRefused == Spec => EndedIsRefused
<1>1. ASSUME KInv, [Next]_vars, NEW q \in Requests,
             pc[q] = "use", pc'[q] = "idle", result' = "accepted"
      PROVE  op[q].key \notin ended /\ op[q].scope \in ToSet(keys[op[q].key].scopes)
  <2>1. Use(q)
    <3>1. pc \in [Requests -> {"idle", "insert", "findMine", "revoke", "findActive", "use"}]
      BY <1>1 DEF KInv, TypeOK
    <3>2. ASSUME NEW r \in Requests, r # q, NEW to, pc' = [pc EXCEPT ![r] = to] PROVE FALSE
      BY <1>1, <3>1, <3>2
    <3>3. ASSUME NEW r \in Requests, NEW u \in Users, NEW raw \in SeqOf(RawScopes, MaxScopes),
                 NEW exp \in Time \cup {None}, CreateBegin(r, u, raw, exp)
          PROVE  FALSE
      BY <1>1, <3>2, <3>3 DEF CreateBegin, Goto, Refuse, Return
    <3>4. ASSUME NEW r \in Requests, NEW k \in Keys,
                 \/ \E u \in Users : RevokeBegin(r, u, k)
                 \/ \E scope \in AllowedScopes : VerifyBegin(r, k, scope)
          PROVE  FALSE
      BY <1>1, <3>2, <3>4 DEF RevokeBegin, VerifyBegin, Goto
    <3>5. ASSUME NEW r \in Requests, FindMine(r) \/ FindActive(r) PROVE FALSE
      BY <1>1, <3>2, <3>5 DEF FindMine, FindActive, Goto, Refuse, Return
    <3>6. ASSUME NEW r \in Requests, Insert(r) \/ Revoke(r) \/ AnswerLost(r) PROVE FALSE
      BY <1>1, <3>2, <3>6 DEF Insert, InsertRow, Revoke, AnswerLost, Return
    <3>7. ASSUME NEW r \in Requests, StatementFails(r) PROVE FALSE
      BY <1>1, <3>7 DEF StatementFails, Refuse, Return
    <3>8. ASSUME NEW r \in Requests, Use(r) PROVE r = q
      BY <1>1, <3>2, <3>8 DEF Use, MarkUsed, Return
    <3>9. pc' # pc  BY <1>1
    <3> QED  BY <1>1, <3>3, <3>4, <3>5, <3>6, <3>7, <3>8, <3>9 DEF Next, Tick, vars
  <2>2. Active(op[q].key) /\ HasScope(op[q].row, op[q].scope)
    BY <1>1, <2>1 DEF Use, MarkUsed, Return
  <2>3. op[q].key \notin ended  BY <1>1, <2>2 DEF KInv, KeysInv, EndedInv
  <2>4. op[q].row.scopes = keys[op[q].key].scopes  BY <1>1 DEF KInv, KeysInv, ReadInv
  <2> QED  BY <2>2, <2>3, <2>4 DEF HasScope, ToSet
<1>2. KInv /\ [Next]_vars =>
        [\A q \in Requests : pc[q] = "use" /\ pc'[q] = "idle" /\ result' = "accepted" =>
           /\ op[q].key \notin ended
           /\ op[q].scope \in ToSet(keys[op[q].key].scopes)]_vars
  BY <1>1
<1> QED  BY <1>2, KeysInvariant, PTL DEF Spec, EndedIsRefused
=============================================================================
