--------------------------- MODULE SessionsProofs ----------------------------
(***************************************************************************)
(* Theorems about refresh sessions, for any number of concurrent requests, *)
(* sessions and token versions.                                            *)
(***************************************************************************)
EXTENDS Sessions, FiniteSetTheorems, SequenceTheorems, TLAPS

-----------------------------------------------------------------------------
(* What each write leaves in the table refresh_sessions.                   *)

\* Every row of the table is a session.
LEMMA Rows ==
  ASSUME TypeOK
  PROVE  /\ sessions \in Seq(Session) /\ Len(sessions) \in Nat /\ Known = 1 .. Len(sessions)
         /\ \A s \in Known : sessions[s] \in Session
BY DEF TypeOK, Known

\* The rows after a write.
LEMMA RowsNext ==
  ASSUME sessions' \in Seq(Session)
  PROVE  Known' = 1 .. Len(sessions')
BY DEF Known

\* An UPDATE of one row: the others stay.
LEMMA RowUpdate ==
  ASSUME TypeOK, NEW t \in Known, NEW row \in Session
  PROVE  /\ [sessions EXCEPT ![t] = row] \in Seq(Session)
         /\ Len([sessions EXCEPT ![t] = row]) = Len(sessions)
         /\ \A s \in Known : [sessions EXCEPT ![t] = row][s] = IF s = t THEN row ELSE sessions[s]
BY Rows, ExceptSeq

\* An INSERT: the table grows by one row.
LEMMA RowInsert ==
  ASSUME NEW S, NEW seq \in Seq(S), NEW row \in S
  PROVE  /\ Append(seq, row) \in Seq(S)
         /\ Len(Append(seq, row)) = Len(seq) + 1
         /\ \A s \in 1 .. Len(seq) : Append(seq, row)[s] = seq[s]
         /\ Append(seq, row)[Len(seq) + 1] = row
OBVIOUS

LEMMA LoginRows ==
  ASSUME TypeOK, SessionInv, NEW q \in Requests, LoginInsert(q), Len(sessions) < MaxSessions
  PROVE  /\ sessions' \in Seq(Session) /\ Len(sessions') = Len(sessions) + 1
         /\ \A s \in Known : sessions'[s] = sessions[s]
         /\ sessions'[Len(sessions) + 1] = [family |-> Len(sessions) + 1, state |-> Live,
                                            version |-> op[q].ver, next |-> 0]
<1> DEFINE row == [family |-> Len(sessions) + 1, state |-> Live, version |-> op[q].ver, next |-> 0]
<1>1. sessions' = Append(sessions, row)
  BY DEF LoginInsert
<1>2. row \in Session
  BY Rows, BoundsAssumption DEF TypeOK, Session, Ids, Op
<1>. QED BY <1>1, <1>2, Rows, RowInsert

\* The row a refresh rotates is live, known and of the version read.
LEMMA RotatedRow ==
  ASSUME TypeOK, SessionInv, NEW q \in Requests, Rotate(q)
  PROVE  /\ op[q].token \in Known /\ sessions[op[q].token].state = Live
         /\ rowLock[op[q].token] = q /\ op[q].ver = version /\ userLock = q
         /\ sessions[op[q].token].version = version
BY DEF SessionInv, LockInv, CallInv, Rotate, Deciding, Refreshing, Reused, Current

\* The row of a rotated session.
LEMMA RotatedFields ==
  ASSUME NEW x \in Session, NEW n
  PROVE  [[x EXCEPT !.state = "rotated"] EXCEPT !.next = n] =
           [family |-> x.family, version |-> x.version, state |-> "rotated", next |-> n]
<1>1. x = [family |-> x.family, version |-> x.version, state |-> x.state, next |-> x.next]
  BY DEF Session
<1>2. [x EXCEPT !.state = "rotated"] =
        [family |-> x.family, version |-> x.version, state |-> "rotated", next |-> x.next]
  BY <1>1
<1>3. \A y \in Session : [y EXCEPT !.next = n] =
        [family |-> y.family, version |-> y.version, state |-> y.state, next |-> n]
  <2> SUFFICES ASSUME NEW y \in Session
               PROVE  [y EXCEPT !.next = n] =
                        [family |-> y.family, version |-> y.version, state |-> y.state, next |-> n]
    OBVIOUS
  <2>1. y = [family |-> y.family, version |-> y.version, state |-> y.state, next |-> y.next]
    BY DEF Session
  <2>. QED BY <2>1
<1>4. [x EXCEPT !.state = "rotated"] \in Session
  BY DEF Session
<1>. QED BY <1>2, <1>3, <1>4

LEMMA RotateRows ==
  ASSUME TypeOK, SessionInv, NEW q \in Requests, Rotate(q), Len(sessions) < MaxSessions
  PROVE  LET t == op[q].token IN
         /\ sessions' \in Seq(Session) /\ Len(sessions') = Len(sessions) + 1
         /\ \A s \in Known \ {t} : sessions'[s] = sessions[s]
         /\ sessions'[t] = [family |-> sessions[t].family, version |-> sessions[t].version,
                            state |-> "rotated", next |-> Len(sessions) + 1]
         /\ sessions'[Len(sessions) + 1] = [family |-> sessions[t].family, state |-> Live,
                                            version |-> op[q].ver, next |-> 0]
<1> DEFINE t == op[q].token
           row == [family |-> sessions[t].family, version |-> sessions[t].version,
                   state |-> "rotated", next |-> Len(sessions) + 1]
           new == [family |-> sessions[t].family, state |-> Live,
                   version |-> op[q].ver, next |-> 0]
           seq == [sessions EXCEPT ![t] = row]
<1>1. t \in Known /\ sessions[t] \in Session
  BY RotatedRow, Rows
<1>2. row \in Session /\ new \in Session
  <2>1. sessions[t].family \in Ids /\ sessions[t].version \in Nat
    BY <1>1 DEF Session
  <2>2. op[q].ver \in Nat
    BY DEF TypeOK, Op
  <2>3. Len(sessions) + 1 \in 0 .. MaxSessions /\ 0 \in 0 .. MaxSessions
    BY Rows, BoundsAssumption
  <2>. QED BY <2>1, <2>2, <2>3 DEF Session
<1>3. seq \in Seq(Session) /\ Len(seq) = Len(sessions)
      /\ \A s \in Known : seq[s] = IF s = t THEN row ELSE sessions[s]
  BY <1>1, <1>2, RowUpdate
<1>4. sessions' = Append(seq, new)
  <2>1. sessions' = Append([sessions EXCEPT ![t].state = "rotated", ![t].next = Len(sessions) + 1], new)
    BY DEF Rotate, Successor
  <2>2. [sessions EXCEPT ![t].state = "rotated", ![t].next = Len(sessions) + 1] = seq
    <3>1. [[sessions[t] EXCEPT !.state = "rotated"] EXCEPT !.next = Len(sessions) + 1] = row
      BY <1>1, RotatedFields
    <3>. QED BY <1>1, <3>1, Rows
  <2>. QED BY <2>1, <2>2
<1>. QED BY <1>1, <1>2, <1>3, <1>4, Rows, RowInsert

LEMMA LogoutRows ==
  ASSUME TypeOK, SessionInv, NEW q \in Requests, Logout(q)
  PROVE  LET t == op[q].token IN
         /\ sessions' \in Seq(Session) /\ Len(sessions') = Len(sessions)
         /\ t \in Known /\ rowLock[t] = q /\ op[q].seen = sessions[t].state
         /\ \A s \in Known \ {t} : sessions'[s] = sessions[s]
         /\ sessions'[t] = IF sessions[t].state # Live THEN sessions[t]
                           ELSE [sessions[t] EXCEPT !.state = "logout"]
<1> DEFINE t == op[q].token
           row == [sessions[t] EXCEPT !.state = "logout"]
<1>1. t \in Known /\ sessions[t] \in Session /\ rowLock[t] = q /\ op[q].seen = sessions[t].state
  BY Rows DEF SessionInv, LockInv, CallInv, Logout, Deciding
<1>2. row \in Session
  BY <1>1 DEF Session
<1>3. CASE sessions[t].state # Live
  BY <1>1, <1>3, Rows DEF Logout
<1>4. CASE sessions[t].state = Live
  <2>1. sessions' = [sessions EXCEPT ![t] = row]
    BY <1>1, <1>4 DEF Logout
  <2>. QED BY <1>1, <1>2, <1>4, <2>1, RowUpdate
<1>. QED BY <1>3, <1>4

LEMMA LogoutAllRows ==
  ASSUME TypeOK, NEW q \in Requests, LogoutAll(q)
  PROVE  /\ sessions' \in Seq(Session) /\ Len(sessions') = Len(sessions)
         /\ \A s \in Known : sessions'[s] = IF sessions[s].state # Live THEN sessions[s]
                                            ELSE [sessions[s] EXCEPT !.state = "all"]
<1>1. sessions' = [s \in Known |-> IF sessions[s].state = Live
                                   THEN [sessions[s] EXCEPT !.state = "all"]
                                   ELSE sessions[s]]
  BY DEF LogoutAll, RevokeWhere
<1>2. sessions' \in [1 .. Len(sessions) -> Session]
  BY <1>1, Rows DEF Session
<1>3. sessions' \in Seq(Session)
  BY <1>2, Rows, SeqDef
<1>. QED BY <1>1, <1>2, <1>3, Rows
-----------------------------------------------------------------------------
(* The bounds on the model leave room for the calls under way.             *)

\* Counting the calls under way when one begins, goes on or ends.
LEMMA UnderwayCount ==
  ASSUME TypeOK, NEW q \in Requests, NEW K
  PROVE  /\ Underway(K) \in Nat
         /\ op[q].kind \in K => Underway(K) >= 1
         /\ \A o : op' = [op EXCEPT ![q] = o] =>
              /\ o.kind \in K /\ op[q].kind \notin K => Underway(K)' = Underway(K) + 1
              /\ o.kind \notin K /\ op[q].kind \in K => Underway(K)' = Underway(K) - 1
              /\ (o.kind \in K <=> op[q].kind \in K) => Underway(K)' = Underway(K)
<1> DEFINE U == {r \in Requests : op[r].kind \in K}
<1>1. IsFiniteSet(U) /\ Cardinality(U) \in Nat
  <2>1. IsFiniteSet(U)
    BY RequestsAssumption, FS_Subset
  <2>. QED BY <2>1, FS_CardinalityType
<1>2. op[q].kind \in K => Cardinality(U) >= 1
  <2> SUFFICES ASSUME op[q].kind \in K PROVE Cardinality(U) # 0
    BY <1>1
  <2>. QED BY <1>1, FS_EmptySet
<1>3. ASSUME NEW o, op' = [op EXCEPT ![q] = o]
      PROVE  /\ o.kind \in K /\ op[q].kind \notin K => Cardinality(U') = Cardinality(U) + 1
             /\ o.kind \notin K /\ op[q].kind \in K => Cardinality(U') = Cardinality(U) - 1
             /\ (o.kind \in K <=> op[q].kind \in K) => U' = U
  <2>1. op'[q] = o /\ \A r \in Requests \ {q} : op'[r] = op[r]
    BY <1>3 DEF TypeOK
  <2>2. o.kind \in K => U' = U \cup {q}
    BY <2>1
  <2>3. o.kind \notin K => U' = U \ {q}
    BY <2>1
  <2>4. q \in U <=> op[q].kind \in K
    OBVIOUS
  <2>5. q \notin U => Cardinality(U \cup {q}) = Cardinality(U) + 1
    BY <1>1, FS_AddElement
  <2>6. q \in U => Cardinality(U \ {q}) = Cardinality(U) - 1
    BY <1>1, FS_RemoveElement
  <2>7. (o.kind \in K <=> op[q].kind \in K) => U' = U
    <3>1. q \in U => U \cup {q} = U
      OBVIOUS
    <3>2. q \notin U => U \ {q} = U
      OBVIOUS
    <3>. QED BY <2>2, <2>3, <2>4, <3>1, <3>2
  <2>8. o.kind \in K /\ op[q].kind \notin K => Cardinality(U') = Cardinality(U) + 1
    BY <2>2, <2>4, <2>5
  <2>9. o.kind \notin K /\ op[q].kind \in K => Cardinality(U') = Cardinality(U) - 1
    BY <2>3, <2>4, <2>6
  <2>. QED BY <2>7, <2>8, <2>9
<1>. QED BY <1>1, <1>2, <1>3 DEF Underway

\* A call that inserts a row finds room for it.
LEMMA RoomLeft ==
  ASSUME TypeOK, SessionInv, NEW q \in Requests, op[q].kind \in {"login", "refresh"}
  PROVE  Len(sessions) < MaxSessions
<1>1. Underway({"login", "refresh"}) \in Nat /\ Underway({"login", "refresh"}) >= 1
  BY UnderwayCount
<1>2. Len(sessions) + Underway({"login", "refresh"}) <= MaxSessions
  BY DEF SessionInv, RoomInv
<1>. QED BY <1>1, <1>2, Rows, BoundsAssumption
-----------------------------------------------------------------------------
(* Type correctness.                                                       *)

\* The part of TypeOK that is not about the tables.
CallsOK ==
  /\ userLock \in Requests \cup {None}
  /\ rowLock \in [Ids -> Requests \cup {None}]
  /\ pc \in [Requests -> {"idle", "insert", "lockUser", "lockRow", "decide"}]
  /\ op \in [Requests -> Op]
  /\ userLock # None => pc[userLock] \in {"lockRow", "decide"}
  /\ \A s \in Ids : rowLock[s] # None => pc[rowLock[s]] = "decide"

TablesOK == /\ version \in Nat
            /\ sessions \in Seq(Session) /\ Len(sessions) <= MaxSessions
            /\ access \in SUBSET Nat

LEMMA TypeParts == TypeOK <=> CallsOK /\ TablesOK
BY DEF TypeOK, CallsOK, TablesOK

\* A call that ends has released what it held.
LEMMA ReturnType ==
  ASSUME TypeOK, NEW q \in Requests, Return(q)
  PROVE  CallsOK'
<1> USE NoneAssumption
<1>1. NoOp \in Op
  BY BoundsAssumption DEF NoOp, Op, Live
<1>2. /\ pc' \in [Requests -> {"idle", "insert", "lockUser", "lockRow", "decide"}]
      /\ op' \in [Requests -> Op]
  BY <1>1 DEF Return, TypeOK
<1>3. userLock' \in Requests \cup {None} /\ rowLock' \in [Ids -> Requests \cup {None}]
  BY DEF Return, TypeOK
<1>4. (userLock # None => pc[userLock] \in {"lockRow", "decide"})'
  BY DEF Return, TypeOK
<1>5. (\A s \in Ids : rowLock[s] # None => pc[rowLock[s]] = "decide")'
  <2> SUFFICES ASSUME NEW s \in Ids, rowLock'[s] # None PROVE pc'[rowLock'[s]] = "decide"
    OBVIOUS
  <2>1. rowLock'[s] = rowLock[s] /\ rowLock[s] # q /\ rowLock[s] \in Requests
    BY DEF Return, TypeOK
  <2>2. pc'[rowLock[s]] = pc[rowLock[s]]
    BY <2>1 DEF Return, TypeOK
  <2>. QED BY <2>1, <2>2 DEF TypeOK
<1>. QED BY <1>2, <1>3, <1>4, <1>5 DEF CallsOK

LEMMA BeginType ==
  ASSUME TypeOK, NEW q \in Requests, NEW kind \in {"login", "refresh", "logout", "logoutAll"},
         NEW s \in 0 .. MaxSessions, NEW v \in Nat,
         NEW to \in {"insert", "lockUser", "lockRow"}, Begin(q, kind, s, v, to)
  PROVE  TypeOK'
<1> USE NoneAssumption
<1>1. [NoOp EXCEPT !.kind = kind, !.token = s, !.ver = v] \in Op
  BY DEF NoOp, Op, Live
<1>2. UNCHANGED <<version, sessions, access, userLock, rowLock>>
      /\ pc[q] = "idle" /\ pc' = [pc EXCEPT ![q] = to]
  BY DEF Begin, dbVars
<1>3. op' \in [Requests -> Op]
  BY <1>1 DEF Begin, TypeOK
<1>. QED BY <1>2, <1>3 DEF TypeOK

\* A call that goes on, with new locks for itself only.
LEMMA OnwardType ==
  ASSUME TypeOK, NEW q \in Requests, UNCHANGED <<version, sessions, access>>,
         NEW to \in {"lockRow", "decide"}, pc' = [pc EXCEPT ![q] = to],
         op' \in [Requests -> Op],
         userLock' \in {userLock, q}, userLock' = q => to = "decide" \/ to = "lockRow",
         NEW held \in SUBSET Ids, held # {} => to = "decide",
         to = "lockRow" => \A s \in Ids : rowLock[s] # q,
         rowLock' = [s \in Ids |-> IF s \in held THEN q ELSE rowLock[s]]
  PROVE  TypeOK'
<1> USE NoneAssumption
<1>1. (userLock # None => pc[userLock] \in {"lockRow", "decide"})'
  BY DEF TypeOK
<1>2. (\A s \in Ids : rowLock[s] # None => pc[rowLock[s]] = "decide")'
  BY DEF TypeOK
<1>. QED BY <1>1, <1>2 DEF TypeOK

LEMMA TypeInit == Init => TypeOK
BY BoundsAssumption, NoneAssumption DEF Init, TypeOK, NoOp, Op, Live, Ids
LEMMA TypeNext ==
  ASSUME TypeOK, SessionInv, [Next]_vars
  PROVE  TypeOK'
<1> USE NoneAssumption
<1>0. Known \subseteq 0 .. MaxSessions /\ Known \subseteq Ids
  BY Rows, BoundsAssumption DEF TypeOK, Ids
<1>1. ASSUME NEW q \in Requests, LoginRead(q) PROVE TypeOK'
  <2>1. Begin(q, "login", 0, version, "insert") /\ 0 \in 0 .. MaxSessions /\ version \in Nat
    BY <1>1, BoundsAssumption DEF LoginRead, TypeOK
  <2>. QED BY <2>1, BeginType
<1>2. ASSUME NEW q \in Requests, NEW s \in Known, RefreshBegin(q, s) PROVE TypeOK'
  BY <1>0, <1>2, BeginType DEF RefreshBegin
<1>3. ASSUME NEW q \in Requests, NEW s \in Known, LogoutBegin(q, s) PROVE TypeOK'
  BY <1>0, <1>3, BeginType DEF LogoutBegin
<1>4. ASSUME NEW q \in Requests, NEW v \in access, LogoutAllBegin(q, v) PROVE TypeOK'
  BY <1>4, BeginType, BoundsAssumption DEF LogoutAllBegin
<1>5. ASSUME NEW q \in Requests, Rollback(q)
      PROVE  TypeOK'
  <2>1. CallsOK'
    BY <1>5, ReturnType DEF Rollback
  <2>2. TablesOK'
    BY <1>5, TypeParts DEF Rollback, TablesOK, dbVars
  <2>. QED BY <2>1, <2>2, TypeParts DEF TypeOK, CallsOK, TablesOK
<1>6. ASSUME NEW q \in Requests, LockUser(q) PROVE TypeOK'
  <2>1. pc[q] = "lockUser" /\ \A s \in Ids : rowLock[s] # q
    BY <1>6 DEF LockUser, TypeOK
  <2>2. PICK to \in {"lockRow", "decide"} : pc' = [pc EXCEPT ![q] = to]
    BY <1>6 DEF LockUser
  <2>3. op' \in [Requests -> Op]
    BY <1>6 DEF LockUser, TypeOK, Op
  <2>5. UNCHANGED <<version, sessions, access>> /\ userLock' = q
    BY <1>6 DEF LockUser, dbVars
  <2>6. (userLock # None => pc[userLock] \in {"lockRow", "decide"})'
    BY <2>2, <2>5 DEF TypeOK
  <2>7. (\A s \in Ids : rowLock[s] # None => pc[rowLock[s]] = "decide")'
    BY <1>6, <2>1, <2>2 DEF LockUser, TypeOK
  <2>. QED BY <1>6, <2>2, <2>3, <2>5, <2>6, <2>7 DEF LockUser, TypeOK
<1>7. ASSUME NEW q \in Requests, LockRow(q) PROVE TypeOK'
  <2>1. op[q].token \in Known
    BY <1>7 DEF LockRow, SessionInv, LockInv, CallInv
  <2>2. op' \in [Requests -> Op]
    <3>1. sessions[op[q].token].state \in {Live, "rotated", "logout", "all"}
      BY <2>1, Rows DEF Session
    <3>. QED BY <1>7, <3>1 DEF LockRow, TypeOK, Op
  <2>3. {op[q].token} \in SUBSET Ids
    BY <1>0, <2>1
  <2>4. rowLock' = [s \in Ids |-> IF s \in {op[q].token} THEN q ELSE rowLock[s]]
    BY <1>7, <2>3 DEF LockRow, TypeOK
  <2>5. /\ UNCHANGED <<version, sessions, access, userLock>>
        /\ pc' = [pc EXCEPT ![q] = "decide"]
    BY <1>7 DEF LockRow, dbVars
  <2>. QED BY <2>2, <2>3, <2>4, <2>5, OnwardType
<1>8. ASSUME NEW q \in Requests, LockLive(q) PROVE TypeOK'
  <2>1. PICK s \in Known : rowLock' = [rowLock EXCEPT ![s] = q]
    BY <1>8 DEF LockLive, Targets
  <2>2. /\ UNCHANGED <<version, sessions, access, userLock, pc, op>>
        /\ pc[q] = "decide"
    BY <1>8 DEF LockLive, dbVars, Revoking, Deciding
  <2>. QED BY <1>0, <2>1, <2>2 DEF TypeOK
<1>9. ASSUME NEW q \in Requests, LoginInsert(q) PROVE TypeOK'
  <2>1. Len(sessions) < MaxSessions
    BY <1>9, RoomLeft DEF LoginInsert, SessionInv, LockInv, CallInv
  <2>2. CallsOK'
    BY <1>9, ReturnType DEF LoginInsert
  <2>3. sessions' \in Seq(Session) /\ Len(sessions') <= MaxSessions
    <3>1. sessions' \in Seq(Session) /\ Len(sessions') = Len(sessions) + 1
      BY <1>9, <2>1, LoginRows
    <3>2. Len(sessions) \in Nat
      BY Rows
    <3>. QED BY <2>1, <3>1, <3>2, BoundsAssumption
  <2>4. version' \in Nat /\ access' \in SUBSET Nat
    BY <1>9 DEF LoginInsert, TypeOK, Op
  <2>. QED BY <2>2, <2>3, <2>4 DEF TypeOK, CallsOK
<1>10. ASSUME NEW q \in Requests, Rotate(q) PROVE TypeOK'
  <2>1. Len(sessions) < MaxSessions
    BY <1>10, RoomLeft DEF Rotate, Deciding
  <2>2. CallsOK'
    BY <1>10, ReturnType DEF Rotate
  <2>3. sessions' \in Seq(Session) /\ Len(sessions') <= MaxSessions
    <3>1. sessions' \in Seq(Session) /\ Len(sessions') = Len(sessions) + 1
      BY <1>10, <2>1, RotateRows
    <3>2. Len(sessions) \in Nat
      BY Rows
    <3>. QED BY <2>1, <3>1, <3>2, BoundsAssumption
  <2>4. version' \in Nat /\ access' \in SUBSET Nat
    BY <1>10 DEF Rotate, TypeOK, Op
  <2>. QED BY <2>2, <2>3, <2>4 DEF TypeOK, CallsOK
<1>11. ASSUME NEW q \in Requests, Logout(q) PROVE TypeOK'
  <2>1. CallsOK'
    BY <1>11, ReturnType DEF Logout
  <2>2. sessions' \in Seq(Session) /\ Len(sessions') <= MaxSessions
    BY <1>11, LogoutRows DEF TypeOK
  <2>. QED BY <1>11, <2>1, <2>2 DEF Logout, TypeOK, CallsOK
<1>12. ASSUME NEW q \in Requests, LogoutAll(q) PROVE TypeOK'
  <2>1. CallsOK'
    BY <1>12, ReturnType DEF LogoutAll
  <2>2. sessions' \in Seq(Session) /\ Len(sessions') <= MaxSessions
    BY <1>12, LogoutAllRows DEF TypeOK
  <2>. QED BY <1>12, <2>1, <2>2 DEF LogoutAll, TypeOK, CallsOK
<1>13. CASE UNCHANGED vars
  BY <1>13 DEF vars, TypeOK
<1>. QED BY <1>1, <1>2, <1>3, <1>4, <1>5, <1>6, <1>7, <1>8, <1>9, <1>10, <1>11, <1>12, <1>13
         DEF Next, Progress, Abort, RefreshReused, RefreshStale
-----------------------------------------------------------------------------
(* What a call holds, and that nobody else changes what it has read.       *)

\* A step of another call leaves r's locks, and what they protect, alone.
LEMMA OtherCall ==
  ASSUME TypeOK, NEW r \in Requests, CallInv(r),
         op'[r] = op[r], pc'[r] = pc[r], Known \subseteq Known',
         userLock = r => userLock' = r /\ version' = version,
         \A s \in Known : rowLock[s] = r => /\ rowLock'[s] = r
                                            /\ sessions'[s].state = sessions[s].state
  PROVE  CallInv(r)'
BY DEF CallInv, Refreshing

LEMMA ReturnLocks ==
  ASSUME TypeOK, LockInv, NEW q \in Requests, Return(q),
         Known \subseteq Known', userLock # q => version' = version,
         \A s \in Known : rowLock[s] \notin {q, None} => sessions'[s].state = sessions[s].state
  PROVE  LockInv'
<1> SUFFICES ASSUME NEW r \in Requests PROVE CallInv(r)'
  BY DEF LockInv
<1>0. CallInv(r)
  BY DEF LockInv
<1>1. CASE r = q
  <2>1. pc'[q] = "idle" /\ op'[q] = NoOp
    BY DEF Return, TypeOK
  <2>. QED BY <1>1, <2>1 DEF CallInv, Refreshing, NoOp
<1>2. CASE r # q
  <2>1. op'[r] = op[r] /\ pc'[r] = pc[r]
    BY <1>2 DEF Return, TypeOK
  <2>2. userLock = r => userLock' = r /\ version' = version
    BY <1>2 DEF Return
  <2>3. ASSUME NEW s \in Known, rowLock[s] = r
        PROVE  rowLock'[s] = r /\ sessions'[s].state = sessions[s].state
    <3>1. s \in Ids
      BY Rows, BoundsAssumption DEF TypeOK, Ids
    <3>. QED BY <1>2, <2>3, <3>1, NoneAssumption DEF Return
  <2>. QED BY <1>0, <2>1, <2>2, <2>3, OtherCall
<1>. QED BY <1>1, <1>2

LEMMA BeginLocks ==
  ASSUME TypeOK, LockInv, NEW q \in Requests, NEW kind, NEW s, NEW v, NEW to,
         Begin(q, kind, s, v, to),
         \/ kind = "login" /\ to = "insert"
         \/ kind = "refresh" /\ to = "lockUser" /\ s \in Known
         \/ kind = "logout" /\ to = "lockRow" /\ s \in Known
         \/ kind = "logoutAll" /\ to = "lockUser"
  PROVE  LockInv'
<1> SUFFICES ASSUME NEW r \in Requests PROVE CallInv(r)'
  BY DEF LockInv
<1>0. CallInv(r) /\ UNCHANGED <<version, sessions, userLock, rowLock, Known>>
  BY DEF LockInv, Begin, dbVars, Known
<1>1. CASE r = q
  <2>1. pc'[q] = to /\ op'[q].kind = kind /\ op'[q].token = s
    BY DEF Begin, TypeOK, NoOp
  <2>. QED BY <1>0, <1>1, <2>1 DEF CallInv, Refreshing
<1>2. CASE r # q
  BY <1>0, <1>2, OtherCall DEF Begin, TypeOK
<1>. QED BY <1>1, <1>2

LEMMA LockUserLocks ==
  ASSUME TypeOK, LockInv, NEW q \in Requests, LockUser(q)
  PROVE  LockInv'
<1> SUFFICES ASSUME NEW r \in Requests PROVE CallInv(r)'
  BY DEF LockInv
<1>0. CallInv(r) /\ UNCHANGED <<version, sessions, rowLock, Known>>
  BY DEF LockInv, LockUser, dbVars, Known
<1>1. CASE r = q
  <2>1. /\ pc'[q] = IF op[q].kind = "refresh" THEN "lockRow" ELSE "decide"
        /\ op'[q] = [op[q] EXCEPT !.ver = version]
        /\ userLock' = q /\ op[q].kind \in {"refresh", "logoutAll"} /\ op[q] \in Op
    BY <1>0, <1>1 DEF LockUser, TypeOK, CallInv
  <2>2. op'[q].kind = op[q].kind /\ op'[q].token = op[q].token /\ op'[q].ver = version
    BY <2>1 DEF Op
  <2>. QED BY <1>0, <1>1, <2>1, <2>2 DEF CallInv, Refreshing
<1>2. CASE r # q
  BY <1>0, <1>2, OtherCall, NoneAssumption DEF LockUser, TypeOK
<1>. QED BY <1>1, <1>2

LEMMA LockRowLocks ==
  ASSUME TypeOK, LockInv, NEW q \in Requests, LockRow(q)
  PROVE  LockInv'
<1> SUFFICES ASSUME NEW r \in Requests PROVE CallInv(r)'
  BY DEF LockInv
<1>0. CallInv(r) /\ CallInv(q) /\ UNCHANGED <<version, sessions, userLock, Known>>
  BY DEF LockInv, LockRow, dbVars, Known
<1>1. op[q].token \in Known /\ op[q].token \in Ids /\ op[q].kind \in {"refresh", "logout"}
  BY <1>0, Rows, BoundsAssumption DEF LockRow, CallInv, TypeOK, Ids
<1>2. CASE r = q
  <2>1. /\ pc[q] = "lockRow" /\ pc'[q] = "decide"
        /\ op'[q] = [op[q] EXCEPT !.seen = sessions[op[q].token].state] /\ op[q] \in Op
        /\ rowLock'[op[q].token] = q
    BY <1>1 DEF LockRow, TypeOK
  <2>2. /\ op'[q].kind = op[q].kind /\ op'[q].token = op[q].token /\ op'[q].ver = op[q].ver
        /\ op'[q].seen = sessions[op[q].token].state
    BY <2>1 DEF Op
  <2>. QED BY <1>0, <1>1, <1>2, <2>1, <2>2 DEF CallInv, Refreshing
<1>3. CASE r # q
  <2>1. \A s \in Known : rowLock[s] = r => rowLock'[s] = r
    <3>1. \A s \in Known : s \in Ids
      BY Rows, BoundsAssumption DEF TypeOK, Ids
    <3>. QED BY <1>3, <3>1, NoneAssumption DEF LockRow, TypeOK
  <2>. QED BY <1>0, <1>3, <2>1, OtherCall DEF LockRow, TypeOK
<1>. QED BY <1>2, <1>3

LEMMA LockLiveLocks ==
  ASSUME TypeOK, LockInv, NEW q \in Requests, LockLive(q)
  PROVE  LockInv'
<1> SUFFICES ASSUME NEW r \in Requests PROVE CallInv(r)'
  BY DEF LockInv
<1>0. CallInv(r) /\ UNCHANGED <<version, sessions, userLock, Known, pc, op>>
  BY DEF LockInv, LockLive, dbVars, Known
<1>1. \A s \in Known : rowLock[s] = r => rowLock'[s] = r
  <2>1. PICK t \in Known : rowLock[t] = None /\ rowLock' = [rowLock EXCEPT ![t] = q]
    BY DEF LockLive, Targets
  <2>2. \A s \in Known : s \in Ids
    BY Rows, BoundsAssumption DEF TypeOK, Ids
  <2>. QED BY <2>1, <2>2, NoneAssumption DEF TypeOK
<1>. QED BY <1>0, <1>1, OtherCall

LEMMA LockNext ==
  ASSUME TypeOK, SessionInv, [Next]_vars
  PROVE  LockInv'
<1> USE DEF SessionInv
<1>1. ASSUME NEW q \in Requests, LoginRead(q) PROVE LockInv'
  BY <1>1, BeginLocks DEF LoginRead
<1>2. ASSUME NEW q \in Requests, NEW s \in Known, RefreshBegin(q, s) PROVE LockInv'
  BY <1>2, BeginLocks DEF RefreshBegin
<1>3. ASSUME NEW q \in Requests, NEW s \in Known, LogoutBegin(q, s) PROVE LockInv'
  BY <1>3, BeginLocks DEF LogoutBegin
<1>4. ASSUME NEW q \in Requests, NEW v \in access, LogoutAllBegin(q, v) PROVE LockInv'
  BY <1>4, BeginLocks DEF LogoutAllBegin
<1>5. ASSUME NEW q \in Requests, Rollback(q) PROVE LockInv'
  BY <1>5, ReturnLocks DEF Rollback, dbVars, Known
<1>6. ASSUME NEW q \in Requests, LoginInsert(q) PROVE LockInv'
  <2>1. Len(sessions) < MaxSessions
    BY <1>6, RoomLeft DEF LoginInsert, LockInv, CallInv
  <2>2. Known \subseteq Known' /\ \A s \in Known : sessions'[s] = sessions[s]
    <3>1. sessions' \in Seq(Session) /\ Len(sessions') = Len(sessions) + 1
          /\ \A s \in Known : sessions'[s] = sessions[s]
      BY <1>6, <2>1, LoginRows
    <3>. QED BY <3>1, RowsNext, Rows
  <2>. QED BY <1>6, <2>2, ReturnLocks DEF LoginInsert
<1>7. ASSUME NEW q \in Requests, Rotate(q) PROVE LockInv'
  <2>1. Len(sessions) < MaxSessions
    BY <1>7, RoomLeft DEF Rotate, Deciding
  <2>2. Known \subseteq Known'
    <3>1. sessions' \in Seq(Session) /\ Len(sessions') = Len(sessions) + 1
      BY <1>7, <2>1, RotateRows
    <3>. QED BY <3>1, RowsNext, Rows
  <2>3. \A s \in Known : rowLock[s] \notin {q, None} => sessions'[s].state = sessions[s].state
    BY <1>7, <2>1, RotateRows, RotatedRow
  <2>. QED BY <1>7, <2>2, <2>3, ReturnLocks DEF Rotate
<1>8. ASSUME NEW q \in Requests, Logout(q) PROVE LockInv'
  <2>1. Known \subseteq Known'
    <3>1. sessions' \in Seq(Session) /\ Len(sessions') = Len(sessions)
      BY <1>8, LogoutRows
    <3>. QED BY <3>1, RowsNext, Rows
  <2>2. \A s \in Known : rowLock[s] \notin {q, None} => sessions'[s].state = sessions[s].state
    BY <1>8, LogoutRows
  <2>. QED BY <1>8, <2>1, <2>2, ReturnLocks DEF Logout
<1>9. ASSUME NEW q \in Requests, LogoutAll(q) PROVE LockInv'
  <2>1. Known \subseteq Known'
    <3>1. sessions' \in Seq(Session) /\ Len(sessions') = Len(sessions)
      BY <1>9, LogoutAllRows
    <3>. QED BY <3>1, RowsNext, Rows
  <2>2. \A s \in Known : rowLock[s] \notin {q, None} => sessions'[s].state = sessions[s].state
    BY <1>9, LogoutAllRows DEF LogoutAll, AllLocked, Targets, Deciding
  <2>3. userLock = q
    BY <1>9 DEF LogoutAll, Deciding, LockInv, CallInv
  <2>. QED BY <1>9, <2>1, <2>2, <2>3, ReturnLocks DEF LogoutAll
<1>10. CASE UNCHANGED vars
  BY <1>10 DEF vars, LockInv, CallInv, Refreshing, Known
<1>. QED BY <1>1, <1>2, <1>3, <1>4, <1>5, <1>6, <1>7, <1>8, <1>9, <1>10,
            LockUserLocks, LockRowLocks, LockLiveLocks
         DEF Next, Progress, Abort, RefreshReused, RefreshStale

-----------------------------------------------------------------------------
(* The bound on rows holds although calls reserve theirs when they begin.  *)

LEMMA RoomNext ==
  ASSUME TypeOK, SessionInv, [Next]_vars
  PROVE  RoomInv'
<1> DEFINE K == {"login", "refresh"}
<1> USE BoundsAssumption
<1>0. Underway(K) \in Nat /\ Len(sessions) \in Nat /\ Len(sessions) + Underway(K) <= MaxSessions
  <2>1. Underway(K) \in Nat
    BY RequestsAssumption, FS_Subset, FS_CardinalityType DEF Underway
  <2>. QED BY <2>1, Rows DEF SessionInv, RoomInv
<1>1. ASSUME NEW q \in Requests, NEW o, op' = [op EXCEPT ![q] = o],
             o.kind \in K <=> op[q].kind \in K, sessions' = sessions
      PROVE  RoomInv'
  BY <1>0, <1>1, UnderwayCount DEF RoomInv
<1>2. ASSUME NEW q \in Requests, NEW kind, NEW s, NEW v, NEW to, Begin(q, kind, s, v, to),
             kind \in K => SessionsLeft
      PROVE  RoomInv'
  <2> DEFINE o == [NoOp EXCEPT !.kind = kind, !.token = s, !.ver = v]
  <2>1. op' = [op EXCEPT ![q] = o] /\ o.kind = kind /\ op[q].kind \notin K /\ sessions' = sessions
    BY <1>2 DEF Begin, SessionInv, LockInv, CallInv, NoOp, dbVars
  <2>2. CASE kind \notin K
    BY <1>1, <2>1, <2>2
  <2>3. CASE kind \in K
    <3>1. Underway(K)' = Underway(K) + 1
      BY <2>1, <2>3, UnderwayCount
    <3>. QED BY <1>0, <1>2, <2>1, <2>3, <3>1 DEF RoomInv, SessionsLeft
  <2>. QED BY <2>2, <2>3
<1>3. ASSUME NEW q \in Requests, Return(q),
             \/ Len(sessions') = Len(sessions)
             \/ Len(sessions') = Len(sessions) + 1 /\ op[q].kind \in K
      PROVE  RoomInv'
  <2>1. op' = [op EXCEPT ![q] = NoOp] /\ NoOp.kind \notin K
    BY <1>3 DEF Return, NoOp
  <2>2. CASE op[q].kind \in K
    <3>1. Underway(K)' = Underway(K) - 1
      BY <2>1, <2>2, UnderwayCount
    <3>. QED BY <1>0, <1>3, <3>1 DEF RoomInv
  <2>3. CASE op[q].kind \notin K
    <3>1. Underway(K)' = Underway(K)
      BY <2>1, <2>3, UnderwayCount
    <3>. QED BY <1>0, <1>3, <2>3, <3>1 DEF RoomInv
  <2>. QED BY <2>2, <2>3
<1>4. ASSUME op' = op, sessions' = sessions PROVE RoomInv'
  BY <1>4 DEF SessionInv, RoomInv, Underway
<1>5. ASSUME NEW q \in Requests, LockUser(q) PROVE RoomInv'
  <2>1. op' = [op EXCEPT ![q] = [op[q] EXCEPT !.ver = version]] /\ sessions' = sessions
    BY <1>5 DEF LockUser, dbVars
  <2>2. [op[q] EXCEPT !.ver = version].kind = op[q].kind
    BY DEF TypeOK, Op
  <2>. QED BY <1>1, <2>1, <2>2
<1>6. ASSUME NEW q \in Requests, LockRow(q) PROVE RoomInv'
  <2>1. op' = [op EXCEPT ![q] = [op[q] EXCEPT !.seen = sessions[op[q].token].state]]
        /\ sessions' = sessions
    BY <1>6 DEF LockRow, dbVars
  <2>2. [op[q] EXCEPT !.seen = sessions[op[q].token].state].kind = op[q].kind
    BY DEF TypeOK, Op
  <2>. QED BY <1>1, <2>1, <2>2
<1>7. ASSUME NEW q \in Requests, LoginInsert(q) PROVE RoomInv'
  <2>1. op[q].kind \in K
    BY <1>7 DEF LoginInsert, SessionInv, LockInv, CallInv
  <2>. QED BY <1>3, <1>7, <2>1, RoomLeft, LoginRows DEF LoginInsert
<1>8. ASSUME NEW q \in Requests, Rotate(q) PROVE RoomInv'
  <2>1. op[q].kind \in K
    BY <1>8 DEF Rotate, Deciding
  <2>. QED BY <1>3, <1>8, <2>1, RoomLeft, RotateRows DEF Rotate
<1>9. ASSUME NEW q \in Requests, Logout(q) PROVE RoomInv'
  BY <1>3, <1>9, LogoutRows DEF Logout
<1>10. ASSUME NEW q \in Requests, LogoutAll(q) PROVE RoomInv'
  BY <1>3, <1>10, LogoutAllRows DEF LogoutAll
<1>11. ASSUME NEW q \in Requests, Rollback(q) PROVE RoomInv'
  BY <1>3, <1>11 DEF Rollback, dbVars
<1>12. ASSUME NEW q \in Requests, LoginRead(q) PROVE RoomInv'
  BY <1>2, <1>12 DEF LoginRead
<1>13. ASSUME NEW q \in Requests, NEW s \in Known, RefreshBegin(q, s) PROVE RoomInv'
  BY <1>2, <1>4, <1>13 DEF RefreshBegin, dbVars
<1>14. ASSUME NEW q \in Requests, NEW s \in Known, LogoutBegin(q, s) PROVE RoomInv'
  BY <1>2, <1>14 DEF LogoutBegin
<1>15. ASSUME NEW q \in Requests, NEW v \in access, LogoutAllBegin(q, v) PROVE RoomInv'
  BY <1>2, <1>4, <1>15 DEF LogoutAllBegin, dbVars
<1>16. ASSUME NEW q \in Requests, LockLive(q) PROVE RoomInv'
  BY <1>4, <1>16 DEF LockLive, dbVars
<1>17. CASE UNCHANGED vars
  BY <1>4, <1>17 DEF vars
<1>. QED BY <1>5, <1>6, <1>7, <1>8, <1>9, <1>10, <1>11, <1>12, <1>13, <1>14, <1>15, <1>16, <1>17
         DEF Next, Progress, Abort, RefreshReused, RefreshStale
-----------------------------------------------------------------------------
(* Families of sessions.                                                   *)

\* A step leaves the table alone or is one of the four that write it.
LEMMA Writers ==
  ASSUME TypeOK, SessionInv, [Next]_vars
  PROVE  \/ UNCHANGED <<version, sessions>>
         \/ \E q \in Requests : /\ Len(sessions) < MaxSessions
                                /\ LoginInsert(q) \/ Rotate(q)
         \/ \E q \in Requests : Logout(q) \/ LogoutAll(q)
<1>1. ASSUME NEW q \in Requests, LoginInsert(q) PROVE Len(sessions) < MaxSessions
  BY <1>1, RoomLeft DEF LoginInsert, SessionInv, LockInv, CallInv
<1>2. ASSUME NEW q \in Requests, Rotate(q) PROVE Len(sessions) < MaxSessions
  BY <1>2, RoomLeft DEF Rotate, Deciding
<1>3. ASSUME NEW q \in Requests, LoginRead(q) \/ LockUser(q) \/ LockRow(q) \/ LockLive(q)
      PROVE  UNCHANGED <<version, sessions>>
  BY <1>3 DEF LoginRead, Begin, LockUser, LockRow, LockLive, dbVars
<1>4. ASSUME NEW q \in Requests, RefreshReused(q) \/ RefreshStale(q) \/ Abort(q)
      PROVE  UNCHANGED <<version, sessions>>
  BY <1>4 DEF RefreshReused, RefreshStale, Abort, Rollback, dbVars
<1>5. ASSUME NEW q \in Requests, NEW s, RefreshBegin(q, s) \/ LogoutBegin(q, s) \/ LogoutAllBegin(q, s)
      PROVE  UNCHANGED <<version, sessions>>
  BY <1>5 DEF RefreshBegin, LogoutBegin, LogoutAllBegin, Begin, dbVars
<1>6. CASE UNCHANGED vars
  BY <1>6 DEF vars
<1>. QED BY <1>1, <1>2, <1>3, <1>4, <1>5, <1>6 DEF Next, Progress

\* Revoking live sessions keeps the families as they are.
LEMMA RevokeTable ==
  ASSUME TypeOK, TableInv, Known' = Known,
         \A s \in Known : \/ sessions'[s] = sessions[s]
                          \/ /\ sessions[s].state = Live
                             /\ sessions'[s].state \in {"logout", "all"}
                             /\ sessions'[s].family = sessions[s].family
                             /\ sessions'[s].next = sessions[s].next
  PROVE  TableInv'
<1> USE DEF TableInv, Live
<1>1. \A s \in Known : /\ sessions'[s].family = sessions[s].family
                       /\ sessions'[s].next = sessions[s].next
                       /\ sessions'[s].state = Live => sessions[s].state = Live
                       /\ sessions'[s].state = "rotated" <=> sessions[s].state = "rotated"
  OBVIOUS
<1>2. FamilyInv'
  BY <1>1 DEF FamilyInv
<1>3. OneLivePerFamily'
  BY <1>1 DEF OneLivePerFamily
<1>4. FamiliesAreChains'
  <2>1. (\A s \in Known : sessions[s].state = "rotated" =>
           /\ sessions[s].next \in Known
           /\ sessions[s].next > s
           /\ sessions[sessions[s].next].family = sessions[s].family)'
    BY <1>1 DEF FamiliesAreChains
  <2>2. (\A t \in Known : sessions[t].family # t =>
           \E s \in Known : \A u \in Known : sessions[u].next = t <=> u = s)'
    BY <1>1 DEF FamiliesAreChains
  <2>. QED BY <2>1, <2>2 DEF FamiliesAreChains
<1>. QED BY <1>2, <1>3, <1>4

\* A new session that is the first of its family, or the successor of the
\* family's only live session, which is rotated in the same step.
LEMMA InsertTable ==
  ASSUME TypeOK, TableInv, Known' = Known \cup {Len(sessions) + 1},
         NEW k \in Known \cup {0},
         LET n == Len(sessions) + 1 IN
         /\ sessions'[n].state = Live /\ sessions'[n].next = 0
         /\ k = 0 => sessions'[n].family = n
         /\ k # 0 => /\ sessions[k].state = Live
                     /\ sessions'[n].family = sessions[k].family
                     /\ sessions'[k].state = "rotated" /\ sessions'[k].next = n
                     /\ sessions'[k].family = sessions[k].family
         /\ \A s \in Known \ {k} : sessions'[s] = sessions[s]
  PROVE  TableInv'
<1> DEFINE n == Len(sessions) + 1
<1> USE DEF TableInv, Live
<1>0. Known = 1 .. Len(sessions) /\ Len(sessions) \in Nat /\ n \notin Known /\ n \in Known'
  BY Rows
<1>1. \A s \in Known : /\ sessions'[s].family = sessions[s].family
                       /\ sessions'[s].state = Live => sessions[s].state = Live /\ s # k
                       /\ s # k => sessions'[s].next = sessions[s].next
                                   /\ sessions'[s].state = sessions[s].state
  BY <1>0
<1>2. \A s \in Known : sessions[s].family <= s /\ sessions[s].next \in Known \cup {0}
                       /\ (sessions[s].state # "rotated" => sessions[s].next = 0)
                       /\ sessions[s].family \in Nat
  BY Rows DEF FamilyInv, Session, Ids
<1>3. FamilyInv'
  <2> SUFFICES ASSUME NEW s \in Known'
               PROVE  /\ sessions'[s].family <= s
                      /\ sessions'[s].next \in Known' \cup {0}
                      /\ sessions'[s].state # "rotated" => sessions'[s].next = 0
    BY DEF FamilyInv
  <2>1. CASE s = n
    BY <1>0, <1>2, <2>1
  <2>2. CASE s = k /\ s # n
    BY <1>0, <1>1, <1>2, <2>2
  <2>3. CASE s # k /\ s # n
    BY <1>0, <1>1, <1>2, <2>3
  <2>. QED BY <2>1, <2>2, <2>3
<1>4. OneLivePerFamily'
  <2>1. ASSUME NEW s \in Known, sessions'[s].state = Live,
               sessions'[s].family = sessions'[n].family
        PROVE  FALSE
    <3>1. sessions[s].state = Live /\ s # k /\ sessions'[s].family = sessions[s].family
      BY <1>1, <2>1
    <3>2. CASE k = 0
      BY <1>0, <1>2, <2>1, <3>1, <3>2
    <3>3. CASE k # 0
      BY <2>1, <3>1, <3>3 DEF OneLivePerFamily
    <3>. QED BY <3>2, <3>3
  <2>2. ASSUME NEW s \in Known, NEW t \in Known, sessions'[s].state = Live,
               sessions'[t].state = Live, sessions'[s].family = sessions'[t].family
        PROVE  s = t
    BY <1>1, <2>2 DEF OneLivePerFamily
  <2>. QED BY <2>1, <2>2 DEF OneLivePerFamily
<1>5. FamiliesAreChains'
  <2>1. ASSUME NEW s \in Known', sessions'[s].state = "rotated"
        PROVE  /\ sessions'[s].next \in Known' /\ sessions'[s].next > s
               /\ sessions'[sessions'[s].next].family = sessions'[s].family
    <3>1. s \in Known
      BY <2>1
    <3>2. CASE s = k
      BY <1>0, <3>1, <3>2
    <3>3. CASE s # k
      <4>1. /\ sessions[s].next \in Known /\ sessions[s].next > s
            /\ sessions[sessions[s].next].family = sessions[s].family
        BY <1>1, <2>1, <3>1, <3>3 DEF FamiliesAreChains
      <4>. QED BY <1>1, <3>1, <3>3, <4>1
    <3>. QED BY <3>2, <3>3
  <2>2. ASSUME NEW t \in Known', sessions'[t].family # t
        PROVE  \E s \in Known' : \A u \in Known' : sessions'[u].next = t <=> u = s
    <3>1. CASE t = n
      <4>1. k \in Known
        BY <2>2, <3>1
      <4>2. \A u \in Known' : sessions'[u].next = n <=> u = k
        BY <1>0, <1>1, <1>2, <4>1
      <4>. QED BY <3>1, <4>1, <4>2
    <3>2. CASE t # n
      <4>1. t \in Known /\ t # 0 /\ sessions[t].family # t
        BY <1>0, <1>1, <2>2, <3>2
      <4>2. PICK s \in Known : \A u \in Known : sessions[u].next = t <=> u = s
        BY <4>1 DEF FamiliesAreChains
      <4>3. k \in Known => s # k
        <5>1. sessions[s].next = t
          BY <4>2
        <5>2. k \in Known => sessions[k].next = 0
          BY <1>0, <1>2
        <5>. QED BY <4>1, <5>1, <5>2
      <4>4. \A u \in Known' : sessions'[u].next = t <=> u = s
        <5> SUFFICES ASSUME NEW u \in Known' PROVE sessions'[u].next = t <=> u = s
          OBVIOUS
        <5>1. CASE u = n
          BY <1>0, <4>1, <5>1
        <5>2. CASE u = k /\ u # n
          BY <1>0, <3>2, <4>1, <4>3, <5>2
        <5>3. CASE u # k /\ u # n
          BY <1>1, <4>2, <5>3
        <5>. QED BY <5>1, <5>2, <5>3
      <4>. QED BY <4>4
    <3>. QED BY <3>1, <3>2
  <2>. QED BY <2>1, <2>2 DEF FamiliesAreChains
<1>. QED BY <1>3, <1>4, <1>5

LEMMA TableNext ==
  ASSUME TypeOK, SessionInv, [Next]_vars
  PROVE  TableInv'
<1>0. TableInv /\ Known = 1 .. Len(sessions) /\ Len(sessions) \in Nat /\ 0 \notin Known
  BY Rows DEF SessionInv
<1>1. ASSUME NEW q \in Requests, LoginInsert(q), Len(sessions) < MaxSessions PROVE TableInv'
  <2>1. Known' = Known \cup {Len(sessions) + 1}
    <3>1. sessions' \in Seq(Session) /\ Len(sessions') = Len(sessions) + 1
      BY <1>1, LoginRows
    <3>. QED BY <1>0, <3>1, RowsNext
  <2>2. /\ \A s \in Known : sessions'[s] = sessions[s]
        /\ sessions'[Len(sessions) + 1].state = Live
        /\ sessions'[Len(sessions) + 1].next = 0
        /\ sessions'[Len(sessions) + 1].family = Len(sessions) + 1
    <3>1. /\ \A s \in Known : sessions'[s] = sessions[s]
          /\ sessions'[Len(sessions) + 1] =
               [family |-> Len(sessions) + 1, state |-> Live, version |-> op[q].ver, next |-> 0]
      BY <1>1, LoginRows
    <3>. QED BY <3>1
  <2>. QED BY <1>0, <2>1, <2>2, InsertTable
<1>2. ASSUME NEW q \in Requests, Rotate(q), Len(sessions) < MaxSessions PROVE TableInv'
  <2>1. Known' = Known \cup {Len(sessions) + 1}
    <3>1. sessions' \in Seq(Session) /\ Len(sessions') = Len(sessions) + 1
      BY <1>2, RotateRows
    <3>. QED BY <1>0, <3>1, RowsNext
  <2>2. PICK k \in Known : k = op[q].token /\ sessions[k].state = Live
    BY <1>2, RotatedRow
  <2>3. /\ \A s \in Known \ {k} : sessions'[s] = sessions[s]
        /\ sessions'[k].state = "rotated" /\ sessions'[k].next = Len(sessions) + 1
        /\ sessions'[k].family = sessions[k].family
        /\ sessions'[Len(sessions) + 1].state = Live
        /\ sessions'[Len(sessions) + 1].next = 0
        /\ sessions'[Len(sessions) + 1].family = sessions[k].family
    <3>1. /\ \A s \in Known \ {k} : sessions'[s] = sessions[s]
          /\ sessions'[k] = [family |-> sessions[k].family, version |-> sessions[k].version,
                             state |-> "rotated", next |-> Len(sessions) + 1]
          /\ sessions'[Len(sessions) + 1] = [family |-> sessions[k].family, state |-> Live,
                                             version |-> op[q].ver, next |-> 0]
      BY <1>2, <2>2, RotateRows
    <3>. QED BY <3>1
  <2>. QED BY <1>0, <2>1, <2>2, <2>3, InsertTable
<1>3. ASSUME NEW q \in Requests, Logout(q) PROVE TableInv'
  <2>1. Known' = Known
    <3>1. sessions' \in Seq(Session) /\ Len(sessions') = Len(sessions)
      BY <1>3, LogoutRows
    <3>. QED BY <1>0, <3>1, RowsNext
  <2>2. \A s \in Known : \/ sessions'[s] = sessions[s]
                         \/ sessions[s].state = Live
                            /\ sessions'[s] = [sessions[s] EXCEPT !.state = "logout"]
    BY <1>3, LogoutRows
  <2>3. \A s \in Known : sessions[s] \in Session
    BY Rows
  <2>. QED BY <1>0, <2>1, <2>2, <2>3, RevokeTable DEF Session
<1>4. ASSUME NEW q \in Requests, LogoutAll(q) PROVE TableInv'
  <2>1. Known' = Known
    <3>1. sessions' \in Seq(Session) /\ Len(sessions') = Len(sessions)
      BY <1>4, LogoutAllRows
    <3>. QED BY <1>0, <3>1, RowsNext
  <2>2. \A s \in Known : \/ sessions'[s] = sessions[s]
                         \/ sessions[s].state = Live
                            /\ sessions'[s] = [sessions[s] EXCEPT !.state = "all"]
    BY <1>4, LogoutAllRows
  <2>3. \A s \in Known : sessions[s] \in Session
    BY Rows
  <2>. QED BY <1>0, <2>1, <2>2, <2>3, RevokeTable DEF Session
<1>5. CASE UNCHANGED <<version, sessions>>
  BY <1>0, <1>5 DEF TableInv, FamilyInv, OneLivePerFamily, FamiliesAreChains, Known
<1>. QED BY <1>1, <1>2, <1>3, <1>4, <1>5, Writers
-----------------------------------------------------------------------------
(* The theorems.                                                           *)

LEMMA SessionInit == Init => TypeOK /\ SessionInv
<1> SUFFICES ASSUME Init PROVE TypeOK /\ SessionInv
  OBVIOUS
<1>1. LockInv
  BY DEF Init, LockInv, CallInv, Refreshing, NoOp
<1>2. RoomInv
  <2>1. Underway({"login", "refresh"}) = Cardinality({})
    <3>1. {q \in Requests : op[q].kind \in {"login", "refresh"}} = {}
      BY DEF Init, NoOp
    <3>. QED BY <3>1 DEF Underway
  <2>. QED BY <2>1, FS_EmptySet, BoundsAssumption DEF Init, RoomInv
<1>3. TableInv
  <2>1. Known = {}
    BY DEF Init, Known
  <2>. QED BY <2>1 DEF TableInv, FamilyInv, OneLivePerFamily, FamiliesAreChains
<1>. QED BY <1>1, <1>2, <1>3, TypeInit DEF SessionInv

LEMMA SessionNext == TypeOK /\ SessionInv /\ [Next]_vars => (TypeOK /\ SessionInv)'
BY TypeNext, LockNext, RoomNext, TableNext DEF SessionInv

\* TypeOK is not inductive without SessionInv: that a rotated row is in the
\* table, and that an insert has room, are known from where the call stands.
LEMMA SessionsInvariant == Spec => [](TypeOK /\ SessionInv)
BY SessionInit, SessionNext, PTL DEF Spec

\* Every variable keeps its type and every lock its holder, whatever the
\* number of requests, sessions and versions.
THEOREM SessionsTypeCorrect == Spec => []TypeOK
BY SessionsInvariant, PTL

\* No family of refresh tokens ever has two live sessions.
THEOREM FamilyHasOneLiveSession == Spec => []OneLivePerFamily
<1>1. SessionInv => OneLivePerFamily
  BY DEF SessionInv, TableInv
<1>. QED BY <1>1, SessionsInvariant, PTL

\* Each refresh token is exchanged at most once, within its family.
THEOREM RotationFormsChains == Spec => []FamiliesAreChains
<1>1. SessionInv => FamiliesAreChains
  BY DEF SessionInv, TableInv
<1>. QED BY <1>1, SessionsInvariant, PTL

\* No call rewrites the revocation of a session that another one revoked.
THEOREM RevocationIsWrittenOnce == Spec => RevokedOnce
<1>1. ASSUME TypeOK, SessionInv, [Next]_vars, NEW s \in Known, sessions[s].state # Live
      PROVE  sessions'[s] = sessions[s]
  <2>1. CASE \E q \in Requests : Len(sessions) < MaxSessions /\ LoginInsert(q)
    BY <1>1, <2>1, LoginRows
  <2>2. ASSUME NEW q \in Requests, Len(sessions) < MaxSessions, Rotate(q)
        PROVE  sessions'[s] = sessions[s]
    BY <1>1, <2>2, RotateRows, RotatedRow
  <2>3. ASSUME NEW q \in Requests, Logout(q)
        PROVE  sessions'[s] = sessions[s]
    BY <1>1, <2>3, LogoutRows
  <2>4. ASSUME NEW q \in Requests, LogoutAll(q)
        PROVE  sessions'[s] = sessions[s]
    BY <1>1, <2>4, LogoutAllRows
  <2>5. CASE UNCHANGED <<version, sessions>>
    BY <2>5
  <2>. QED BY <1>1, <2>1, <2>2, <2>3, <2>4, <2>5, Writers
<1>2. TypeOK /\ SessionInv /\ [Next]_vars =>
        [\A s \in Known : sessions[s].state # Live => sessions'[s] = sessions[s]]_vars
  BY <1>1
<1>. QED BY <1>2, SessionsInvariant, PTL DEF Spec, RevokedOnce

\* What RefreshIsCurrent says of a new row t.
Inherits(t) == /\ sessions'[t].version = version'
               /\ \E s \in Known : /\ sessions[s].state = Live /\ sessions'[s].next = t
                                  /\ sessions[s].version = version

\* A refresh issues sessions only out of live ones of the current version, so a
\* logout-all ends a session for good.
THEOREM RefreshedSessionsAreCurrent == Spec => RefreshIsCurrent
<1>1. ASSUME TypeOK, SessionInv, [Next]_vars, NEW t \in DOMAIN sessions' \ Known,
             sessions'[t].family # t
      PROVE  Inherits(t)
  <2>0. Known = 1 .. Len(sessions) /\ Len(sessions) \in Nat
    BY <1>1, Rows
  <2>1. ASSUME NEW q \in Requests, Len(sessions) < MaxSessions, LoginInsert(q)
        PROVE  FALSE
    <3>1. /\ sessions' \in Seq(Session) /\ Len(sessions') = Len(sessions) + 1
          /\ sessions'[Len(sessions) + 1] =
               [family |-> Len(sessions) + 1, state |-> Live, version |-> op[q].ver, next |-> 0]
      BY <1>1, <2>1, LoginRows
    <3>2. t = Len(sessions) + 1
      BY <1>1, <2>0, <3>1
    <3>. QED BY <1>1, <3>1, <3>2
  <2>2. ASSUME NEW q \in Requests, Len(sessions) < MaxSessions, Rotate(q)
        PROVE  Inherits(t)
    <3>1. /\ sessions' \in Seq(Session) /\ Len(sessions') = Len(sessions) + 1
          /\ sessions'[Len(sessions) + 1] =
               [family |-> sessions[op[q].token].family, state |-> Live,
                version |-> op[q].ver, next |-> 0]
      BY <1>1, <2>2, RotateRows
    <3>2. t = Len(sessions) + 1
      BY <1>1, <2>0, <3>1
    <3>3. op[q].ver = version /\ version' = version
      BY <1>1, <2>2, RotatedRow DEF Rotate
    <3>4. /\ op[q].token \in Known /\ sessions[op[q].token].state = Live
          /\ sessions[op[q].token].version = version
      BY <1>1, <2>2, RotatedRow
    <3>5. sessions'[op[q].token].next = Len(sessions) + 1
      <4>1. sessions'[op[q].token] =
              [family |-> sessions[op[q].token].family,
               version |-> sessions[op[q].token].version,
               state |-> "rotated", next |-> Len(sessions) + 1]
        BY <1>1, <2>2, RotateRows
      <4>. QED BY <4>1
    <3>. QED BY <3>1, <3>2, <3>3, <3>4, <3>5 DEF Inherits
  <2>3. ASSUME NEW q \in Requests, Logout(q) \/ LogoutAll(q)
        PROVE  FALSE
    <3>1. sessions' \in Seq(Session) /\ Len(sessions') = Len(sessions)
      BY <1>1, <2>3, LogoutRows, LogoutAllRows
    <3>. QED BY <1>1, <2>0, <3>1
  <2>4. CASE UNCHANGED <<version, sessions>>
    BY <1>1, <2>4 DEF Known
  <2>. QED BY <1>1, <2>1, <2>2, <2>3, <2>4, Writers
<1>2. TypeOK /\ SessionInv /\ [Next]_vars =>
        [\A t \in DOMAIN sessions' \ Known : sessions'[t].family # t =>
           /\ sessions'[t].version = version'
           /\ \E s \in Known : /\ sessions[s].state = Live /\ sessions'[s].next = t
                              /\ sessions[s].version = version]_vars
  BY <1>1 DEF Inherits
<1>. QED BY <1>2, SessionsInvariant, PTL DEF Spec, RefreshIsCurrent

\* When a logout-all commits, no session of the user is live, however many
\* logins and refreshes run beside it.
THEOREM LogoutAllLeavesNoneLive == Spec => LogoutAllRevokesAll
<1>1. ASSUME TypeOK, SessionInv, [Next]_vars, version' # version, NEW s \in DOMAIN sessions'
      PROVE  sessions'[s].state # Live
  <2>1. ASSUME NEW q \in Requests, LogoutAll(q)
        PROVE  sessions'[s].state # Live
    <3>1. sessions' \in Seq(Session) /\ Len(sessions') = Len(sessions)
      BY <1>1, <2>1, LogoutAllRows
    <3>2. s \in Known /\ sessions[s] \in Session
      BY <1>1, <3>1, Rows
    <3>3. sessions'[s] = IF sessions[s].state # Live THEN sessions[s]
                         ELSE [sessions[s] EXCEPT !.state = "all"]
      BY <1>1, <2>1, <3>2, LogoutAllRows
    <3>. QED BY <3>2, <3>3 DEF Session, Live
  <2>2. \A q \in Requests : LoginInsert(q) \/ Rotate(q) \/ Logout(q) => version' = version
    BY DEF LoginInsert, Rotate, Logout
  <2>. QED BY <1>1, <2>1, <2>2, Writers
<1>2. TypeOK /\ SessionInv /\ [Next]_vars =>
        [version' # version => \A s \in DOMAIN sessions' : sessions'[s].state # Live]_vars
  BY <1>1
<1>. QED BY <1>2, SessionsInvariant, PTL DEF Spec, LogoutAllRevokesAll
-----------------------------------------------------------------------------
(* No deadlock.                                                            *)

\* A call that revokes several sessions holds the user row.
LEMMA RevokerHoldsUser ==
  ASSUME LockInv, NEW q \in Requests, Revoking(q)
  PROVE  userLock = q
BY DEF LockInv, CallInv, Revoking, Deciding, Refreshing

\* What a call may wait for, by where it stands: the later it is, the fewer
\* calls can be in its way.
LEMMA WaitsForLater ==
  ASSUME TypeOK, LockInv, NEW q \in Requests, NEW p \in Requests, WaitsFor(q, p)
  PROVE  \/ pc[q] \in {"lockUser", "insert"} /\ pc[p] \in {"lockRow", "decide"}
         \/ pc[q] = "lockRow" /\ pc[p] = "decide"
         \/ Revoking(q) /\ pc[p] = "decide" /\ ~Revoking(p)
<1> USE NoneAssumption
<1>1. CASE pc[q] \in {"lockUser", "insert"} /\ userLock = p
  BY <1>1 DEF TypeOK
<1>2. CASE pc[q] = "lockRow" /\ rowLock[op[q].token] = p
  <2>1. op[q].token \in Known
    BY <1>2 DEF LockInv, CallInv
  <2>2. op[q].token \in Ids
    BY <2>1, Rows, BoundsAssumption DEF TypeOK, Ids
  <2>. QED BY <1>2, <2>2 DEF TypeOK
<1>3. CASE Revoking(q) /\ \E s \in Targets(q) : rowLock[s] = p
  <2>1. PICK s \in Known : rowLock[s] = p
    BY <1>3 DEF Targets
  <2>2. s \in Ids
    BY <2>1, Rows, BoundsAssumption DEF TypeOK, Ids
  <2>3. pc[p] = "decide"
    BY <2>1, <2>2 DEF TypeOK
  <2>4. ~Revoking(p)
    BY <1>3, RevokerHoldsUser DEF WaitsFor
  <2>. QED BY <1>3, <2>3, <2>4
<1>. QED BY <1>1, <1>2, <1>3 DEF WaitsFor

\* Whatever the number of calls, no set of them waits in a circle: among those
\* that stand furthest one waits for none of the others.
THEOREM NoCircleOfWaiters == Spec => []NoDeadlock
<1>1. TypeOK /\ SessionInv => NoDeadlock
  <2> SUFFICES ASSUME TypeOK, SessionInv, NEW C \in SUBSET Requests, C # {}
               PROVE  \E q \in C : \A p \in C : ~WaitsFor(q, p)
    BY DEF NoDeadlock
  <2>0. LockInv
    BY DEF SessionInv
  <2>1. CASE \E q \in C : pc[q] = "decide" /\ ~Revoking(q)
    BY <2>0, <2>1, WaitsForLater
  <2>2. CASE (\E q \in C : Revoking(q)) /\ ~\E q \in C : pc[q] = "decide" /\ ~Revoking(q)
    <3>1. \A q \in C : Revoking(q) => pc[q] = "decide"
      BY DEF Revoking, Deciding
    <3>. QED BY <2>0, <2>2, <3>1, WaitsForLater
  <2>3. CASE (\E q \in C : pc[q] = "lockRow") /\ ~\E q \in C : pc[q] = "decide"
    <3>1. \A q \in C : ~Revoking(q)
      BY <2>3 DEF Revoking, Deciding
    <3>. QED BY <2>0, <2>3, <3>1, WaitsForLater
  <2>4. CASE ~\E q \in C : pc[q] \in {"lockRow", "decide"}
    <3>1. \A q \in C : ~Revoking(q)
      BY <2>4 DEF Revoking, Deciding
    <3>. QED BY <2>0, <2>4, <3>1, WaitsForLater
  <2>. QED BY <2>1, <2>2, <2>3, <2>4
<1>. QED BY <1>1, SessionsInvariant, PTL

-----------------------------------------------------------------------------
(* Sessions implements RefreshTokens.                                      *)

\* A step keeps the version a login has read within those there have been.
LEMMA LoginNext ==
  ASSUME TypeOK, TypeOK', SessionInv, LoginInv, [Next]_vars
  PROVE  LoginInv'
<1> SUFFICES ASSUME NEW r \in Requests, pc'[r] = "insert" PROVE op'[r].ver <= version'
  BY DEF LoginInv
<1>1. version <= version' /\ version \in Nat /\ version' \in Nat
  <2>1. version' \in {version, version + 1}
    BY Writers DEF LoginInsert, Rotate, Logout, LogoutAll
  <2>. QED BY <2>1 DEF TypeOK
<1>2. CASE pc[r] = "insert" /\ op'[r] = op[r]
  <2>1. op[r].ver <= version /\ op[r].ver \in Nat
    BY <1>2 DEF LoginInv, TypeOK, Op
  <2>. QED BY <1>1, <1>2, <2>1
<1>3. CASE LoginRead(r)
  <2>1. op'[r].ver = version
    BY <1>3 DEF LoginRead, Begin, TypeOK, NoOp
  <2>. QED BY <1>1, <2>1
<1>4. CASE ~LoginRead(r)
  <2>1. ASSUME NEW q \in Requests, NEW s, q # r \/ ~LoginRead(q),
               \/ LoginRead(q) \/ RefreshBegin(q, s) \/ LogoutBegin(q, s) \/ LogoutAllBegin(q, s)
        PROVE  pc[r] = "insert" /\ op'[r] = op[r]
    BY <2>1 DEF LoginRead, RefreshBegin, LogoutBegin, LogoutAllBegin, Begin, TypeOK
  <2>2. ASSUME NEW q \in Requests, LockUser(q) \/ LockRow(q) \/ LockLive(q)
        PROVE  pc[r] = "insert" /\ op'[r] = op[r]
    BY <2>2 DEF LockUser, LockRow, LockLive, TypeOK
  <2>3. ASSUME NEW q \in Requests, Return(q)
        PROVE  pc[r] = "insert" /\ op'[r] = op[r]
    BY <2>3 DEF Return, TypeOK
  <2>4. ASSUME UNCHANGED vars
        PROVE  pc[r] = "insert" /\ op'[r] = op[r]
    BY <2>4 DEF vars
  <2>. QED BY <1>2, <1>4, <2>1, <2>2, <2>3, <2>4
           DEF Next, Progress, Abort, Rollback, LoginInsert, RefreshReused, RefreshStale,
               Rotate, Logout, LogoutAll
<1>. QED BY <1>3, <1>4

LEMMA LoginAlways == Spec => []LoginInv
<1>1. Init => LoginInv
  BY DEF Init, LoginInv
<1>2. TypeOK /\ TypeOK' /\ SessionInv /\ LoginInv /\ [Next]_vars => LoginInv'
  BY LoginNext
<1>. QED BY <1>1, <1>2, SessionsInvariant, PTL DEF Spec

\* The usable token of a session.
TokenOf(s) == [id |-> s, family |-> sessions[s].family, version |-> sessions[s].version]

LEMMA UsableTokens ==
  /\ \A s \in Known : sessions[s].state = Live => TokenOf(s) \in Usable
  /\ \A t \in Usable : \E s \in Known : sessions[s].state = Live /\ t = TokenOf(s)
BY DEF Usable, TokenOf

\* The same after a step.
LEMMA UsableNext ==
  /\ \A s \in Known' : sessions'[s].state = Live => TokenOf(s)' \in Usable'
  /\ \A t \in Usable' : \E s \in Known' : sessions'[s].state = Live /\ t = TokenOf(s)'
BY DEF Usable, TokenOf

\* A new row adds its token, and k loses the one it had when it is rotated.
LEMMA InsertTokens ==
  ASSUME TypeOK, NEW n, n = Len(sessions) + 1, Known' = Known \cup {n},
         NEW k \in 0 .. Len(sessions),
         \A s \in Known \ {k} : sessions'[s] = sessions[s],
         k \in Known => sessions'[k].state # Live,
         sessions'[n].state = Live
  PROVE  Usable' = {t \in Usable : t.id # k} \cup {TokenOf(n)'}
<1>0. Known = 1 .. Len(sessions) /\ Len(sessions) \in Nat /\ n \notin Known /\ n # k
  BY Rows
<1>1. ASSUME NEW t \in Usable'
      PROVE  t \in {u \in Usable : u.id # k} \cup {TokenOf(n)'}
  <2>1. PICK s \in Known' : sessions'[s].state = Live /\ t = TokenOf(s)'
    BY <1>1, UsableNext
  <2>2. CASE s = n
    BY <2>1, <2>2
  <2>3. CASE s # n
    <3>1. s \in Known /\ s # k
      BY <2>1, <2>3
    <3>2. sessions'[s] = sessions[s] /\ TokenOf(s)' = TokenOf(s) /\ TokenOf(s).id = s
      BY <3>1 DEF TokenOf
    <3>. QED BY <2>1, <3>1, <3>2, UsableTokens
  <2>. QED BY <2>2, <2>3
<1>2. TokenOf(n)' \in Usable'
  BY UsableNext
<1>3. ASSUME NEW t \in Usable, t.id # k
      PROVE  t \in Usable'
  <2>1. PICK s \in Known : sessions[s].state = Live /\ t = TokenOf(s)
    BY <1>3, UsableTokens
  <2>2. s # k
    BY <1>3, <2>1 DEF TokenOf
  <2>3. sessions'[s] = sessions[s] /\ TokenOf(s)' = TokenOf(s) /\ s \in Known'
    BY <2>1, <2>2 DEF TokenOf
  <2>. QED BY <2>1, <2>3, UsableNext
<1>. QED BY <1>1, <1>2, <1>3

\* Revoking the rows in R takes their tokens away.
LEMMA RevokeTokens ==
  ASSUME TypeOK, Known' = Known, NEW R \in SUBSET Known,
         \A s \in Known \ R : sessions'[s] = sessions[s],
         \A s \in R : sessions'[s].state # Live
  PROVE  Usable' = {t \in Usable : t.id \notin R}
<1>1. ASSUME NEW t \in Usable'
      PROVE  t \in {u \in Usable : u.id \notin R}
  <2>1. PICK s \in Known' : sessions'[s].state = Live /\ t = TokenOf(s)'
    BY <1>1, UsableNext
  <2>2. s \in Known /\ s \notin R
    BY <2>1
  <2>3. sessions'[s] = sessions[s] /\ TokenOf(s)' = TokenOf(s) /\ TokenOf(s).id = s
    BY <2>2 DEF TokenOf
  <2>. QED BY <2>1, <2>2, <2>3, UsableTokens
<1>2. ASSUME NEW t \in Usable, t.id \notin R
      PROVE  t \in Usable'
  <2>1. PICK s \in Known : sessions[s].state = Live /\ t = TokenOf(s)
    BY <1>2, UsableTokens
  <2>2. s \notin R
    BY <1>2, <2>1 DEF TokenOf
  <2>3. sessions'[s] = sessions[s] /\ TokenOf(s)' = TokenOf(s) /\ s \in Known'
    BY <2>1, <2>2 DEF TokenOf
  <2>. QED BY <2>1, <2>3, UsableNext
<1>. QED BY <1>1, <1>2

\* A live row has one token.
LEMMA TokenIsOne ==
  ASSUME NEW k \in Known, sessions[k].state = Live
  PROVE  /\ TokenOf(k) \in Usable
         /\ {t \in Usable : t.id # k} = Usable \ {TokenOf(k)}
<1>1. \A t \in Usable : t.id = k <=> t = TokenOf(k)
  BY UsableTokens DEF TokenOf
<1>. QED BY <1>1, UsableTokens

LEMMA LoginMaps ==
  ASSUME TypeOK, SessionInv, LoginInv, NEW q \in Requests, LoginInsert(q),
         Len(sessions) < MaxSessions
  PROVE  Tokens!Login
<1>n. PICK n : n = Len(sessions) + 1
  OBVIOUS
<1>0. Known = 1 .. Len(sessions) /\ Len(sessions) \in Nat /\ n = Len(sessions) + 1
  BY <1>n, Rows
<1>1. /\ sessions' \in Seq(Session) /\ Len(sessions') = n
      /\ \A s \in Known : sessions'[s] = sessions[s]
      /\ sessions'[n] = [family |-> n, state |-> Live, version |-> op[q].ver, next |-> 0]
  BY <1>0, LoginRows
<1>2. Known' = Known \cup {n}
  BY <1>0, <1>1, RowsNext
<1>3. Usable' = {t \in Usable : t.id # 0} \cup {TokenOf(n)'}
  <2>1. sessions'[n].state = Live
    BY <1>1
  <2>. QED BY <1>0, <1>1, <1>2, <2>1, InsertTokens
<1>4. {t \in Usable : t.id # 0} = Usable
  BY <1>0, UsableTokens DEF TokenOf
<1>5. TokenOf(n)' = [id |-> n, family |-> n, version |-> op[q].ver]
  BY <1>1 DEF TokenOf
<1>6. op[q].ver \in 0 .. version
  BY DEF LoginInsert, LoginInv, TypeOK, Op
<1>7. version' = version
  BY DEF LoginInsert
<1>8. Usable' = Usable \cup {[id |-> n, family |-> n, version |-> op[q].ver]}
  BY <1>3, <1>4, <1>5
<1>. QED BY <1>0, <1>1, <1>6, <1>7, <1>8 DEF Tokens!Login, Tokens!Token

LEMMA RotateMaps ==
  ASSUME TypeOK, SessionInv, NEW q \in Requests, Rotate(q), Len(sessions) < MaxSessions
  PROVE  Tokens!Refresh
<1>n. PICK n : n = Len(sessions) + 1
  OBVIOUS
<1>0. Known = 1 .. Len(sessions) /\ Len(sessions) \in Nat /\ n = Len(sessions) + 1
  BY <1>n, Rows
<1>1. PICK k \in Known : /\ k = op[q].token /\ sessions[k].state = Live
                         /\ op[q].ver = version /\ sessions[k].version = version
  BY RotatedRow
<1>2. /\ sessions' \in Seq(Session) /\ Len(sessions') = n
      /\ \A s \in Known \ {k} : sessions'[s] = sessions[s]
      /\ sessions'[k] = [family |-> sessions[k].family, version |-> sessions[k].version,
                         state |-> "rotated", next |-> n]
      /\ sessions'[n] = [family |-> sessions[k].family, state |-> Live,
                         version |-> version, next |-> 0]
  BY <1>0, <1>1, RotateRows
<1>3. Known' = Known \cup {n}
  BY <1>0, <1>2, RowsNext
<1>4. Usable' = {t \in Usable : t.id # k} \cup {TokenOf(n)'}
  <2>1. sessions'[n].state = Live /\ sessions'[k].state # Live /\ k \in 0 .. Len(sessions)
    BY <1>0, <1>2 DEF Live
  <2>. QED BY <1>0, <1>2, <1>3, <2>1, InsertTokens
<1>5. TokenOf(n)' = [id |-> n, family |-> TokenOf(k).family, version |-> version]
  BY <1>2 DEF TokenOf
<1>6. /\ TokenOf(k) \in Usable /\ TokenOf(k).version = version
      /\ Usable' = (Usable \ {TokenOf(k)})
                     \cup {[id |-> n, family |-> TokenOf(k).family, version |-> version]}
  <2>1. TokenOf(k).version = version
    BY <1>1 DEF TokenOf
  <2>. QED BY <1>1, <1>4, <1>5, <2>1, TokenIsOne
<1>7. version' = version
  BY DEF Rotate
<1>. QED BY <1>0, <1>2, <1>6, <1>7 DEF Tokens!Refresh, Tokens!Token

LEMMA LogoutMaps ==
  ASSUME TypeOK, SessionInv, NEW q \in Requests, Logout(q)
  PROVE  Tokens!Logout \/ UNCHANGED Tokens!vars
<1>0. Known = 1 .. Len(sessions)
  BY Rows
<1>1. PICK k \in Known : /\ k = op[q].token /\ op[q].seen = sessions[k].state
  BY LogoutRows
<1>2. /\ sessions' \in Seq(Session) /\ Len(sessions') = Len(sessions)
      /\ \A s \in Known \ {k} : sessions'[s] = sessions[s]
      /\ sessions'[k] = IF sessions[k].state # Live THEN sessions[k]
                        ELSE [sessions[k] EXCEPT !.state = "logout"]
  BY <1>1, LogoutRows
<1>3. Known' = Known
  BY <1>0, <1>2, RowsNext
<1>4. version' = version
  BY DEF Logout
<1>5. CASE sessions[k].state # Live
  <2>1. sessions' = sessions
    BY <1>1, <1>5 DEF Logout
  <2>. QED BY <1>4, <2>1 DEF Tokens!vars, Usable, Known
<1>6. CASE sessions[k].state = Live
  <2>1. sessions'[k].state # Live
    <3>1. sessions[k] \in Session
      BY Rows
    <3>. QED BY <1>2, <1>6, <3>1 DEF Session, Live
  <2>2. Usable' = {t \in Usable : t.id \notin {k}}
    BY <1>2, <1>3, <2>1, RevokeTokens
  <2>3. Usable' = Usable \ {TokenOf(k)} /\ TokenOf(k) \in Usable
    BY <1>6, <2>2, TokenIsOne
  <2>. QED BY <1>2, <1>4, <2>3 DEF Tokens!Logout
<1>. QED BY <1>5, <1>6

LEMMA LogoutAllMaps ==
  ASSUME TypeOK, SessionInv, NEW q \in Requests, LogoutAll(q)
  PROVE  Tokens!LogoutAll
<1>1. sessions' \in Seq(Session) /\ Len(sessions') = Len(sessions)
  BY LogoutAllRows
<1>2. Known' = Known
  BY <1>1, Rows, RowsNext
<1>3. ASSUME NEW s \in Known
      PROVE  sessions'[s].state # Live
  <2>1. sessions[s] \in Session
    BY Rows
  <2>2. sessions'[s] = IF sessions[s].state # Live THEN sessions[s]
                       ELSE [sessions[s] EXCEPT !.state = "all"]
    BY LogoutAllRows
  <2>. QED BY <2>1, <2>2 DEF Session, Live
<1>4. Usable' = {}
  BY <1>2, <1>3, UsableNext
<1>. QED BY <1>1, <1>4 DEF LogoutAll, Tokens!LogoutAll

\* However the statements of concurrent calls interleave at the row locks, and
\* wherever they fail, the tokens change as if the calls ran one at a time.
THEOREM SessionsImplementTokens == Spec => ImplementsTokens
<1>1. Init => Tokens!Init
  BY DEF Init, Tokens!Init, Usable, Known
<1>2. ASSUME TypeOK, SessionInv, LoginInv, [Next]_vars
      PROVE  [Tokens!Next]_(Tokens!vars)
  <2>1. CASE UNCHANGED <<version, sessions>>
    BY <2>1 DEF Tokens!vars, Usable, Known
  <2>. QED BY <1>2, <2>1, Writers, LoginMaps, RotateMaps, LogoutMaps, LogoutAllMaps
           DEF Tokens!Next
<1>3. TypeOK /\ SessionInv /\ LoginInv /\ [Next]_vars => [Tokens!Next]_(Tokens!vars)
  BY <1>2
<1>. QED BY <1>1, <1>3, SessionsInvariant, LoginAlways, PTL
         DEF Spec, ImplementsTokens, Tokens!Spec
=============================================================================
