------------------------------ MODULE Sessions ------------------------------
(***************************************************************************)
(* Refresh sessions of one user: Login, RefreshToken, LogoutCurrentDevice  *)
(* and LogoutAllDevices (auth_service.go) run by concurrent HTTP requests  *)
(* on the PostgreSQL tables users and refresh_sessions (auth_repository.go)*)
(* Users share no row, so one user stands for all.                         *)
(*                                                                         *)
(* A transaction locks rows with SELECT ... FOR UPDATE and decides on what *)
(* it has read; its writes become visible at commit, together, or never.   *)
(* Login's single INSERT takes a FOR KEY SHARE lock on the user row, through*)
(* its foreign key: it waits for a FOR UPDATE holder and excludes nobody   *)
(* afterwards.                                                             *)
(***************************************************************************)
EXTENDS Integers, Sequences, FiniteSets

CONSTANTS Requests,     \* request goroutines of the API server
          MaxSessions,  \* bound: rows of refresh_sessions
          MaxVersion,   \* bound: the user's token_version
          None          \* no request

ASSUME RequestsAssumption == IsFiniteSet(Requests)
ASSUME BoundsAssumption == MaxSessions \in Nat /\ MaxVersion \in Nat
ASSUME NoneAssumption == None \notin Requests

VARIABLES
  version,   \* users.token_version
  sessions,  \* rows of refresh_sessions by id, in insertion order
  access,    \* token versions of the access tokens handed out
  userLock,  \* the transaction holding the user row, or None
  rowLock,   \* rowLock[s]: the transaction holding session row s, or None
  pc,        \* pc[q]: where request q stands
  op         \* op[q]: what q is doing and what it has read so far

dbVars == <<version, sessions>>
vars == <<version, sessions, access, userLock, rowLock, pc, op>>

Live == "live"       \* revoked_at IS NULL
Ids == 1 .. MaxSessions

\* family: id of the session of the login; version: token version in the
\* token's claims; state: why the row was revoked; next: replaced_by or 0.
Session == [family : Ids, version : Nat,
            state : {Live, "rotated", "logout", "all"}, next : 0 .. MaxSessions]
\* kind: the call; token: the session of the refresh token presented; ver:
\* the token version read; seen: the session's state read under lock.
Op == [kind : {"none", "login", "refresh", "logout", "logoutAll"},
       token : 0 .. MaxSessions, ver : Nat,
       seen : {Live, "rotated", "logout", "all"}]
NoOp == [kind |-> "none", token |-> 0, ver |-> 0, seen |-> Live]

Init == /\ version = 0
        /\ sessions = <<>>
        /\ access = {}
        /\ userLock = None
        /\ rowLock = [s \in Ids |-> None]
        /\ pc = [q \in Requests |-> "idle"]
        /\ op = [q \in Requests |-> NoOp]

Known == DOMAIN sessions

\* Bounds: every call under way may still insert a row, or raise the version.
Underway(kinds) == Cardinality({q \in Requests : op[q].kind \in kinds})
SessionsLeft == Len(sessions) + Underway({"login", "refresh"}) < MaxSessions
VersionsLeft == version + Underway({"logoutAll"}) < MaxVersion

-----------------------------------------------------------------------------
(* What the calls have in common.                                          *)

Begin(q, kind, s, v, to) ==
  /\ pc[q] = "idle"
  /\ pc' = [pc EXCEPT ![q] = to]
  /\ op' = [op EXCEPT ![q] = [NoOp EXCEPT !.kind = kind, !.token = s, !.ver = v]]
  /\ UNCHANGED <<dbVars, access, userLock, rowLock>>

\* q ends and, if it holds locks, so does its transaction.
Return(q) ==
  /\ pc' = [pc EXCEPT ![q] = "idle"]
  /\ op' = [op EXCEPT ![q] = NoOp]
  /\ userLock' = IF userLock = q THEN None ELSE userLock
  /\ rowLock' = [s \in Ids |-> IF rowLock[s] = q THEN None ELSE rowLock[s]]

\* Faulty variant of Rollback: the transaction is left open.
RollbackForgotten(q) ==
  /\ pc' = [pc EXCEPT ![q] = "idle"]
  /\ op' = [op EXCEPT ![q] = NoOp]
  /\ UNCHANGED <<dbVars, access, userLock, rowLock>>

\* A transaction whose function returns an error is rolled back.
Rollback(q) == Return(q) /\ UNCHANGED <<dbVars, access>>

\* Faulty variant of LockUser: the user and the session are read by plain SELECTs.
ReadUnlocked(q) ==
  /\ pc[q] = "lockUser"
  /\ op' = [op EXCEPT ![q].ver = version,
                      ![q].seen = IF op[q].token = 0 THEN Live ELSE sessions[op[q].token].state]
  /\ pc' = [pc EXCEPT ![q] = "decide"]
  /\ UNCHANGED <<dbVars, access, userLock, rowLock>>

\* FindUserByIDForUpdateWithTx: wait for the user row, lock and read it.
LockUser(q) ==
  /\ pc[q] = "lockUser" /\ userLock = None
  /\ userLock' = q
  /\ op' = [op EXCEPT ![q].ver = version]
  /\ pc' = [pc EXCEPT ![q] = IF op[q].kind = "refresh" THEN "lockRow" ELSE "decide"]
  /\ UNCHANGED <<dbVars, access, rowLock>>

\* Faulty variant of LockRow: a plain SELECT.
ReadRow(q) ==
  /\ pc[q] = "lockRow"
  /\ op' = [op EXCEPT ![q].seen = sessions[op[q].token].state]
  /\ pc' = [pc EXCEPT ![q] = "decide"]
  /\ UNCHANGED <<dbVars, access, userLock, rowLock>>

\* Faulty variant of LockRow: a logout goes on to lock the user row.
LockRowFirst(q) ==
  /\ pc[q] = "lockRow" /\ rowLock[op[q].token] = None
  /\ rowLock' = [rowLock EXCEPT ![op[q].token] = q]
  /\ op' = [op EXCEPT ![q].seen = sessions[op[q].token].state]
  /\ pc' = [pc EXCEPT ![q] = IF op[q].kind = "logout" THEN "lockUser" ELSE "decide"]
  /\ UNCHANGED <<dbVars, access, userLock>>

\* FindRefreshSessionByJTIForUpdateWithTx: wait for the row, lock, read it.
LockRow(q) ==
  /\ pc[q] = "lockRow" /\ rowLock[op[q].token] = None
  /\ rowLock' = [rowLock EXCEPT ![op[q].token] = q]
  /\ op' = [op EXCEPT ![q].seen = sessions[op[q].token].state]
  /\ pc' = [pc EXCEPT ![q] = "decide"]
  /\ UNCHANGED <<dbVars, access, userLock>>

\* The transaction or login's INSERT fails: a lost connection, a timeout, a
\* cancelled request or the end of the process.  PostgreSQL rolls it back.
Abort(q) == pc[q] # "idle" /\ Rollback(q)

Deciding(q, kind) == pc[q] = "decide" /\ op[q].kind = kind

-----------------------------------------------------------------------------
(* Login.                                                                  *)

\* FindUserByEmail and the password check: an unlocked read of the version.
LoginRead(q) == SessionsLeft /\ Begin(q, "login", 0, version, "insert")

\* CreateRefreshSession: one INSERT of a new family, for the version read.
LoginInsert(q) ==
  /\ pc[q] = "insert" /\ userLock = None
  /\ sessions' = Append(sessions, [family |-> Len(sessions) + 1, state |-> Live,
                                   version |-> op[q].ver, next |-> 0])
  /\ access' = access \cup {op[q].ver}
  /\ UNCHANGED version
  /\ Return(q)

-----------------------------------------------------------------------------
(* RefreshToken.                                                           *)

\* A token whose signature or expiry is refused never gets here.
RefreshBegin(q, s) == SessionsLeft /\ Begin(q, "refresh", s, 0, "lockUser")

\* Faulty variant of Reused: revoked_at is not looked at.
ReusedNever(q) == FALSE

\* session.RevokedAt != nil: the token was used or revoked before.
Reused(q) == op[q].seen # Live

\* user.TokenVersion == claims.TokenVersion
Current(q) == op[q].ver = sessions[op[q].token].version

\* The UPDATE of RevokeAllUserSessionsWithTx in a logout-all, or that of
\* RevokeFamilySessionsWithTx in a refresh with a reused token.
Revoking(q) == \/ Deciding(q, "logoutAll")
               \/ Deciding(q, "refresh") /\ Reused(q) /\ Current(q)

\* The rows that its WHERE clause selects.
Targets(q) == {s \in Known : /\ sessions[s].state = Live
                            /\ op[q].kind = "refresh" =>
                                 sessions[s].family = sessions[op[q].token].family}

\* It locks them one by one, waiting for those that another transaction holds.
LockLive(q) ==
  /\ Revoking(q)
  /\ \E s \in Targets(q) : rowLock[s] = None /\ rowLock' = [rowLock EXCEPT ![s] = q]
  /\ UNCHANGED <<dbVars, access, userLock, pc, op>>

AllLocked(q) == \A s \in Targets(q) : rowLock[s] = q

\* The revocation of the family and the new token version are written, then
\* the error that reports the reuse makes the transaction roll them back.
RefreshReused(q) == /\ Deciding(q, "refresh") /\ Reused(q)
                    /\ Current(q) => AllLocked(q)
                    /\ Rollback(q)

\* An old token version, or a session that has expired since the token was
\* checked: the clock is left open, so any session may have.
RefreshStale(q) == /\ Deciding(q, "refresh") /\ ~Reused(q)
                   /\ Rollback(q)

Successor(q) == [family |-> sessions[op[q].token].family, state |-> Live,
                 version |-> op[q].ver, next |-> 0]

\* Faulty variant of Rotate: the old session is not revoked.
RotateOnly(q) ==
  /\ Deciding(q, "refresh") /\ ~Reused(q) /\ Current(q)
  /\ sessions' = Append(sessions, Successor(q))
  /\ access' = access \cup {op[q].ver}
  /\ UNCHANGED version
  /\ Return(q)

\* CreateRefreshSessionWithTx and RevokeRefreshSessionByIDWithTx, committed.
Rotate(q) ==
  /\ Deciding(q, "refresh") /\ ~Reused(q) /\ Current(q)
  /\ sessions' = Append([sessions EXCEPT
                           ![op[q].token].state = "rotated",
                           ![op[q].token].next = Len(sessions) + 1],
                        Successor(q))
  /\ access' = access \cup {op[q].ver}
  /\ UNCHANGED version
  /\ Return(q)

-----------------------------------------------------------------------------
(* LogoutCurrentDevice and LogoutAllDevices.                               *)

\* An expired refresh token can still be logged out.
LogoutBegin(q, s) == Begin(q, "logout", s, 0, "lockRow")

\* RevokeRefreshSessionByIDWithTx, unless the row was revoked already.
Logout(q) ==
  /\ Deciding(q, "logout")
  /\ sessions' = IF op[q].seen # Live THEN sessions
                 ELSE [sessions EXCEPT ![op[q].token].state = "logout"]
  /\ UNCHANGED <<version, access>>
  /\ Return(q)

\* AuthRequired lets an access token of the current version pass.
LogoutAllBegin(q, v) ==
  v = version /\ VersionsLeft /\ Begin(q, "logoutAll", 0, 0, "lockUser")

RevokeWhere(ids) == [s \in Known |-> IF s \in ids /\ sessions[s].state = Live
                                     THEN [sessions[s] EXCEPT !.state = "all"]
                                     ELSE sessions[s]]

\* Faulty variant of LogoutAll: rows that others hold are skipped.
LogoutAllFree(q) ==
  /\ Deciding(q, "logoutAll")
  /\ sessions' = RevokeWhere({s \in Known : rowLock[s] \in {None, q}})
  /\ version' = version + 1
  /\ UNCHANGED access
  /\ Return(q)

\* The rows locked are revoked, IncrementUserTokenVersionWithTx, and commit.
LogoutAll(q) ==
  /\ Deciding(q, "logoutAll") /\ AllLocked(q)
  /\ sessions' = RevokeWhere(Known)
  /\ version' = version + 1
  /\ UNCHANGED access
  /\ Return(q)

-----------------------------------------------------------------------------
Progress(q) == \/ LockUser(q) \/ LockRow(q) \/ LoginInsert(q)
               \/ RefreshReused(q) \/ RefreshStale(q) \/ Rotate(q)
               \/ Logout(q) \/ LockLive(q) \/ LogoutAll(q)

Next == \E q \in Requests :
          \/ LoginRead(q) \/ Progress(q) \/ Abort(q)
          \/ \E s \in Known : RefreshBegin(q, s) \/ LogoutBegin(q, s)
          \/ \E v \in access : LogoutAllBegin(q, v)

Spec == Init /\ [][Next]_vars

\* A lock that is released again and again is granted: PostgreSQL queues the
\* waiters of a row.  Nothing makes a client call.
FairSpec == Spec /\ \A q \in Requests : SF_vars(Progress(q))

-----------------------------------------------------------------------------
(* Properties.                                                             *)

\* Every variable has its type, and a lock is held by a request that is past
\* the statement that takes it.
TypeOK ==
  /\ version \in Nat
  /\ sessions \in Seq(Session) /\ Len(sessions) <= MaxSessions
  /\ access \in SUBSET Nat
  /\ userLock \in Requests \cup {None}
  /\ rowLock \in [Ids -> Requests \cup {None}]
  /\ pc \in [Requests -> {"idle", "insert", "lockUser", "lockRow", "decide"}]
  /\ op \in [Requests -> Op]
  /\ userLock # None => pc[userLock] \in {"lockRow", "decide"}
  /\ \A s \in Ids : rowLock[s] # None => pc[rowLock[s]] = "decide"

\* A family never has two live sessions, so a stolen refresh token and its
\* owner's cannot both stay usable: RefreshToken inserts the successor and
\* revokes the predecessor in one transaction, and both locks make it alone.
OneLivePerFamily ==
  \A s, t \in Known : /\ sessions[s].family = sessions[t].family
                      /\ sessions[s].state = Live
                      /\ sessions[t].state = Live
                      => s = t

\* The sessions of a family form one chain along replaced_by: each refresh
\* token was exchanged at most once, for a later session of its family.
FamiliesAreChains ==
  /\ \A s \in Known : sessions[s].state = "rotated" =>
       /\ sessions[s].next \in Known
       /\ sessions[s].next > s
       /\ sessions[sessions[s].next].family = sessions[s].family
  /\ \A t \in Known : sessions[t].family # t =>
       \E s \in Known : \A u \in Known : sessions[u].next = t <=> u = s

\* revoked_at and replaced_by are written once.  RevokeRefreshSessionByID has
\* no "revoked_at IS NULL" in its WHERE clause: only the row lock keeps a
\* logout from overwriting a rotation or a logout-all.
RevokedOnce ==
  [][\A s \in Known : sessions[s].state # Live => sessions'[s] = sessions[s]]_vars

\* A refresh issues a session only out of a live one of the user's current
\* token version, and of that version: a logout-all that ran meanwhile is not
\* undone, and the session of a login that read its version before a logout-all
\* and was inserted after it stays dead.  Either lock alone keeps the version
\* current: a logout-all also waits for the session's row.
RefreshIsCurrent ==
  [][\A t \in DOMAIN sessions' \ Known : sessions'[t].family # t =>
       /\ sessions'[t].version = version'
       /\ \E s \in Known : /\ sessions[s].state = Live /\ sessions'[s].next = t
                          /\ sessions[s].version = version]_vars

\* When a logout-all commits, every session of the user is revoked, those of
\* logins and refreshes that ran at the same time included.
LogoutAllRevokesAll ==
  [][version' # version => \A s \in DOMAIN sessions' : sessions'[s].state # Live]_vars

\* q waits for a lock that p holds.
WaitsFor(q, p) ==
  /\ p # q
  /\ \/ pc[q] \in {"lockUser", "insert"} /\ userLock = p
     \/ pc[q] = "lockRow" /\ rowLock[op[q].token] = p
     \/ Revoking(q) /\ \E s \in Targets(q) : rowLock[s] = p

\* No transactions wait for each other in a circle, which PostgreSQL would end
\* by aborting one: in any set of calls one waits for none of the others.  The
\* user row is locked first, and what holds it alone locks several sessions.
NoDeadlock ==
  \A C \in SUBSET Requests : C # {} => \E q \in C : \A p \in C : ~WaitsFor(q, p)

\* The refresh tokens that a caller can still use.
Usable == {[id |-> s, family |-> sessions[s].family, version |-> sessions[s].version] :
             s \in {t \in Known : sessions[t].state = Live}}

Tokens == INSTANCE RefreshTokens WITH issued <- Len(sessions), usable <- Usable

\* Login, refresh, logout and logout-all take effect as if they ran one at a
\* time: what a transaction has read and locked still holds when it commits,
\* and one that fails has no effect.
ImplementsTokens == Tokens!Spec

\* Every call ends: the locks are always taken user first, session second.
CallsEnd == \A q \in Requests : pc[q] # "idle" ~> pc[q] = "idle"
-----------------------------------------------------------------------------
(* The inductive invariant behind the theorems of SessionsProofs.tla.      *)

Refreshing(q) == op[q].kind = "refresh" /\ pc[q] \in {"lockRow", "decide"}

\* Where a call stands tells what it holds and what of its reads still holds.
CallInv(q) ==
  /\ pc[q] = "idle" => op[q].kind = "none"
  /\ pc[q] = "insert" => op[q].kind = "login"
  /\ pc[q] = "lockUser" => op[q].kind \in {"refresh", "logoutAll"}
  /\ pc[q] = "lockRow" => op[q].kind \in {"refresh", "logout"}
  /\ pc[q] = "decide" => op[q].kind \in {"refresh", "logout", "logoutAll"}
  /\ op[q].kind \in {"refresh", "logout"} => op[q].token \in Known
  /\ Refreshing(q) => userLock = q /\ op[q].ver = version
  /\ pc[q] = "decide" /\ op[q].kind = "logoutAll" => userLock = q
  /\ pc[q] = "decide" /\ op[q].kind \in {"refresh", "logout"} =>
       /\ rowLock[op[q].token] = q
       /\ op[q].seen = sessions[op[q].token].state

LockInv == \A q \in Requests : CallInv(q)

\* A login inserts a session of the version it read or of an older one.
LoginInv == \A q \in Requests : pc[q] = "insert" => op[q].ver <= version

\* The bounds leave room for what the calls under way may still do.
RoomInv == Len(sessions) + Underway({"login", "refresh"}) <= MaxSessions

\* A family is named after its first session, and only a rotated session has a
\* successor.
FamilyInv == \A s \in Known : /\ sessions[s].family <= s
                              /\ sessions[s].next \in Known \cup {0}
                              /\ sessions[s].state # "rotated" => sessions[s].next = 0

TableInv == FamilyInv /\ OneLivePerFamily /\ FamiliesAreChains

SessionInv == LockInv /\ RoomInv /\ TableInv
=============================================================================
