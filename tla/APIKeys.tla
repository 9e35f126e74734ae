------------------------------- MODULE APIKeys -------------------------------
(***************************************************************************)
(* API keys: CreateAPIKey, RevokeAPIKey and VerifyAPIKey                   *)
(* (api_key_service.go) run by concurrent HTTP requests on the table       *)
(* api_keys (api_key_repository.go).                                       *)
(*                                                                         *)
(* No call opens a transaction: each is one or two statements, and other   *)
(* calls commit in between.  A call reads the clock between its statements.*)
(***************************************************************************)
EXTENDS Integers, Sequences, FiniteSetsExt, SequencesExt

CONSTANTS Keys,     \* key ids, in fact the raw keys handed out
          Users,
          Requests, \* request goroutines
          RawScopes, \* scopes as they come in requests, padded with white space or not
          MaxTime,  \* bound: the clock
          None      \* no key, no time

Time == 0 .. MaxTime
MaxScopes == 2 \* bound: scopes in a request, with those that are refused

VARIABLES
  clock,  \* wall clock
  keys,   \* keys[k]: the row of api_keys, or None
  ended,  \* history: keys whose RevokeAPIKey has answered success
  pc,     \* pc[q]: where request q stands
  op,     \* op[q]: its arguments and what it has read
  result  \* the answer given in the last step, or "none"

vars == <<clock, keys, ended, pc, op, result>>

MatchesWrite == "matches:write"
CommentaryWrite == "commentary:write"
AllowedScopes == {MatchesWrite, CommentaryWrite}

\* scopes: as granted; expires, used, revoked: None while the column is NULL.
Row == [owner : Users, scopes : Seq(AllowedScopes), expires : Time \cup {None},
        created : Time, used : Time \cup {None}, revoked : Time \cup {None}]

ASSUME MaxTimeAssumption == MaxTime \in Nat
ASSUME NoneAssumption == None \notin Int \cup Row
ASSUME RawScopesAssumption ==
  RawScopes \subseteq [text : AllowedScopes \cup {"admin", ""}, padded : BOOLEAN]

Trim(raw) == raw.text

Op == [kind : {"none", "create", "verify", "revoke"}, key : Keys \cup {None},
       user : Users \cup {None}, scope : AllowedScopes \cup {None},
       at : Time, row : Row \cup {None}]
NoOp == [kind |-> "none", key |-> None, user |-> None, scope |-> None, at |-> 0, row |-> None]

Init == /\ clock = 0
        /\ keys = [k \in Keys |-> None]
        /\ ended = {}
        /\ pc = [q \in Requests |-> "idle"]
        /\ op = [q \in Requests |-> NoOp]
        /\ result = "none"

Tick == /\ clock < MaxTime /\ clock' = clock + 1
        /\ UNCHANGED <<keys, ended, pc, op, result>>

\* What time.Now() may have answered since the last statement of q.
NowOf(q) == op[q].at .. clock

Return(q, r) == /\ pc' = [pc EXCEPT ![q] = "idle"]
                /\ op' = [op EXCEPT ![q] = NoOp]
                /\ result' = r
                /\ UNCHANGED clock

Refuse(q, r) == Return(q, r) /\ UNCHANGED <<keys, ended>>

\* q has read row and goes on to its write.
Goto(q, to, o) == /\ pc' = [pc EXCEPT ![q] = to]
                  /\ op' = [op EXCEPT ![q] = o]
                  /\ result' = "none"
                  /\ UNCHANGED <<clock, keys, ended>>

Active(k) == keys[k] # None /\ keys[k].revoked = None

-----------------------------------------------------------------------------
(* CreateAPIKey.                                                           *)

\* Faulty variant of ScopesAccepted: duplicates are looked for before trimming.
ScopesAcceptedRaw(raw) ==
  /\ raw # <<>>
  /\ \A i \in DOMAIN raw : Trim(raw[i]) \in AllowedScopes
  /\ \A i, j \in DOMAIN raw : raw[i] = raw[j] => i = j

\* The checks of validateScopes.
ScopesAccepted(raw) ==
  /\ raw # <<>>
  /\ \A i \in DOMAIN raw : Trim(raw[i]) \in AllowedScopes
  /\ \A i, j \in DOMAIN raw : Trim(raw[i]) = Trim(raw[j]) => i = j

\* Faulty variant of Normalized: white space is trimmed for the checks only.
NormalizedNot(raw) == [i \in DOMAIN raw |-> IF raw[i].padded THEN "padded" ELSE raw[i].text]

\* What validateScopes returns.
Normalized(raw) == [i \in DOMAIN raw |-> Trim(raw[i])]

\* The request is checked, expiresAt against the clock, and a key generated.
CreateBegin(q, u, raw, exp) ==
  /\ pc[q] = "idle"
  /\ \/ /\ ScopesAccepted(raw) /\ (exp # None => exp > clock)
        /\ Goto(q, "insert",
                [NoOp EXCEPT !.kind = "create", !.user = u, !.at = clock,
                             !.row = [owner |-> u, scopes |-> Normalized(raw),
                                      expires |-> exp, created |-> clock,
                                      used |-> None, revoked |-> None]])
     \/ /\ ~ScopesAccepted(raw) \/ (exp # None /\ exp <= clock)
        /\ Refuse(q, "invalid")

\* repo.Create: created_at is set when the row is written.
InsertRow(q) ==
  /\ pc[q] = "insert"
  /\ \E k \in Keys, now \in NowOf(q) :
       /\ keys[k] = None
       /\ keys' = [keys EXCEPT ![k] = [op[q].row EXCEPT !.created = now]]
  /\ UNCHANGED ended

Insert(q) == InsertRow(q) /\ Return(q, "ok")

-----------------------------------------------------------------------------
(* RevokeAPIKey.                                                           *)

\* WHERE id = ? AND user_id = ?
Mine(q, k) == keys[k] # None /\ keys[k].owner = op[q].user

RevokeBegin(q, u, k) ==
  /\ pc[q] = "idle"
  /\ Goto(q, "findMine", [NoOp EXCEPT !.kind = "revoke", !.key = k, !.user = u])

\* FindByIDAndUserID: not found, revoked before, or to be revoked.
FindMine(q) ==
  LET k == op[q].key IN
  /\ pc[q] = "findMine"
  /\ \/ ~Mine(q, k) /\ Refuse(q, "notFound")
     \/ /\ Mine(q, k) /\ ~Active(k)
        /\ Return(q, "ok")
        /\ ended' = ended \cup {k}
        /\ UNCHANGED keys
     \/ /\ Mine(q, k) /\ Active(k)
        /\ Goto(q, "revoke", [op[q] EXCEPT !.at = clock])

\* Faulty variant of SetRevoked: no revoked_at IS NULL.
SetRevokedAgain(q, k, now) ==
  keys' = IF Mine(q, k) THEN [keys EXCEPT ![k].revoked = now] ELSE keys

\* UPDATE ... WHERE id = ? AND user_id = ? AND revoked_at IS NULL
SetRevoked(q, k, now) ==
  keys' = IF Mine(q, k) /\ Active(k) THEN [keys EXCEPT ![k].revoked = now] ELSE keys

\* RevokeByIDAndUserID; no row updated is no error.
Revoke(q) ==
  /\ pc[q] = "revoke"
  /\ \E now \in NowOf(q) : SetRevoked(q, op[q].key, now)
  /\ ended' = ended \cup {op[q].key}
  /\ Return(q, "ok")

-----------------------------------------------------------------------------
(* VerifyAPIKey, called by RequireJWTOrAPIKey for the scope of the route.  *)

VerifyBegin(q, k, scope) ==
  /\ pc[q] = "idle"
  /\ Goto(q, "findActive", [NoOp EXCEPT !.kind = "verify", !.key = k, !.scope = scope])

\* FindActiveByHash: the key exists and is not revoked.
FindActive(q) ==
  LET k == op[q].key IN
  /\ pc[q] = "findActive"
  /\ \/ ~Active(k) /\ Refuse(q, "unauthorized")
     \/ Active(k) /\ Goto(q, "use", [op[q] EXCEPT !.row = keys[k], !.at = clock])

\* Faulty variant of InLife: expires_at is not looked at.
InLifeAlways(row, now) == TRUE

\* ~now.After(*apiKey.ExpiresAt)
InLife(row, now) == row.expires # None => now <= row.expires

HasScope(row, scope) == \E i \in DOMAIN row.scopes : row.scopes[i] = scope

\* Faulty variant of MarkUsed: no revoked_at IS NULL.
MarkUsedAnyway(q, k, now) ==
  /\ keys' = [keys EXCEPT ![k].used = now]
  /\ Return(q, "accepted")

\* UpdateLastUsedAt, WHERE id = ? AND revoked_at IS NULL: no row updated
\* means that the key was revoked meanwhile.
MarkUsed(q, k, now) ==
  \/ /\ Active(k)
     /\ keys' = [keys EXCEPT ![k].used = now]
     /\ Return(q, "accepted")
  \/ /\ ~Active(k)
     /\ UNCHANGED keys
     /\ Return(q, "unauthorized")

\* The checks on the row read, against one reading of the clock, and the write.
Use(q) ==
  LET o == op[q] IN
  /\ pc[q] = "use"
  /\ \E now \in NowOf(q) :
       \/ ~InLife(o.row, now) /\ UNCHANGED keys /\ Return(q, "unauthorized")
       \/ /\ InLife(o.row, now) /\ ~HasScope(o.row, o.scope)
          /\ UNCHANGED keys /\ Return(q, "forbidden")
       \/ InLife(o.row, now) /\ HasScope(o.row, o.scope) /\ MarkUsed(q, o.key, now)
  /\ UNCHANGED ended

-----------------------------------------------------------------------------
\* A statement fails or times out, or the process ends: nothing is written.
StatementFails(q) == pc[q] # "idle" /\ Refuse(q, "error")

\* The UPDATE or INSERT took effect but its answer is lost.
AnswerLost(q) ==
  \/ InsertRow(q) /\ Return(q, "error")
  \/ /\ pc[q] = "revoke"
     /\ \E now \in NowOf(q) : SetRevoked(q, op[q].key, now)
     /\ UNCHANGED ended /\ Return(q, "error")

Next ==
  \/ Tick
  \/ \E q \in Requests :
       \/ \E u \in Users, raw \in SeqOf(RawScopes, MaxScopes), exp \in Time \cup {None} :
            CreateBegin(q, u, raw, exp)
       \/ \E u \in Users, k \in Keys : RevokeBegin(q, u, k)
       \/ \E k \in Keys, scope \in AllowedScopes : VerifyBegin(q, k, scope)
       \/ Insert(q) \/ FindMine(q) \/ Revoke(q) \/ FindActive(q) \/ Use(q)
       \/ StatementFails(q) \/ AnswerLost(q)

Spec == Init /\ [][Next]_vars

-----------------------------------------------------------------------------
(* Properties.                                                             *)

\* Every variable has its type.
TypeOK ==
  /\ clock \in Time
  /\ keys \in [Keys -> Row \cup {None}]
  /\ ended \in SUBSET Keys
  /\ pc \in [Requests -> {"idle", "insert", "findMine", "revoke", "findActive", "use"}]
  /\ op \in [Requests -> Op]
  /\ result \in {"none", "ok", "accepted", "invalid", "notFound", "unauthorized",
                 "forbidden", "error"}

Sound(scopes) == /\ scopes # <<>> /\ ToSet(scopes) \subseteq AllowedScopes
                 /\ \A i, j \in DOMAIN scopes : scopes[i] = scopes[j] => i = j

\* The scopes of a stored key are usable as a set of grants: at least one,
\* each allowed, none twice, whatever white space the request had.
ScopesAreSound == \A k \in Keys : keys[k] # None => Sound(keys[k].scopes)

\* last_used_at lies in the life of the key: VerifyAPIKey reads the clock after
\* the row, so a key is not accepted past its expiry nor before its creation,
\* however long the request waits between its statements.
UseIsInLife ==
  \A k \in Keys : keys[k] # None /\ keys[k].used # None =>
    /\ keys[k].created <= keys[k].used
    /\ keys[k].expires # None => keys[k].used <= keys[k].expires

\* A revoked row is never written again: a verification that read it while it
\* was active leaves no mark, and a second revocation does not move the time.
RevokedIsFrozen ==
  [][\A k \in Keys : keys[k] # None /\ ~Active(k) => keys'[k] = keys[k]]_vars

\* Once RevokeAPIKey has answered success, no request is accepted with the key,
\* not even one whose verification had already found it active; and an accepted
\* request has the scope of its route.
EndedIsRefused ==
  [][\A q \in Requests : pc[q] = "use" /\ pc'[q] = "idle" /\ result' = "accepted" =>
       /\ op[q].key \notin ended
       /\ op[q].scope \in ToSet(keys[op[q].key].scopes)]_vars
-----------------------------------------------------------------------------
(* The inductive invariant behind the theorems of APIKeysProofs.tla.       *)

\* What q has read stays true of the columns that no statement writes.
ReadInv(q) ==
  LET o == op[q]
  IN  /\ o.at <= clock
      /\ pc[q] # "idle" /\ pc[q] # "insert" => o.key \in Keys
      /\ pc[q] = "insert" => /\ o.row # None /\ Sound(o.row.scopes)
                             /\ o.row.used = None /\ o.row.revoked = None
      /\ pc[q] = "revoke" => Mine(q, o.key)
      /\ pc[q] = "use" => /\ keys[o.key] # None /\ o.row # None
                          /\ o.row.scopes = keys[o.key].scopes
                          /\ o.row.expires = keys[o.key].expires
                          /\ keys[o.key].created <= o.at

EndedInv == \A k \in ended : keys[k] # None /\ ~Active(k)

CreatedInv == \A k \in Keys : keys[k] # None => keys[k].created <= clock

KeysInv == /\ \A q \in Requests : ReadInv(q)
           /\ EndedInv /\ CreatedInv /\ ScopesAreSound /\ UseIsInLife
=============================================================================
