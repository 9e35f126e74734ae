----------------------------- MODULE Commentary -----------------------------
(***************************************************************************)
(* One match: its creation (match_service.go), the commentary requests     *)
(* that change its score and status (commentary_service.go) and the events *)
(* they hand to the realtime hub after commit.                             *)
(*                                                                         *)
(* Each request runs one transaction that locks the match row, inserts the *)
(* commentary, saves the match when it changed, and commits; then it calls *)
(* BroadcastToRoom once or twice.  The broadcasts are outside the          *)
(* transaction and outside the lock.                                       *)
(***************************************************************************)
EXTENDS Integers, Sequences

CONSTANTS N,       \* number of commentary requests; request q reports score q
          NoMatch, \* the match row does not exist
          None     \* no request

ASSUME NAssumption == N \in Nat
ASSUME NoneAssumption == None \notin 1 .. N

Requests == 1 .. N

VARIABLES
  clock,    \* wall clock against the match: 1 before, 2 during, 3 after it
  match,    \* the row of matches: scores and stored status, or NoMatch
  comments, \* requests whose commentary row is committed
  serial,   \* commentary ids drawn so far; created_at grows with the id
  created,  \* created[q]: id and place in created_at order of q's row, or 0
  lock,     \* the transaction holding the match row, or None
  pc,       \* pc[q]: where request q stands
  req,      \* req[q]: the scores of q's payload, -1 for none or a negative one
  row,      \* row[q]: q's copy of the match, read under lock and then changed
  changed,  \* changed[q]: matchChanged
  feed,     \* events in the order they entered the hub's Broadcast channel
  past,     \* history: every committed state of the match
  lost      \* history: requests that committed and never got to broadcast

idVars == <<serial, created>>
dbVars == <<match, comments, past, idVars>>
vars == <<clock, dbVars, lock, pc, req, row, changed, feed, lost>>

Score == -1 .. N
Match == [home : 0 .. N, away : 0 .. N, status : 1 .. 3]
ASSUME NoMatchAssumption == NoMatch \notin Match

Event == [type : {"commentary.created"}, by : Requests]
         \cup [type : {"match.updated"}, data : Match]

\* GetMatchStatus: scheduled 1, live 2 or finished 3, from the current time.
\* At the boundary instants the match is live; the three values of the clock
\* stand for the three answers.
StatusNow == clock

Init == /\ clock \in 1 .. 3
        /\ match = NoMatch
        /\ comments = {}
        /\ serial = 0
        /\ created = [q \in Requests |-> 0]
        /\ lock = None
        /\ pc = [q \in Requests |-> "idle"]
        /\ req = [q \in Requests |-> [home |-> -1, away |-> -1]]
        /\ row = [q \in Requests |-> NoMatch]
        /\ changed = [q \in Requests |-> FALSE]
        /\ feed = <<>>
        /\ past = {}
        /\ lost = {}

\* The time passes.
Tick == /\ clock < 3
        /\ clock' = clock + 1
        /\ UNCHANGED <<dbVars, lock, pc, req, row, changed, feed, lost>>

\* MatchService.CreateMatch; 0 stands for the scores the match is created with.
CreateMatch ==
  /\ match = NoMatch
  /\ match' = [home |-> 0, away |-> 0, status |-> StatusNow]
  /\ past' = past \cup {match'}
  /\ UNCHANGED <<clock, comments, idVars, lock, pc, req, row, changed, feed, lost>>

\* MatchService.GetMatch answers the stored status.
GetMatchStatus == match.status

-----------------------------------------------------------------------------
(* CommentaryService.CreateCommentary.                                     *)

\* A valid message arrives; each score of the payload is absent or q's.
Start(q) ==
  /\ pc[q] = "idle"
  /\ \E h, a \in {-1, q} : req' = [req EXCEPT ![q] = [home |-> h, away |-> a]]
  /\ pc' = [pc EXCEPT ![q] = "lock"]
  /\ UNCHANGED <<clock, dbVars, lock, row, changed, feed, lost>>

\* Faulty variant of LockMatch: FindByID without FOR UPDATE.
ReadMatch(q) ==
  /\ pc[q] = "lock" /\ match # NoMatch
  /\ row' = [row EXCEPT ![q] = match]
  /\ pc' = [pc EXCEPT ![q] = "change"]
  /\ UNCHANGED <<clock, dbVars, lock, req, changed, feed, lost>>

\* FindByIDForUpdateWithTx: wait for the row, lock it, read it.
LockMatch(q) ==
  /\ pc[q] = "lock" /\ match # NoMatch /\ lock = None
  /\ lock' = q
  /\ row' = [row EXCEPT ![q] = match]
  /\ pc' = [pc EXCEPT ![q] = "change"]
  /\ UNCHANGED <<clock, dbVars, req, changed, feed, lost>>

\* The match does not exist: NotFound, the transaction is rolled back.
NotFound(q) ==
  /\ pc[q] = "lock" /\ match = NoMatch
  /\ pc' = [pc EXCEPT ![q] = "failed"]
  /\ UNCHANGED <<clock, dbVars, lock, req, row, changed, feed, lost>>

\* Faulty variant of Reported: the payload's score is stored as it came.
ReportedAlways(score, old) == score

\* if input.HomeScore != nil && *input.HomeScore >= 0, and likewise for away.
Reported(score, old) == IF score >= 0 THEN score ELSE old

\* CreateWithTx, which stamps created_at, the new scores and status in memory,
\* and SaveWithTx: all of it is invisible to others until commit.
Change(q) ==
  /\ pc[q] = "change"
  /\ row' = [row EXCEPT ![q] = [home   |-> Reported(req[q].home, @.home),
                                away   |-> Reported(req[q].away, @.away),
                                status |-> StatusNow]]
  /\ changed' = [changed EXCEPT ![q] = \/ req[q].home >= 0 \/ req[q].away >= 0
                                       \/ row[q].status # StatusNow]
  /\ serial' = serial + 1
  /\ created' = [created EXCEPT ![q] = serial']
  /\ pc' = [pc EXCEPT ![q] = "commit"]
  /\ UNCHANGED <<clock, match, comments, past, lock, req, feed, lost>>

\* COMMIT takes effect in the database.
CommitRow(q) ==
  /\ pc[q] = "commit"
  /\ comments' = comments \cup {q}
  /\ match' = IF changed[q] THEN row[q] ELSE match
  /\ past' = past \cup {match'}
  /\ lock' = IF lock = q THEN None ELSE lock
  /\ UNCHANGED <<clock, idVars, req, row, changed, feed>>

Commit(q) == /\ CommitRow(q)
             /\ pc' = [pc EXCEPT ![q] = "created"]
             /\ UNCHANGED lost

\* COMMIT takes effect but its answer is lost: the request reports an error
\* and broadcasts nothing.
CommitUnknown(q) == /\ CommitRow(q)
                    /\ pc' = [pc EXCEPT ![q] = "failed"]
                    /\ lost' = lost \cup {q}

\* A statement fails, the transaction times out or is cancelled: rollback.
Abort(q) ==
  /\ pc[q] \in {"lock", "change", "commit"}
  /\ lock' = IF lock = q THEN None ELSE lock
  /\ pc' = [pc EXCEPT ![q] = "failed"]
  /\ UNCHANGED <<clock, dbVars, req, row, changed, feed, lost>>

Broadcast(q, event, next) ==
  /\ feed' = Append(feed, event)
  /\ pc' = [pc EXCEPT ![q] = next]
  /\ UNCHANGED <<clock, dbVars, lock, req, row, changed, lost>>

AfterCreated(q) == IF changed[q] THEN "updated" ELSE "done"

\* Faulty variant of BroadcastCreated: it may run before the commit.
BroadcastEarly(q) ==
  \/ /\ pc[q] = "commit"
     /\ feed' = Append(feed, [type |-> "commentary.created", by |-> q])
     /\ UNCHANGED <<clock, dbVars, lock, pc, req, row, changed, lost>>
  \/ /\ pc[q] = "created"
     /\ pc' = [pc EXCEPT ![q] = AfterCreated(q)]
     /\ UNCHANGED <<clock, dbVars, lock, feed, req, row, changed, lost>>

\* BroadcastToRoom(matchID, commentary.created, ...).
BroadcastCreated(q) ==
  /\ pc[q] = "created"
  /\ Broadcast(q, [type |-> "commentary.created", by |-> q], AfterCreated(q))

\* Faulty variant of BroadcastUpdated: the event is forgotten.
BroadcastUpdatedNever(q) ==
  /\ pc[q] = "updated"
  /\ pc' = [pc EXCEPT ![q] = "done"]
  /\ UNCHANGED <<clock, dbVars, lock, feed, req, row, changed, lost>>

\* BroadcastToRoom(matchID, match.updated, ...), from the request's own copy.
BroadcastUpdated(q) ==
  /\ pc[q] = "updated"
  /\ Broadcast(q, [type |-> "match.updated", data |-> row[q]], "done")

InFlight(q) == pc[q] \notin {"idle", "done", "failed"}

\* The process ends and is started again: PostgreSQL rolls back the open
\* transactions, the broadcasts not yet made are never made.
Crash ==
  /\ \E q \in Requests : InFlight(q)
  /\ lost' = lost \cup {q \in Requests : pc[q] \in {"created", "updated"}}
  /\ pc' = [q \in Requests |-> IF InFlight(q) THEN "failed" ELSE pc[q]]
  /\ lock' = None
  /\ UNCHANGED <<clock, dbVars, req, row, changed, feed>>

Ended == /\ clock = 3 /\ match # NoMatch
         /\ \A q \in Requests : pc[q] \in {"done", "failed"}
         /\ UNCHANGED vars

Request(q) == \/ LockMatch(q) \/ NotFound(q) \/ Change(q)
              \/ Commit(q) \/ CommitUnknown(q)
              \/ BroadcastCreated(q) \/ BroadcastUpdated(q)

Serve == \/ Tick \/ CreateMatch \/ Ended
         \/ \E q \in Requests : Start(q) \/ Request(q) \/ Abort(q)

Next == Serve \/ Crash

Spec == Init /\ [][Next]_vars

\* A request under way runs; PostgreSQL grants the row lock in turn.
FairSpec == Spec /\ \A q \in Requests : SF_vars(Request(q))

-----------------------------------------------------------------------------
(* Properties.                                                             *)

\* Every variable has its type.
TypeOK ==
  /\ clock \in 1 .. 3
  /\ match \in Match \cup {NoMatch}
  /\ comments \in SUBSET Requests
  /\ serial \in Nat
  /\ created \in [Requests -> 0 .. serial]
  /\ lock \in Requests \cup {None}
  /\ pc \in [Requests -> {"idle", "lock", "change", "commit", "created",
                          "updated", "done", "failed"}]
  /\ req \in [Requests -> [home : Score, away : Score]]
  /\ row \in [Requests -> Match \cup {NoMatch}]
  /\ changed \in [Requests -> BOOLEAN]
  /\ feed \in Seq(Event)
  /\ past \in SUBSET Match
  /\ lost \in SUBSET Requests

\* README.md:88, no ghost data: every event reports a commentary that is
\* committed, or a state the match has had in the database, whatever aborts,
\* lost commit answers and crashes.
NoGhostEvents ==
  \A i \in DOMAIN feed :
    IF feed[i].type = "commentary.created" THEN feed[i].by \in comments
    ELSE feed[i].data \in past

\* No lost update: Save writes every column of the match, yet a commit changes
\* only the scores its own request reports; the others keep the value they
\* had in the database at that moment.
OnlyReportedScoresChange ==
  [][\A q \in comments' \ comments :
       /\ match'.home = Reported(req[q].home, match.home)
       /\ match'.away = Reported(req[q].away, match.away)]_vars

\* The stored status goes scheduled, live, finished and never back, though it
\* is computed by concurrent requests: the clock is read under the row lock.
StatusGoesForward ==
  [][match # NoMatch => match'.status >= match.status]_vars

\* A listing of the commentary only ever grows at its end: what a commit makes
\* visible sorts after every row visible before, since created_at is taken
\* under the lock of the match.  A reader that has seen row n has seen all
\* rows before it.
ListingOnlyGrows ==
  [][\A q \in comments' \ comments :
       \A p \in comments : created'[p] < created'[q]]_vars

\* Every committed commentary is announced, with the new state of the match
\* when it changed it, unless the process ends or the answer to COMMIT is lost.
Announced(q) ==
  /\ \E i \in DOMAIN feed : feed[i] = [type |-> "commentary.created", by |-> q]
  /\ changed[q] => \E i \in DOMAIN feed :
                     feed[i] = [type |-> "match.updated", data |-> row[q]]
CommittedIsAnnounced ==
  \A q \in Requests : q \in comments ~> (Announced(q) \/ q \in lost)

\* .ai-context/docs/domain-rules.md:19, "Status is derived from the current
\* time": the status a reader is given is the one of the current time.
StatusIsDerived == match # NoMatch => GetMatchStatus = StatusNow
-----------------------------------------------------------------------------
(* The inductive invariant behind the theorems of LiveMatchProofs.tla.     *)

\* Between LockMatch and the end of its transaction a request, and nobody
\* else, holds the row.
LockInv == \A q \in Requests : pc[q] \in {"change", "commit"} <=> lock = q

\* The lock holder's copy is the committed row: as it was read, and then with
\* the scores reported and the status of the time of the change.
CopyInv ==
  /\ match # NoMatch => match.status <= clock
  /\ \A q \in Requests :
       /\ pc[q] = "change" => match # NoMatch /\ row[q] = match
       /\ pc[q] = "commit" =>
            /\ match # NoMatch /\ row[q] # NoMatch
            /\ row[q].home = Reported(req[q].home, match.home)
            /\ row[q].away = Reported(req[q].away, match.away)
            /\ row[q].status \in match.status .. clock
            /\ ~changed[q] => row[q] = match

\* What a request still has to announce is committed.
PublishInv ==
  /\ match # NoMatch => match \in past
  /\ \A q \in Requests :
       /\ pc[q] \in {"idle", "lock", "change", "commit"} => q \notin comments
       /\ pc[q] \in {"created", "updated"} =>
            q \in comments /\ (changed[q] => row[q] \in past)
       /\ pc[q] = "updated" => changed[q]

\* The row about to be committed sorts after all that are visible.
StampInv == \A q \in Requests : pc[q] = "commit" =>
              \A p \in comments : created[p] < created[q]

CommentaryInv == TypeOK /\ LockInv /\ CopyInv /\ PublishInv /\ StampInv /\ NoGhostEvents
=============================================================================
