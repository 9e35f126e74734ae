-------------------------- MODULE LiveMatchProofs --------------------------
(***************************************************************************)
(* The safety properties of Commentary.tla and LiveMatch.tla hold for any  *)
(* number of requests and viewers.                                         *)
(*                                                                         *)
(* CommentaryInv is inductive.  Its core is CopyInv, "the lock holder's    *)
(* copy is the committed row": with it a commit writes the scores of its   *)
(* own request over the ones just read, a status that is not older, and a  *)
(* row that sorts last.  Composed with the room of the match, Commentary   *)
(* is still implemented, so all this holds with viewers around, and a      *)
(* viewer that subscribes first and loads second misses nothing.           *)
(***************************************************************************)
EXTENDS LiveMatch, FiniteSetTheorems, TLAPS

-----------------------------------------------------------------------------
(* The requests.                                                           *)

\* A request that has ended, or waits for the lock, holds no copy that matters.
LEMMA InitHolds == Init => CommentaryInv
<1> SUFFICES ASSUME Init PROVE CommentaryInv
  OBVIOUS
<1> USE DEF Init
<1>1. TypeOK
  <2>1. feed \in Seq(Event) /\ past \in SUBSET Match
    OBVIOUS
  <2>2. req \in [Requests -> [home : Score, away : Score]]
    BY NAssumption DEF Score
  <2> QED
    BY <2>1, <2>2 DEF TypeOK
<1>2. LockInv
  BY NoneAssumption DEF LockInv, Requests
<1>3. CopyInv /\ PublishInv /\ StampInv /\ NoGhostEvents
  BY DEF CopyInv, PublishInv, StampInv, NoGhostEvents
<1> QED
  BY <1>1, <1>2, <1>3 DEF CommentaryInv

\* A changed copy is a state of a match.
LEMMA ChangedCopy == ASSUME CommentaryInv, NEW q \in Requests, Change(q) PROVE row'[q] \in Match
<1>1. row[q] \in Match
  BY DEF Change, CommentaryInv, CopyInv, TypeOK
<1> QED
  BY <1>1 DEF Change, CommentaryInv, TypeOK, Match, Reported, Score, StatusNow

\* Types, action by action.
LEMMA TypeStep == ASSUME CommentaryInv, [Next]_vars PROVE TypeOK'
<1> USE NoneAssumption, NAssumption DEF CommentaryInv, TypeOK
<1>1. CASE UNCHANGED vars
  BY <1>1 DEF vars, dbVars, idVars
<1>2. CASE Tick
  BY <1>2 DEF Tick, dbVars, idVars
<1>3. CASE CreateMatch
  <2>1. match' \in Match
    BY <1>3 DEF CreateMatch, StatusNow, Match
  <2> QED
    BY <1>3, <2>1 DEF CreateMatch, idVars
<1>4. CASE Crash
  BY <1>4 DEF Crash, dbVars, idVars
<1>5. CASE Ended
  BY <1>5 DEF Ended, vars, dbVars, idVars
<1>6. ASSUME NEW q \in Requests, Start(q) \/ Request(q) \/ Abort(q) PROVE TypeOK'
  <2>1. CASE Start(q)
    <3>1. PICK h \in {-1, q}, a \in {-1, q} :
                 req' = [req EXCEPT ![q] = [home |-> h, away |-> a]]
      BY <2>1 DEF Start
    <3>2. [home |-> h, away |-> a] \in [home : Score, away : Score]
      BY DEF Score, Requests
    <3>3. req' \in [Requests -> [home : Score, away : Score]]
      BY <3>1, <3>2
    <3> QED
      BY <2>1, <3>3 DEF Start, dbVars, idVars
  <2>2. CASE LockMatch(q)
    BY <2>2 DEF LockMatch, dbVars, idVars
  <2>3. CASE NotFound(q)
    BY <2>3 DEF NotFound, dbVars, idVars
  <2>4. CASE Change(q)
    <3>3. row' \in [Requests -> Match \cup {NoMatch}]
      BY <2>4, ChangedCopy DEF Change
    <3>4. serial' \in Nat /\ created' \in [Requests -> 0 .. serial']
      BY <2>4 DEF Change
    <3>5. changed' \in [Requests -> BOOLEAN] /\ pc' \in [Requests -> {"idle", "lock", "change",
             "commit", "created", "updated", "done", "failed"}]
      BY <2>4 DEF Change
    <3> QED
      BY <2>4, <3>3, <3>4, <3>5 DEF Change
  <2>5. CASE Commit(q) \/ CommitUnknown(q)
    <3>1. row[q] \in Match /\ match' \in Match
      BY <2>5 DEF Commit, CommitUnknown, CommitRow, CopyInv
    <3> QED
      BY <2>5, <3>1 DEF Commit, CommitUnknown, CommitRow, idVars
  <2>6. CASE BroadcastCreated(q)
    <3>1. [type |-> "commentary.created", by |-> q] \in Event
      BY DEF Event
    <3> QED
      BY <2>6, <3>1 DEF BroadcastCreated, Broadcast, AfterCreated, dbVars, idVars
  <2>7. CASE BroadcastUpdated(q)
    <3>0. row[q] \in Match
      BY <2>7 DEF BroadcastUpdated, PublishInv
    <3>1. [type |-> "match.updated", data |-> row[q]] \in Event
      BY <3>0 DEF Event
    <3> QED
      BY <2>7, <3>1 DEF BroadcastUpdated, Broadcast, dbVars, idVars
  <2>8. CASE Abort(q)
    BY <2>8 DEF Abort, dbVars, idVars
  <2> QED
    BY <1>6, <2>1, <2>2, <2>3, <2>4, <2>5, <2>6, <2>7, <2>8 DEF Request
<1> QED
  BY <1>1, <1>2, <1>3, <1>4, <1>5, <1>6 DEF Next, Serve

LEMMA LockStep == ASSUME CommentaryInv, [Next]_vars PROVE LockInv'
<1> USE NoneAssumption DEF CommentaryInv, TypeOK, LockInv, Requests
<1>1. CASE UNCHANGED <<pc, lock>>
  BY <1>1
<1>2. CASE Crash
  BY <1>2 DEF Crash, InFlight
<1>3. ASSUME NEW q \in Requests, Start(q) \/ Request(q) \/ Abort(q) PROVE LockInv'
  <2>1. CASE Start(q) \/ NotFound(q)
    BY <2>1 DEF Start, NotFound
  <2>2. CASE LockMatch(q)
    BY <2>2 DEF LockMatch
  <2>3. CASE Change(q)
    BY <2>3 DEF Change
  <2>4. CASE Commit(q) \/ CommitUnknown(q)
    BY <2>4 DEF Commit, CommitUnknown, CommitRow
  <2>5. CASE BroadcastCreated(q) \/ BroadcastUpdated(q)
    BY <2>5 DEF BroadcastCreated, BroadcastUpdated, Broadcast, AfterCreated
  <2>6. CASE Abort(q)
    BY <2>6 DEF Abort
  <2> QED
    BY <1>3, <2>1, <2>2, <2>3, <2>4, <2>5, <2>6 DEF Request
<1> QED
  BY <1>1, <1>2, <1>3 DEF Next, Serve, Tick, CreateMatch, Ended, vars

LEMMA CopyStep == ASSUME CommentaryInv, [Next]_vars PROVE CopyInv'
<1> USE NoneAssumption DEF CommentaryInv, TypeOK
<1>1. CASE UNCHANGED vars \/ Ended
  BY <1>1 DEF Ended, CopyInv, vars, dbVars
<1>2. CASE Tick
  BY <1>2 DEF Tick, CopyInv, dbVars, Match
<1>3. CASE CreateMatch
  BY <1>3 DEF CreateMatch, CopyInv, StatusNow
<1>4. CASE Crash
  BY <1>4 DEF Crash, CopyInv, InFlight, dbVars
<1>5. ASSUME NEW q \in Requests, Start(q) \/ Request(q) \/ Abort(q) PROVE CopyInv'
  <2>1. CASE Start(q)
    BY <2>1 DEF Start, CopyInv, dbVars
  <2>2. CASE LockMatch(q)
    BY <2>2 DEF LockMatch, CopyInv, dbVars
  <2>3. CASE NotFound(q) \/ Abort(q)
    BY <2>3 DEF NotFound, Abort, CopyInv, dbVars
  <2>4. CASE Change(q)
    <3>1. /\ match # NoMatch /\ match \in Match /\ row[q] = match /\ match.status <= clock
      BY <2>4 DEF Change, CopyInv
    <3>2. row'[q] = [home   |-> Reported(req[q].home, match.home),
                     away   |-> Reported(req[q].away, match.away),
                     status |-> clock]
      BY <2>4, <3>1 DEF Change, StatusNow
    <3>3. row'[q] # NoMatch
      BY <2>4, ChangedCopy, NoMatchAssumption
    <3>4. ~changed'[q] => row'[q] = match
      BY <2>4, <3>1, <3>2 DEF Change, StatusNow, Reported, Match, Score
    <3>5. \A p \in Requests \ {q} : pc[p] \notin {"change", "commit"}
      BY <2>4 DEF Change, LockInv
    <3> QED
      BY <2>4, <3>1, <3>2, <3>3, <3>4, <3>5 DEF Change, CopyInv, Match
  <2>5. CASE Commit(q) \/ CommitUnknown(q)
    <3>1. \A p \in Requests \ {q} : pc[p] \notin {"change", "commit"}
      BY <2>5 DEF Commit, CommitUnknown, CommitRow, LockInv
    <3>2. match'.status <= clock
      BY <2>5 DEF Commit, CommitUnknown, CommitRow, CopyInv, Match
    <3> QED
      BY <2>5, <3>1, <3>2 DEF Commit, CommitUnknown, CommitRow, CopyInv
  <2>6. CASE BroadcastCreated(q) \/ BroadcastUpdated(q)
    BY <2>6 DEF BroadcastCreated, BroadcastUpdated, Broadcast, AfterCreated, CopyInv, dbVars
  <2> QED
    BY <1>5, <2>1, <2>2, <2>3, <2>4, <2>5, <2>6 DEF Request
<1> QED
  BY <1>1, <1>2, <1>3, <1>4, <1>5 DEF Next, Serve

LEMMA PublishStep == ASSUME CommentaryInv, [Next]_vars PROVE PublishInv'
<1> USE NoneAssumption DEF CommentaryInv, TypeOK
<1>1. CASE UNCHANGED vars \/ Ended
  BY <1>1 DEF Ended, PublishInv, vars, dbVars
<1>2. CASE Tick
  BY <1>2 DEF Tick, PublishInv, dbVars
<1>3. CASE CreateMatch
  BY <1>3 DEF CreateMatch, PublishInv
<1>4. CASE Crash
  BY <1>4 DEF Crash, PublishInv, InFlight, dbVars
<1>5. ASSUME NEW q \in Requests, Start(q) \/ Request(q) \/ Abort(q) PROVE PublishInv'
  <2>1. CASE Start(q)
    BY <2>1 DEF Start, PublishInv, dbVars
  <2>2. CASE LockMatch(q)
    BY <2>2 DEF LockMatch, PublishInv, dbVars
  <2>3. CASE NotFound(q) \/ Abort(q)
    BY <2>3 DEF NotFound, Abort, PublishInv, dbVars
  <2>4. CASE Change(q)
    BY <2>4 DEF Change, PublishInv
  <2>5. CASE Commit(q) \/ CommitUnknown(q)
    <3>1. \A p \in Requests \ {q} : pc[p] # "commit"
      BY <2>5 DEF Commit, CommitUnknown, CommitRow, LockInv
    <3>2. changed[q] => row[q] \in past'
      BY <2>5 DEF Commit, CommitUnknown, CommitRow
    <3>3. match' # NoMatch => match' \in past'
      BY <2>5 DEF Commit, CommitUnknown, CommitRow
    <3> QED
      BY <2>5, <3>1, <3>2, <3>3 DEF Commit, CommitUnknown, CommitRow, PublishInv
  <2>6. CASE BroadcastCreated(q) \/ BroadcastUpdated(q)
    BY <2>6 DEF BroadcastCreated, BroadcastUpdated, Broadcast, AfterCreated, PublishInv, dbVars
  <2> QED
    BY <1>5, <2>1, <2>2, <2>3, <2>4, <2>5, <2>6 DEF Request
<1> QED
  BY <1>1, <1>2, <1>3, <1>4, <1>5 DEF Next, Serve

LEMMA StampStep == ASSUME CommentaryInv, [Next]_vars PROVE StampInv'
<1> USE NoneAssumption DEF CommentaryInv, TypeOK
<1>1. CASE UNCHANGED <<pc, comments, created>>
  BY <1>1 DEF StampInv
<1>2. CASE Crash
  BY <1>2 DEF Crash, StampInv, InFlight, dbVars, idVars
<1>3. ASSUME NEW q \in Requests, Start(q) \/ Request(q) \/ Abort(q) PROVE StampInv'
  <2>1. CASE Change(q)
    <3>1. \A p \in Requests \ {q} : pc[p] # "commit"
      BY <2>1 DEF Change, LockInv
    <3>2. q \notin comments
      BY <2>1 DEF Change, PublishInv
    <3>3. \A p \in comments : created'[p] < created'[q]
      BY <2>1, <3>2 DEF Change
    <3> QED
      BY <2>1, <3>1, <3>3 DEF Change, StampInv
  <2>2. CASE Commit(q) \/ CommitUnknown(q)
    <3>1. \A p \in Requests \ {q} : pc[p] # "commit"
      BY <2>2 DEF Commit, CommitUnknown, CommitRow, LockInv
    <3> QED
      BY <2>2, <3>1 DEF Commit, CommitUnknown, CommitRow, StampInv
  <2>3. CASE Start(q) \/ LockMatch(q) \/ NotFound(q) \/ Abort(q)
    BY <2>3 DEF Start, LockMatch, NotFound, Abort, StampInv, dbVars, idVars
  <2>4. CASE BroadcastCreated(q) \/ BroadcastUpdated(q)
    BY <2>4 DEF BroadcastCreated, BroadcastUpdated, Broadcast, AfterCreated, StampInv, dbVars, idVars
  <2> QED
    BY <1>3, <2>1, <2>2, <2>3, <2>4 DEF Request
<1> QED
  BY <1>1, <1>2, <1>3 DEF Next, Serve, Tick, CreateMatch, Ended, vars, dbVars, idVars

\* Only a broadcast adds an event, and only of what is committed.
LEMMA GhostStep == ASSUME CommentaryInv, [Next]_vars PROVE NoGhostEvents'
<1> USE NoneAssumption DEF CommentaryInv, TypeOK
<1>1. comments \subseteq comments' /\ past \subseteq past'
  BY DEF Next, Serve, Tick, CreateMatch, Ended, Crash, Start, Request, Abort, LockMatch, NotFound,
     Change, Commit, CommitUnknown, CommitRow, BroadcastCreated, BroadcastUpdated, Broadcast,
     vars, dbVars
<1>2. CASE UNCHANGED feed
  BY <1>1, <1>2 DEF NoGhostEvents
<1>3. ASSUME NEW q \in Requests, BroadcastCreated(q) PROVE NoGhostEvents'
  <2>1. q \in comments /\ feed' = Append(feed, [type |-> "commentary.created", by |-> q])
    BY <1>3 DEF BroadcastCreated, Broadcast, PublishInv
  <2>2. \A i \in DOMAIN feed' : \/ i \in DOMAIN feed /\ feed'[i] = feed[i]
                                \/ feed'[i] = [type |-> "commentary.created", by |-> q]
    BY <2>1
  <2> QED
    BY <1>1, <2>1, <2>2 DEF NoGhostEvents
<1>4. ASSUME NEW q \in Requests, BroadcastUpdated(q) PROVE NoGhostEvents'
  <2>1. row[q] \in past /\ feed' = Append(feed, [type |-> "match.updated", data |-> row[q]])
    BY <1>4 DEF BroadcastUpdated, Broadcast, PublishInv
  <2>2. \A i \in DOMAIN feed' : \/ i \in DOMAIN feed /\ feed'[i] = feed[i]
                                \/ feed'[i] = [type |-> "match.updated", data |-> row[q]]
    BY <2>1
  <2> QED
    BY <1>1, <2>1, <2>2 DEF NoGhostEvents
<1> QED
  BY <1>2, <1>3, <1>4 DEF Next, Serve, Tick, CreateMatch, Ended, Crash, Start, Request, Abort,
     LockMatch, NotFound, Change, Commit, CommitUnknown, CommitRow, vars

LEMMA InvStep == CommentaryInv /\ [Next]_vars => CommentaryInv'
  BY TypeStep, LockStep, CopyStep, PublishStep, StampStep, GhostStep DEF CommentaryInv

LEMMA InvHolds == Spec => []CommentaryInv
  BY InitHolds, InvStep, PTL DEF Spec

-----------------------------------------------------------------------------
(* Theorems.                                                               *)

\* Every variable of Commentary keeps its type.
THEOREM CommentaryTypeCorrect == Spec => []TypeOK
<1>1. CommentaryInv => TypeOK
  BY DEF CommentaryInv
<1> QED
  BY <1>1, InvHolds, PTL

\* README.md:88: no event without a commit, for any number of requests and
\* whatever aborts, unknown commits and crashes happen.
THEOREM EventsAreNoGhosts == Spec => []NoGhostEvents
<1>1. CommentaryInv => NoGhostEvents
  BY DEF CommentaryInv
<1> QED
  BY <1>1, InvHolds, PTL

\* Only CommitRow makes a commentary visible.
LEMMA Committing == ASSUME Next, NEW q \in comments' \ comments
                    PROVE q \in Requests /\ CommitRow(q)
<1>1. CASE Crash \/ Tick \/ CreateMatch \/ Ended
  BY <1>1 DEF Crash, Tick, CreateMatch, Ended, vars, dbVars
<1>2. ASSUME NEW p \in Requests, Start(p) \/ Request(p) \/ Abort(p)
      PROVE  q \in Requests /\ CommitRow(q)
  BY <1>2 DEF Start, Request, Abort, LockMatch, NotFound, Change, Commit, CommitUnknown, CommitRow,
     BroadcastCreated, BroadcastUpdated, Broadcast, dbVars
<1> QED
  BY <1>1, <1>2 DEF Next, Serve

\* No lost update (commentary_service.go:172-186): Save writes the whole row,
\* and yet changes the scores of its own request only.
THEOREM NoUpdateIsLost == Spec => OnlyReportedScoresChange
<1>1. ASSUME CommentaryInv, Next, NEW q \in comments' \ comments
      PROVE /\ match'.home = Reported(req[q].home, match.home)
            /\ match'.away = Reported(req[q].away, match.away)
  <2>1. q \in Requests /\ CommitRow(q)
    BY <1>1, Committing
  <2> QED
    BY <1>1, <2>1 DEF CommitRow, CommentaryInv, CopyInv
<1>2. CommentaryInv /\ Next => \A q \in comments' \ comments :
                                 /\ match'.home = Reported(req[q].home, match.home)
                                 /\ match'.away = Reported(req[q].away, match.away)
  BY <1>1
<1> QED
  BY <1>2, InvHolds, PTL DEF Spec, OnlyReportedScoresChange

\* The stored status never goes back (commentary_service.go:179).
THEOREM StatusNeverGoesBack == Spec => StatusGoesForward
<1>1. ASSUME CommentaryInv, Next, match # NoMatch PROVE match'.status >= match.status
  <2>1. match \in Match /\ match.status \in 1 .. 3
    BY <1>1 DEF CommentaryInv, TypeOK, Match
  <2>2. ASSUME NEW q \in Requests, CommitRow(q) PROVE match'.status >= match.status
    BY <1>1, <2>1, <2>2 DEF CommitRow, CommentaryInv, CopyInv, TypeOK
  <2>3. match' = match \/ \E q \in Requests : CommitRow(q)
    <3>1. CASE Crash \/ Tick \/ CreateMatch \/ Ended
      BY <1>1, <3>1 DEF Crash, Tick, CreateMatch, Ended, vars, dbVars
    <3>2. ASSUME NEW q \in Requests, Start(q) \/ Request(q) \/ Abort(q)
          PROVE  match' = match \/ CommitRow(q)
      BY <3>2 DEF Start, Request, Abort, LockMatch, NotFound, Change, Commit, CommitUnknown,
         BroadcastCreated, BroadcastUpdated, Broadcast, dbVars
    <3> QED
      BY <1>1, <3>1, <3>2 DEF Next, Serve
  <2> QED
    BY <2>1, <2>2, <2>3
<1> QED
  BY <1>1, InvHolds, PTL DEF Spec, StatusGoesForward

\* What becomes visible in a listing sorts after all that was visible
\* (commentary_repository.go:33): created_at is taken under the match's lock.
THEOREM ListingsAreStable == Spec => ListingOnlyGrows
<1>1. ASSUME CommentaryInv, Next, NEW q \in comments' \ comments, NEW p \in comments
      PROVE created'[p] < created'[q]
  <2>1. q \in Requests /\ CommitRow(q)
    BY <1>1, Committing
  <2> QED
    BY <1>1, <2>1 DEF CommitRow, idVars, CommentaryInv, StampInv
<1>2. CommentaryInv /\ Next => \A q \in comments' \ comments :
                                 \A p \in comments : created'[p] < created'[q]
  BY <1>1
<1> QED
  BY <1>2, InvHolds, PTL DEF Spec, ListingOnlyGrows

-----------------------------------------------------------------------------
(* The viewers.                                                            *)

\* Viewers do not touch the match, and a crash of the process is a crash of
\* its requests.
LEMMA StepOfCommentary == [LiveNext]_liveVars => [Next]_vars
<1>1. CASE UNCHANGED liveVars
  BY <1>1 DEF liveVars
<1>2. CASE Serve /\ UNCHANGED viewVars
  BY <1>2 DEF Next
<1>3. CASE CrashAll
  BY <1>3 DEF CrashAll, Next
<1>4. CASE Take \/ Leave
  BY <1>4 DEF Take, Leave
<1>5. ASSUME NEW v \in Viewers, Subscribe(v) \/ Deliver(v) \/ Load(v) PROVE UNCHANGED vars
  BY <1>5 DEF Subscribe, Deliver, Load
<1> QED
  BY <1>1, <1>2, <1>3, <1>4, <1>5 DEF LiveNext

\* The composition implements Commentary.tla: its theorems carry over.
THEOREM LiveMatchImplementsCommentary == LiveSpec => Spec
<1>1. LiveInit => Init
  BY DEF LiveInit
<1> QED
  BY <1>1, StepOfCommentary, PTL DEF LiveSpec, Spec

-----------------------------------------------------------------------------
(* What a step does to the events and the commentary.                      *)

\* The feed grows at its end, by the event a request broadcasts.
LEMMA FeedGrows ==
  ASSUME CommentaryInv, [Next]_vars
  PROVE  /\ Len(feed) \in Nat /\ Len(feed') \in Nat /\ Len(feed) <= Len(feed')
         /\ \A i \in 1 .. Len(feed) : feed'[i] = feed[i]
<1>1. feed \in Seq(Event) /\ feed' \in Seq(Event)
  BY TypeStep DEF CommentaryInv, TypeOK
<1>2. feed' = feed \/ \E e : feed' = Append(feed, e)
  BY DEF Next, Serve, Tick, CreateMatch, Ended, Crash, Start, Request, Abort, LockMatch, NotFound,
     Change, Commit, CommitUnknown, CommitRow, BroadcastCreated, BroadcastUpdated, Broadcast, vars
<1>3. CASE feed' = feed
  BY <1>1, <1>3
<1>4. ASSUME NEW e, feed' = Append(feed, e)
      PROVE  Len(feed') = Len(feed) + 1 /\ \A i \in 1 .. Len(feed) : feed'[i] = feed[i]
  BY <1>1, <1>4
<1> QED
  BY <1>1, <1>2, <1>3, <1>4

\* What a viewer knows it goes on knowing while it stays.
LEMMA StreamGrows ==
  ASSUME CommentaryInv, [Next]_vars, LiveTypeOK, NEW v \in Viewers, joined'[v] = joined[v]
  PROVE  Stream(v) \subseteq Stream(v)'
<1>1. joined[v] \in Nat
  BY DEF LiveTypeOK
<1> QED
  BY <1>1, FeedGrows DEF Stream

\* Commentary and existing matches are never deleted, and ids are kept.
LEMMA RowsStay ==
  ASSUME CommentaryInv, [Next]_vars
  PROVE  /\ comments \subseteq comments'
         /\ match # NoMatch => match' # NoMatch
         /\ \A q \in comments : created'[q] = created[q] /\ row'[q] = row[q] /\ changed'[q] = changed[q]
<1> USE DEF CommentaryInv, TypeOK
<1>1. CASE UNCHANGED vars \/ Crash \/ Tick \/ CreateMatch \/ Ended
  BY <1>1 DEF Crash, Tick, CreateMatch, Ended, vars, dbVars, idVars
<1>2. ASSUME NEW q \in Requests, Start(q) \/ NotFound(q) \/ Abort(q)
                                 \/ BroadcastCreated(q) \/ BroadcastUpdated(q)
      PROVE  UNCHANGED <<dbVars, row, changed>>
  BY <1>2 DEF Start, NotFound, Abort, BroadcastCreated, BroadcastUpdated, Broadcast
<1>3. ASSUME NEW q \in Requests, LockMatch(q) \/ Change(q)
      PROVE  /\ q \notin comments /\ UNCHANGED <<match, comments>>
             /\ \A p \in Requests \ {q} : /\ created'[p] = created[p]
                                          /\ row'[p] = row[p] /\ changed'[p] = changed[p]
  BY <1>3 DEF LockMatch, Change, dbVars, idVars, PublishInv
<1>4. ASSUME NEW q \in Requests, Commit(q) \/ CommitUnknown(q)
      PROVE  /\ comments \subseteq comments' /\ UNCHANGED <<row, changed, created>>
             /\ match # NoMatch => match' # NoMatch
  BY <1>4 DEF Commit, CommitUnknown, CommitRow, idVars, CopyInv
<1> QED
  BY <1>1, <1>2, <1>3, <1>4 DEF Next, Serve, Request, dbVars, idVars

-----------------------------------------------------------------------------
(* Types.                                                                  *)

LEMMA PageType == ASSUME CommentaryInv, match # NoMatch, NEW n, NEW b \in BOOLEAN
                  PROVE  [comments |-> Listing(n), match |-> match, cut |-> b] \in Page
  BY DEF CommentaryInv, TypeOK, Page, Listing

LEMMA LiveTypeStep ==
  ASSUME LiveInv, [LiveNext]_liveVars, TypeOK'
  PROVE  LiveTypeOK'
<1> USE DEF LiveInv, LiveTypeOK, Feed!TypeOK, Room, Feed!Off
<1>0. Len(feed) \in Nat /\ Len(feed') \in Nat
  BY DEF TypeOK
<1>1. CASE UNCHANGED viewVars
  BY <1>0, <1>1 DEF viewVars
<1>2. CASE CrashAll
  BY <1>0, <1>2 DEF CrashAll, Forget
<1>3. CASE Take
  BY <1>0, <1>3 DEF Take, Feed!Take, vars
<1>4. CASE Leave
  BY <1>0, <1>4 DEF Leave, Feed!Leave, Forget, vars
<1>5. ASSUME NEW v \in Viewers, Subscribe(v) PROVE LiveTypeOK'
  BY <1>0, <1>5 DEF Subscribe, Feed!Join, vars
<1>6. ASSUME NEW v \in Viewers, Deliver(v) PROVE LiveTypeOK'
  BY <1>0, <1>6 DEF Deliver, Feed!Deliver, vars
<1>7. ASSUME NEW v \in Viewers, Load(v) PROVE LiveTypeOK'
  <2>1. PICK raw \in RawLimits :
          page' = [page EXCEPT ![v] =
                     [comments |-> Listing(ParseLimit(raw)), match |-> match,
                      cut |-> Cardinality(comments) > ParseLimit(raw)]]
    BY <1>7 DEF Load
  <2>2. [comments |-> Listing(ParseLimit(raw)), match |-> match,
         cut |-> Cardinality(comments) > ParseLimit(raw)] \in Page
    <3>1. (Cardinality(comments) > ParseLimit(raw)) \in BOOLEAN
      OBVIOUS
    <3> QED
      BY <1>7, <3>1, PageType DEF Load
  <2>3. page' \in [Viewers -> Page \cup {NotYet}]
    BY <2>1, <2>2
  <2> QED
    BY <1>0, <1>7, <2>3 DEF Load
<1> QED
  BY <1>1, <1>2, <1>3, <1>4, <1>5, <1>6, <1>7 DEF LiveNext, liveVars

LEMMA PageStep ==
  ASSUME LiveInv, [LiveNext]_liveVars, LiveTypeOK'
  PROVE  PageInv'
<1> USE DEF LiveInv, PageInv, Feed!Off, Room
<1>0. [Next]_vars
  BY StepOfCommentary
<1>1. Len(feed) \in Nat /\ Len(feed') \in Nat /\ Len(feed) <= Len(feed')
  BY <1>0, FeedGrows
<1>2. comments \subseteq comments' /\ (match # NoMatch => match' # NoMatch)
  BY <1>0, RowsStay
<1>3. /\ joined \in [Viewers -> Nat] /\ taken \in [{"match"} -> Nat]
      /\ cursor \in [Viewers -> [{"match"} -> Nat \cup {-1}]]
      /\ page \in [Viewers -> Page \cup {NotYet}]
  BY DEF LiveTypeOK, Feed!TypeOK
<1>4. CASE UNCHANGED viewVars
  BY <1>1, <1>2, <1>3, <1>4 DEF viewVars
<1>5. CASE CrashAll
  <2>1. \A v \in Viewers : cursor'[v]["match"] = -1
    BY <1>5 DEF CrashAll
  <2>2. \A v \in Viewers : joined'[v] = 0 /\ page'[v] = NotYet
    BY <1>5, <2>1 DEF CrashAll, Forget
  <2>3. taken'["match"] = Len(feed)
    BY <1>5 DEF CrashAll
  <2> QED
    BY <1>1, <2>2, <2>3
<1>6. CASE Take
  BY <1>1, <1>2, <1>3, <1>6 DEF Take, Feed!Take, vars
<1>7. CASE Leave
  <2>1. UNCHANGED <<vars, taken>>
    BY <1>7 DEF Leave, Feed!Leave
  <2>2. \A v \in Viewers : /\ page'[v] # NotYet => /\ cursor'[v]["match"] # -1
                                                  /\ page'[v] = page[v]
                          /\ joined'[v] \in {0, joined[v]}
    BY <1>7 DEF Leave, Forget
  <2>3. Len(feed') = Len(feed) /\ comments' = comments /\ match' = match /\ taken' = taken
    BY <2>1 DEF vars, dbVars
  <2>4. \A v \in Viewers : joined[v] \in Nat /\ joined'[v] <= Len(feed')
    BY <1>1, <1>3, <2>2, <2>3
  <2> QED
    BY <2>2, <2>3, <2>4
<1>8. ASSUME NEW v \in Viewers, Subscribe(v) PROVE PageInv'
  BY <1>1, <1>2, <1>3, <1>8 DEF Subscribe, Feed!Join, vars
<1>9. ASSUME NEW v \in Viewers, Deliver(v) PROVE PageInv'
  BY <1>1, <1>2, <1>3, <1>9 DEF Deliver, Feed!Deliver, vars
<1>10. ASSUME NEW v \in Viewers, Load(v) PROVE PageInv'
  <2>1. PICK raw \in RawLimits :
          page' = [page EXCEPT ![v] =
                     [comments |-> Listing(ParseLimit(raw)), match |-> match,
                      cut |-> Cardinality(comments) > ParseLimit(raw)]]
    BY <1>10 DEF Load
  <2>2. page'[v].comments = Listing(ParseLimit(raw)) /\ Listing(ParseLimit(raw)) \subseteq comments
    BY <1>3, <2>1 DEF Listing
  <2> QED
    BY <1>1, <1>2, <1>3, <1>10, <2>1, <2>2 DEF Load, vars, dbVars
<1> QED
  BY <1>4, <1>5, <1>6, <1>7, <1>8, <1>9, <1>10 DEF LiveNext, liveVars

-----------------------------------------------------------------------------
(* Nothing is missed.                                                      *)

\* What the oldest rows leave out sorts after them, and they were cut off.
LEMMA ListingIsCutOff ==
  ASSUME CommentaryInv, NEW n \in Int, NEW q \in comments, q \notin Listing(n)
  PROVE  /\ Cardinality(comments) > n
         /\ \A p \in Listing(n) : created[p] < created[q]
<1>1. IsFiniteSet(comments)
  <2>1. IsFiniteSet(Requests)
    BY NAssumption, FS_Interval DEF Requests
  <2> QED
    BY <2>1, FS_Subset DEF CommentaryInv, TypeOK
<1>2. \A p \in comments : created[p] \in Nat
  BY DEF CommentaryInv, TypeOK
<1>3. \A p \in comments : IsFiniteSet(Earlier(p)) /\ Cardinality(Earlier(p)) \in Nat
  BY <1>1, FS_Subset, FS_CardinalityType DEF Earlier
<1>4. Cardinality(Earlier(q)) >= n
  BY <1>3 DEF Listing
<1>5. Cardinality(comments) > n
  <2>1. q \notin Earlier(q) /\ Earlier(q) \cup {q} \subseteq comments
    BY <1>2 DEF Earlier
  <2>2. Cardinality(Earlier(q) \cup {q}) = Cardinality(Earlier(q)) + 1
    BY <1>3, <2>1, FS_AddElement
  <2>3. Cardinality(Earlier(q) \cup {q}) <= Cardinality(comments) /\ Cardinality(comments) \in Nat
    BY <1>1, <2>1, FS_Subset, FS_CardinalityType
  <2> QED
    BY <1>3, <1>4, <2>2, <2>3
<1>6. ASSUME NEW p \in Listing(n), ~(created[p] < created[q]) PROVE FALSE
  <2>1. p \in comments /\ Cardinality(Earlier(p)) < n
    BY DEF Listing
  <2>2. Earlier(q) \subseteq Earlier(p)
    BY <1>2, <1>6, <2>1 DEF Earlier
  <2>3. Cardinality(Earlier(q)) <= Cardinality(Earlier(p))
    BY <1>3, <2>1, <2>2, FS_Subset
  <2> QED
    BY <1>3, <1>4, <2>1, <2>3
<1> QED
  BY <1>5, <1>6

LEMMA ParseLimitType == ASSUME NEW raw \in RawLimits PROVE ParseLimit(raw) \in Int
  BY LimitsAssumption DEF ParseLimit

\* A commit leaves its commentary to be announced, or never announced, and an
\* announcement is given up for a broadcast only.
LEMMA CommentaryUnsaidStep ==
  ASSUME CommentaryInv, [Next]_vars, NEW q \in comments',
         q \in comments => CommentaryUnsaid(q)
  PROVE  \/ CommentaryUnsaid(q)'
         \/ feed' = Append(feed, [type |-> "commentary.created", by |-> q])
<1> USE DEF CommentaryInv, TypeOK, CommentaryUnsaid
<1>1. CASE UNCHANGED vars \/ Tick \/ CreateMatch \/ Ended
  BY <1>1 DEF Tick, CreateMatch, Ended, vars, dbVars
<1>2. CASE Crash
  BY <1>2 DEF Crash, dbVars
<1>3. ASSUME NEW p \in Requests, Start(p) \/ NotFound(p) \/ LockMatch(p) \/ Change(p) \/ Abort(p)
      PROVE  CommentaryUnsaid(q)'
  <2>1. UNCHANGED <<comments, lost>> /\ pc[p] # "created"
    BY <1>3 DEF Start, NotFound, LockMatch, Change, Abort, dbVars
  <2>2. \A r \in Requests \ {p} : pc'[r] = pc[r]
    BY <1>3 DEF Start, NotFound, LockMatch, Change, Abort
  <2> QED
    BY <2>1, <2>2
<1>4. ASSUME NEW p \in Requests, Commit(p) \/ CommitUnknown(p) PROVE CommentaryUnsaid(q)'
  BY <1>4 DEF Commit, CommitUnknown, CommitRow
<1>5. ASSUME NEW p \in Requests, BroadcastUpdated(p) PROVE CommentaryUnsaid(q)'
  BY <1>5 DEF BroadcastUpdated, Broadcast, dbVars
<1>6. ASSUME NEW p \in Requests, BroadcastCreated(p)
      PROVE  \/ CommentaryUnsaid(q)'
             \/ feed' = Append(feed, [type |-> "commentary.created", by |-> q])
  BY <1>6 DEF BroadcastCreated, Broadcast, dbVars
<1> QED
  BY <1>1, <1>2, <1>3, <1>4, <1>5, <1>6 DEF Next, Serve, Request

\* The same of a new state of the match.
LEMMA StateUnsaidStep ==
  ASSUME CommentaryInv, [Next]_vars, NEW q \in comments, StateUnsaid(q)
  PROVE  \/ StateUnsaid(q)'
         \/ feed' = Append(feed, [type |-> "match.updated", data |-> row[q]])
<1> USE DEF CommentaryInv, TypeOK, StateUnsaid
<1>0. changed'[q] = changed[q]
  BY RowsStay
<1>1. CASE UNCHANGED vars \/ Tick \/ CreateMatch \/ Ended
  BY <1>0, <1>1 DEF Tick, CreateMatch, Ended, vars, dbVars
<1>2. CASE Crash
  BY <1>0, <1>2 DEF Crash, dbVars
<1>3. ASSUME NEW p \in Requests, Start(p) \/ NotFound(p) \/ LockMatch(p) \/ Change(p) \/ Abort(p)
      PROVE  StateUnsaid(q)'
  <2>1. UNCHANGED lost /\ pc[p] \notin {"created", "updated"}
    BY <1>3 DEF Start, NotFound, LockMatch, Change, Abort
  <2>2. \A r \in Requests \ {p} : pc'[r] = pc[r]
    BY <1>3 DEF Start, NotFound, LockMatch, Change, Abort
  <2> QED
    BY <1>0, <2>1, <2>2
<1>4. ASSUME NEW p \in Requests, Commit(p) \/ CommitUnknown(p) PROVE StateUnsaid(q)'
  BY <1>0, <1>4 DEF Commit, CommitUnknown, CommitRow
<1>5. ASSUME NEW p \in Requests, BroadcastCreated(p) PROVE StateUnsaid(q)'
  BY <1>0, <1>5 DEF BroadcastCreated, Broadcast, AfterCreated
<1>6. ASSUME NEW p \in Requests, BroadcastUpdated(p)
      PROVE  \/ StateUnsaid(q)'
             \/ feed' = Append(feed, [type |-> "match.updated", data |-> row[q]])
  BY <1>0, <1>6 DEF BroadcastUpdated, Broadcast
<1> QED
  BY <1>1, <1>2, <1>3, <1>4, <1>5, <1>6 DEF Next, Serve, Request

LEMMA StateChanges ==
  ASSUME CommentaryInv, [Next]_vars, match # NoMatch, match' # match
  PROVE  \E q \in comments' : row'[q] = match' /\ StateUnsaid(q)'
<1>1. CASE UNCHANGED vars \/ Tick \/ CreateMatch \/ Ended \/ Crash
  BY <1>1 DEF Tick, CreateMatch, Ended, Crash, vars, dbVars
<1>2. ASSUME NEW p \in Requests, Start(p) \/ Request(p) \/ Abort(p)
      PROVE  Commit(p) \/ CommitUnknown(p)
  BY <1>2 DEF Start, Request, Abort, NotFound, LockMatch, Change, BroadcastCreated,
     BroadcastUpdated, Broadcast, dbVars
<1>3. ASSUME NEW p \in Requests, Commit(p) \/ CommitUnknown(p)
      PROVE  p \in comments' /\ row'[p] = match' /\ StateUnsaid(p)'
  BY <1>3 DEF Commit, CommitUnknown, CommitRow, StateUnsaid, CommentaryInv, TypeOK
<1> QED
  BY <1>1, <1>2, <1>3 DEF Next, Serve

\* An event at the end of the feed is in the stream of every viewer.
LEMMA LastInStream ==
  ASSUME CommentaryInv, LiveTypeOK, PageInv, NEW v \in Viewers, NEW e,
         feed' = Append(feed, e), joined'[v] = joined[v]
  PROVE  e \in Stream(v)'
<1>1. joined[v] \in Nat /\ joined[v] <= Len(feed) /\ Len(feed) \in Nat
  BY DEF CommentaryInv, TypeOK, LiveTypeOK, PageInv
<1>2. Len(feed') = Len(feed) + 1 /\ feed'[Len(feed) + 1] = e
  BY DEF CommentaryInv, TypeOK
<1> QED
  BY <1>1, <1>2 DEF Stream

\* A viewer that stays remains complete, whatever the requests do.
LEMMA StaysComplete ==
  ASSUME LiveInv, [Next]_vars, LiveTypeOK', NEW v \in Viewers,
         page[v] # NotYet, page'[v] = page[v], joined'[v] = joined[v]
  PROVE  Complete(v)'
<1>0. CommentaryInv /\ LiveTypeOK /\ PageInv /\ Complete(v) /\ match # NoMatch
  BY DEF LiveInv, SubscriberMissesNothing, PageInv
<1>1. Stream(v) \subseteq Stream(v)'
  BY <1>0, StreamGrows
<1>2. ASSUME NEW q \in comments'
      PROVE  (CommentaryKnown(v, q) \/ CutOff(v, q) \/ CommentaryUnsaid(q))'
  <2>1. CASE q \in comments /\ CommentaryKnown(v, q)
    BY <1>1, <2>1 DEF CommentaryKnown
  <2>2. CASE q \in comments /\ CutOff(v, q)
    <3>1. page[v].comments \subseteq comments
      BY <1>0 DEF PageInv
    <3>2. \A p \in comments : created'[p] = created[p]
      BY <1>0, RowsStay
    <3> QED
      BY <2>2, <3>1, <3>2 DEF CutOff
  <2>3. CASE q \in comments => CommentaryUnsaid(q)
    <3>1. CASE feed' = Append(feed, [type |-> "commentary.created", by |-> q])
      BY <1>0, <3>1, LastInStream DEF CommentaryKnown
    <3> QED
      BY <1>0, <2>3, <3>1, CommentaryUnsaidStep
  <2> QED
    BY <1>0, <2>1, <2>2, <2>3 DEF Complete
<1>3. (StateKnown(v) \/ \E q \in comments : row[q] = match /\ StateUnsaid(q))'
  <2>1. CASE match' # match
    BY <1>0, <2>1, StateChanges
  <2>2. CASE match' = match /\ StateKnown(v)
    BY <1>1, <2>2 DEF StateKnown
  <2>3. ASSUME match' = match, NEW q \in comments, row[q] = match, StateUnsaid(q)
        PROVE  StateKnown(v)' \/ \E p \in comments' : row'[p] = match' /\ StateUnsaid(p)'
    <3>1. q \in comments' /\ row'[q] = row[q]
      BY <1>0, RowsStay
    <3>2. CASE feed' = Append(feed, [type |-> "match.updated", data |-> row[q]])
      <4>1. [type |-> "match.updated", data |-> row[q]] \in Stream(v)'
        BY <1>0, <3>2, LastInStream
      <4> QED
        BY <2>3, <4>1 DEF StateKnown
    <3>3. CASE StateUnsaid(q)'
      BY <2>3, <3>1, <3>3
    <3> QED
      BY <1>0, <2>3, <3>2, <3>3, StateUnsaidStep
  <2> QED
    BY <1>0, <2>1, <2>2, <2>3 DEF Complete
<1> QED
  BY <1>2, <1>3 DEF Complete

\* What is loaded is complete at that moment.
LEMMA LoadComplete ==
  ASSUME LiveInv, NEW v \in Viewers, Load(v)
  PROVE  Complete(v)'
<1>1. PICK raw \in RawLimits :
        page' = [page EXCEPT ![v] =
                   [comments |-> Listing(ParseLimit(raw)), match |-> match,
                    cut |-> Cardinality(comments) > ParseLimit(raw)]]
  BY DEF Load
<1>2. /\ page'[v].comments = Listing(ParseLimit(raw))
      /\ page'[v].match = match
      /\ page'[v].cut = (Cardinality(comments) > ParseLimit(raw))
  BY <1>1 DEF LiveInv, LiveTypeOK
<1>3. UNCHANGED <<comments, created, match>>
  BY DEF Load, vars, dbVars, idVars
<1>4. ASSUME NEW q \in comments, q \notin Listing(ParseLimit(raw))
      PROVE  CutOff(v, q)'
  BY <1>2, <1>3, <1>4, ListingIsCutOff, ParseLimitType DEF CutOff, LiveInv
<1> QED
  BY <1>2, <1>3, <1>4 DEF Complete, CommentaryKnown, StateKnown

LEMMA MissesNothingStep ==
  ASSUME LiveInv, [LiveNext]_liveVars, LiveTypeOK', PageInv'
  PROVE  SubscriberMissesNothing'
<1> SUFFICES ASSUME NEW v \in Viewers, page'[v] # NotYet PROVE Complete(v)'
  BY DEF SubscriberMissesNothing
<1>0. [Next]_vars
  BY StepOfCommentary
<1>1. CASE Load(v)
  BY <1>1, LoadComplete
<1>2. CASE ~Load(v)
  <2>1. page'[v] = page[v] /\ joined'[v] = joined[v]
    <3>1. CASE UNCHANGED viewVars \/ Take
      BY <3>1 DEF viewVars, Take
    <3>2. CASE CrashAll \/ Leave
      BY <3>2 DEF CrashAll, Leave, Forget
    <3>3. ASSUME NEW u \in Viewers, Subscribe(u) PROVE page'[v] = page[v] /\ joined'[v] = joined[v]
      <4>1. cursor[u]["match"] = Feed!Off /\ page' = page
        BY <3>3 DEF Subscribe, Feed!Join
      <4>2. u # v
        BY <4>1 DEF LiveInv, PageInv
      <4> QED
        BY <3>3, <4>1, <4>2 DEF Subscribe, LiveInv, LiveTypeOK
    <3>4. ASSUME NEW u \in Viewers, Deliver(u) PROVE page'[v] = page[v] /\ joined'[v] = joined[v]
      BY <3>4 DEF Deliver
    <3>5. ASSUME NEW u \in Viewers \ {v}, Load(u) PROVE page'[v] = page[v] /\ joined'[v] = joined[v]
      BY <3>5 DEF Load
    <3> QED
      BY <1>2, <3>1, <3>2, <3>3, <3>4, <3>5 DEF LiveNext, liveVars
  <2> QED
    BY <1>0, <2>1, StaysComplete
<1> QED
  BY <1>1, <1>2

LEMMA LiveInitHolds == LiveInit => LiveInv
<1> SUFFICES ASSUME LiveInit PROVE LiveInv
  OBVIOUS
<1>1. CommentaryInv
  BY InitHolds DEF LiveInit
<1>2. LiveTypeOK
  BY <1>1 DEF LiveInit, Init, Feed!Init, Feed!TypeOK, Feed!Off, LiveTypeOK, CommentaryInv, Room
<1>3. PageInv /\ SubscriberMissesNothing
  BY DEF LiveInit, Init, Feed!Init, Room, PageInv, SubscriberMissesNothing
<1> QED
  BY <1>1, <1>2, <1>3 DEF LiveInv

LEMMA LiveInvStep == LiveInv /\ [LiveNext]_liveVars => LiveInv'
<1> SUFFICES ASSUME LiveInv, [LiveNext]_liveVars PROVE LiveInv'
  OBVIOUS
<1>1. CommentaryInv'
  BY StepOfCommentary, InvStep DEF LiveInv
<1>2. LiveTypeOK'
  BY <1>1, LiveTypeStep DEF CommentaryInv
<1> QED
  BY <1>1, <1>2, PageStep, MissesNothingStep DEF LiveInv

LEMMA LiveInvHolds == LiveSpec => []LiveInv
  BY LiveInitHolds, LiveInvStep, PTL DEF LiveSpec

\* Every variable of the composition keeps its type.
THEOREM LiveTypeCorrect == LiveSpec => []LiveTypeOK
<1>1. LiveInv => LiveTypeOK
  BY DEF LiveInv
<1> QED
  BY <1>1, LiveInvHolds, PTL

\* Subscribe first, load second: nothing that is committed and announced is
\* missing from what the viewer loaded and is sent (commentary_service.go:198,
\* broadcasts after commit; commentary_repository.go:26, one SELECT).
THEOREM SubscribersMissNothing == LiveSpec => []SubscriberMissesNothing
<1>1. LiveInv => SubscriberMissesNothing
  BY DEF LiveInv
<1> QED
  BY <1>1, LiveInvHolds, PTL

\* With viewers around, too, no event is a ghost.
THEOREM LiveEventsAreNoGhosts == LiveSpec => []NoGhostEvents
  BY LiveMatchImplementsCommentary, EventsAreNoGhosts
=============================================================================
