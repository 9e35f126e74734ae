------------------------------ MODULE LiveMatch ------------------------------
(***************************************************************************)
(* One match as its viewers see it: the commentary requests of             *)
(* Commentary.tla hand their events to the room of the match, which behaves*)
(* as RoomFeed.tla says (Hub.tla is shown to implement it), and a viewer   *)
(* subscribes to the room and then loads the match and its commentary over *)
(* HTTP (MatchService.GetMatch, CommentaryService.GetCommentaries).        *)
(*                                                                         *)
(* Hub and requests live in one process: a crash ends the subscriptions    *)
(* and loses the events that the hub has not given out.                    *)
(***************************************************************************)
EXTENDS Commentary, FiniteSets

CONSTANTS Viewers,      \* the subscribed clients
          DefaultLimit, \* limit of a listing that asks for none
          MaxLimit,     \* constants.MaxLimit
          RawLimits,    \* what the query parameter limit may say, 0 for nothing
          NotYet        \* the viewer has loaded nothing since it subscribed

ASSUME LimitsAssumption == /\ RawLimits \subseteq Int
                           /\ DefaultLimit \in Nat /\ MaxLimit \in Nat

VARIABLES
  taken,   \* taken[r]: events of the room the hub has taken up
  cursor,  \* cursor[v][r]: last event of the room v was given, or Off
  joined,  \* history: joined[v]: the event at which v subscribed
  page     \* page[v]: what v has loaded since it subscribed, or NotYet

Page == [comments : SUBSET Requests, match : Match, cut : BOOLEAN]
ASSUME NotYetAssumption == NotYet \notin Page

Room == {"match"}
viewVars == <<taken, cursor, joined, page>>
liveVars == <<vars, viewVars>>

\* The room of the match: its log is feed.
Feed == INSTANCE RoomFeed WITH Clients <- Viewers, Rooms <- Room,
                               posted <- [r \in Room |-> Len(feed)]

LiveInit == /\ Init
            /\ Feed!Init
            /\ joined = [v \in Viewers |-> 0]
            /\ page = [v \in Viewers |-> NotYet]

-----------------------------------------------------------------------------
(* Reading over HTTP.                                                      *)

\* helpers.ParseLimit
ParseLimit(raw) == IF raw <= 0 THEN DefaultLimit
                   ELSE IF raw > MaxLimit THEN MaxLimit ELSE raw

Earlier(q) == {p \in comments : created[p] < created[q]}

\* FindByMatchID: the oldest rows, ORDER BY created_at ASC LIMIT limit.
Listing(limit) == {q \in comments : Cardinality(Earlier(q)) < limit}

\* GetMatch and GetCommentaries find nothing of a match that does not exist.
\* They are two requests; no property relates their answers, so one instant
\* stands for both.
Load(v) ==
  /\ cursor[v]["match"] # Feed!Off /\ page[v] = NotYet
  /\ match # NoMatch
  /\ \E raw \in RawLimits :
       page' = [page EXCEPT ![v] =
                  [comments |-> Listing(ParseLimit(raw)), match |-> match,
                   cut |-> Cardinality(comments) > ParseLimit(raw)]]
  /\ UNCHANGED <<vars, taken, cursor, joined>>

-----------------------------------------------------------------------------
(* The room of the match.                                                  *)

Take == UNCHANGED <<vars, joined, page>> /\ Feed!Take("match")

Deliver(v) == UNCHANGED <<vars, joined, page>> /\ Feed!Deliver(v, "match")

Subscribe(v) == /\ UNCHANGED <<vars, page>>
                /\ Feed!Join(v, "match")
                /\ joined' = [joined EXCEPT ![v] = taken["match"]]

\* A viewer that has left starts again: it has to subscribe and to load.
Forget == /\ joined' = [v \in Viewers |-> IF cursor'[v]["match"] = Feed!Off THEN 0
                                          ELSE joined[v]]
          /\ page' = [v \in Viewers |-> IF cursor'[v]["match"] = Feed!Off THEN NotYet
                                        ELSE page[v]]

Leave == UNCHANGED vars /\ Feed!Leave /\ Forget

\* The process ends: no viewer is subscribed to the one started next, and the
\* events still in the hub's channel are gone.
CrashAll == /\ Crash
            /\ cursor' = [v \in Viewers |-> [r \in Room |-> Feed!Off]]
            /\ taken' = [r \in Room |-> Len(feed)]
            /\ Forget

LiveNext == \/ Serve /\ UNCHANGED viewVars
            \/ CrashAll \/ Take \/ Leave
            \/ \E v \in Viewers : Subscribe(v) \/ Deliver(v) \/ Load(v)

LiveSpec == LiveInit /\ [][LiveNext]_liveVars

\* The fairness of Commentary; nothing makes a viewer do anything.
LiveFairSpec == LiveSpec /\ \A q \in Requests : SF_vars(Request(q))

-----------------------------------------------------------------------------
(* Properties.                                                             *)

\* Every variable has its type, and a viewer that has loaded is subscribed.
LiveTypeOK ==
  /\ TypeOK
  /\ Feed!TypeOK
  /\ joined \in [Viewers -> Nat]
  /\ page \in [Viewers -> Page \cup {NotYet}]

\* The events v is given from its subscription on.
Stream(v) == {feed[i] : i \in joined[v] + 1 .. Len(feed)}

\* A request whose commentary is committed and that has not announced it yet,
\* or never will; and the same for the state of the match it has written.
CommentaryUnsaid(q) == pc[q] = "created" \/ q \in lost
StateUnsaid(q) == changed[q] /\ (pc[q] \in {"created", "updated"} \/ q \in lost)

\* The listing was cut off before q's row.
CutOff(v, q) == page[v].cut /\ \A p \in page[v].comments : created[p] < created[q]

CommentaryKnown(v, q) == \/ q \in page[v].comments
                         \/ [type |-> "commentary.created", by |-> q] \in Stream(v)

StateKnown(v) == \/ match = page[v].match
                 \/ [type |-> "match.updated", data |-> match] \in Stream(v)

Complete(v) ==
  /\ \A q \in comments : CommentaryKnown(v, q) \/ CutOff(v, q) \/ CommentaryUnsaid(q)
  /\ StateKnown(v) \/ \E q \in comments : row[q] = match /\ StateUnsaid(q)

\* A viewer that subscribes first and loads second misses nothing while it
\* stays: every commentary is in what it loaded, cut off by the limit of the
\* listing, or in its stream; and so is the present state of the match, though
\* not always as the last update of the stream.  What is missing from all of
\* them belongs to a request that has not broadcast.
SubscriberMissesNothing == \A v \in Viewers : page[v] # NotYet => Complete(v)

-----------------------------------------------------------------------------
(* The inductive invariant behind the theorems of LiveMatchProofs.tla.     *)

\* A viewer that has loaded is subscribed, and shows rows that exist.
PageInv ==
  \A v \in Viewers :
    /\ joined[v] <= Len(feed)
    /\ taken["match"] <= Len(feed)
    /\ page[v] # NotYet => /\ cursor[v]["match"] # Feed!Off
                           /\ match # NoMatch
                           /\ page[v].comments \subseteq comments

LiveInv == CommentaryInv /\ LiveTypeOK /\ PageInv /\ SubscriberMissesNothing
=============================================================================
