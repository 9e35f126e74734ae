# Sports dashboard: a TLA+ verification project

The repository is the Go backend of a realtime sports dashboard: a REST API
over PostgreSQL (matches, commentary, users and sessions, API keys) and a
WebSocket hub that pushes committed events to the subscribers of a match.
This directory holds TLA+ models of its concurrent parts, TLC configurations
that check them on small instances, and proofs that TLAPS checks for all
instances. `PROJECT.json` ties every definition to the lines it models.

    tlc -workers 2 -config MCHub.cfg MCHub      # a run (see "Runs")
    tlapm HubProofs.tla                         # a proof module

## 1. Inventory of the system

| Part | State | Operations | Talks to |
| --- | --- | --- | --- |
| realtime hub (`realtime/hub/hub.go`) | `clients`, `rooms`, five channels, `stop`, `done`; one goroutine | Register, Unregister, Subscribe, Unsubscribe, Broadcast, shutdown | clients by channels; request goroutines by `BroadcastToRoom` |
| WebSocket client (`hub/client.go`, `handlers/websocket_handler.go`) | connection, `send` channel, `rooms`, `closeOnce` | ServeWS, ReadPump, WritePump, Close | hub, peer |
| shutdown (`cmd/server/main.go`) | application context, `Hub.Stop` | SIGTERM, srv.Shutdown, appCancel, cleanup | hub, limiter |
| sessions (`auth/services`, `auth/repositories`) | tables `users`, `refresh_sessions`; row locks | Login, RefreshToken, LogoutCurrentDevice, LogoutAllDevices, VerifyAccessToken | PostgreSQL |
| auth handlers (`auth/handlers`) | the refresh cookie in each browser | Login, RefreshToken, Logout, LogoutAll, each sets or clears the cookie | sessions, browsers |
| commentary (`commentary/services`) | tables `matches`, `commentary`; the match's row lock | CreateCommentary (transaction, then broadcasts), GetCommentaries | PostgreSQL, hub |
| matches (`matches/services`, `matches/repositories`) | table `matches` | CreateMatch, GetMatch, GetMatches (paged) | PostgreSQL |
| API keys (`apikeys/services`) | table `api_keys` | Create, List, Revoke, Verify | PostgreSQL, auth middleware |
| rate limiter (`core/middleware/rate_limit.go`) | visitor map under a mutex, one `rate.Limiter` per address, cleanup goroutine | Middleware, cleanup | every request |
| JWT utilities, other middleware, health, config, database bootstrap, exceptions, sanitizers, schemas, routers, migrations | none that outlives a request | | |

What is hard, and what makes each part correct:

- **Hub.** Up to `2n + 1` goroutines share channels; a full buffer drops a client
  from a room; closing a channel races sends on it. Correct when members are
  open and registered, no event disappears from the middle of a stream, the two
  copies of membership agree, broadcasts never block for ever, lost connections
  are cleaned up, and nothing panics.
- **Sessions.** Transactions of several requests interleave at row locks and may
  fail anywhere. Correct when a family of sessions is a chain with one live end,
  revocation is final, logout-all leaves nothing, and locks never deadlock.
- **Refresh cookie.** A rotation is committed before the browser knows, tabs share
  one cookie, and answers are lost or overtake each other. Correct when the cookie
  never goes back, and holds a used-up token only if its successor got lost.
- **Commentary.** The match row is read, changed in memory and saved whole; the
  broadcasts come after commit. Correct when nothing uncommitted is announced, no
  score is lost, the status does not go back, and what commits is announced; and
  when a viewer that subscribes and then loads the match misses nothing.
- **API keys.** Each call is two statements without a transaction. Correct when a
  revocation that has answered is final although verifications are under way.
- **Rate limiter.** The limiter is used after the lock is released, and a sweep
  evicts visitors. Correct when eviction cannot be observed.
- **Listing.** COUNT and SELECT are separate statements, and every page is a new
  request. Correct when `hasNext` and the pages fit together.

`PROJECT.json` lists all components, also those that are not modelled, and under
`hazards` every place where the code can go wrong in a way a test would hardly
reach.

## 2. Modules

| Module | Models | Used by |
| --- | --- | --- |
| `Hub` | hub, clients, broadcasters, shutdown | `MCHub`, `HubProofs`, `HubFeedProofs` |
| `RoomFeed` | what the hub promises: a gap-free feed per room (abstract) | `Hub!ImplementsFeed` |
| `Sessions` | auth sessions of one user | `RefreshCookie`, `SessionsProofs` |
| `RefreshTokens` | what the sessions promise: tokens that calls issue, exchange and revoke at one instant each (abstract) | `Sessions!ImplementsTokens` |
| `RefreshCookie` | `Sessions` with the browsers' cookies (composition) | `MCSessions`, `RefreshCookieProofs` |
| `Commentary` | one match, its commentary requests and their events | `LiveMatch`, `LiveMatchProofs` |
| `LiveMatch` | `Commentary` with `RoomFeed` and the viewers of the match (composition) | `MCCommentary`, `LiveMatchProofs` |
| `APIKeys` | API keys | `MCAPIKeys`, `APIKeysProofs` |
| `RateLimiter` | IP rate limiter with eviction | `MCRateLimiter`, `RateLimiterProofs` |
| `TokenBucket` | what the limiter promises: a bucket per address, never forgotten (abstract) | `RateLimiter!ImplementsBucket` |
| `MatchList` | paged listing of matches | `MCMatchList`, `MatchListProofs` |

Definitions called "Faulty variant of X" are not part of a specification. Each
states a mistake one could make in the code of X; replacing X by it makes TLC
violate a property, which shows that the property depends on that code.

### Hub

State. `clients`, `members` (`h.rooms[r].clients`) and `subs` (`c.rooms`) are the
hub's maps; `queue` is the `Broadcast` channel and `send[c]` the client's; the
unbuffered channels have no variable, because a rendezvous is one step of both
sides. `phase` and `fanout` are the position of `Hub.Run`, `pc[c]` the position
of a client's handler and then of its ReadPump, which run one after the other;
`writer[c]`, `conn[c]`, `closed[c]` its WritePump, connection and `Close`; `life`
is main. `posted`, `taken`, `last`, `told` are history.

Actions. One per case of a `select`, one per turn of a loop that other goroutines
can observe (`FanOutSend`, `FanOutDrop`, `ShutdownClose`), one per position where
a ReadPump may be overtaken (`CheckStop` and `Push` are the two selects of
`sendEvent`). A send on a closed channel is `FanOutPanic` in the hub and
`PushPanic` in a reader; `Recover` catches it in ServeWS only. A peer may vanish
(`Break`) and a frame may still be read afterwards.

Abstracted: the content of a message is the room and a running number; an invalid
frame, a ping and an unknown type all are "a frame that is answered"; the 60 s
read deadline is "ReadMessage may fail", at any time.

### Sessions and RefreshTokens

One user (users share no row). A session is a row with its family, the token
version of its token, why it was revoked and `replaced_by`. `LockUser`, `LockRow`
and `LockLive` are the statements that take row locks; the rest of a transaction
and its COMMIT are one step, for its writes are invisible before. `Abort` is any
failure. `RefreshReused` writes nothing: the error that reports the reuse makes
gorm roll the transaction back; but before that its UPDATE of the family waits for
rows that others hold, which `LockLive` and `AllLocked` model for it as for a
logout-all. Login reads the version without a lock and
inserts later, where its foreign key makes it wait for a `FOR UPDATE` holder. The
clock is left open: any token or session may turn out to be expired.

`RefreshTokens` has no transactions: each call issues, exchanges or revokes tokens
in one step. The mapping takes as usable the rows that are not revoked, so that rows
of the past, which only keep the history, disappear, and a call that fails or finds
its token revoked is a stutter. `WaitsFor` reads off each position which lock a call
is waiting for.

### RefreshCookie

`jar[b]` is the refresh token in the cookie of browser `b`, `reply[q]` the cookie
that the answer of request `q` under way will set (`NoCookie`: clear), `caller[q]`
the browser it goes to. A call from elsewhere (`None`: another device, or somebody
with a copied cookie) may present any token ever issued. The handlers differ in
what they do to the cookie: a login and a rotation set it, a logout, a reuse and an
unauthorized refresh clear it (`AnswerClear`), any other error leaves it alone
(`AnswerError`), and a cookie that is missing or whose token is refused is cleared
before the tables are looked at (`CookieMissing`, `TokenRefused`). `Deliver` and
`Lose` end an answer in any order; a request slot serves the next call after that.
`elsewhere` is history: the sessions whose token reached no browser. Tokens are
numbered as they are issued, so "older" is "smaller".

### Commentary

`row[q]` is the request's own copy of the match, read under the lock; `match` is
the committed row. `CommitRow` has two outcomes, `Commit` and `CommitUnknown` (the
answer is lost, so the request reports an error and broadcasts nothing). The clock
has three values, the three answers of `GetMatchStatus`. `Crash` ends the process
between any two steps. Scores of different requests are different, so that an
overwritten score can be seen.

### LiveMatch

The room of the match is an instance of `RoomFeed`, which `Hub` implements, with
`posted` read from the length of the feed of `Commentary`. A viewer subscribes,
then loads the match and the listing; a crash of the process ends subscriptions and
loses what the hub had not taken up. `Listing` is the ORDER BY created_at, LIMIT of
`FindByMatchID` and `ParseLimit` the cap of the limit; `cut` notes that the limit
hid rows. `SubscriberMissesNothing` names everything that may excuse a gap: a
request between its commit and its broadcast, one that never broadcasts, and the
limit.

### APIKeys

Each call is a sequence of statements; `op[q].row` is what `VerifyAPIKey` has read
and `NowOf(q)` what `time.Now()` may have answered since. `AnswerLost` is an
UPDATE or INSERT that took effect while the caller gets an error. A key stands
for its hash. `Trim` and the order of trimming and comparing are modelled, since
a property is about them.

### RateLimiter and TokenBucket

`held[q]` is the pointer a request keeps after the unlock; `limiter[ip]` the one
in the map. `age`, `wait` and `phase` are clock differences, counted in units of
time and cut off where larger values make no difference (`TTL + 1`). Two
assumptions, both named in the module: a request is not held for longer than
`visitorTTL` between lookup and `Allow` (`GapAssumption`), and a bucket fills up in
the time an idle visitor is kept (`FullAgainAssumption`, true of the defaults:
10 tokens at 5 per second against 180 s). Under them the map with eviction
implements one bucket per address that is never forgotten.

### MatchList

One client asks for a page and follows `hasNext`; other requests create matches and
store later statuses at any moment, also between COUNT and SELECT. `Orders` are all
orders that ORDER BY allows, so ties may be broken differently in every SELECT.
`late` is history: the rows written since the COUNT of the request under way.
`Wrap` is Go's int arithmetic with a small `IntMax`, and `Skipped` says that gorm
writes no OFFSET that is not positive. `team` sorts by another key in the same
way as `date_asc`, and is left out.

## 3. Runs

| Run | Instance | Checks |
| --- | --- | --- |
| `hub_clients` | 2 clients, 1 room, channels of 1, 2 frames, 1 event | `TypeOK`, `MembersAreServed`, `MemberIsCurrent`, `NoneLeftOpen`, `NoPanicWhileServing`, `LeavesByItself` |
| `hub_rooms` | 1 client, 2 rooms, channels of 2, 3 frames, 2 events per room | `MembershipMirrored`, `EventsInOrder`, `UnsubscribedIsFinal`, `ImplementsFeed` |
| `hub_live` | 1 client that may be lost, 1 frame, 3 events, with fairness | `BroadcastReturns`, `LostClientReleased` |
| `hub_slow` | expected violation | `SlowClientClosed` |
| `hub_shutdown` | expected violation | `ShutdownIsClean` |
| `sessions` | 2 requests of 1 browser or of others, 3 sessions, versions 0 and 1, with fairness | `CookieTypeOK`, `FamiliesAreChains`, `CookieIsUsable`, `NoDeadlock`, `RevokedOnce`, `ImplementsTokens`, `CookieNeverGoesBack`, `CallsEnd` |
| `sessions_reuse` | expected violation | `ReuseRevokesFamily` |
| `commentary` | 2 requests, 1 viewer, limits 1 and 2, with fairness | `LiveTypeOK`, `NoGhostEvents`, `SubscriberMissesNothing`, `OnlyReportedScoresChange`, `StatusGoesForward`, `ListingOnlyGrows`, `CommittedIsAnnounced` |
| `commentary_status` | expected violation | `StatusIsDerived` |
| `api_keys` | 1 key, 2 users, 2 requests, 3 instants | `TypeOK`, `ScopesAreSound`, `UseIsInLife`, `RevokedIsFrozen`, `EndedIsRefused` |
| `rate_limiter` | 2 addresses, 2 requests, burst 3, TTL 3, with fairness | `TypeOK`, `OneLimiterPerAddress`, `ImplementsBucket`, `IdleIsForgotten` |
| `match_list` | 3 rows, 3 start times, limits 1 and 2 | `TypeOK`, `HasNextIsExact`, `WalkMissesAtMostLate`, `WalkIsSorted` |

Why the bounds are enough. Channels of one or two entries overflow at once, so
both outcomes of every non-blocking send occur; two clients suffice because the
hub treats members one by one and a property relates at most two; three frames
allow subscribe, unsubscribe and subscribe again. In `hub_live` three events are
more than a client's channel, the broadcast channel and the hub can hold, so a hub
that waited for a slow client would block the broadcaster. Two requests make every pair of
session operations race, and three sessions hold a family of three, or one of two
beside another login: a cookie can then be two rotations behind, and two answers
to one browser can overtake each other. One logout-all is enough, for a session is
of the version before it or after it. Two commentary requests show every order of
lock, commit and broadcast, and a limit of 1 cuts the listing off between their
rows; viewers do not affect each other. In
the limiter the burst needs exactly the TTL to fill again, the tightest case the
assumption admits. Three rows with limit 1 or 2 give full, partial and empty pages.

`ImplementsTokens`, with `FamiliesAreChains`, implies three properties that have
theorems and no run of their own: `OneLivePerFamily` (a family begins with one token,
and each exchange takes one and gives one), `RefreshIsCurrent` and
`LogoutAllRevokesAll`.

What the four violations show:

- `hub_slow`: README.md:56 says that a client too slow is closed and removed from
  all rooms. `hub.go:90` removes it from the one room and tells it nothing: TLC's
  client is in two rooms, its buffer is full when an event of the first is served,
  and it stays open and in the second.
- `hub_shutdown`: `appCancel()` comes before `Hub.Stop`, so `Hub.Run` closes the
  `send` channels while readers still find `StopCh` open and send on them; the
  panic ends the process.
- `sessions_reuse`: the reuse of a refresh token is reported and nothing is revoked,
  since the error rolls back the transaction that revoked the family. The test of
  this case uses a fake transaction manager that rolls nothing back.
- `commentary_status`: the status is stored and stays until somebody comments.

COUNT and SELECT are not atomic, so `HasNextIsExact` and `WalkMissesAtMostLate` say
how far they may be apart: `late` counts the rows written between the two, and
neither is `hasNext` off nor are matches missed by more. The bound is reached: a match
created there can push the one match to a second page that `hasNext` denies. In the
earlier requests of a walk such writes do no harm. Three conditions are left. Where two
rows have equal keys a walk may miss and repeat any of them, which no property
bounds (`NoTies`); a walk that filters or sorts by status loses its footing when
a status changes (`stable`); and `hasNext` says nothing of a page whose offset is
beyond an int (`InRange`), for which gorm answers the first rows.

### Fairness

`hub_live`: a goroutine that can run does (weak fairness); a case of `Hub.Run`'s
select that is ready again and again is chosen (strong fairness: Go chooses
uniformly among the ready cases), and a sender blocked on a full channel is queued
first come, first served. A pump is only assumed to notice an error once its
connection is no longer open, which its read and write deadlines ensure; nothing
makes a peer read or send, and nothing makes the operator stop the server.
`sessions` and `commentary`: a request that holds no lock gets one that is released
again and again, as PostgreSQL queues waiters; statements answer or time out.
`rate_limiter`: time passes, the cleanup goroutine and the requests run. No fairness
makes a client call anything. `Abort`, `Crash` and `Break` are never fair.

## 4. Proofs

Eight modules hold proofs. They are for all values of the constants (any sets of
clients, rooms, producers, requests, browsers, viewers, addresses and keys, any
capacities, limits and bounds), from the named assumptions of the module proved
about only:

| Theorem | Property |
| --- | --- |
| `TypeCorrect` | `Hub!TypeOK`, with the capacities of the channels |
| `MembersAreAlwaysServed` | `MembersAreServed` |
| `MembershipIsMirrored` | `MembershipMirrored` |
| `UnsubscribedForGood` | `UnsubscribedIsFinal` |
| `NeverPanicsWhileServing` | `NoPanicWhileServing` |
| `ClientsLeaveByThemselves` | `LeavesByItself` |
| `ShutdownClosesAll` | `NoneLeftOpen` |
| `MembersMissNothing` | `MemberIsCurrent` |
| `EventsStayInOrder` | `EventsInOrder` |
| `HubImplementsFeed` | `ImplementsFeed`: `Spec => Feed!Spec` |
| `SessionsTypeCorrect` | `Sessions!TypeOK` |
| `FamilyHasOneLiveSession` | `OneLivePerFamily` |
| `RotationFormsChains` | `FamiliesAreChains` |
| `RevocationIsWrittenOnce` | `RevokedOnce` |
| `RefreshedSessionsAreCurrent` | `RefreshIsCurrent` |
| `LogoutAllLeavesNoneLive` | `LogoutAllRevokesAll` |
| `NoCircleOfWaiters` | `NoDeadlock` |
| `SessionsImplementTokens` | `ImplementsTokens`: `Spec => Tokens!Spec` |
| `CookieImplementsSessions` | `CookieSpec => Spec`: the eight theorems above hold with cookies too |
| `CookieTypeCorrect` | `CookieTypeOK` |
| `CookiesAreUsable` | `CookieIsUsable` |
| `CookiesNeverGoBack` | `CookieNeverGoesBack` |
| `CommentaryTypeCorrect` | `Commentary!TypeOK` |
| `EventsAreNoGhosts` | `NoGhostEvents` |
| `NoUpdateIsLost` | `OnlyReportedScoresChange` |
| `StatusNeverGoesBack` | `StatusGoesForward` |
| `ListingsAreStable` | `ListingOnlyGrows` |
| `LiveMatchImplementsCommentary` | `LiveSpec => Spec`: the theorems of `Commentary` hold with viewers too |
| `LiveTypeCorrect` | `LiveTypeOK` |
| `SubscribersMissNothing` | `SubscriberMissesNothing` |
| `LiveEventsAreNoGhosts` | `NoGhostEvents` under `LiveSpec` |
| `LimiterTypeCorrect` | `RateLimiter!TypeOK` |
| `AddressHasOneLimiter` | `OneLimiterPerAddress` |
| `LimiterImplementsBucket` | `ImplementsBucket`: `Spec => Promise!Spec` |
| `KeysTypeCorrect` | `APIKeys!TypeOK` |
| `GrantsAreSound` | `ScopesAreSound` |
| `KeysAreUsedInLife` | `UseIsInLife` |
| `RevokedKeysAreFrozen` | `RevokedIsFrozen` |
| `EndedKeysAreRefused` | `EndedIsRefused` |
| `ListTypeCorrect` | `MatchList!TypeOK` |
| `HasNextHolds` | `HasNextIsExact` |
| `WalksMissAtMostLate` | `WalkMissesAtMostLate` |
| `WalksAreSorted` | `WalkIsSorted` |

Argument for the hub. `TypeOK` is inductive. That members are served is not: a
member could be unregistered by an Unregister that is still to come, or subscribe
after it. `OrderInv` adds `RegisteredInOrder`, which says that until Stop the hub
holds exactly the clients whose goroutine stands between RegisterClient and
UnregisterClient, and that the loop's remaining clients are members of its room.
From it a closed client is in no room, so no send of the hub can panic.
`FeedInv` adds what is in flight: the `Broadcast` channel holds exactly the
events posted and not taken up, in order, and a client's channel nothing newer
than what it was given. With it every step of the hub is a step of `RoomFeed` or
a stutter, under the mapping that reads a member's cursor from `last`. `KnownOrClosed` is about the
shutdown: a connection past RegisterClient is in `h.clients` until it is closed, so
the loop of `shutdown` reaches all that are open.

Argument for the sessions. `SessionInv` has three parts. `LockInv` says what a
request at each position holds, and that what it has read under a lock is still
true: the reason why `FOR UPDATE` is there. The model also shows that the two locks
of a refresh protect it twice from a logout-all, which waits for either. `RoomInv` says that the bounds leave
room for the rows of calls under way. `TableInv` adds to the two properties that
the family of a session is the id of its first row and that `replaced_by` points
forward, to rows of the same family, from rotated rows only. `NoDeadlock` needs
`LockInv` only: what revokes several rows holds the user row, so there is one such
call, and it waits for calls that wait for nothing; a call waiting for a session row
waits for one that has all it asked for first, and whoever waits for the user row
waits for one of those. For the refinement `LoginInv` adds that a login inserts a
version that has been.

Argument for the cookie. `CookieInv` follows every token. `PlaceInv`: it is in at
most one place, an answer under way, a cookie, or elsewhere. `TokenInv`: what a
browser's refresh presents, no answer and no other cookie will bring. `NewestInv`:
only the newest session of a family is not rotated. `LaterInv` is the core: what
follows a token that is elsewhere or still under way is elsewhere, because a token
has to be in a cookie before that browser can exchange it. So when an answer
arrives, the cookie cannot already hold a later token of its family
(`CookiesNeverGoBack`), and a used-up cookie has a successor that is under way to
that same browser or elsewhere (`UsableInv`, hence `CookiesAreUsable`).

Argument for the commentary. `CopyInv` says that the copy of a request that holds
the lock is the committed row, so a commit writes its own scores over the ones just
read; `PublishInv` that what is announced is committed; `StampInv` that a row is
stamped after those that are visible. `LiveInv` adds that a viewer's page shows
rows that exist; with it each step keeps what a viewer misses within the excuses of
`SubscriberMissesNothing`.

Argument for the limiter. `WaitInv`: a request looked its visitor up no earlier
than the visitor was last seen, so `GapAssumption` keeps the visitor of a held
limiter in the map. `FullInv`: what a bucket lacks, the time left to its expiry
refills, so an expired visitor's bucket is full and forgetting it is a stutter of
`TokenBucket`.

Argument for the API keys. No call holds a lock, so `KeysInv` says which reads
cannot become stale: a row is never deleted, and no statement writes its owner,
scopes, expiry and creation. The rest is decided by the WHERE clauses of the two
UPDATEs.

Argument for the listing. The orders of ORDER BY are linear orders of a finite set,
so a row's place is the number of rows before it (`PlaceInOrder`), and a SELECT
returns the rows whose place is in the page (`SelectGives`); where no keys are equal
there is one such order, and creating matches keeps it (`OrderIsKept`).
`WalkInv` follows a client through its pages. `PageInv`: the meta of an answer are
those of a COUNT, no larger than the table and apart from it by `late` at most
(`WriteCounts`), and the offset of a page within it does not overflow, so
`page < TotalPages` says whether rows are left (`PagesFit`). `DueInv`:
a row that the client is still due has at least as many rows before it as the walk has
passed; a match created meanwhile only pushes it further back, so it will be met. The
matches that the last answer leaves due stand behind all that its COUNT counted, each in
a place of its own, so there are `late` at most (`MissedAreLate`).
`GivenInv`: what was given stands before what comes next.
`RowsAssumption` says that the number of rows fits into an `int`, which COUNT returns.

Only model-checked: all liveness (`BroadcastReturns`, `LostClientReleased`,
`CallsEnd`, `CommittedIsAnnounced`, `IdleIsForgotten`), since fairness and ENABLED
are beyond the prover. Every invariant, action property and refinement that a passing
run checks is also proved. Of `CallsEnd`, `NoDeadlock` is the part that is a matter of safety.

## 5. Not modelled

JWT signing, hashing, sanitizers and validators, the error envelope, CORS, body
limit and logging (functions of one request, with unit tests); health checks and
configuration; opening the database and migrations; the draining of HTTP requests
in `srv.Shutdown`; the listing of API keys (one SELECT). The expiry of a cookie in
the browser is a `TokenRefused` whose answer clears it. `RoomFeed` stands for the
hub in `LiveMatch`: what a client loses when its buffer overflows is that it leaves
the room, and its viewer starts again. `Load` reads the match and the listing at
one instant, although they are two requests: no property relates the two answers.
The memory model is sequential consistency: the hub's maps are used by one
goroutine, the visitor map under its mutex, and the rest goes through channels.

## 6. Plan

Done: `Hub` with `RoomFeed`; `Sessions` with `RefreshTokens`, and `RefreshCookie`;
`Commentary` and `LiveMatch`; `APIKeys`; `RateLimiter` with `TokenBucket`; and
`MatchList`, each with its proofs. What could follow:

1. `Hub`: what of the buffered events a complete shutdown still delivers, and
   `ShutdownIsClean` for the order Stop before appCancel.
2. `RefreshCookie`: what a logout that overtakes a refresh of the same browser
   leaves behind. The logout finds the token rotated, changes no row and clears the
   cookie, and the answer of the refresh may set it again.
3. `TokenBucket`: the number of requests of one address that pass in any stretch of
   time, as a bound of burst and rate.
