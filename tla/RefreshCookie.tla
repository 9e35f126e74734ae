---------------------------- MODULE RefreshCookie ----------------------------
(***************************************************************************)
(* The refresh sessions of Sessions.tla as browsers use them               *)
(* (auth_handler.go): the refresh token lives in a cookie that all requests*)
(* of a browser share, and every answer may set or clear it.  Answers reach*)
(* the browser in any order, or never.                                     *)
(*                                                                         *)
(* Requests of nobody's browser present any token that was ever issued: a  *)
(* copied cookie, or another device of the user.                           *)
(***************************************************************************)
EXTENDS Sessions

CONSTANT Browsers

ASSUME BrowsersAssumption == None \notin Browsers

VARIABLES
  jar,       \* jar[b]: session of the refresh token in b's cookie, or NoCookie
  caller,    \* caller[q]: the browser that q serves, or None
  reply,     \* reply[q]: the cookie that q's answer under way sets, or NoAnswer
  elsewhere  \* history: sessions whose token reached no browser

cookieVars == <<jar, caller, reply, elsewhere>>
allVars == <<vars, cookieVars>>

NoCookie == 0   \* in an answer: the cookie is cleared
NoAnswer == -1

CookieInit == /\ Init
              /\ jar = [b \in Browsers |-> NoCookie]
              /\ caller = [q \in Requests |-> None]
              /\ reply = [q \in Requests |-> NoAnswer]
              /\ elsewhere = {}

-----------------------------------------------------------------------------
(* Calls.                                                                  *)

\* q serves c, a browser or somebody else, and answers no one else yet.
From(q, c) == /\ pc[q] = "idle" /\ reply[q] = NoAnswer
              /\ caller' = [caller EXCEPT ![q] = c]
              /\ UNCHANGED <<jar, elsewhere>>

Unanswered == UNCHANGED reply

CallLogin(q, c) == From(q, c) /\ Unanswered /\ LoginRead(q)

CallLogoutAll(q, c) ==
  From(q, c) /\ Unanswered /\ \E v \in access : LogoutAllBegin(q, v)

\* The refresh token that c can present.
Presents(c, s) == IF c \in Browsers THEN s = jar[c] /\ s # NoCookie ELSE s \in Known

CallRefresh(q, c) ==
  From(q, c) /\ Unanswered /\ \E s \in Known : Presents(c, s) /\ RefreshBegin(q, s)

CallLogout(q, c) ==
  From(q, c) /\ Unanswered /\ \E s \in Known : Presents(c, s) /\ LogoutBegin(q, s)

\* Refresh and logout clear the cookie without looking at the tables...
ClearAtOnce(q, b) == /\ From(q, b)
                     /\ reply' = [reply EXCEPT ![q] = NoCookie]
                     /\ UNCHANGED vars

\* ... when there is none, ...
CookieMissing(q, b) == jar[b] = NoCookie /\ ClearAtOnce(q, b)

\* ... or when parseAndVerifyToken refuses the token in it.  The clock is left
\* open: any refresh token, and the cookie with it, may have expired.
TokenRefused(q, b) == jar[b] # NoCookie /\ ClearAtOnce(q, b)

-----------------------------------------------------------------------------
(* Answers.                                                                *)

\* Faulty variant of Answered: a refresh does not set the new cookie.
AnsweredLoginOnly(q, cookie) ==
  /\ reply' = IF caller[q] \in Browsers
              THEN [reply EXCEPT ![q] = IF op[q].kind = "refresh" THEN NoCookie ELSE cookie]
              ELSE reply
  /\ elsewhere' = IF caller[q] \in Browsers THEN elsewhere
                  ELSE elsewhere \cup ({cookie} \ {NoCookie})
  /\ UNCHANGED <<jar, caller>>

\* setRefreshCookie and clearRefreshCookie: the header of q's answer.
Answered(q, cookie) ==
  /\ reply' = IF caller[q] \in Browsers THEN [reply EXCEPT ![q] = cookie] ELSE reply
  /\ elsewhere' = IF caller[q] \in Browsers THEN elsewhere
                  ELSE elsewhere \cup ({cookie} \ {NoCookie})
  /\ UNCHANGED <<jar, caller>>

\* An answer that leaves the cookie alone.
AnsweredOnly(q) == /\ caller' = [caller EXCEPT ![q] = None]
                   /\ UNCHANGED <<jar, reply, elsewhere>>

\* A login or a refresh that succeeds sets the cookie to the new token.
AnswerSet(q) == (LoginInsert(q) \/ Rotate(q)) /\ Answered(q, Len(sessions'))

\* IsAuthorizationError: a refresh that fails as unauthorized or as a reuse
\* clears the cookie, and so does a logout that succeeds.
AnswerClear(q) == /\ RefreshReused(q) \/ RefreshStale(q) \/ Logout(q) \/ LogoutAll(q)
                  /\ Answered(q, NoCookie)

\* Any other error is reported without a Set-Cookie header.
AnswerError(q) == Abort(q) /\ AnsweredOnly(q)

Work(q) == (LockUser(q) \/ LockRow(q) \/ LockLive(q)) /\ UNCHANGED cookieVars

\* The answer is over, whether the browser got it or not.
Over(q) == /\ reply[q] # NoAnswer
           /\ reply' = [reply EXCEPT ![q] = NoAnswer]
           /\ caller' = [caller EXCEPT ![q] = None]
           /\ UNCHANGED vars

Deliver(q) == /\ Over(q)
              /\ jar' = [jar EXCEPT ![caller[q]] = reply[q]]
              /\ UNCHANGED elsewhere

Lose(q) == /\ Over(q)
           /\ elsewhere' = elsewhere \cup ({reply[q]} \ {NoCookie})
           /\ UNCHANGED jar

-----------------------------------------------------------------------------
Call(q, c) == CallLogin(q, c) \/ CallLogoutAll(q, c) \/ CallRefresh(q, c) \/ CallLogout(q, c)

CookieNext == \E q \in Requests :
  \/ Work(q) \/ AnswerSet(q) \/ AnswerClear(q) \/ AnswerError(q)
  \/ Deliver(q) \/ Lose(q)
  \/ \E c \in Browsers \cup {None} : Call(q, c)
  \/ \E b \in Browsers : CookieMissing(q, b) \/ TokenRefused(q, b)

CookieSpec == CookieInit /\ [][CookieNext]_allVars

\* The fairness of Sessions; nothing makes a browser call, or an answer arrive.
CookieFairSpec == CookieSpec /\ \A q \in Requests : SF_vars(Progress(q))

-----------------------------------------------------------------------------
(* Properties.                                                             *)

\* Every variable has its type, and an answer under way is a browser's and of
\* a request that has ended.
CookieTypeOK ==
  /\ TypeOK
  /\ jar \in [Browsers -> Known \cup {NoCookie}]
  /\ caller \in [Requests -> Browsers \cup {None}]
  /\ reply \in [Requests -> Known \cup {NoCookie, NoAnswer}]
  /\ elsewhere \in SUBSET Known
  /\ \A q \in Requests : reply[q] # NoAnswer => caller[q] \in Browsers /\ pc[q] = "idle"

\* A browser never keeps a refresh token that is used up, which its next
\* refresh would report as theft, unless the answer with the new token is on
\* its way, was lost, or went to somebody else who had the token.
CookieIsUsable ==
  \A b \in Browsers :
    jar[b] # NoCookie /\ sessions[jar[b]].state = "rotated" =>
      LET new == sessions[jar[b]].next
      IN  new \in elsewhere \/ \E q \in Requests : reply[q] = new

StaysOrGoesOn(b) ==
  /\ jar[b] # NoCookie /\ jar'[b] # NoCookie
  /\ sessions[jar[b]].family = sessions'[jar'[b]].family
  => jar'[b] >= jar[b]

\* Answers that overtake each other never put a browser back to an older
\* session of the same family, for a token is exchanged only once.
CookieNeverGoesBack == [][\A b \in Browsers : StaysOrGoesOn(b)]_allVars

\* .ai-context/docs/domain-rules.md, "Reusing a revoked refresh token is
\* treated as token theft: revoke every session in the same familyId": once a
\* browser is told that the token it presented, one of the current version, was
\* revoked, no session of its family is live.
ReuseRevokesFamily ==
  [][\A q \in Requests :
       Deciding(q, "refresh") /\ Reused(q) /\ Current(q) /\ reply'[q] = NoCookie
       => \A s \in Known : sessions[s].family = sessions[op[q].token].family
                           => sessions'[s].state # Live]_allVars
-----------------------------------------------------------------------------
(* The inductive invariant behind the theorems of RefreshCookieProofs.tla. *)

SameFamily(s, t) == sessions[s].family = sessions[t].family

\* A token is in one place: an answer under way, a cookie, or elsewhere.
PlaceInv ==
  /\ \A q, r \in Requests : reply[q] \in Known /\ reply[q] = reply[r] => q = r
  /\ \A b, c \in Browsers : jar[b] \in Known /\ jar[b] = jar[c] => b = c
  /\ \A q \in Requests, b \in Browsers : reply[q] \in Known => jar[b] # reply[q]
  /\ \A q \in Requests : reply[q] \notin elsewhere
  /\ \A b \in Browsers : jar[b] \notin elsewhere

\* What a browser's refresh presents, no answer and no other cookie will bring.
TokenInv ==
  \A q \in Requests : op[q].kind = "refresh" /\ caller[q] \in Browsers =>
    /\ op[q].token \notin elsewhere
    /\ \A r \in Requests : reply[r] # op[q].token
    /\ \A b \in Browsers : jar[b] = op[q].token => b = caller[q]

\* Only the newest session of a family is not rotated.
NewestInv == \A s, t \in Known : sessions[s].state # "rotated" /\ SameFamily(s, t) => t <= s

\* What follows a token that is elsewhere, or not delivered yet, is elsewhere.
LaterInv == \A s, t \in Known :
  /\ SameFamily(s, t) /\ t > s
  /\ s \in elsewhere \/ \E q \in Requests : reply[q] = s
  => t \in elsewhere

Rotated(s) == s \in Known /\ sessions[s].state = "rotated"

\* CookieIsUsable, with the browser that the answer under way belongs to.
UsableInv ==
  /\ \A b \in Browsers : Rotated(jar[b]) =>
       \/ sessions[jar[b]].next \in elsewhere
       \/ \E q \in Requests : reply[q] = sessions[jar[b]].next /\ caller[q] = b
  /\ \A q \in Requests : Rotated(reply[q]) => sessions[reply[q]].next \in elsewhere

CookieInv == PlaceInv /\ TokenInv /\ NewestInv /\ LaterInv /\ UsableInv
=============================================================================
