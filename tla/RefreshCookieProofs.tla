------------------------- MODULE RefreshCookieProofs -------------------------
(***************************************************************************)
(* Theorems about the refresh cookie, for any number of browsers, requests *)
(* and sessions.  RefreshCookie implements Sessions, so the theorems of    *)
(* SessionsProofs.tla hold of it; what it adds is where the tokens are.    *)
(***************************************************************************)
EXTENDS RefreshCookie, SessionsProofs

IInv == TypeOK /\ SessionInv /\ CookieTypeOK /\ CookieInv

-----------------------------------------------------------------------------
(* Refinement of Sessions.                                                 *)

LEMMA CookieStepIsStep ==
  ASSUME [CookieNext]_allVars
  PROVE  [Next]_vars
<1>1. CASE UNCHANGED allVars  BY <1>1 DEF allVars
<1>2. ASSUME NEW q \in Requests, Work(q) \/ AnswerSet(q) \/ AnswerClear(q) \/ AnswerError(q)
      PROVE  Next
  BY <1>2 DEF Work, AnswerSet, AnswerClear, AnswerError, Next, Progress
<1>3. ASSUME NEW q \in Requests, NEW c \in Browsers \cup {None}, Call(q, c)
      PROVE  Next
  BY <1>3 DEF Call, CallLogin, CallLogoutAll, CallRefresh, CallLogout, Next
<1>4. ASSUME NEW q \in Requests, Deliver(q) \/ Lose(q) PROVE UNCHANGED vars
  BY <1>4 DEF Deliver, Lose, Over
<1>5. ASSUME NEW q \in Requests, NEW b \in Browsers, CookieMissing(q, b) \/ TokenRefused(q, b)
      PROVE  UNCHANGED vars
  BY <1>5 DEF CookieMissing, TokenRefused, ClearAtOnce
<1> QED  BY <1>1, <1>2, <1>3, <1>4, <1>5 DEF CookieNext

\* Whatever browsers do with their cookies, the tables see calls of Sessions.
THEOREM CookieImplementsSessions == CookieSpec => Spec
<1>1. CookieInit => Init  BY DEF CookieInit
<1> QED  BY <1>1, CookieStepIsStep, PTL DEF CookieSpec, Spec

-----------------------------------------------------------------------------
(* Steps of the tables.                                                    *)

\* The chains of the families stay as they are.
KeepsChains ==
  /\ Known' = Known
  /\ \A s \in Known : /\ sessions'[s].family = sessions[s].family
                      /\ sessions'[s].next = sessions[s].next
                      /\ sessions'[s].state = "rotated" <=> sessions[s].state = "rotated"

LEMMA SameTables ==
  ASSUME UNCHANGED sessions
  PROVE  KeepsChains
BY DEF KeepsChains, Known

LEMMA RevokedRow ==
  ASSUME NEW x \in Session, x.state = Live, NEW st \in {"logout", "all"},
         NEW y, y = [x EXCEPT !.state = st]
  PROVE  y.family = x.family /\ y.next = x.next /\ y.state # "rotated" /\ x.state # "rotated"
<1>1. x = [family |-> x.family, version |-> x.version, state |-> x.state, next |-> x.next]
  BY DEF Session
<1>2. y = [family |-> x.family, version |-> x.version, state |-> st, next |-> x.next]
  BY <1>1
<1> QED  BY <1>2 DEF Live

LEMMA LogoutKeepsChains ==
  ASSUME TypeOK, SessionInv, NEW q \in Requests, Logout(q) \/ LogoutAll(q)
  PROVE  KeepsChains
<1>1. sessions' \in Seq(Session) /\ Len(sessions') = Len(sessions)
  BY LogoutRows, LogoutAllRows
<1>2. Known' = Known  BY <1>1, Rows, RowsNext
<1>3. ASSUME NEW s \in Known
      PROVE  \/ sessions'[s] = sessions[s]
             \/ /\ sessions[s].state = Live
                /\ \E st \in {"logout", "all"} : sessions'[s] = [sessions[s] EXCEPT !.state = st]
  <2>1. CASE Logout(q)  BY <2>1, LogoutRows
  <2>2. CASE LogoutAll(q)  BY <2>2, LogoutAllRows
  <2> QED  BY <2>1, <2>2
<1>4. ASSUME NEW s \in Known
      PROVE  /\ sessions'[s].family = sessions[s].family
             /\ sessions'[s].next = sessions[s].next
             /\ sessions'[s].state = "rotated" <=> sessions[s].state = "rotated"
  <2>1. CASE sessions'[s] = sessions[s]  BY <2>1
  <2>2. ASSUME sessions[s].state = Live, NEW st \in {"logout", "all"},
               sessions'[s] = [sessions[s] EXCEPT !.state = st]
        PROVE  /\ sessions'[s].family = sessions[s].family
               /\ sessions'[s].next = sessions[s].next
               /\ sessions'[s].state # "rotated" /\ sessions[s].state # "rotated"
    <3>1. sessions[s] \in Session  BY Rows
    <3> QED  BY <2>2, <3>1, RevokedRow
  <2> QED  BY <1>3, <2>1, <2>2
<1> QED  BY <1>2, <1>4 DEF KeepsChains

\* A new row, at the end of the table.
NewRow(n) == /\ n = Len(sessions) + 1 /\ n \in Nat /\ n \notin Known
             /\ Known' = Known \cup {n}
             /\ \A s \in Known : s \in Nat /\ s < n

LEMMA InsertIsNewRow ==
  ASSUME TypeOK, sessions' \in Seq(Session), Len(sessions') = Len(sessions) + 1
  PROVE  NewRow(Len(sessions')) /\ Len(sessions') # NoCookie
BY Rows, RowsNext DEF NewRow, NoCookie

-----------------------------------------------------------------------------
(* A step that moves no token: the calls, the statements of the tables,    *)
(* and the answers that clear the cookie or leave it alone.                *)

\* The other requests stand where they stood.
OthersStay(q) == \A r \in Requests \ {q} : /\ op'[r] = op[r] /\ pc'[r] = pc[r]
                                           /\ caller'[r] = caller[r] /\ reply'[r] = reply[r]

\* A browser's refresh presents what its cookie holds, or what it held before.
OwnToken(q) ==
  op'[q].kind = "refresh" /\ caller'[q] \in Browsers =>
    \/ op'[q].token = jar[caller'[q]] /\ op'[q].token \in Known
    \/ caller'[q] = caller[q] /\ op[q].kind = "refresh" /\ op'[q].token = op[q].token

LEMMA NoToken == ASSUME TypeOK PROVE NoCookie \notin Known /\ NoAnswer \notin Known
BY Rows DEF NoCookie, NoAnswer

LEMMA QuietStep ==
  ASSUME TypeOK, SessionInv, CookieTypeOK, CookieInv, KeepsChains, NEW q \in Requests,
         reply[q] = NoAnswer, reply'[q] \in {NoCookie, NoAnswer},
         UNCHANGED <<jar, elsewhere>>, OthersStay(q), OwnToken(q)
  PROVE  CookieInv'
<1>0. /\ NoCookie \notin Known /\ NoAnswer \notin Known /\ Known' = Known
      /\ elsewhere \subseteq Known
  BY NoToken DEF KeepsChains, CookieTypeOK
<1>1. \A r \in Requests : \/ reply'[r] \notin Known
                          \/ r # q /\ reply'[r] = reply[r] /\ caller'[r] = caller[r]
  BY <1>0 DEF OthersStay
<1>2. \A r \in Requests : reply[r] \in Known => r # q /\ reply'[r] = reply[r] /\ caller'[r] = caller[r]
  BY <1>0 DEF OthersStay
<1>3. PlaceInv'
  <2>1. (\A r, s \in Requests : reply[r] \in Known /\ reply[r] = reply[s] => r = s)'
    BY <1>0, <1>1 DEF CookieInv, PlaceInv
  <2>2. (\A b, c \in Browsers : jar[b] \in Known /\ jar[b] = jar[c] => b = c)'
    BY <1>0 DEF CookieInv, PlaceInv
  <2>3. (\A r \in Requests, b \in Browsers : reply[r] \in Known => jar[b] # reply[r])'
    BY <1>0, <1>1 DEF CookieInv, PlaceInv
  <2>4. (\A r \in Requests : reply[r] \notin elsewhere)'
    BY <1>0, <1>1 DEF CookieInv, PlaceInv
  <2>5. (\A b \in Browsers : jar[b] \notin elsewhere)'
    BY DEF CookieInv, PlaceInv
  <2> QED  BY <2>1, <2>2, <2>3, <2>4, <2>5 DEF PlaceInv
<1>4. TokenInv'
  <2> SUFFICES ASSUME NEW r \in Requests, op'[r].kind = "refresh", caller'[r] \in Browsers
               PROVE  /\ op'[r].token \notin elsewhere
                      /\ \A x \in Requests : reply'[x] # op'[r].token
                      /\ \A b \in Browsers : jar[b] = op'[r].token => b = caller'[r]
    BY DEF TokenInv
  <2>1. CASE r = q /\ op'[q].token = jar[caller'[q]] /\ op'[q].token \in Known
    BY <1>0, <1>1, <2>1 DEF CookieInv, PlaceInv
  <2>2. CASE caller'[r] = caller[r] /\ op[r].kind = "refresh" /\ op'[r].token = op[r].token
    <3>1. op[r].token \in Known
      BY <2>2 DEF SessionInv, LockInv, CallInv
    <3> QED  BY <1>0, <1>1, <2>2, <3>1 DEF CookieInv, TokenInv
  <2> QED  BY <2>1, <2>2 DEF OwnToken, OthersStay
<1>5. NewestInv'
  BY <1>0 DEF CookieInv, NewestInv, SameFamily, KeepsChains
<1>6. LaterInv'
  BY <1>0, <1>1 DEF CookieInv, LaterInv, SameFamily, KeepsChains
<1>7. UsableInv'
  <2>1. ASSUME NEW b \in Browsers, Rotated(jar[b])'
        PROVE  \/ sessions'[jar[b]].next \in elsewhere
               \/ \E r \in Requests : reply'[r] = sessions'[jar[b]].next /\ caller'[r] = b
    <3>1. Rotated(jar[b]) /\ sessions'[jar[b]].next = sessions[jar[b]].next
      BY <2>1 DEF Rotated, KeepsChains
    <3>2. sessions[jar[b]].next \in Known
      BY <3>1 DEF Rotated, SessionInv, TableInv, FamiliesAreChains
    <3> QED  BY <3>1, <3>2, <1>2 DEF CookieInv, UsableInv
  <2>2. ASSUME NEW r \in Requests, Rotated(reply[r])'
        PROVE  sessions'[reply'[r]].next \in elsewhere
    <3>1. reply'[r] = reply[r]  BY <2>2, <1>0, <1>1 DEF Rotated
    <3>2. Rotated(reply[r]) /\ sessions'[reply[r]].next = sessions[reply[r]].next
      BY <2>2, <3>1 DEF Rotated, KeepsChains
    <3> QED  BY <3>1, <3>2 DEF CookieInv, UsableInv
  <2> QED  BY <2>1, <2>2 DEF UsableInv
<1> QED  BY <1>3, <1>4, <1>5, <1>6, <1>7 DEF CookieInv
-----------------------------------------------------------------------------
(* The end of an answer.                                                   *)

LEMMA DeliverStep ==
  ASSUME TypeOK, SessionInv, CookieTypeOK, CookieInv, NEW q \in Requests, Deliver(q)
  PROVE  CookieInv'
<1> DEFINE b0 == caller[q]
           t == reply[q]
<1>0. /\ NoCookie \notin Known /\ NoAnswer \notin Known /\ elsewhere \subseteq Known
      /\ b0 \in Browsers /\ t \in Known \cup {NoCookie}
      /\ op[q].kind = "none"
  <2>1. t # NoAnswer /\ b0 \in Browsers /\ pc[q] = "idle"  BY DEF Deliver, Over, CookieTypeOK
  <2> QED  BY <2>1, NoToken DEF CookieTypeOK, SessionInv, LockInv, CallInv
<1>1. /\ reply' = [reply EXCEPT ![q] = NoAnswer] /\ caller' = [caller EXCEPT ![q] = None]
      /\ jar' = [jar EXCEPT ![b0] = t]
      /\ UNCHANGED <<elsewhere, sessions, op, Known>>
  BY DEF Deliver, Over, vars, Known
<1>2. \A r \in Requests : IF r = q THEN reply'[r] \notin Known
                          ELSE reply'[r] = reply[r] /\ caller'[r] = caller[r]
  BY <1>0, <1>1 DEF CookieTypeOK
<1>3. \A b \in Browsers : jar'[b] = IF b = b0 THEN t ELSE jar[b]
  BY <1>1 DEF CookieTypeOK
<1> HIDE DEF b0, t
<1>4. PlaceInv'
  <2>1. (\A r, s \in Requests : reply[r] \in Known /\ reply[r] = reply[s] => r = s)'
    BY <1>1, <1>2 DEF CookieInv, PlaceInv
  <2>2. (\A b, c \in Browsers : jar[b] \in Known /\ jar[b] = jar[c] => b = c)'
    BY <1>0, <1>1, <1>3 DEF CookieInv, PlaceInv, t
  <2>3. (\A r \in Requests, b \in Browsers : reply[r] \in Known => jar[b] # reply[r])'
    BY <1>0, <1>1, <1>2, <1>3 DEF CookieInv, PlaceInv, t
  <2>4. (\A r \in Requests : reply[r] \notin elsewhere)'
    BY <1>0, <1>1, <1>2 DEF CookieInv, PlaceInv
  <2>5. (\A b \in Browsers : jar[b] \notin elsewhere)'
    BY <1>0, <1>1, <1>3 DEF CookieInv, PlaceInv, t
  <2> QED  BY <2>1, <2>2, <2>3, <2>4, <2>5 DEF PlaceInv
<1>5. TokenInv'
  <2> SUFFICES ASSUME NEW r \in Requests, op'[r].kind = "refresh", caller'[r] \in Browsers
               PROVE  /\ op'[r].token \notin elsewhere'
                      /\ \A x \in Requests : reply'[x] # op'[r].token
                      /\ \A b \in Browsers : jar'[b] = op'[r].token => b = caller'[r]
    BY DEF TokenInv
  <2>1. r # q /\ op'[r] = op[r] /\ caller'[r] = caller[r]  BY <1>0, <1>1, <1>2
  <2>2. op[r].token \in Known  BY <2>1 DEF SessionInv, LockInv, CallInv
  <2> QED  BY <2>1, <2>2, <1>0, <1>1, <1>2, <1>3 DEF CookieInv, TokenInv, t
<1>6. NewestInv'
  BY <1>1 DEF CookieInv, NewestInv, SameFamily
<1>7. LaterInv'
  BY <1>1, <1>2 DEF CookieInv, LaterInv, SameFamily
<1>8. UsableInv'
  <2>1. ASSUME NEW b \in Browsers, Rotated(jar[b])'
        PROVE  \/ sessions'[jar'[b]].next \in elsewhere'
               \/ \E r \in Requests : reply'[r] = sessions'[jar'[b]].next /\ caller'[r] = b
    <3>1. CASE b = b0
      BY <2>1, <3>1, <1>0, <1>1, <1>3 DEF Rotated, CookieInv, UsableInv, t
    <3>2. CASE b # b0
      <4>1. Rotated(jar[b]) /\ jar'[b] = jar[b]  BY <2>1, <3>2, <1>1, <1>3 DEF Rotated
      <4>2. \A r \in Requests : caller[r] = b => r # q  BY <3>2 DEF b0
      <4> QED  BY <4>1, <4>2, <1>1, <1>2 DEF CookieInv, UsableInv
    <3> QED  BY <3>1, <3>2
  <2>2. ASSUME NEW r \in Requests, Rotated(reply[r])'
        PROVE  sessions'[reply'[r]].next \in elsewhere'
    <3>1. r # q /\ reply'[r] = reply[r]  BY <2>2, <1>1, <1>2 DEF Rotated
    <3> QED  BY <2>2, <3>1, <1>1 DEF Rotated, CookieInv, UsableInv
  <2> QED  BY <2>1, <2>2 DEF UsableInv
<1> QED  BY <1>4, <1>5, <1>6, <1>7, <1>8 DEF CookieInv

LEMMA LoseStep ==
  ASSUME TypeOK, SessionInv, CookieTypeOK, CookieInv, NEW q \in Requests, Lose(q)
  PROVE  CookieInv'
<1> DEFINE t == reply[q]
<1>0. /\ NoCookie \notin Known /\ NoAnswer \notin Known /\ elsewhere \subseteq Known
      /\ t \in Known \cup {NoCookie} /\ op[q].kind = "none"
  <2>1. t # NoAnswer /\ pc[q] = "idle"  BY DEF Lose, Over, CookieTypeOK
  <2> QED  BY <2>1, NoToken DEF CookieTypeOK, SessionInv, LockInv, CallInv
<1>1. /\ reply' = [reply EXCEPT ![q] = NoAnswer] /\ caller' = [caller EXCEPT ![q] = None]
      /\ elsewhere' = elsewhere \cup ({t} \ {NoCookie})
      /\ UNCHANGED <<jar, sessions, op, Known>>
  BY DEF Lose, Over, vars, Known
<1>2. \A r \in Requests : IF r = q THEN reply'[r] \notin Known
                          ELSE reply'[r] = reply[r] /\ caller'[r] = caller[r]
  BY <1>0, <1>1 DEF CookieTypeOK
<1>3. \A s \in Known : s \in elsewhere' <=> s \in elsewhere \/ s = reply[q]
  BY <1>0, <1>1
<1>4. elsewhere' \subseteq Known  BY <1>0, <1>1
<1> HIDE DEF t
<1>5. PlaceInv'
  <2>1. (\A r, s \in Requests : reply[r] \in Known /\ reply[r] = reply[s] => r = s)'
    BY <1>1, <1>2 DEF CookieInv, PlaceInv
  <2>2. (\A b, c \in Browsers : jar[b] \in Known /\ jar[b] = jar[c] => b = c)'
    BY <1>1 DEF CookieInv, PlaceInv
  <2>3. (\A r \in Requests, b \in Browsers : reply[r] \in Known => jar[b] # reply[r])'
    BY <1>1, <1>2 DEF CookieInv, PlaceInv
  <2>4. (\A r \in Requests : reply[r] \notin elsewhere)'
    BY <1>2, <1>3, <1>4 DEF CookieInv, PlaceInv
  <2>5. (\A b \in Browsers : jar[b] \notin elsewhere)'
    BY <1>1, <1>3, <1>4 DEF CookieInv, PlaceInv
  <2> QED  BY <2>1, <2>2, <2>3, <2>4, <2>5 DEF PlaceInv
<1>6. TokenInv'
  <2> SUFFICES ASSUME NEW r \in Requests, op'[r].kind = "refresh", caller'[r] \in Browsers
               PROVE  /\ op'[r].token \notin elsewhere'
                      /\ \A x \in Requests : reply'[x] # op'[r].token
                      /\ \A b \in Browsers : jar'[b] = op'[r].token => b = caller'[r]
    BY DEF TokenInv
  <2>1. r # q /\ op'[r] = op[r] /\ caller'[r] = caller[r]  BY <1>0, <1>1, <1>2
  <2>2. op[r].token \in Known  BY <2>1 DEF SessionInv, LockInv, CallInv
  <2> QED  BY <2>1, <2>2, <1>0, <1>1, <1>2, <1>3 DEF CookieInv, TokenInv
<1>7. NewestInv'
  BY <1>1 DEF CookieInv, NewestInv, SameFamily
<1>8. LaterInv'
  BY <1>1, <1>2, <1>3 DEF CookieInv, LaterInv, SameFamily
<1>9. UsableInv'
  <2>1. ASSUME NEW b \in Browsers, Rotated(jar[b])'
        PROVE  \/ sessions'[jar'[b]].next \in elsewhere'
               \/ \E r \in Requests : reply'[r] = sessions'[jar'[b]].next /\ caller'[r] = b
    <3>1. Rotated(jar[b]) /\ jar'[b] = jar[b]  BY <2>1, <1>1 DEF Rotated
    <3>2. sessions[jar[b]].next \in Known
      BY <3>1 DEF Rotated, SessionInv, TableInv, FamiliesAreChains
    <3> QED  BY <3>1, <3>2, <1>1, <1>2, <1>3 DEF CookieInv, UsableInv
  <2>2. ASSUME NEW r \in Requests, Rotated(reply[r])'
        PROVE  sessions'[reply'[r]].next \in elsewhere'
    <3>1. r # q /\ reply'[r] = reply[r]  BY <2>2, <1>1, <1>2 DEF Rotated
    <3> QED  BY <2>2, <3>1, <1>1 DEF Rotated, CookieInv, UsableInv
  <2> QED  BY <2>1, <2>2 DEF UsableInv
<1> QED  BY <1>5, <1>6, <1>7, <1>8, <1>9 DEF CookieInv
-----------------------------------------------------------------------------
(* A new token, for the browser that asked or for somebody else.           *)

\* n is in no place before q's answer, and in one place after it.
Given(q, n) ==
  \/ /\ caller[q] \in Browsers
     /\ \A r \in Requests : reply'[r] = IF r = q THEN n ELSE reply[r]
     /\ elsewhere' = elsewhere
  \/ /\ caller[q] \notin Browsers
     /\ \A r \in Requests : reply'[r] = reply[r]
     /\ elsewhere' = elsewhere \cup {n}

LEMMA AnsweredGives ==
  ASSUME CookieTypeOK, NEW q \in Requests, NEW n, n # NoCookie, Answered(q, n)
  PROVE  Given(q, n) /\ UNCHANGED <<jar, caller>>
BY DEF Answered, CookieTypeOK, Given

\* q's call ends, with the new row n.
NewToken(q, n) == /\ NewRow(n) /\ n # NoCookie /\ Given(q, n) /\ UNCHANGED <<jar, caller>>
                  /\ reply[q] = NoAnswer /\ op' = [op EXCEPT ![q] = NoOp]

LEMMA Unplaced ==
  ASSUME TypeOK, CookieTypeOK, NEW n, n \notin Known, n # NoCookie, n \in Nat
  PROVE  /\ \A b \in Browsers : jar[b] # n
         /\ \A r \in Requests : reply[r] # n
         /\ n \notin elsewhere /\ n # NoAnswer
BY DEF CookieTypeOK, NoAnswer

LEMMA NewTokenPlaces ==
  ASSUME TypeOK, SessionInv, CookieTypeOK, CookieInv, NEW q \in Requests, NEW n, NewToken(q, n)
  PROVE  PlaceInv' /\ TokenInv'
<1>0. /\ n \notin Known /\ n \in Nat /\ n # NoCookie /\ Known' = Known \cup {n}
      /\ UNCHANGED <<jar, caller>> /\ reply[q] = NoAnswer
      /\ Given(q, n)
  BY DEF NewToken, NewRow
<1>1. /\ \A b \in Browsers : jar[b] # n
      /\ \A r \in Requests : reply[r] # n
      /\ n \notin elsewhere /\ n # NoAnswer /\ NoAnswer \notin Known
  BY <1>0, Unplaced, NoToken
<1>2. PlaceInv'
  <2>1. (\A r, s \in Requests : reply[r] \in Known /\ reply[r] = reply[s] => r = s)'
    BY <1>0, <1>1 DEF CookieInv, PlaceInv, Given
  <2>2. (\A b, c \in Browsers : jar[b] \in Known /\ jar[b] = jar[c] => b = c)'
    BY <1>0, <1>1 DEF CookieInv, PlaceInv
  <2>3. (\A r \in Requests, b \in Browsers : reply[r] \in Known => jar[b] # reply[r])'
    BY <1>0, <1>1 DEF CookieInv, PlaceInv, Given
  <2>4. (\A r \in Requests : reply[r] \notin elsewhere)'
    BY <1>0, <1>1 DEF CookieInv, PlaceInv, Given
  <2>5. (\A b \in Browsers : jar[b] \notin elsewhere)'
    BY <1>0, <1>1 DEF CookieInv, PlaceInv, Given
  <2> QED  BY <2>1, <2>2, <2>3, <2>4, <2>5 DEF PlaceInv
<1>3. TokenInv'
  <2> SUFFICES ASSUME NEW r \in Requests, op'[r].kind = "refresh", caller'[r] \in Browsers
               PROVE  /\ op'[r].token \notin elsewhere'
                      /\ \A x \in Requests : reply'[x] # op'[r].token
                      /\ \A b \in Browsers : jar'[b] = op'[r].token => b = caller'[r]
    BY DEF TokenInv
  <2>1. r # q /\ op'[r] = op[r]  BY DEF NewToken, TypeOK, NoOp
  <2>2. op[r].token \in Known  BY <2>1 DEF SessionInv, LockInv, CallInv
  <2>3. op[r].token # n  BY <2>2, <1>0
  <2> QED  BY <2>1, <2>3, <1>0 DEF CookieInv, TokenInv, Given
<1> QED  BY <1>2, <1>3

LEMMA LoginStep ==
  ASSUME TypeOK, SessionInv, CookieTypeOK, CookieInv, NEW q \in Requests, NEW n,
         LoginInsert(q), Len(sessions) < MaxSessions, n = Len(sessions'), NewToken(q, n)
  PROVE  CookieInv'
<1>0. /\ n \notin Known /\ n \in Nat /\ n # NoCookie /\ Known' = Known \cup {n}
      /\ \A s \in Known : s \in Nat /\ s < n
      /\ UNCHANGED <<jar, caller>> /\ reply[q] = NoAnswer /\ Given(q, n)
      /\ NoAnswer \notin Known /\ NoCookie \notin Known
  BY NoToken DEF NewToken, NewRow
<1>1. /\ \A s \in Known : sessions'[s] = sessions[s]
      /\ sessions'[n].family = n /\ sessions'[n].state # "rotated"
  <2>1. n = Len(sessions) + 1 /\ \A s \in Known : sessions'[s] = sessions[s]
    BY LoginRows
  <2>2. sessions'[n] = [family |-> Len(sessions) + 1, state |-> Live,
                        version |-> op[q].ver, next |-> 0]
    BY <2>1, LoginRows
  <2>3. sessions'[n].family = n /\ sessions'[n].state # "rotated"
    BY <2>1, <2>2 DEF Live
  <2> QED  BY <2>1, <2>3
<1>2. \A s \in Known : sessions[s].family # n
  <2>1. \A s \in Known : sessions[s].family \in Nat /\ sessions[s].family <= s
    BY Rows DEF SessionInv, TableInv, FamilyInv, Session, Ids
  <2> QED  BY <2>1, <1>0
<1>3. ASSUME NEW s \in Known', NEW t \in Known', SameFamily(s, t)'
      PROVE  \/ s = n /\ t = n
             \/ s \in Known /\ t \in Known /\ SameFamily(s, t)
  <2>1. sessions'[s].family = sessions'[t].family  BY <1>3 DEF SameFamily
  <2>2. CASE s \in Known /\ t \in Known  BY <2>1, <2>2, <1>1 DEF SameFamily
  <2>3. CASE s \in Known /\ t = n  BY <2>1, <2>3, <1>1, <1>2
  <2>4. CASE s = n /\ t \in Known  BY <2>1, <2>4, <1>1, <1>2
  <2>5. s \in Known \cup {n} /\ t \in Known \cup {n}  BY <1>0, <1>3
  <2> QED  BY <2>2, <2>3, <2>4, <2>5
<1>4. NewestInv'
  BY <1>0, <1>1, <1>3 DEF CookieInv, NewestInv
<1>5. LaterInv'
  BY <1>0, <1>3 DEF CookieInv, LaterInv, Given
<1>6. UsableInv'
  <2>1. \A s : Rotated(s)' => Rotated(s) /\ sessions'[s].next = sessions[s].next
    BY <1>0, <1>1 DEF Rotated
  <2>2. \A s : Rotated(s) => sessions[s].next \in Known
    BY DEF Rotated, SessionInv, TableInv, FamiliesAreChains
  <2>3. \A r \in Requests : reply[r] \in Known => reply'[r] = reply[r]
    BY <1>0 DEF Given
  <2>4. ASSUME NEW b \in Browsers, Rotated(jar[b])'
        PROVE  \/ sessions'[jar'[b]].next \in elsewhere'
               \/ \E r \in Requests : reply'[r] = sessions'[jar'[b]].next /\ caller'[r] = b
    <3>1. Rotated(jar[b]) /\ sessions'[jar'[b]].next = sessions[jar[b]].next
      BY <2>1, <2>4, <1>0 DEF Rotated
    <3>2. sessions[jar[b]].next \in Known  BY <2>2, <3>1
    <3> QED  BY <3>1, <3>2, <2>3, <1>0 DEF CookieInv, UsableInv, Given
  <2>5. ASSUME NEW r \in Requests, Rotated(reply[r])'
        PROVE  sessions'[reply'[r]].next \in elsewhere'
    <3>1. Rotated(reply'[r]) /\ sessions'[reply'[r]].next = sessions[reply'[r]].next
      BY <2>1, <2>5 DEF Rotated
    <3>2. reply'[r] = reply[r]  BY <3>1, <1>0 DEF Rotated, Given
    <3> QED  BY <3>1, <3>2, <1>0 DEF CookieInv, UsableInv, Given
  <2> QED  BY <2>4, <2>5 DEF UsableInv
<1> QED  BY <1>4, <1>5, <1>6, NewTokenPlaces DEF CookieInv

LEMMA RotateStep ==
  ASSUME TypeOK, SessionInv, CookieTypeOK, CookieInv, NEW q \in Requests, NEW n,
         Rotate(q), Len(sessions) < MaxSessions, n = Len(sessions'), NewToken(q, n)
  PROVE  CookieInv'
<1> DEFINE p == op[q].token
<1>0. /\ n \notin Known /\ n \in Nat /\ n # NoCookie /\ Known' = Known \cup {n}
      /\ \A s \in Known : s \in Nat /\ s < n
      /\ UNCHANGED <<jar, caller>> /\ reply[q] = NoAnswer /\ Given(q, n)
      /\ NoAnswer \notin Known /\ NoCookie \notin Known
  BY NoToken DEF NewToken, NewRow
<1>1. p \in Known /\ sessions[p].state # "rotated"  BY RotatedRow DEF Live
<1>2. caller[q] \in Browsers => /\ p \notin elsewhere
                                /\ \A r \in Requests : reply[r] # p
                                /\ \A b \in Browsers : jar[b] = p => b = caller[q]
  BY DEF Rotate, Deciding, CookieInv, TokenInv
<1>3. /\ \A s \in Known \ {p} : sessions'[s] = sessions[s]
      /\ sessions'[p].family = sessions[p].family /\ sessions'[p].state = "rotated"
      /\ sessions'[p].next = n
      /\ sessions'[n].family = sessions[p].family /\ sessions'[n].state # "rotated"
  <2>1. n = Len(sessions) + 1  BY RotateRows
  <2>2. sessions'[p] = [family |-> sessions[p].family, version |-> sessions[p].version,
                        state |-> "rotated", next |-> Len(sessions) + 1]
    BY RotateRows
  <2>3. sessions'[n] = [family |-> sessions[p].family, state |-> Live,
                        version |-> op[q].ver, next |-> 0]
    BY <2>1, RotateRows
  <2> QED  BY <2>1, <2>2, <2>3, RotateRows DEF Live
<1> HIDE DEF p
<1>4. \A s \in Known : SameFamily(p, s) => s <= p
  BY <1>1 DEF CookieInv, NewestInv
<1>5. \A s, t \in Known' : SameFamily(s, t)' =>
        /\ s = n /\ t \in Known => SameFamily(p, t)
        /\ s \in Known /\ t = n => SameFamily(p, s)
        /\ s \in Known /\ t \in Known => SameFamily(s, t)
  BY <1>0, <1>1, <1>3 DEF SameFamily
<1>6. NewestInv'
  <2> SUFFICES ASSUME NEW s \in Known', NEW t \in Known',
                      sessions'[s].state # "rotated", SameFamily(s, t)'
               PROVE  t <= s
    BY DEF NewestInv
  <2>1. CASE s = n  BY <2>1, <1>0
  <2>2. CASE s \in Known /\ t \in Known
    <3>1. sessions[s].state # "rotated"  BY <2>2, <1>1, <1>3
    <3> QED  BY <2>2, <3>1, <1>5 DEF CookieInv, NewestInv
  <2>3. CASE s \in Known /\ t = n
    <3>1. s # p /\ sessions[s].state # "rotated"  BY <2>3, <1>3
    <3>2. SameFamily(p, s) /\ SameFamily(s, p)  BY <2>3, <1>5 DEF SameFamily
    <3>3. p <= s /\ s <= p  BY <2>3, <3>1, <3>2, <1>1, <1>4 DEF CookieInv, NewestInv
    <3> QED  BY <2>3, <3>1, <3>3, <1>0, <1>1
  <2> QED  BY <2>1, <2>2, <2>3, <1>0
<1>7. LaterInv'
  <2> SUFFICES ASSUME NEW s \in Known', NEW t \in Known', SameFamily(s, t)', t > s,
                      s \in elsewhere' \/ \E r \in Requests : reply'[r] = s
               PROVE  t \in elsewhere'
    BY DEF LaterInv
  <2>1. s \in Known  BY <1>0
  <2>2. s \in elsewhere \/ \E r \in Requests : reply[r] = s
    BY <2>1, <1>0 DEF Given
  <2>3. CASE t \in Known
    BY <2>1, <2>2, <2>3, <1>0, <1>5 DEF CookieInv, LaterInv, Given
  <2>4. CASE t = n /\ caller[q] \notin Browsers
    BY <2>4, <1>0 DEF Given
  <2>5. CASE t = n /\ caller[q] \in Browsers
    <3>1. SameFamily(s, p) /\ s <= p /\ s # p
      BY <2>1, <2>2, <2>5, <1>2, <1>4, <1>5 DEF SameFamily
    <3>2. p > s  BY <3>1, <2>1, <1>0, <1>1
    <3>3. p \in elsewhere  BY <2>1, <2>2, <3>1, <3>2, <1>1 DEF CookieInv, LaterInv
    <3> QED  BY <2>5, <3>3, <1>2
  <2> QED  BY <2>3, <2>4, <2>5, <1>0
<1>8. UsableInv'
  <2>1. ASSUME NEW s, Rotated(s)', s # p
        PROVE  Rotated(s) /\ sessions'[s].next = sessions[s].next
    <3>1. s \in Known' /\ sessions'[s].state = "rotated"  BY <2>1 DEF Rotated
    <3>2. s \in Known \ {p}  BY <3>1, <2>1, <1>0, <1>3
    <3> QED  BY <3>1, <3>2, <1>3 DEF Rotated
  <2>2. \A s : Rotated(s) => sessions[s].next \in Known
    BY DEF Rotated, SessionInv, TableInv, FamiliesAreChains
  <2>3. \A r \in Requests : reply[r] \in Known => reply'[r] = reply[r]
    BY <1>0 DEF Given
  <2>4. ASSUME NEW b \in Browsers, Rotated(jar[b])'
        PROVE  \/ sessions'[jar'[b]].next \in elsewhere'
               \/ \E r \in Requests : reply'[r] = sessions'[jar'[b]].next /\ caller'[r] = b
    <3>1. CASE jar[b] = p
      BY <3>1, <1>0, <1>2, <1>3 DEF Given
    <3>2. CASE jar[b] # p
      <4>1. Rotated(jar[b]) /\ sessions'[jar'[b]].next = sessions[jar[b]].next
        BY <2>1, <2>4, <3>2, <1>0 DEF Rotated
      <4>2. sessions[jar[b]].next \in Known  BY <2>2, <4>1
      <4> QED  BY <4>1, <4>2, <2>3, <1>0 DEF CookieInv, UsableInv, Given
    <3> QED  BY <3>1, <3>2
  <2>5. ASSUME NEW r \in Requests, Rotated(reply[r])'
        PROVE  sessions'[reply'[r]].next \in elsewhere'
    <3>1. reply'[r] = reply[r]  BY <2>5, <1>0, <1>3 DEF Rotated, Given
    <3>2. CASE reply[r] = p  BY <3>1, <3>2, <1>0, <1>2, <1>3 DEF Given
    <3>3. CASE reply[r] # p
      <4>1. Rotated(reply[r]) /\ sessions'[reply'[r]].next = sessions[reply[r]].next
        BY <2>1, <2>5, <3>1, <3>3 DEF Rotated
      <4> QED  BY <4>1, <1>0 DEF CookieInv, UsableInv, Given
    <3> QED  BY <3>2, <3>3
  <2> QED  BY <2>4, <2>5 DEF UsableInv
<1> QED  BY <1>6, <1>7, <1>8, NewTokenPlaces DEF CookieInv
-----------------------------------------------------------------------------
(* The steps, one by one.                                                  *)

\* What a step of q must give for its variables to keep their types.
TypedStep(q) ==
  /\ OthersStay(q)
  /\ jar' \in [Browsers -> Known' \cup {NoCookie}]
  /\ caller' \in [Requests -> Browsers \cup {None}]
  /\ reply' \in [Requests -> Known' \cup {NoCookie, NoAnswer}]
  /\ elsewhere' \in SUBSET Known'
  /\ reply'[q] # NoAnswer => caller'[q] \in Browsers /\ pc'[q] = "idle"

LEMMA StepKeepsTypes ==
  ASSUME TypeOK', CookieTypeOK, NEW q \in Requests, TypedStep(q)
  PROVE  CookieTypeOK'
BY DEF CookieTypeOK, TypedStep, OthersStay

\* A step that moves no token, with what QuietStep and its types ask.
Quiet(q) == /\ reply[q] = NoAnswer /\ reply'[q] \in {NoCookie, NoAnswer}
            /\ UNCHANGED <<jar, elsewhere>>
            /\ KeepsChains /\ OwnToken(q) /\ TypedStep(q)

\* Nothing is under way to the browser of a call that has not ended.
LEMMA NotAnswered ==
  ASSUME CookieTypeOK, NEW q \in Requests, pc[q] # "idle"
  PROVE  reply[q] = NoAnswer
BY DEF CookieTypeOK

LEMMA WorkIsQuiet ==
  ASSUME TypeOK, SessionInv, CookieTypeOK, NEW q \in Requests, Work(q)
  PROVE  Quiet(q)
<1>1. UNCHANGED <<jar, caller, reply, elsewhere, sessions>> /\ pc[q] # "idle"
  BY DEF Work, cookieVars, LockUser, LockRow, LockLive, Revoking, Deciding, dbVars
<1>2. KeepsChains /\ reply[q] = NoAnswer  BY <1>1, SameTables, NotAnswered
<1>3. /\ op'[q].kind = op[q].kind /\ op'[q].token = op[q].token
      /\ \A r \in Requests \ {q} : op'[r] = op[r] /\ pc'[r] = pc[r]
  <2>1. op[q] \in Op  BY DEF TypeOK
  <2>2. CASE LockUser(q)  BY <2>1, <2>2 DEF LockUser, TypeOK, Op
  <2>3. CASE LockRow(q)  BY <2>1, <2>3 DEF LockRow, TypeOK, Op
  <2>4. CASE LockLive(q)  BY <2>4 DEF LockLive
  <2> QED  BY <2>2, <2>3, <2>4 DEF Work
<1>4. TypedStep(q)
  BY <1>1, <1>2, <1>3 DEF TypedStep, OthersStay, CookieTypeOK, KeepsChains
<1> QED  BY <1>1, <1>2, <1>3, <1>4 DEF Quiet, OwnToken

LEMMA CallIsQuiet ==
  ASSUME TypeOK, SessionInv, CookieTypeOK, NEW q \in Requests,
         NEW c \in Browsers \cup {None}, Call(q, c)
  PROVE  Quiet(q)
<1>1. /\ reply[q] = NoAnswer /\ caller' = [caller EXCEPT ![q] = c]
      /\ UNCHANGED <<jar, elsewhere, reply>>
  BY DEF Call, CallLogin, CallLogoutAll, CallRefresh, CallLogout, From, Unanswered
<1>2. \E kind, s, v, to : /\ Begin(q, kind, s, v, to)
                          /\ kind = "refresh" => s \in Known /\ Presents(c, s)
  BY DEF Call, CallLogin, CallLogoutAll, CallRefresh, CallLogout, LoginRead,
         LogoutAllBegin, RefreshBegin, LogoutBegin
<1>3. PICK kind, s, v, to : /\ Begin(q, kind, s, v, to)
                            /\ kind = "refresh" => s \in Known /\ Presents(c, s)
  BY <1>2
<1>4. /\ UNCHANGED sessions
      /\ op'[q].kind = kind /\ op'[q].token = s
      /\ \A r \in Requests \ {q} : op'[r] = op[r] /\ pc'[r] = pc[r]
  BY <1>3 DEF Begin, dbVars, NoOp, TypeOK
<1>5. KeepsChains  BY <1>4, SameTables
<1>6. caller'[q] = c /\ \A r \in Requests \ {q} : caller'[r] = caller[r]
  BY <1>1 DEF CookieTypeOK
<1>7. OwnToken(q)  BY <1>3, <1>4, <1>6 DEF OwnToken, Presents
<1>8. TypedStep(q)
  BY <1>1, <1>4, <1>5, <1>6 DEF TypedStep, OthersStay, CookieTypeOK, KeepsChains
<1> QED  BY <1>1, <1>5, <1>7, <1>8 DEF Quiet

LEMMA ClearAtOnceIsQuiet ==
  ASSUME TypeOK, SessionInv, CookieTypeOK, NEW q \in Requests, NEW b \in Browsers,
         ClearAtOnce(q, b)
  PROVE  Quiet(q)
<1>1. /\ reply[q] = NoAnswer /\ pc[q] = "idle"
      /\ caller' = [caller EXCEPT ![q] = b] /\ reply' = [reply EXCEPT ![q] = NoCookie]
      /\ UNCHANGED <<jar, elsewhere, sessions, op, pc>>
  BY DEF ClearAtOnce, From, vars, dbVars
<1>2. KeepsChains /\ Known' = Known  BY <1>1, SameTables DEF Known
<1>3. op[q].kind = "none"  BY <1>1 DEF SessionInv, LockInv, CallInv
<1>4. TypedStep(q)  BY <1>1, <1>2 DEF TypedStep, OthersStay, CookieTypeOK
<1> QED  BY <1>1, <1>2, <1>3, <1>4 DEF Quiet, OwnToken, CookieTypeOK

\* q's call ends.
LEMMA ReturnOp ==
  ASSUME TypeOK, NEW q \in Requests, Return(q)
  PROVE  /\ op' = [op EXCEPT ![q] = NoOp] /\ op'[q].kind = "none" /\ pc'[q] = "idle"
         /\ \A r \in Requests \ {q} : op'[r] = op[r] /\ pc'[r] = pc[r]
BY DEF Return, TypeOK, NoOp

LEMMA AnswerClearIsQuiet ==
  ASSUME TypeOK, SessionInv, CookieTypeOK, NEW q \in Requests, AnswerClear(q)
  PROVE  Quiet(q)
<1>1. Return(q) /\ pc[q] # "idle"
  BY DEF AnswerClear, RefreshReused, RefreshStale, Logout, LogoutAll, Rollback, Deciding
<1>2. KeepsChains
  <2>1. CASE Logout(q) \/ LogoutAll(q)  BY <2>1, LogoutKeepsChains
  <2>2. CASE RefreshReused(q) \/ RefreshStale(q)
    BY <2>2, SameTables DEF RefreshReused, RefreshStale, Rollback, dbVars
  <2> QED  BY <2>1, <2>2 DEF AnswerClear
<1>3. reply[q] = NoAnswer  BY <1>1, NotAnswered
<1>4. /\ UNCHANGED <<jar, caller, elsewhere>>
      /\ \/ reply' = reply
         \/ reply' = [reply EXCEPT ![q] = NoCookie] /\ caller[q] \in Browsers
  BY DEF AnswerClear, Answered
<1>5. TypedStep(q)
  BY <1>1, <1>2, <1>3, <1>4, ReturnOp DEF TypedStep, OthersStay, CookieTypeOK, KeepsChains
<1> QED  BY <1>1, <1>2, <1>3, <1>4, <1>5, ReturnOp DEF Quiet, OwnToken, CookieTypeOK

LEMMA AnswerErrorIsQuiet ==
  ASSUME TypeOK, SessionInv, CookieTypeOK, NEW q \in Requests, AnswerError(q)
  PROVE  Quiet(q)
<1>1. /\ Return(q) /\ pc[q] # "idle" /\ UNCHANGED <<sessions, jar, reply, elsewhere>>
      /\ caller' = [caller EXCEPT ![q] = None]
  BY DEF AnswerError, AnsweredOnly, Abort, Rollback, dbVars
<1>2. KeepsChains /\ reply[q] = NoAnswer  BY <1>1, SameTables, NotAnswered
<1>3. TypedStep(q)
  BY <1>1, <1>2, ReturnOp DEF TypedStep, OthersStay, CookieTypeOK, KeepsChains
<1> QED  BY <1>1, <1>2, <1>3, ReturnOp DEF Quiet, OwnToken

LEMMA AnswerSetGives ==
  ASSUME TypeOK, SessionInv, CookieTypeOK, NEW q \in Requests, AnswerSet(q)
  PROVE  /\ NewToken(q, Len(sessions')) /\ TypedStep(q) /\ Len(sessions) < MaxSessions
         /\ LoginInsert(q) \/ Rotate(q)
<1> DEFINE n == Len(sessions')
<1>1. LoginInsert(q) \/ Rotate(q)  BY DEF AnswerSet
<1>2. Return(q) /\ pc[q] # "idle"  BY <1>1 DEF LoginInsert, Rotate, Deciding
<1>3. Len(sessions) < MaxSessions
  <2>1. op[q].kind \in {"login", "refresh"}
    BY <1>1 DEF LoginInsert, Rotate, Deciding, SessionInv, LockInv, CallInv
  <2> QED  BY <2>1, RoomLeft
<1>4. sessions' \in Seq(Session) /\ n = Len(sessions) + 1
  <2>1. CASE LoginInsert(q)  BY <2>1, <1>3, LoginRows
  <2>2. CASE Rotate(q)  BY <2>2, <1>3, RotateRows
  <2> QED  BY <1>1, <2>1, <2>2
<1>5. NewRow(n) /\ n # NoCookie  BY <1>4, InsertIsNewRow
<1>6. Answered(q, n)  BY DEF AnswerSet
<1> HIDE DEF n
<1>7. Given(q, n) /\ UNCHANGED <<jar, caller>>  BY <1>5, <1>6, AnsweredGives
<1>8. reply[q] = NoAnswer  BY <1>2, NotAnswered
<1>9. NewToken(q, n)  BY <1>2, <1>5, <1>7, <1>8, ReturnOp DEF NewToken
<1>10. TypedStep(q)
  <2>1. Known \subseteq Known' /\ n \in Known'  BY <1>5 DEF NewRow
  <2>2. /\ \/ reply' = [reply EXCEPT ![q] = n] /\ caller[q] \in Browsers
           \/ reply' = reply
        /\ elsewhere' \in {elsewhere, elsewhere \cup {n}}
    BY <1>5, <1>6 DEF Answered
  <2> QED  BY <1>2, <1>7, <1>8, <2>1, <2>2, ReturnOp DEF TypedStep, OthersStay, CookieTypeOK
<1> QED  BY <1>1, <1>3, <1>9, <1>10 DEF n

LEMMA OverIsTyped ==
  ASSUME TypeOK, CookieTypeOK, NEW q \in Requests, Deliver(q) \/ Lose(q)
  PROVE  TypedStep(q)
<1>1. /\ reply[q] \in Known \cup {NoCookie} /\ caller[q] \in Browsers
      /\ reply' = [reply EXCEPT ![q] = NoAnswer] /\ caller' = [caller EXCEPT ![q] = None]
      /\ UNCHANGED <<sessions, op, pc>> /\ Known' = Known
  BY DEF Deliver, Lose, Over, CookieTypeOK, vars, dbVars, Known
<1>2. jar' \in [Browsers -> Known \cup {NoCookie}] /\ elsewhere' \in SUBSET Known
  BY <1>1 DEF Deliver, Lose, CookieTypeOK
<1> QED  BY <1>1, <1>2 DEF TypedStep, OthersStay, CookieTypeOK
-----------------------------------------------------------------------------
(* The invariant.                                                          *)

LEMMA QuietKeeps ==
  ASSUME TypeOK, SessionInv, CookieTypeOK, CookieInv, TypeOK', NEW q \in Requests, Quiet(q)
  PROVE  CookieTypeOK' /\ CookieInv'
<1>1. CookieTypeOK'  BY StepKeepsTypes DEF Quiet
<1>2. OthersStay(q)  BY DEF Quiet, TypedStep
<1>3. CookieInv'  BY <1>2, QuietStep DEF Quiet
<1> QED  BY <1>1, <1>3

LEMMA CookieInitInv == CookieInit => IInv
<1> SUFFICES ASSUME CookieInit PROVE IInv  OBVIOUS
<1>1. TypeOK /\ SessionInv /\ Known = {} /\ \A q \in Requests : op[q].kind = "none"
  BY SessionInit DEF CookieInit, Init, Known, NoOp
<1>2. CookieTypeOK  BY <1>1 DEF CookieInit, CookieTypeOK
<1>3. CookieInv
  BY <1>1 DEF CookieInit, CookieInv, PlaceInv, TokenInv, NewestInv, LaterInv, UsableInv,
              Rotated, NoCookie, NoAnswer
<1> QED  BY <1>1, <1>2, <1>3 DEF IInv

LEMMA CookieNextInv ==
  ASSUME IInv, [CookieNext]_allVars
  PROVE  IInv'
<1>0. TypeOK /\ SessionInv /\ CookieTypeOK /\ CookieInv  BY DEF IInv
<1>1. TypeOK' /\ SessionInv'  BY <1>0, CookieStepIsStep, SessionNext
<1>2. CASE UNCHANGED allVars
  <2>1. UNCHANGED <<version, sessions, access, userLock, rowLock, pc, op>>
        /\ UNCHANGED <<jar, caller, reply, elsewhere>>
    BY <1>2 DEF allVars, vars, dbVars, cookieVars
  <2>2. CookieTypeOK'  BY <1>0, <1>1, <2>1 DEF CookieTypeOK, Known
  <2>3. CookieInv'
    BY <1>0, <2>1 DEF CookieInv, PlaceInv, TokenInv, NewestInv, LaterInv, UsableInv, Rotated,
                      SameFamily, Known
  <2> QED  BY <1>1, <2>2, <2>3 DEF IInv
<1>3. ASSUME NEW q \in Requests, Work(q) \/ AnswerClear(q) \/ AnswerError(q) PROVE IInv'
  <2>1. Quiet(q)  BY <1>0, <1>3, WorkIsQuiet, AnswerClearIsQuiet, AnswerErrorIsQuiet
  <2> QED  BY <1>0, <1>1, <2>1, QuietKeeps DEF IInv
<1>4. ASSUME NEW q \in Requests, NEW c \in Browsers \cup {None}, Call(q, c) PROVE IInv'
  BY <1>0, <1>1, <1>4, CallIsQuiet, QuietKeeps DEF IInv
<1>5. ASSUME NEW q \in Requests, NEW b \in Browsers, CookieMissing(q, b) \/ TokenRefused(q, b)
      PROVE  IInv'
  BY <1>0, <1>1, <1>5, ClearAtOnceIsQuiet, QuietKeeps DEF IInv, CookieMissing, TokenRefused
<1>6. ASSUME NEW q \in Requests, AnswerSet(q) PROVE IInv'
  <2> DEFINE n == Len(sessions')
  <2>1. /\ NewToken(q, n) /\ TypedStep(q) /\ Len(sessions) < MaxSessions
        /\ LoginInsert(q) \/ Rotate(q)
    BY <1>0, <1>6, AnswerSetGives
  <2>2. CookieTypeOK'  BY <1>0, <1>1, <2>1, StepKeepsTypes
  <2>3. CookieInv'  BY <1>0, <2>1, LoginStep, RotateStep
  <2> QED  BY <1>1, <2>2, <2>3 DEF IInv
<1>7. ASSUME NEW q \in Requests, Deliver(q) \/ Lose(q) PROVE IInv'
  <2>1. CookieTypeOK'  BY <1>0, <1>1, <1>7, OverIsTyped, StepKeepsTypes
  <2>2. CookieInv'  BY <1>0, <1>7, DeliverStep, LoseStep
  <2> QED  BY <1>1, <2>1, <2>2 DEF IInv
<1> QED  BY <1>2, <1>3, <1>4, <1>5, <1>6, <1>7 DEF CookieNext

LEMMA CookieInvariant == CookieSpec => []IInv
BY CookieInitInv, CookieNextInv, PTL DEF CookieSpec

-----------------------------------------------------------------------------
(* Theorems.                                                               *)

\* Tables, cookies and answers keep their types, and an answer under way is a
\* browser's, of a request that holds nothing any more.
THEOREM CookieTypeCorrect == CookieSpec => []CookieTypeOK
<1>1. IInv => CookieTypeOK  BY DEF IInv
<1> QED  BY <1>1, CookieInvariant, PTL

\* A cookie holds a used-up token only while, or because, its successor did
\* not get there: whatever the number of tabs that refresh at the same time.
THEOREM CookiesAreUsable == CookieSpec => []CookieIsUsable
<1>1. IInv => CookieIsUsable
  BY NoToken DEF IInv, CookieIsUsable, CookieInv, UsableInv, Rotated, CookieTypeOK
<1> QED  BY <1>1, CookieInvariant, PTL

\* Answers may overtake each other: no cookie returns to an older session of
\* its family.  Had a newer token reached the browser before an older one that
\* is still under way, LaterInv would have it elsewhere, and PlaceInv forbids it.
THEOREM CookiesNeverGoBack == CookieSpec => CookieNeverGoesBack
<1>1. ASSUME IInv, [CookieNext]_allVars, NEW b \in Browsers,
             jar[b] # NoCookie, jar'[b] # NoCookie,
             sessions[jar[b]].family = sessions'[jar'[b]].family
      PROVE  jar'[b] >= jar[b]
  <2>0. /\ jar[b] \in Known /\ jar \in [Browsers -> Known \cup {NoCookie}]
        /\ \A s \in Known : s \in Nat
    BY <1>1, Rows DEF IInv, CookieTypeOK
  <2>1. CASE jar'[b] = jar[b]  BY <2>0, <2>1
  <2>2. ASSUME NEW q \in Requests, Deliver(q), jar'[b] # jar[b]
        PROVE  jar'[b] >= jar[b]
    <3>1. /\ UNCHANGED sessions
          /\ reply[q] # NoAnswer /\ jar' = [jar EXCEPT ![caller[q]] = reply[q]]
      BY <2>2 DEF Deliver, Over, vars, dbVars
    <3>2. jar'[b] = reply[q] /\ reply[q] \in Known
      BY <1>1, <2>0, <2>2, <3>1 DEF IInv, CookieTypeOK
    <3>3. SameFamily(reply[q], jar[b])  BY <1>1, <3>1, <3>2 DEF SameFamily
    <3>4. ~(jar[b] > reply[q])
      BY <1>1, <2>0, <3>2, <3>3 DEF IInv, CookieInv, LaterInv, PlaceInv
    <3> QED  BY <2>0, <3>2, <3>4
  <2>3. (\E q \in Requests : Deliver(q)) \/ UNCHANGED jar
    BY <1>1 DEF CookieNext, Work, AnswerSet, AnswerClear, AnswerError, Answered, AnsweredOnly,
                Lose, Call, CallLogin, CallLogoutAll, CallRefresh, CallLogout, CookieMissing,
                TokenRefused, ClearAtOnce, From, allVars, cookieVars
  <2> QED  BY <2>1, <2>2, <2>3
<1>2. IInv /\ [CookieNext]_allVars =>
        [\A b \in Browsers : StaysOrGoesOn(b)]_allVars
  BY <1>1 DEF StaysOrGoesOn
<1> QED  BY <1>2, CookieInvariant, PTL DEF CookieSpec, CookieNeverGoesBack
=============================================================================
